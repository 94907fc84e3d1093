------------------------ MODULE DroneManager_proofs ------------------------
(***************************************************************************)
(* Proofs about DroneManager: its inductive invariant, and what follows    *)
(* from it for every number of jobs, limit and number of restarts.         *)
(***************************************************************************)
EXTENDS DroneManager, TLAPS

\* The tasks of the jobs are different tasks.
LEMMA TaskFacts ==
  /\ \A j \in Jobs : /\ Autoserv(j) \in Tasks /\ Parse(j) \in Tasks
                     /\ Autoserv(j)[1] = j /\ Parse(j)[1] = j
                     /\ Autoserv(j)[2] = "autoserv" /\ Parse(j)[2] = "parse"
  /\ \A j, k \in Jobs : /\ Autoserv(j) # Parse(k)
                        /\ Autoserv(j) = Autoserv(k) => j = k
                        /\ Parse(j) = Parse(k) => j = k
  /\ \A t \in Tasks : t[1] \in Jobs
BY DEF Autoserv, Parse, Tasks

\* A process is one of a task and a life.
LEMMA ProcFacts ==
  /\ \A t \in Tasks, l \in Lives : /\ <<t, l>> \in Procs
                                   /\ <<t, l>>[1] = t /\ <<t, l>>[2] = l
  /\ \A p \in Procs : p[1] \in Tasks /\ p[2] \in Lives /\ p = <<p[1], p[2]>>
BY DEF Procs

\* Lives are numbered.
LEMMA LifeFacts ==
  /\ \A l \in Lives : l \in Int /\ l >= 0 /\ l <= MaxStarts
  /\ \A l \in Int : 0 <= l /\ l <= MaxStarts => l \in Lives
  /\ None \notin Lives /\ None \notin 0..(MaxPidfileRefreshes + 1)
  /\ MaxPidfileRefreshes \in Nat /\ MaxStarts \in Nat /\ MaxParse \in Nat
BY DroneAssumption DEF Lives

LEMMA ContentsFacts ==
  /\ NoFile \in Contents /\ Unseen \in [Tasks -> Contents]
  /\ NoFile.pid = None /\ NoFile.code = None
  /\ \A t \in Tasks : Unseen[t] = NoFile
  /\ \A l \in Lives : [pid |-> l, code |-> None] \in Contents
  /\ \A c \in Contents, e \in Exit : /\ [c EXCEPT !.code = e] \in Contents
                                     /\ [c EXCEPT !.code = e].code = e
                                     /\ [c EXCEPT !.code = e].pid = c.pid
  /\ \A c \in Contents : c.pid \in Lives \cup {None} /\ c.code \in Exit \cup {None}
BY DEF NoFile, Unseen, Contents

-----------------------------------------------------------------------------
(* Types.                                                                  *)

LEMMA InitType == Init => TypeOK
<1> SUFFICES ASSUME Init PROVE TypeOK
  OBVIOUS
<1>p. PICK load \in Loads, alive \in SUBSET Jobs :
      /\ alive \subseteq load.left
      /\ status = [j \in Jobs |-> CASE j \in load.run -> "Queued"
                                    [] j \in load.left \ load.run -> "Running"
                                    [] j \in load.parse \ (load.run \cup load.left) -> "Parsing"
                                    [] OTHER -> "Aborted"]
      /\ proc = [p \in Procs |-> IF p[1][2] = "autoserv" /\ p[2] = 0 THEN Left(p[1][1], alive) ELSE "none"]
      /\ life = load.starts
  BY DEF Init
<1>1. life \in Lives
  BY <1>p, DroneAssumption DEF Lives
<1>2. status \in [Jobs -> {"Queued", "Starting", "Running", "Parsing"} \cup Ended]
  BY <1>p DEF Ended
<1>3. proc \in [Procs -> {"none", "died"} \cup Alive \cup Exit]
  BY <1>p DEF Exit, Alive, Left
<1>4. file \in [Tasks -> Contents]
  <2>1. 0 \in Lives
    BY DroneAssumption DEF Lives
  <2>2. [pid |-> 0, code |-> "passed"] \in Contents /\ [pid |-> 0, code |-> None] \in Contents /\ NoFile \in Contents
    BY <2>1 DEF Contents, NoFile, Exit
  <2> HIDE DEF Contents, NoFile
  <2> QED
    BY <2>2 DEF Init
<1>5. /\ aborted \in [Jobs -> BOOLEAN] /\ linked \subseteq Procs /\ todo \subseteq Jobs
      /\ execute \in [Lives -> SUBSET Tasks] /\ kill \in [Lives -> SUBSET Procs]
      /\ agent \in [Jobs -> {"none", "new", "throttled"} \cup Monitors]
      /\ age \in [Tasks -> 0..(MaxPidfileRefreshes + 1) \cup {None}]
  BY DEF Init
<1>6. /\ refresh = "none" /\ phase = "down" /\ running \in Int
      /\ scan \subseteq Procs /\ first = Unseen /\ second = Unseen /\ calls \subseteq Tasks /\ kills \subseteq Procs
  BY DEF Init
<1> QED
  BY <1>1, <1>2, <1>3, <1>4, <1>5, <1>6, ContentsFacts DEF TypeOK

LEMMA ReadType == TypeOK => ReadPidfiles \in [Tasks -> Contents]
BY ContentsFacts DEF TypeOK, ReadPidfiles

Ages == [Tasks -> 0..(MaxPidfileRefreshes + 1) \cup {None}]

LEMMA AgeTypes ==
  ASSUME TypeOK
  PROVE  /\ age \in Ages
         /\ \A T : Register(T) \in Ages /\ Touch(T) \in Ages
         /\ \A j : Forget(j) \in Ages
         /\ \A a \in Ages : StartRefresh(a) => age' \in Ages /\ refresh' = "scan"
<1> USE LifeFacts
<1>1. age \in Ages
  BY DEF TypeOK, Ages
<1>2. \A T : Register(T) \in Ages /\ Touch(T) \in Ages
  BY <1>1 DEF Ages, Register, Touch
<1>3. \A j : Forget(j) \in Ages
  BY <1>1 DEF Ages, Forget
<1>4. ASSUME NEW a \in Ages, StartRefresh(a) PROVE age' \in Ages /\ refresh' = "scan"
  <2>1. \A t \in Tasks : a[t] # None /\ ~(a[t] > MaxPidfileRefreshes) =>
                            a[t] + 1 \in 0..(MaxPidfileRefreshes + 1)
    BY DEF Ages
  <2> QED
    BY <1>4, <2>1 DEF StartRefresh, Ages
<1> QED
  BY <1>1, <1>2, <1>3, <1>4

LEMMA DroneType ==
  ASSUME TypeOK, Drone
  PROVE  TypeOK'
<1> USE ProcFacts, ContentsFacts DEF TypeOK, dbVars, droneVars, viewVars, memoryVars
<1>1. ASSUME NEW p \in Procs, WritePid(p) PROVE TypeOK'
  BY <1>1 DEF WritePid, Alive
<1>2. ASSUME NEW p \in Procs, Finish(p) PROVE TypeOK'
  BY <1>2 DEF Finish
<1>3. ASSUME NEW p \in Procs, Die(p) PROVE TypeOK'
  BY <1>3 DEF Die
<1>4. ASSUME NEW l \in Lives, Kill(l) PROVE TypeOK'
  <2> PICK graceful \in SUBSET {p \in kill[l] : proc[p] = "logged"} :
          /\ proc' = [p \in Procs |-> CASE p \in graceful -> "failed"
                                        [] p \in kill[l] \ graceful /\ proc[p] \in Alive -> "died"
                                        [] OTHER -> proc[p]]
          /\ file' = [t \in Tasks |-> IF \E p \in graceful \cap linked : p[1] = t
                                      THEN [file[t] EXCEPT !.code = "failed"] ELSE file[t]]
    BY <1>4 DEF Kill
  <2>1. proc' \in [Procs -> {"none", "died"} \cup Alive \cup Exit]
    BY DEF Exit
  <2>2. file' \in [Tasks -> Contents]
    BY DEF Exit
  <2> QED
    BY <1>4, <2>1, <2>2 DEF Kill
<1>5. ASSUME NEW l \in Lives, NEW t \in Tasks, Spawn(l, t) PROVE TypeOK'
  BY <1>5 DEF Spawn, Alive
<1>6. CASE Scan
  BY <1>6 DEF Scan
<1>7. CASE FirstRead
  BY <1>7, ReadType DEF FirstRead
<1>8. CASE SecondRead
  BY <1>8, ReadType DEF SecondRead
<1> QED
  BY <1>1, <1>2, <1>3, <1>4, <1>5, <1>6, <1>7, <1>8 DEF Drone

\* The outcomes of a task keep the types.
LEMMA TaskTypes ==
  ASSUME TypeOK, NEW j \in Jobs
  PROVE  /\ \A s \in Ended : End(j, s) =>
               /\ status' \in [Jobs -> {"Queued", "Starting", "Running", "Parsing"} \cup Ended]
               /\ agent' \in [Jobs -> {"none", "new", "throttled"} \cup Monitors]
               /\ age' \in Ages
         /\ FinishAutoserv(j) =>
               /\ status' \in [Jobs -> {"Queued", "Starting", "Running", "Parsing"} \cup Ended]
               /\ agent' \in [Jobs -> {"none", "new", "throttled"} \cup Monitors]
         /\ \A n \in Int : FinishParse(j, n) =>
               /\ status' \in [Jobs -> {"Queued", "Starting", "Running", "Parsing"} \cup Ended]
               /\ agent' \in [Jobs -> {"none", "new", "throttled"} \cup Monitors]
               /\ age' \in Ages
               /\ running' \in Int
<1>1. ASSUME NEW s \in Ended, End(j, s)
      PROVE  /\ status' \in [Jobs -> {"Queued", "Starting", "Running", "Parsing"} \cup Ended]
             /\ agent' \in [Jobs -> {"none", "new", "throttled"} \cup Monitors]
             /\ age' \in Ages
  BY <1>1, AgeTypes DEF TypeOK, End
<1>2. ASSUME FinishAutoserv(j)
      PROVE  /\ status' \in [Jobs -> {"Queued", "Starting", "Running", "Parsing"} \cup Ended]
             /\ agent' \in [Jobs -> {"none", "new", "throttled"} \cup Monitors]
  BY <1>2 DEF TypeOK, FinishAutoserv
<1>3. FinalStatus(j) \in Ended
  BY DEF FinalStatus, Ended
<1>4. ASSUME NEW n \in Int, FinishParse(j, n)
      PROVE  running' \in Int /\ End(j, FinalStatus(j))
  BY <1>4 DEF FinishParse, TypeOK
<1> QED
  BY <1>1, <1>2, <1>3, <1>4

LEMMA HandleType ==
  ASSUME TypeOK, NEW j \in Jobs, Handle(j)
  PROVE  TypeOK'
<1>1. /\ status' \in [Jobs -> {"Queued", "Starting", "Running", "Parsing"} \cup Ended]
      /\ aborted' \in [Jobs -> BOOLEAN]
      /\ agent' \in [Jobs -> {"none", "new", "throttled"} \cup Monitors]
      /\ running' \in Int
      /\ age' \in Ages
      /\ calls' \subseteq Tasks
      /\ kills' \subseteq Procs
  <2> USE TaskFacts, AgeTypes DEF TypeOK, dbVars, memoryVars, Monitors
  <2>1. CASE Postpone(j)
    BY <2>1 DEF Postpone
  <2>2. CASE StartAutoserv(j)
    BY <2>2, TaskTypes DEF StartAutoserv
  <2>3. CASE PollAutoserv(j)
    BY <2>3, TaskTypes DEF PollAutoserv
  <2>4. CASE Throttle(j)
    BY <2>4 DEF Throttle
  <2>5. CASE NoResults(j)
    BY <2>5, TaskTypes DEF NoResults
  <2>6. CASE StartParse(j)
    BY <2>6, TaskTypes DEF StartParse
  <2>7. CASE PollParse(j)
    BY <2>7, TaskTypes DEF PollParse
  <2>8. CASE TimeOut(j)
    <3>1. CASE status[j] = "Parsing"
      <4>1. FinishParse(j, 1) /\ UNCHANGED <<aborted, calls, kills>>
        BY <2>8, <3>1 DEF TimeOut
      <4> QED
        BY <4>1, TaskTypes
    <3>2. CASE status[j] # "Parsing"
      <4>1. /\ FinishAutoserv(j) /\ age' = Touch({Autoserv(j)})
            /\ UNCHANGED <<running, aborted, calls, kills>>
        BY <2>8, <3>2 DEF TimeOut
      <4> QED
        BY <4>1, TaskTypes
    <3> QED
      BY <3>1, <3>2
  <2> QED
    BY <2>1, <2>2, <2>3, <2>4, <2>5, <2>6, <2>7, <2>8 DEF Handle
<1> QED
  BY <1>1 DEF Handle, TypeOK, Ages, droneVars, viewVars

LEMMA DispatcherType ==
  ASSUME TypeOK, CallsInOrder, Dispatcher \/ Crash \/ \E j \in Jobs : RequestAbort(j)
  PROVE  TypeOK'
<1> USE AgeTypes DEF TypeOK, dbVars, droneVars, viewVars, memoryVars
<1>1. CASE BeginTick
  <2>1. age' \in Ages
    BY <1>1 DEF BeginTick
  <2> QED
    BY <1>1, <2>1 DEF BeginTick, Ages
<1>2. CASE SyncRefresh
  BY <1>2 DEF SyncRefresh
<1>3. CASE BeginAgents
  BY <1>3 DEF BeginAgents
<1>4. CASE ExecuteActions
  BY <1>4, ContentsFacts DEF ExecuteActions
<1>5. CASE Restart
  <2>1. age' \in Ages /\ refresh' = "scan"
    BY <1>5 DEF Restart
  <2>2. life' \in Lives
    BY <1>5, LifeFacts DEF Restart, CallsInOrder
  <2> QED
    BY <1>5, <2>1, <2>2 DEF Restart, Ages
<1>6. CASE SyncRecovery
  BY <1>6 DEF SyncRecovery
<1>7. CASE Recovered
  BY <1>7, ContentsFacts DEF Recovered
<1>8. ASSUME NEW j \in Jobs, Abort(j) PROVE TypeOK'
  <2>1. HasProcess(Autoserv(j)) => <<Autoserv(j), first[Autoserv(j)].pid>> \in Procs
    BY TaskFacts, ProcFacts, ContentsFacts DEF HasProcess, Look
  <2>2. /\ status' \in [Jobs -> {"Queued", "Starting", "Running", "Parsing"} \cup Ended]
        /\ agent' \in [Jobs -> {"none", "new", "throttled"} \cup Monitors]
        /\ age' \in Ages
        /\ kills' \subseteq Procs
    <3>1. CASE status[j] = "Parsing" /\ UNCHANGED <<status, agent, age, kills>>
      BY <3>1
    <3>2. CASE End(j, "Aborted") /\ UNCHANGED kills
      BY <3>2, TaskTypes DEF Ended
    <3>3. CASE FinishAutoserv(j) /\ UNCHANGED <<age, kills>>
      BY <3>3, TaskTypes
    <3>4. CASE /\ FinishAutoserv(j) /\ UNCHANGED age
               /\ \E l \in Lives : kills' = kills \cup {<<Autoserv(j), l>>}
      BY <3>4, TaskTypes, TaskFacts, ProcFacts
    <3>5. CASE /\ FinishAutoserv(j) /\ age' = Touch({Autoserv(j)})
               /\ kills' = IF HasProcess(Autoserv(j))
                           THEN kills \cup {<<Autoserv(j), first[Autoserv(j)].pid>>} ELSE kills
      BY <2>1, <3>5, TaskTypes
    <3> QED
      BY <1>8, <3>1, <3>2, <3>3, <3>4, <3>5 DEF Abort
  <2> QED
    BY <1>8, <2>2 DEF Abort, Ages
<1>9. ASSUME NEW j \in Jobs, Recover(j) PROVE TypeOK'
  <2>1. /\ status' \in [Jobs -> {"Queued", "Starting", "Running", "Parsing"} \cup Ended]
        /\ agent' \in [Jobs -> {"none", "new", "throttled"} \cup Monitors]
        /\ running' \in Int
        /\ age' \in Ages
    BY <1>9, TaskTypes DEF Recover, Monitors
  <2> QED
    BY <1>9, <2>1 DEF Recover, Ages
<1>10. CASE Crash
  <2>1. execute' \in [Lives -> SUBSET Tasks] /\ kill' \in [Lives -> SUBSET Procs]
    BY <1>10 DEF Crash
  <2> QED
    BY <1>10, <2>1, ContentsFacts DEF Crash
<1>11. ASSUME NEW j \in Jobs, RequestAbort(j) PROVE TypeOK'
  BY <1>11 DEF RequestAbort
<1>12. ASSUME NEW j \in Jobs, Handle(j) PROVE TypeOK'
  BY <1>12, HandleType
<1> QED
  BY <1>1, <1>2, <1>3, <1>4, <1>5, <1>6, <1>7, <1>8, <1>9, <1>10, <1>11, <1>12 DEF Dispatcher

-----------------------------------------------------------------------------
(* The processes.                                                          *)

\* A process that has written its pid has done so for good, and an exit status
\* stands; what is alive was alive or has been spawned.
Onward ==
  \A p \in Procs :
     /\ proc[p] \notin {"none", "starting"} => proc'[p] \notin {"none", "starting"}
     /\ proc[p] \in {"died"} \cup Exit => proc'[p] = proc[p]

LEMMA ProcessesOnward ==
  ASSUME TypeOK, CallsInOrder, Next
  PROVE  Onward
<1> USE ProcFacts DEF TypeOK, Onward, Alive, Exit
<1>1. ASSUME NEW p \in Procs, WritePid(p) PROVE Onward
  BY <1>1 DEF WritePid
<1>2. ASSUME NEW p \in Procs, Finish(p) PROVE Onward
  BY <1>2 DEF Finish
<1>3. ASSUME NEW p \in Procs, Die(p) PROVE Onward
  BY <1>3 DEF Die
<1>4. ASSUME NEW l \in Lives, Kill(l) PROVE Onward
  BY <1>4 DEF Kill
<1>5. ASSUME NEW l \in Lives, NEW t \in Tasks, Spawn(l, t) PROVE Onward
  <2>1. proc[<<t, l>>] = "none"
    BY <1>5 DEF Spawn, CallsInOrder
  <2> QED
    BY <1>5, <2>1 DEF Spawn
<1>6. CASE UNCHANGED proc
  BY <1>6
<1>7. Scan \/ FirstRead \/ SecondRead \/ Dispatcher \/ Crash \/ (\E j \in Jobs : RequestAbort(j))
         => UNCHANGED proc
  BY DEF Scan, FirstRead, SecondRead, Dispatcher, Crash, RequestAbort, BeginTick, SyncRefresh,
         BeginAgents, ExecuteActions, Restart, SyncRecovery, Recovered, Abort, Handle, Recover, droneVars
<1> QED
  BY <1>1, <1>2, <1>3, <1>4, <1>5, <1>6, <1>7 DEF Next, Drone

-----------------------------------------------------------------------------
(* What is sent and when.                                                  *)

LEMMA DroneCalls ==
  ASSUME TypeOK, CallsInOrder, Drone
  PROVE  CallsInOrder'
<1> USE ProcFacts, LifeFacts DEF TypeOK, CallsInOrder, dbVars, memoryVars, viewVars, droneVars
<1>1. ASSUME NEW p \in Procs, WritePid(p) PROVE CallsInOrder'
  BY <1>1 DEF WritePid
<1>2. ASSUME NEW p \in Procs, Finish(p) PROVE CallsInOrder'
  BY <1>2 DEF Finish
<1>3. ASSUME NEW p \in Procs, Die(p) PROVE CallsInOrder'
  BY <1>3 DEF Die, Alive
<1>4. ASSUME NEW l \in Lives, Kill(l) PROVE CallsInOrder'
  <2>1. \A p \in Procs : proc[p] = "none" => proc'[p] = "none"
    BY <1>4 DEF Kill, Alive
  <2> QED
    BY <1>4, <2>1 DEF Kill
<1>5. ASSUME NEW l \in Lives, NEW t \in Tasks, Spawn(l, t) PROVE CallsInOrder'
  <2>1. \A q \in Procs : q # <<t, l>> => proc'[q] = proc[q]
    BY <1>5 DEF Spawn
  <2>2. \A m \in Lives : /\ m # l => execute'[m] = execute[m]
                         /\ execute'[l] = execute[l] \ {t}
    BY <1>5 DEF Spawn
  <2>3. l <= life /\ UNCHANGED <<calls, phase, refresh, life>>
    BY <1>5 DEF Spawn
  <2>4. l = life => calls = {}
    BY <1>5 DEF Spawn
  <2>5. \A u \in calls : proc'[<<u, life>>] = "none"
    BY <2>1, <2>4
  <2>6. ASSUME NEW m \in Lives, NEW u \in execute'[m] PROVE proc'[<<u, m>>] = "none"
    <3>1. u \in execute[m] /\ u \in Tasks /\ (m = l => u # t)
      BY <2>2, <2>6
    <3>2. <<u, m>> # <<t, l>> /\ <<u, m>> \in Procs
      BY <3>1
    <3> QED
      BY <2>1, <3>1, <3>2
  <2>7. \A m \in Lives : m > life => execute'[m] = {} /\ \A u \in Tasks : proc'[<<u, m>>] = "none"
    BY <2>1, <2>2, <2>3
  <2>8. execute'[life] # {} => execute[life] # {}
    BY <2>2
  <2>9. phase \in {"restart", "recover"} => \A u \in Tasks : proc'[<<u, life>>] = "none"
    <3>1. l = life => phase \in {"execute", "down"}
      BY <1>5 DEF Spawn
    <3> QED
      BY <2>1, <3>1
  <2> QED
    BY <2>3, <2>5, <2>6, <2>7, <2>8, <2>9
<1>6. CASE Scan
  BY <1>6 DEF Scan
<1>7. CASE FirstRead
  BY <1>7 DEF FirstRead
<1>8. CASE SecondRead
  BY <1>8 DEF SecondRead
<1> QED
  BY <1>1, <1>2, <1>3, <1>4, <1>5, <1>6, <1>7, <1>8 DEF Drone

\* A task that is started has not been started in this life.
LEMMA StartsUnstarted ==
  ASSUME StartedOnce, phase # "down", NEW j \in Jobs
  PROVE  /\ agent[j] = "new" /\ status[j] # "Parsing" => Unstarted(Autoserv(j))
         /\ agent[j] \in {"new", "throttled"} /\ status[j] = "Parsing" => Unstarted(Parse(j))
BY DEF StartedOnce, Once

LEMMA HandleCalls ==
  ASSUME TypeOK, CallsInOrder, StartedOnce, NEW j \in Jobs, Handle(j)
  PROVE  CallsInOrder'
<1>1. phase = "agents" /\ UNCHANGED <<proc, execute, refresh, life, phase>>
  BY DEF Handle, droneVars, viewVars
<1>2. \A t \in calls' : t \in calls \/ Unstarted(t)
  <2> USE <1>1, StartsUnstarted
  <2>1. CASE StartAutoserv(j)
    BY <2>1 DEF StartAutoserv
  <2>2. CASE StartParse(j)
    BY <2>2 DEF StartParse
  <2>3. CASE ~StartAutoserv(j) /\ ~StartParse(j)
    BY <2>3 DEF Handle, Postpone, PollAutoserv, Throttle, NoResults, PollParse, TimeOut, memoryVars
  <2> QED
    BY <2>1, <2>2, <2>3
<1> QED
  BY <1>1, <1>2 DEF CallsInOrder, Unstarted

LEMMA DispatcherCalls ==
  ASSUME TypeOK, CallsInOrder, StartedOnce, Dispatcher \/ Crash \/ \E j \in Jobs : RequestAbort(j)
  PROVE  CallsInOrder'
<1> USE LifeFacts DEF TypeOK, CallsInOrder, dbVars, droneVars, viewVars, memoryVars
<1>1. CASE BeginTick
  BY <1>1 DEF BeginTick, StartRefresh
<1>2. CASE SyncRefresh
  BY <1>2 DEF SyncRefresh
<1>3. CASE BeginAgents
  BY <1>3 DEF BeginAgents
<1>4. CASE ExecuteActions
  BY <1>4 DEF ExecuteActions
<1>5. CASE Restart
  <2>1. life' = life + 1 /\ life' \in Lives /\ life' > life
    BY <1>5 DEF Restart
  <2>2. phase' = "restart" /\ calls = {} /\ UNCHANGED <<proc, execute, calls>>
    BY <1>5 DEF Restart
  <2>3. execute[life'] = {}
    BY <2>1
  <2> QED
    BY <2>1, <2>2, <2>3
<1>6. CASE SyncRecovery
  BY <1>6 DEF SyncRecovery
<1>7. CASE Recovered
  BY <1>7 DEF Recovered
<1>8. ASSUME NEW j \in Jobs, Abort(j) PROVE CallsInOrder'
  BY <1>8 DEF Abort
<1>9. ASSUME NEW j \in Jobs, Recover(j) PROVE CallsInOrder'
  BY <1>9 DEF Recover
<1>10. CASE Crash
  <2>1. \A l \in Lives : execute'[l] \subseteq execute[l]
    BY <1>10 DEF Crash
  <2>2. /\ life < MaxStarts /\ phase' = "down" /\ calls' = {} /\ refresh' = "none"
        /\ UNCHANGED <<proc, life>>
    BY <1>10 DEF Crash
  <2> QED
    BY <2>1, <2>2
<1>11. ASSUME NEW j \in Jobs, RequestAbort(j) PROVE CallsInOrder'
  BY <1>11 DEF RequestAbort
<1>12. ASSUME NEW j \in Jobs, Handle(j) PROVE CallsInOrder'
  BY <1>12, HandleCalls
<1> QED
  BY <1>1, <1>2, <1>3, <1>4, <1>5, <1>6, <1>7, <1>8, <1>9, <1>10, <1>11, <1>12 DEF Dispatcher

-----------------------------------------------------------------------------
(* A dispatcher starts a task at most once.                                *)

\* The drone does not start what it was not told to.
LEMMA DroneUnstarted ==
  ASSUME TypeOK, CallsInOrder, Drone, NEW t \in Tasks, Unstarted(t)
  PROVE  Unstarted(t)'
<1>0. UNCHANGED <<status, agent, phase, life, calls, todo>>
  BY DEF Drone, WritePid, Finish, Die, Kill, Spawn, Scan, FirstRead, SecondRead, dbVars, memoryVars
<1> USE <1>0, ProcFacts DEF TypeOK, Unstarted
<1>1. ASSUME NEW p \in Procs, WritePid(p) \/ Finish(p) \/ Die(p) PROVE Unstarted(t)'
  <2>1. proc[p] # "none" /\ UNCHANGED execute /\ \A q \in Procs : q # p => proc'[q] = proc[q]
    <3>1. CASE WritePid(p)
      BY <3>1 DEF WritePid
    <3>2. CASE Finish(p)
      BY <3>2 DEF Finish
    <3>3. CASE Die(p)
      BY <3>3 DEF Die, Alive
    <3> QED
      BY <1>1, <3>1, <3>2, <3>3
  <2> QED
    BY <2>1
<1>2. ASSUME NEW l \in Lives, Kill(l) PROVE Unstarted(t)'
  BY <1>2 DEF Kill, Alive
<1>3. ASSUME NEW l \in Lives, NEW u \in Tasks, Spawn(l, u) PROVE Unstarted(t)'
  <2>1. <<u, l>> # <<t, life>>
    BY <1>3 DEF Spawn
  <2>2. execute'[life] \subseteq execute[life]
    BY <1>3 DEF Spawn
  <2> QED
    BY <1>3, <2>1, <2>2 DEF Spawn
<1>4. CASE Scan \/ FirstRead \/ SecondRead
  BY <1>4 DEF Scan, FirstRead, SecondRead, droneVars
<1> QED
  BY <1>1, <1>2, <1>3, <1>4 DEF Drone

LEMMA DroneOnce ==
  ASSUME TypeOK, CallsInOrder, StartedOnce, Drone
  PROVE  StartedOnce'
<1>1. UNCHANGED <<status, agent, phase, life, calls, todo>>
  BY DEF Drone, WritePid, Finish, Die, Kill, Spawn, Scan, FirstRead, SecondRead, dbVars, memoryVars
<1> QED
  BY <1>1, DroneUnstarted, TaskFacts DEF StartedOnce, Once

\* A job the step is not about.
LEMMA OnceSame ==
  ASSUME NEW k \in Jobs, Once(k), phase' = phase \/ (phase # "down" /\ phase' # "down"),
         phase' = "recover" => phase = "recover" /\ todo' \subseteq todo,
         status'[k] = status[k], agent'[k] = agent[k],
         Unstarted(Autoserv(k)) => Unstarted(Autoserv(k))', Unstarted(Parse(k)) => Unstarted(Parse(k))'
  PROVE  Once(k)'
BY DEF Once

\* A job that has ended, or whose agent has given way to the parser to come.
LEMMA OnceEnded ==
  ASSUME NEW k \in Jobs, phase' # "recover" \/ k \notin todo',
         \/ status'[k] \in Ended /\ agent'[k] = "none"
         \/ status'[k] = "Parsing" /\ agent'[k] \in Monitors
         \/ status'[k] = "Parsing" /\ Unstarted(Parse(k))'
         \/ status'[k] = "Running" /\ agent'[k] = "watching" /\ Unstarted(Parse(k))'
  PROVE  Once(k)'
BY DEF Once, Ended, Monitors

\* What the ends of a task do to the jobs.
LEMMA Ends ==
  ASSUME TypeOK, NEW j \in Jobs
  PROVE  /\ FinalStatus(j) \in Ended
         /\ \A s : End(j, s) => /\ status'[j] = s /\ agent'[j] = "none"
                                /\ \A k \in Jobs : k # j => status'[k] = status[k] /\ agent'[k] = agent[k]
                                /\ age' = Forget(j)
         /\ \A n : FinishParse(j, n) => End(j, FinalStatus(j)) /\ running' = running - n
         /\ FinishAutoserv(j) => /\ status'[j] = "Parsing" /\ agent'[j] = "none"
                                 /\ \A k \in Jobs : k # j => status'[k] = status[k] /\ agent'[k] = agent[k]
BY DEF TypeOK, End, FinishParse, FinishAutoserv, FinalStatus, Ended

LEMMA HandleOnce ==
  ASSUME TypeOK, CallsInOrder, StartedOnce, NEW j \in Jobs, Handle(j)
  PROVE  StartedOnce'
<1>1. phase = "agents" /\ UNCHANGED <<proc, execute, life, phase>> /\ Once(j)
  BY DEF Handle, droneVars, StartedOnce
<1>2. ASSUME UNCHANGED calls, NEW t PROVE Unstarted(t) => Unstarted(t)'
  BY <1>1, <1>2 DEF Unstarted
<1>3. ASSUME NEW u, calls' = calls \cup {u}, NEW t, t # u PROVE Unstarted(t) => Unstarted(t)'
  BY <1>1, <1>3 DEF Unstarted
<1>4. ASSUME \A k \in Jobs : k # j => status'[k] = status[k] /\ agent'[k] = agent[k],
             UNCHANGED calls \/ calls' = calls \cup {Autoserv(j)} \/ calls' = calls \cup {Parse(j)},
             Once(j)'
      PROVE  StartedOnce'
  <2> SUFFICES ASSUME NEW k \in Jobs, k # j PROVE Once(k)'
    BY <1>4 DEF StartedOnce
  <2>1. Unstarted(Autoserv(k)) => Unstarted(Autoserv(k))'
    BY <1>2, <1>3, <1>4, TaskFacts
  <2>2. Unstarted(Parse(k)) => Unstarted(Parse(k))'
    BY <1>2, <1>3, <1>4, TaskFacts
  <2> QED
    BY <1>1, <1>4, <2>1, <2>2, OnceSame DEF StartedOnce
<1>5. CASE Postpone(j)
  BY <1>1, <1>2, <1>4, <1>5, OnceSame DEF Postpone, dbVars, memoryVars
<1>6. CASE StartAutoserv(j)
  <2>1. Unstarted(Parse(j))
    BY <1>1, <1>6 DEF Once, StartAutoserv
  <2>2. calls' = calls \cup {Autoserv(j)}
    BY <1>6 DEF StartAutoserv
  <2>3. Unstarted(Parse(j))'
    BY <1>3, <2>1, <2>2, TaskFacts
  <2>4. CASE HasExited(Autoserv(j))
    BY <1>4, <1>6, <2>2, <2>3, <2>4, Ends, <1>1, OnceEnded DEF StartAutoserv
  <2>5. CASE ~HasExited(Autoserv(j))
    <3>1. /\ status' = [status EXCEPT ![j] = "Running"]
          /\ agent' = [agent EXCEPT ![j] = "watching"]
      BY <1>6, <2>5 DEF StartAutoserv
    <3> QED
      BY <1>4, <2>2, <2>3, <3>1, <1>1, OnceEnded DEF TypeOK
  <2> QED
    BY <2>4, <2>5
<1>7. CASE PollAutoserv(j)
  <2>1. Unstarted(Parse(j)) /\ UNCHANGED calls
    BY <1>1, <1>7 DEF Once, PollAutoserv
  <2>2. Unstarted(Parse(j))'
    BY <1>2, <2>1
  <2>3. CASE FinishAutoserv(j)
    BY <1>4, <2>1, <2>2, <2>3, Ends, <1>1, OnceEnded
  <2>4. CASE agent' = [agent EXCEPT ![j] = "watching"] /\ UNCHANGED status /\ status[j] = "Running"
    BY <1>1, <1>4, <2>1, <2>2, <2>4, OnceEnded DEF TypeOK
  <2> QED
    BY <1>7, <2>3, <2>4 DEF PollAutoserv
<1>8. CASE Throttle(j)
  <2>1. Unstarted(Parse(j))'
    BY <1>1, <1>2, <1>8 DEF Throttle, Once
  <2> QED
    BY <1>4, <1>8, <2>1, <1>1, OnceEnded DEF Throttle, TypeOK, dbVars
<1>9. CASE NoResults(j)
  BY <1>4, <1>9, Ends, <1>1, OnceEnded DEF NoResults
<1>10. CASE StartParse(j)
  <2>1. calls' = calls \cup {Parse(j)} /\ status[j] = "Parsing"
    BY <1>10 DEF StartParse
  <2>2. CASE FinishParse(j, 0)
    BY <1>4, <2>1, <2>2, Ends, <1>1, OnceEnded
  <2>3. CASE agent' = [agent EXCEPT ![j] = "watching"] /\ UNCHANGED status
    BY <1>4, <2>1, <2>3, <1>1, OnceEnded DEF TypeOK, Monitors
  <2> QED
    BY <1>10, <2>2, <2>3 DEF StartParse
<1>11. CASE PollParse(j)
  <2>1. UNCHANGED calls
    BY <1>11 DEF PollParse
  <2>2. CASE FinishParse(j, 1)
    BY <1>4, <2>1, <2>2, Ends, <1>1, OnceEnded
  <2>3. CASE agent' = [agent EXCEPT ![j] = "watching"] /\ UNCHANGED status /\ status[j] = "Parsing"
    BY <1>1, <1>4, <2>1, <2>3, OnceEnded DEF TypeOK, Monitors
  <2> QED
    BY <1>11, <2>2, <2>3 DEF PollParse
<1>12. CASE TimeOut(j)
  <2>1. UNCHANGED calls
    BY <1>12 DEF TimeOut
  <2>2. CASE FinishParse(j, 1)
    BY <1>4, <2>1, <2>2, Ends, <1>1, OnceEnded
  <2>3. CASE FinishAutoserv(j) /\ status[j] # "Parsing"
    <3>1. Unstarted(Parse(j))
      BY <1>1, <1>12, <2>3 DEF TimeOut, Once
    <3>2. Unstarted(Parse(j))'
      BY <1>2, <2>1, <3>1
    <3> QED
      BY <1>4, <2>1, <2>3, <3>2, Ends, <1>1, OnceEnded
  <2> QED
    BY <1>12, <2>2, <2>3 DEF TimeOut
<1> QED
  BY <1>5, <1>6, <1>7, <1>8, <1>9, <1>10, <1>11, <1>12 DEF Handle

LEMMA DispatcherOnce ==
  ASSUME TypeOK, CallsInOrder, StartedOnce, Dispatcher \/ Crash \/ \E j \in Jobs : RequestAbort(j)
  PROVE  StartedOnce'
<1> USE LifeFacts DEF TypeOK, dbVars, droneVars, viewVars, memoryVars
<1>0. ASSUME UNCHANGED <<proc, execute, life, calls>>, NEW t PROVE Unstarted(t) => Unstarted(t)'
  BY <1>0 DEF Unstarted
<1>1. CASE BeginTick
  <2> SUFFICES ASSUME NEW k \in Jobs PROVE Once(k)'
    BY DEF StartedOnce
  <2>1. Once(k) /\ phase = "execute" /\ phase' = "sync" /\ UNCHANGED <<proc, execute, life, calls>>
    BY <1>1 DEF StartedOnce, BeginTick
  <2>2. \/ status'[k] = status[k] /\ agent'[k] = agent[k]
        \/ status[k] = "Queued" /\ status'[k] = "Starting" /\ agent'[k] = "new"
        \/ status[k] \in {"Running", "Parsing"} /\ agent[k] = "none" /\ status'[k] = status[k] /\ agent'[k] = "new"
    <3> DEFINE new == {j \in Jobs : status[j] = "Queued" /\ ~aborted[j]}
               unhandled == {j \in Jobs : status[j] \in {"Running", "Parsing"} /\ agent[j] = "none"}
    <3>1. /\ status' = [j \in Jobs |-> IF j \in new THEN "Starting" ELSE status[j]]
          /\ agent' = [j \in Jobs |-> IF j \in new \cup unhandled THEN "new" ELSE agent[j]]
      BY <1>1 DEF BeginTick
    <3>2. /\ k \in new => status[k] = "Queued"
          /\ k \in unhandled => status[k] \in {"Running", "Parsing"} /\ agent[k] = "none"
      OBVIOUS
    <3> HIDE DEF new, unhandled
    <3> QED
      BY <3>1, <3>2
  <2>3. /\ Unstarted(Autoserv(k)) => Unstarted(Autoserv(k))'
        /\ Unstarted(Parse(k)) => Unstarted(Parse(k))'
    BY <1>0, <2>1
  <2> QED
    BY <2>1, <2>2, <2>3 DEF Once
<1>2. CASE SyncRefresh \/ BeginAgents \/ Recovered
  <2>1. /\ UNCHANGED <<status, agent, proc, execute, life, calls>>
        /\ phase # "down" /\ phase' # "down" /\ phase' # "recover"
    BY <1>2 DEF SyncRefresh, BeginAgents, Recovered
  <2> QED
    BY <1>0, <2>1, OnceSame DEF StartedOnce
<1>3. CASE SyncRecovery
  <2>1. /\ UNCHANGED <<status, agent, proc, execute, life, calls>>
        /\ phase = "restart" /\ phase' = "recover" /\ todo' = {j \in Jobs : agent[j] # "none"}
    BY <1>3 DEF SyncRecovery
  <2>2. ASSUME NEW k \in Jobs PROVE Once(k)'
    <3>1. /\ Unstarted(Autoserv(k)) => Unstarted(Autoserv(k))'
          /\ Unstarted(Parse(k)) => Unstarted(Parse(k))'
      BY <1>0, <2>1
    <3> QED
      BY <2>1, <3>1 DEF Once, StartedOnce
  <2> QED
    BY <2>2 DEF StartedOnce
<1>4. CASE ExecuteActions
  <2>1. /\ UNCHANGED <<status, agent, proc, life>>
        /\ phase = "agents" /\ phase' = "execute" /\ calls' = {} /\ execute'[life] = calls
    BY <1>4 DEF ExecuteActions
  <2>2. \A t : Unstarted(t) => Unstarted(t)'
    BY <2>1 DEF Unstarted
  <2> QED
    BY <2>1, <2>2, OnceSame DEF StartedOnce
<1>5. CASE Restart
  <2>1. /\ life' \in Lives /\ life' > life /\ UNCHANGED <<proc, execute, calls, status>>
        /\ phase' = "restart"
        /\ \A k \in Jobs : agent'[k] = IF status[k] \in {"Starting", "Running", "Parsing"}
                                       THEN "new" ELSE "none"
    BY <1>5 DEF Restart, CallsInOrder
  <2>2. calls = {}
    BY <1>5 DEF Restart, CallsInOrder
  <2>3. \A t \in Tasks : Unstarted(t)'
    BY <2>1, <2>2 DEF Unstarted, CallsInOrder
  <2> QED
    BY <2>1, <2>3, TaskFacts DEF StartedOnce, Once
<1>6. ASSUME NEW j \in Jobs, Abort(j) PROVE StartedOnce'
  <2> SUFFICES ASSUME NEW k \in Jobs PROVE Once(k)'
    BY DEF StartedOnce
  <2>1. Once(j) /\ Once(k) /\ phase = "aborting" /\ phase' = phase /\ UNCHANGED <<proc, execute, life, calls>>
    BY <1>6 DEF StartedOnce, Abort
  <2>2. CASE UNCHANGED <<status, agent>>
    BY <1>0, <2>1, <2>2, OnceSame
  <2>3. CASE End(j, "Aborted")
    <3>1. CASE k = j
      BY <2>1, <2>3, <3>1, Ends, OnceEnded DEF Ended
    <3>2. CASE k # j
      BY <1>0, <2>1, <2>3, <3>2, Ends, OnceSame
    <3> QED
      BY <3>1, <3>2
  <2>4. CASE FinishAutoserv(j) /\ status[j] = "Running"
    <3>1. CASE k = j
      <4>1. Unstarted(Parse(j))'
        BY <1>0, <2>1, <2>4 DEF Once
      <4> QED
        BY <2>1, <2>4, <3>1, <4>1, Ends, OnceEnded
    <3>2. CASE k # j
      BY <1>0, <2>1, <2>4, <3>2, Ends, OnceSame
    <3> QED
      BY <3>1, <3>2
  <2> QED
    BY <1>6, <2>2, <2>3, <2>4 DEF Abort
<1>7. ASSUME NEW j \in Jobs, Recover(j) PROVE StartedOnce'
  <2> SUFFICES ASSUME NEW k \in Jobs PROVE Once(k)'
    BY DEF StartedOnce
  <2>1. /\ Once(j) /\ Once(k) /\ phase = "recover" /\ phase' = phase
        /\ j \in todo /\ todo' = todo \ {j} /\ UNCHANGED <<proc, execute, life, calls>>
    BY <1>7 DEF StartedOnce, Recover
  <2>2. CASE FinishParse(j, 0)
    <3>1. CASE k = j
      BY <2>1, <2>2, <3>1, Ends, OnceEnded
    <3>2. CASE k # j
      BY <1>0, <2>1, <2>2, <3>2, Ends, OnceSame
    <3> QED
      BY <3>1, <3>2
  <2>3. CASE ~FinishParse(j, 0)
    <3>1. /\ UNCHANGED status /\ agent'[j] \in {"new", "lost", "recovered"}
          /\ \A i \in Jobs : i # j => agent'[i] = agent[i]
      BY <1>7, <2>3 DEF Recover
    <3>2. CASE k = j
      <4>1. \A t \in Tasks : Unstarted(t)'
        BY <2>1 DEF Unstarted, CallsInOrder
      <4> QED
        BY <2>1, <3>1, <3>2, <4>1, TaskFacts DEF Once
    <3>3. CASE k # j
      BY <1>0, <2>1, <3>1, <3>3, OnceSame
    <3> QED
      BY <3>2, <3>3
  <2> QED
    BY <2>2, <2>3
<1>8. CASE Crash
  <2>1. /\ UNCHANGED <<status, proc, life>> /\ phase' = "down" /\ calls' = {}
        /\ execute'[life] \subseteq execute[life]
        /\ \A k \in Jobs : agent'[k] = "none"
    BY <1>8 DEF Crash
  <2>2. \A t : Unstarted(t) => Unstarted(t)'
    BY <2>1 DEF Unstarted
  <2> QED
    BY <2>1, <2>2 DEF StartedOnce, Once
<1>9. ASSUME NEW j \in Jobs, RequestAbort(j) PROVE StartedOnce'
  <2>1. UNCHANGED <<status, agent, phase, todo, proc, execute, life, calls>>
    BY <1>9 DEF RequestAbort
  <2>2. ASSUME NEW k \in Jobs PROVE Once(k)'
    <3>1. Once(k) /\ phase' = phase /\ todo' \subseteq todo
      BY <2>1 DEF StartedOnce
    <3>2. /\ Unstarted(Autoserv(k)) => Unstarted(Autoserv(k))'
          /\ Unstarted(Parse(k)) => Unstarted(Parse(k))'
      BY <1>0, <2>1
    <3> QED
      BY <2>1, <3>1, <3>2 DEF Once
  <2> QED
    BY <2>2 DEF StartedOnce
<1>10. ASSUME NEW j \in Jobs, Handle(j) PROVE StartedOnce'
  BY <1>10, HandleOnce
<1> QED
  BY <1>1, <1>2, <1>3, <1>4, <1>5, <1>6, <1>7, <1>8, <1>9, <1>10 DEF Dispatcher

-----------------------------------------------------------------------------
(* What has been read is true.                                             *)

LEMMA TrueStays ==
  ASSUME TypeOK, CallsInOrder, Next, NEW t \in Tasks, NEW c \in Contents, True(c, t)
  PROVE  /\ c.pid # None => proc'[<<t, c.pid>>] \notin {"none", "starting"}
         /\ c.code # None => \E l \in Lives : proc'[<<t, l>>] = c.code
<1>1. c.pid # None => proc'[<<t, c.pid>>] \notin {"none", "starting"}
  BY ProcFacts, ContentsFacts, ProcessesOnward DEF True, Onward
<1>2. ASSUME c.code # None PROVE \E l \in Lives : proc'[<<t, l>>] = c.code
  <2> PICK l \in Lives : proc[<<t, l>>] = c.code
    BY <1>2 DEF True
  <2>1. c.code \in Exit
    BY <1>2, ContentsFacts
  <2> QED
    BY <2>1, ProcFacts, ProcessesOnward DEF Onward
<1> QED
  BY <1>1, <1>2

LEMMA NoFileTrue == \A t : True(NoFile, t)
BY ContentsFacts DEF True

\* A refresh reads what is in the pidfiles, and reads it as it is.
LEMMA ViewsStayTrue ==
  ASSUME TypeOK, CallsInOrder, PidfilesTrue, Next, NEW t \in Tasks
  PROVE  True(first[t], t)' /\ True(second[t], t)'
<1>1. \A c \in {first[t], second[t], file[t], NoFile} : c \in Contents /\ True(c, t)
  BY NoFileTrue, ContentsFacts DEF TypeOK, PidfilesTrue
<1>2. first'[t] \in {first[t], file[t], NoFile} /\ second'[t] \in {second[t], file[t], NoFile}
  <2> USE ContentsFacts DEF dbVars, droneVars, viewVars, memoryVars
  <2>1. CASE Drone
    BY <2>1 DEF Drone, WritePid, Finish, Die, Kill, Spawn, Scan, FirstRead, SecondRead, ReadPidfiles
  <2>2. CASE Dispatcher
    BY <2>2 DEF Dispatcher, BeginTick, SyncRefresh, BeginAgents, ExecuteActions, Restart, SyncRecovery,
                Recovered, Abort, Handle, Recover
  <2>3. CASE Crash \/ \E j \in Jobs : RequestAbort(j)
    BY <2>3 DEF Crash, RequestAbort
  <2> QED
    BY <2>1, <2>2, <2>3 DEF Next
<1>3. \A c \in {first[t], second[t], file[t], NoFile} :
         /\ c.pid # None => proc'[<<t, c.pid>>] \notin {"none", "starting"}
         /\ c.code # None => \E l \in Lives : proc'[<<t, l>>] = c.code
  BY <1>1, TrueStays
<1>4. True(first[t], t)'
  BY <1>2, <1>3 DEF True
<1>5. True(second[t], t)'
  BY <1>2, <1>3 DEF True
<1> QED
  BY <1>4, <1>5

\* A process writes its own pid and its own exit status.
LEMMA FilesStayTrue ==
  ASSUME TypeOK, CallsInOrder, PidfilesTrue, Next, NEW t \in Tasks
  PROVE  True(file[t], t)'
<1>1. file[t] \in Contents /\ True(file[t], t) /\ NoFile \in Contents /\ True(NoFile, t)
  BY NoFileTrue, ContentsFacts DEF TypeOK, PidfilesTrue
<1>2. CASE file'[t] \in {file[t], NoFile}
  BY <1>1, <1>2, TrueStays DEF True
<1>3. ASSUME NEW p \in Procs, WritePid(p) PROVE True(file[t], t)'
  <2>1. CASE t = p[1]
    <3>1. file'[t] = [pid |-> p[2], code |-> None] /\ proc'[<<t, p[2]>>] = "logged"
      BY <1>3, <2>1, ProcFacts DEF WritePid, TypeOK
    <3> QED
      BY <3>1 DEF True
  <2>2. CASE t # p[1]
    BY <1>2, <1>3, <2>2 DEF WritePid, TypeOK
  <2> QED
    BY <2>1, <2>2
<1>4. ASSUME NEW p \in Procs, Finish(p) PROVE True(file[t], t)'
  <2> PICK code \in Exit :
          /\ proc' = [proc EXCEPT ![p] = code]
          /\ file' = IF p \in linked THEN [file EXCEPT ![p[1]].code = code] ELSE file
    BY <1>4 DEF Finish
  <2>1. CASE t = p[1] /\ p \in linked
    <3>1. file'[t].pid = file[t].pid /\ file'[t].code = code
      BY <2>1, ContentsFacts DEF TypeOK, Contents
    <3>2. p = <<t, p[2]>> /\ p[2] \in Lives /\ proc'[p] = code
      BY <2>1, ProcFacts DEF TypeOK
    <3> QED
      BY <1>1, <3>1, <3>2, TrueStays DEF True
  <2>2. CASE ~(t = p[1] /\ p \in linked)
    <3>1. file'[t] = file[t]
      BY <2>2 DEF TypeOK
    <3> QED
      BY <1>2, <3>1
  <2> QED
    BY <2>1, <2>2
<1>5. ASSUME NEW l \in Lives, Kill(l) PROVE True(file[t], t)'
  <2> PICK graceful \in SUBSET {p \in kill[l] : proc[p] = "logged"} :
          /\ proc' = [p \in Procs |-> CASE p \in graceful -> "failed"
                                        [] p \in kill[l] \ graceful /\ proc[p] \in Alive -> "died"
                                        [] OTHER -> proc[p]]
          /\ file' = [u \in Tasks |-> IF \E p \in graceful \cap linked : p[1] = u
                                      THEN [file[u] EXCEPT !.code = "failed"] ELSE file[u]]
    BY <1>5 DEF Kill
  <2>1. ASSUME NEW p \in graceful \cap linked, p[1] = t PROVE True(file[t], t)'
    <3>1. file'[t].pid = file[t].pid /\ file'[t].code = "failed"
      BY <1>1, <2>1 DEF TypeOK, Contents
    <3>2. p \in Procs /\ p = <<t, p[2]>> /\ p[2] \in Lives
      BY <2>1, ProcFacts DEF TypeOK
    <3>3. proc'[p] = "failed"
      BY <3>2
    <3> QED
      BY <1>1, <3>1, <3>2, <3>3, TrueStays DEF True
  <2>2. CASE ~\E p \in graceful \cap linked : p[1] = t
    <3>1. file'[t] = file[t]
      BY <2>2
    <3> QED
      BY <1>2, <3>1
  <2> QED
    BY <2>1, <2>2
<1>6. ASSUME NEW l \in Lives, NEW u \in Tasks, Spawn(l, u) PROVE True(file[t], t)'
  BY <1>2, <1>6 DEF Spawn, TypeOK
<1>7. ASSUME NEW p \in Procs, Die(p) PROVE True(file[t], t)'
  BY <1>2, <1>7 DEF Die
<1>8. Scan \/ FirstRead \/ SecondRead \/ Dispatcher \/ Crash \/ (\E j \in Jobs : RequestAbort(j))
         => UNCHANGED file
  BY DEF Scan, FirstRead, SecondRead, Dispatcher, Crash, RequestAbort, BeginTick, SyncRefresh,
         BeginAgents, ExecuteActions, Restart, SyncRecovery, Recovered, Abort, Handle, Recover, droneVars
<1> QED
  BY <1>2, <1>3, <1>4, <1>5, <1>6, <1>7, <1>8 DEF Next, Drone

\* A process of this dispatcher that has written its pid has it in its pidfile.
LEMMA LoggedHasPid ==
  ASSUME TypeOK, CallsInOrder, PidfilesTrue, Next,
         NEW t \in Tasks, OnlyNow(t)', proc'[<<t, life'>>] = "logged"
  PROVE  file'[t].pid # None
<1> USE ProcFacts, LifeFacts DEF TypeOK
<1>0. OnlyNow(t) /\ proc[<<t, life>>] = "logged" => file[t].pid # None
  BY DEF PidfilesTrue
<1>00. \A l \in 0..(life - 1) : l \in Lives /\ <<t, l>> \in Procs
  BY DEF Lives
<1>01. life' = life => \A l \in 0..(life - 1) : proc'[<<t, l>>] = "none" /\ t \notin execute'[l]
  BY DEF OnlyNow
<1>1. ASSUME NEW p \in Procs, WritePid(p) PROVE file'[t].pid # None
  <2>1. CASE p = <<t, life>>
    BY <1>1, <2>1 DEF WritePid
  <2>2. CASE p # <<t, life>> /\ p[1] # t
    <3>1. file'[t] = file[t] /\ UNCHANGED <<life, execute>> /\ \A l \in Lives : proc'[<<t, l>>] = proc[<<t, l>>]
      BY <1>1, <2>2 DEF WritePid
    <3>2. OnlyNow(t) /\ proc[<<t, life>>] = "logged"
      BY <1>00, <1>01, <3>1 DEF OnlyNow
    <3> QED
      BY <1>0, <3>1, <3>2
  <2>3. CASE p # <<t, life>> /\ p[1] = t
    BY <1>1, <2>3 DEF WritePid
  <2> QED
    BY <2>1, <2>2, <2>3
<1>2. ASSUME NEW p \in Procs, Finish(p) PROVE file'[t].pid # None
  <2>1. UNCHANGED <<life, execute>> /\ proc'[p] \in Exit /\ \A q \in Procs : q # p => proc'[q] = proc[q]
    BY <1>2 DEF Finish
  <2>2. OnlyNow(t) /\ proc[<<t, life>>] = "logged"
    BY <1>00, <1>01, <2>1 DEF OnlyNow, Exit
  <2>3. file'[t].pid = file[t].pid
    BY <1>2, ContentsFacts DEF Finish, Contents
  <2> QED
    BY <1>0, <2>2, <2>3
<1>3. ASSUME NEW p \in Procs, Die(p) PROVE file'[t].pid # None
  <2>1. UNCHANGED <<life, execute, file>> /\ proc'[p] = "died" /\ \A q \in Procs : q # p => proc'[q] = proc[q]
    BY <1>3 DEF Die
  <2>2. OnlyNow(t) /\ proc[<<t, life>>] = "logged"
    BY <1>00, <1>01, <2>1 DEF OnlyNow
  <2> QED
    BY <1>0, <2>1, <2>2
<1>4. ASSUME NEW l \in Lives, Kill(l) PROVE file'[t].pid # None
  <2>1. UNCHANGED <<life, execute>> /\ \A q \in Procs : proc'[q] \in {"none", "logged"} => proc'[q] = proc[q]
    BY <1>4 DEF Kill
  <2>2. OnlyNow(t) /\ proc[<<t, life>>] = "logged"
    BY <1>00, <1>01, <2>1 DEF OnlyNow
  <2>3. file'[t].pid = file[t].pid
    BY <1>4, ContentsFacts DEF Kill, Contents
  <2> QED
    BY <1>0, <2>2, <2>3
<1>5. ASSUME NEW l \in Lives, NEW u \in Tasks, Spawn(l, u) PROVE file'[t].pid # None
  <2>1. l <= life /\ UNCHANGED life /\ proc'[<<u, l>>] = "starting"
    BY <1>5 DEF Spawn, CallsInOrder
  <2>2. u # t
    <3>1. l \in Int /\ l >= 0 /\ life \in Int
      OBVIOUS
    <3>2. l = life \/ l \in 0..(life - 1)
      <4> HIDE DEF TypeOK
      <4> QED
        BY <2>1, <3>1
    <3> QED
      BY <1>01, <2>1, <3>2
  <2>3. /\ file'[t] = file[t] /\ \A m \in Lives : proc'[<<t, m>>] = proc[<<t, m>>]
        /\ \A m \in Lives : t \in execute'[m] <=> t \in execute[m]
    BY <1>5, <2>2 DEF Spawn
  <2>4. OnlyNow(t) /\ proc[<<t, life>>] = "logged"
    BY <1>00, <1>01, <2>1, <2>3 DEF OnlyNow
  <2> QED
    BY <1>0, <2>3, <2>4
<1>6. CASE Restart
  <2>1. life' \in Lives /\ life' > life /\ UNCHANGED proc
    BY <1>6 DEF Restart, CallsInOrder, droneVars
  <2> QED
    BY <2>1 DEF CallsInOrder
<1>7. CASE Crash
  BY <1>0, <1>7 DEF Crash, OnlyNow
<1>8. CASE UNCHANGED <<proc, file, execute, life>>
  BY <1>0, <1>8 DEF OnlyNow
<1>9. \/ Scan \/ FirstRead \/ SecondRead \/ BeginTick \/ SyncRefresh \/ BeginAgents \/ SyncRecovery
      \/ Recovered \/ \E j \in Jobs : RequestAbort(j) \/ Abort(j) \/ Handle(j) \/ Recover(j)
      => UNCHANGED <<proc, file, execute, life>>
  BY DEF Scan, FirstRead, SecondRead, RequestAbort, BeginTick, SyncRefresh, BeginAgents, SyncRecovery,
         Recovered, Abort, Handle, Recover, droneVars
<1>10. CASE ExecuteActions
  <2>1. UNCHANGED <<proc, file, life>> /\ \A l \in Lives : l # life => execute'[l] = execute[l]
    BY <1>10 DEF ExecuteActions
  <2>2. OnlyNow(t)
    BY <1>00, <1>01, <2>1 DEF OnlyNow
  <2> QED
    BY <1>0, <2>1, <2>2
<1> QED
  BY <1>1, <1>2, <1>3, <1>4, <1>5, <1>6, <1>7, <1>8, <1>9, <1>10 DEF Next, Drone, Dispatcher

LEMMA TruthStays ==
  ASSUME TypeOK, CallsInOrder, PidfilesTrue, Next
  PROVE  PidfilesTrue'
BY FilesStayTrue, ViewsStayTrue, LoggedHasPid DEF PidfilesTrue

\* A job is Completed by a step that has read exit status 0.
LEMMA CompletedStays ==
  ASSUME TypeOK, CallsInOrder, PidfilesTrue, CompletedIsEarned, Next
  PROVE  CompletedIsEarned'
<1> SUFFICES ASSUME NEW j \in Jobs, status'[j] = "Completed"
             PROVE  \E l \in Lives : proc'[<<Autoserv(j), l>>] = "passed"
  BY DEF CompletedIsEarned
<1>1. ASSUME NEW k \in Jobs, NEW s, End(k, s)
      PROVE  status[j] = "Completed" \/ (k = j /\ s = "Completed")
  BY <1>1, Ends
<1>2. ASSUME NEW k \in Jobs, NEW n, FinishParse(k, n)
      PROVE  status[j] = "Completed" \/ (k = j /\ Look(Autoserv(j)) = "passed")
  BY <1>1, <1>2, Ends DEF FinalStatus
<1>3. ASSUME NEW k \in Jobs, FinishAutoserv(k) PROVE status[j] = "Completed"
  BY <1>3, Ends
<1>4. status[j] = "Completed" \/ Look(Autoserv(j)) = "passed"
  <2>1. ASSUME NEW k \in Jobs, Handle(k) PROVE status[j] = "Completed" \/ Look(Autoserv(j)) = "passed"
    <3> USE <1>2, <1>3 DEF dbVars, TypeOK
    <3>1. CASE Postpone(k)
      BY <3>1 DEF Postpone
    <3>2. CASE StartAutoserv(k)
      BY <3>2 DEF StartAutoserv
    <3>3. CASE PollAutoserv(k)
      BY <3>3 DEF PollAutoserv
    <3>4. CASE Throttle(k)
      BY <3>4 DEF Throttle
    <3>5. CASE NoResults(k)
      BY <3>5 DEF NoResults
    <3>6. CASE StartParse(k)
      BY <3>6 DEF StartParse
    <3>7. CASE PollParse(k)
      BY <3>7 DEF PollParse
    <3>8. CASE TimeOut(k)
      BY <3>8 DEF TimeOut
    <3> QED
      BY <2>1, <3>1, <3>2, <3>3, <3>4, <3>5, <3>6, <3>7, <3>8 DEF Handle
  <2>2. ASSUME NEW k \in Jobs, Abort(k) PROVE status[j] = "Completed"
    BY <1>1, <1>3, <2>2 DEF Abort
  <2>3. ASSUME NEW k \in Jobs, Recover(k) PROVE status[j] = "Completed" \/ Look(Autoserv(j)) = "passed"
    BY <1>2, <2>3 DEF Recover
  <2>4. CASE BeginTick
    BY <2>4 DEF BeginTick
  <2>5. \/ Drone \/ SyncRefresh \/ BeginAgents \/ ExecuteActions \/ Restart \/ SyncRecovery \/ Recovered
        \/ Crash \/ \E k \in Jobs : RequestAbort(k)
        => UNCHANGED status
    BY DEF Drone, WritePid, Finish, Die, Kill, Spawn, Scan, FirstRead, SecondRead, SyncRefresh, BeginAgents,
           ExecuteActions, Restart, SyncRecovery, Recovered, Crash, RequestAbort, dbVars
  <2> QED
    BY <2>1, <2>2, <2>3, <2>4, <2>5 DEF Next, Dispatcher
<1>5. Look(Autoserv(j)) = "passed" => \E l \in Lives : proc[<<Autoserv(j), l>>] = "passed"
  <2> DEFINE t == Autoserv(j)
  <2>1. Look(t) = "passed" => \/ first[t].code = "passed" /\ first[t].code # None
                              \/ second[t].code = "passed" /\ second[t].code # None
    BY DEF Look
  <2>2. True(first[t], t) /\ True(second[t], t)
    BY TaskFacts DEF PidfilesTrue
  <2> QED
    BY <2>1, <2>2 DEF True
<1>6. \E l \in Lives : proc[<<Autoserv(j), l>>] = "passed"
  BY <1>4, <1>5 DEF CompletedIsEarned
<1> QED
  BY <1>6, TaskFacts, ProcFacts, ProcessesOnward DEF Onward, Exit

-----------------------------------------------------------------------------
(* The process list.                                                       *)

\* Only a command of this dispatcher adds a process to those of its life.
LEMMA LiveStays ==
  ASSUME TypeOK, CallsInOrder, Next, NEW t \in Tasks, proc'[<<t, life>>] \in Alive
  PROVE  proc[<<t, life>>] \in Alive \/ (t \in execute[life] /\ Spawn(life, t))
<1> USE ProcFacts DEF TypeOK, Alive
<1>1. ASSUME NEW p \in Procs, WritePid(p) PROVE proc[<<t, life>>] \in Alive
  BY <1>1 DEF WritePid
<1>2. ASSUME NEW p \in Procs, Finish(p) PROVE proc[<<t, life>>] \in Alive
  BY <1>2 DEF Finish, Exit
<1>3. ASSUME NEW p \in Procs, Die(p) PROVE proc[<<t, life>>] \in Alive
  BY <1>3 DEF Die
<1>4. ASSUME NEW l \in Lives, Kill(l) PROVE proc[<<t, life>>] \in Alive
  BY <1>4 DEF Kill
<1>5. ASSUME NEW l \in Lives, NEW u \in Tasks, Spawn(l, u)
      PROVE  proc[<<t, life>>] \in Alive \/ (t \in execute[life] /\ Spawn(life, t))
  <2>1. CASE u = t /\ l = life
    BY <1>5, <2>1 DEF Spawn
  <2>2. CASE ~(u = t /\ l = life)
    BY <1>5, <2>2 DEF Spawn
  <2> QED
    BY <2>1, <2>2
<1>6. Scan \/ FirstRead \/ SecondRead \/ Dispatcher \/ Crash \/ (\E j \in Jobs : RequestAbort(j))
         => UNCHANGED proc
  BY DEF Scan, FirstRead, SecondRead, Dispatcher, Crash, RequestAbort, BeginTick, SyncRefresh,
         BeginAgents, ExecuteActions, Restart, SyncRecovery, Recovered, Abort, Handle, Recover, droneVars
<1> QED
  BY <1>1, <1>2, <1>3, <1>4, <1>5, <1>6 DEF Next, Drone

LEMMA ScanStays ==
  ASSUME TypeOK, CallsInOrder, ScanComplete, Next
  PROVE  ScanComplete'
<1> DEFINE Used == refresh \in {"first", "second", "done"} \/ phase \in {"aborting", "agents", "recover"}
<1> USE DEF dbVars, droneVars, viewVars, memoryVars
<1>1. CASE Scan
  <2>1. \A t \in Tasks : proc[<<t, life>>] \in Alive => <<t, life>> \in scan'
    BY <1>1, ProcFacts DEF Scan, TypeOK
  <2> QED
    BY <1>1, <2>1 DEF Scan, ScanComplete
<1>2. CASE UNCHANGED <<life, scan>> /\ (Used' => Used)
  <2> SUFFICES ASSUME Used', NEW t \in Tasks, proc'[<<t, life>>] \in Alive PROVE <<t, life>> \in scan
    BY <1>2 DEF ScanComplete
  <2>1. Used /\ execute[life] = {}
    BY <1>2 DEF CallsInOrder, TypeOK
  <2> QED
    BY <2>1, LiveStays DEF ScanComplete
<1>3. CASE ~Used'
  BY <1>3 DEF ScanComplete
<1>4. \/ BeginTick \/ ExecuteActions \/ Restart \/ Recovered \/ Crash => ~Used'
  BY DEF BeginTick, ExecuteActions, Restart, Recovered, Crash, StartRefresh, CallsInOrder
<1>5. \/ FirstRead \/ SecondRead \/ SyncRefresh \/ BeginAgents \/ SyncRecovery
      => UNCHANGED <<life, scan>> /\ (Used' => Used)
  BY DEF FirstRead, SecondRead, SyncRefresh, BeginAgents, SyncRecovery, CallsInOrder
<1>6. (\E p \in Procs : WritePid(p) \/ Finish(p) \/ Die(p))
      \/ (\E l \in Lives : Kill(l) \/ \E t \in Tasks : Spawn(l, t))
      \/ (\E j \in Jobs : RequestAbort(j) \/ Abort(j) \/ Handle(j) \/ Recover(j))
      => UNCHANGED <<life, scan, refresh, phase>>
  BY DEF WritePid, Finish, Die, Kill, Spawn, RequestAbort, Abort, Handle, Recover
<1> QED
  BY <1>1, <1>2, <1>3, <1>4, <1>5, <1>6 DEF Next, Drone, Dispatcher

-----------------------------------------------------------------------------
(* An autoserv taken for ended has ended.                                  *)

LEMMA AbortsStay ==
  ASSUME TypeOK, AbortsAsked, Next
  PROVE  AbortsAsked'
<1> USE DEF dbVars, droneVars, viewVars, memoryVars, AbortsAsked, TypeOK
<1>1. CASE Drone
  BY <1>1 DEF Drone, WritePid, Finish, Die, Kill, Spawn, Scan, FirstRead, SecondRead
<1>2. CASE SyncRefresh
  BY <1>2 DEF SyncRefresh
<1>3. BeginTick \/ BeginAgents \/ ExecuteActions \/ Restart \/ SyncRecovery \/ Recovered \/ Crash
         => phase' # "aborting"
  BY DEF BeginTick, BeginAgents, ExecuteActions, Restart, SyncRecovery, Recovered, Crash
<1>4. ASSUME NEW j \in Jobs, Abort(j) PROVE AbortsAsked'
  BY <1>4 DEF Abort
<1>5. ASSUME NEW j \in Jobs, Handle(j) \/ Recover(j) PROVE phase' # "aborting"
  BY <1>5 DEF Handle, Recover
<1>6. ASSUME NEW j \in Jobs, RequestAbort(j) PROVE AbortsAsked'
  BY <1>6 DEF RequestAbort
<1> QED
  BY <1>1, <1>2, <1>3, <1>4, <1>5, <1>6 DEF Next, Dispatcher

\* With no process of an earlier life there is none before this one.
LEMMA OnlyNowBack ==
  ASSUME TypeOK, CallsInOrder, Next, UNCHANGED life, NEW t \in Tasks, OnlyNow(t)'
  PROVE  OnlyNow(t)
<1> SUFFICES ASSUME NEW l \in 0..(life - 1) PROVE proc[<<t, l>>] = "none" /\ t \notin execute[l]
  BY DEF OnlyNow
<1>1. proc'[<<t, l>>] = "none" /\ t \notin execute'[l]
  BY DEF OnlyNow
<1>2. l \in Lives /\ l # life
  BY LifeFacts DEF TypeOK, Lives
<1> USE <1>1, <1>2, ProcFacts DEF TypeOK, droneVars
<1>3. ASSUME NEW p \in Procs, WritePid(p) PROVE proc[<<t, l>>] = "none" /\ t \notin execute[l]
  BY <1>3 DEF WritePid
<1>4. ASSUME NEW p \in Procs, Finish(p) PROVE proc[<<t, l>>] = "none" /\ t \notin execute[l]
  BY <1>4 DEF Finish, Exit
<1>5. ASSUME NEW p \in Procs, Die(p) PROVE proc[<<t, l>>] = "none" /\ t \notin execute[l]
  BY <1>5 DEF Die
<1>6. ASSUME NEW m \in Lives, Kill(m) PROVE proc[<<t, l>>] = "none" /\ t \notin execute[l]
  BY <1>6 DEF Kill
<1>7. ASSUME NEW m \in Lives, NEW u \in Tasks, Spawn(m, u)
      PROVE  proc[<<t, l>>] = "none" /\ t \notin execute[l]
  <2>1. <<u, m>> # <<t, l>>
    BY <1>7 DEF Spawn
  <2> QED
    BY <1>7, <2>1 DEF Spawn
<1>8. ExecuteActions \/ Crash => UNCHANGED proc /\ execute'[l] = execute[l]
  BY DEF ExecuteActions, Crash
<1>9. \/ Scan \/ FirstRead \/ SecondRead \/ BeginTick \/ SyncRefresh \/ BeginAgents \/ Restart \/ SyncRecovery
      \/ Recovered \/ \E j \in Jobs : RequestAbort(j) \/ Abort(j) \/ Handle(j) \/ Recover(j)
      => UNCHANGED <<proc, execute>>
  BY DEF Scan, FirstRead, SecondRead, RequestAbort, BeginTick, SyncRefresh, BeginAgents, Restart, SyncRecovery,
         Recovered, Abort, Handle, Recover
<1> QED
  BY <1>3, <1>4, <1>5, <1>6, <1>7, <1>8, <1>9 DEF Next, Drone, Dispatcher

\* The hypotheses under which a job's results are parsed when its autoserv is gone.
Trusted(j) == Autoserv(j) \notin Slow /\ ~aborted[j] /\ OnlyNow(Autoserv(j))
Gone(t) == t \notin calls \cup execute[life] /\ proc[<<t, life>>] \notin Alive

LEMMA OverDef ==
  ASSUME NEW j \in Jobs
  PROVE  Over(j) <=> (/\ Trusted(j)
                      /\ status[j] \in {"Parsing"} \cup Ended \/ agent[j] = "lost"
                      => Gone(Autoserv(j)))
BY DEF Over, Trusted, Gone

\* A monitor that sees that a process of this dispatcher has ended is right.
LEMMA SeenOver ==
  ASSUME TypeOK, CallsInOrder, PidfilesTrue, ScanComplete, phase \in {"agents", "recover"},
         NEW t \in Tasks, OnlyNow(t), HasExited(t)
  PROVE  Gone(t) /\ proc[<<t, life>>] # "none"
<1>1. \A l \in Lives : proc[<<t, l>>] # "none" => l = life
  <2> SUFFICES ASSUME NEW l \in Lives, proc[<<t, l>>] # "none", l # life PROVE FALSE
    OBVIOUS
  <2>1. l \in Int /\ life \in Int /\ l >= 0
    BY LifeFacts DEF TypeOK
  <2>2. l > life \/ l \in 0..(life - 1)
    BY <2>1
  <2> QED
    BY <2>2 DEF OnlyNow, CallsInOrder
<1>2. first[t].pid # None
  BY DEF HasExited, Look
<1>3. True(first[t], t) /\ first[t].pid \in Lives /\ first[t].code \in Exit \cup {None}
  BY <1>2, ContentsFacts DEF PidfilesTrue, TypeOK
<1>4. first[t].pid = life /\ proc[<<t, life>>] # "none"
  BY <1>1, <1>2, <1>3 DEF True
<1>5. proc[<<t, life>>] \notin Alive
  <2>1. CASE first[t].code # None
    <3>1. PICK l \in Lives : proc[<<t, l>>] = first[t].code
      BY <1>3, <2>1 DEF True
    <3>2. first[t].code \in Exit
      BY <1>3, <2>1
    <3>3. l = life
      BY <1>1, <3>1, <3>2 DEF Exit
    <3> QED
      BY <3>1, <3>2, <3>3 DEF Exit, Alive
  <2>2. CASE first[t].code = None
    <3>1. <<t, life>> \notin scan
      BY <1>2, <1>4, <2>2 DEF HasExited, Look
    <3> QED
      BY <3>1 DEF ScanComplete
  <2> QED
    BY <2>1, <2>2
<1>6. t \notin calls \cup execute[life]
  BY <1>4 DEF CallsInOrder, TypeOK
<1> QED
  BY <1>4, <1>5, <1>6 DEF Gone

\* A job the step is not about.
LEMMA OverSame ==
  ASSUME TypeOK, CallsInOrder, Next, NEW k \in Jobs, Over(k), UNCHANGED life,
         aborted[k] => aborted'[k],
         status'[k] \in {"Parsing"} \cup Ended \/ agent'[k] = "lost"
            => status[k] \in {"Parsing"} \cup Ended \/ agent[k] = "lost",
         Gone(Autoserv(k)) => Gone(Autoserv(k))'
  PROVE  Over(k)'
<1>1. Trusted(k)' => Trusted(k)
  BY OnlyNowBack, TaskFacts DEF Trusted
<1> QED
  BY <1>1, OverDef DEF Over, Trusted, Gone

\* Over is kept when what has ended stays so.
LEMMA OverKept ==
  ASSUME TypeOK, CallsInOrder, Next, NEW k \in Jobs, UNCHANGED life,
         aborted[k] => aborted'[k], Trusted(k) => Gone(Autoserv(k))'
  PROVE  Over(k)'
<1>1. Trusted(k)' => Trusted(k)
  BY OnlyNowBack, TaskFacts DEF Trusted
<1> QED
  BY <1>1 DEF Over, Trusted, Gone

LEMMA DroneOver ==
  ASSUME TypeOK, CallsInOrder, OverIsOver, Drone
  PROVE  OverIsOver'
<1>1. UNCHANGED <<status, aborted, agent, phase, life, calls>> /\ Next
  BY DEF Next, Drone, WritePid, Finish, Die, Kill, Spawn, Scan, FirstRead, SecondRead, dbVars, memoryVars
<1>2. execute'[life] \subseteq execute[life]
  <2>1. ASSUME NEW l \in Lives, NEW t \in Tasks, Spawn(l, t) PROVE execute'[life] \subseteq execute[life]
    BY <2>1 DEF Spawn, TypeOK
  <2>2. ASSUME NEW p \in Procs, WritePid(p) \/ Finish(p) \/ Die(p) PROVE UNCHANGED execute
    BY <2>2 DEF WritePid, Finish, Die
  <2>3. ASSUME NEW l \in Lives, Kill(l) PROVE UNCHANGED execute
    BY <2>3 DEF Kill
  <2>4. Scan \/ FirstRead \/ SecondRead => UNCHANGED execute
    BY DEF Scan, FirstRead, SecondRead, droneVars
  <2> QED
    BY <2>1, <2>2, <2>3, <2>4 DEF Drone
<1>3. ASSUME NEW t \in Tasks, Gone(t) PROVE Gone(t)'
  BY <1>1, <1>2, <1>3, LiveStays DEF Gone
<1> QED
  BY <1>1, <1>3, OverSame, TaskFacts DEF OverIsOver

\* The agent of job j has done its step.
LEMMA HandleOver ==
  ASSUME TypeOK, CallsInOrder, StartedOnce, PidfilesTrue, ScanComplete, OverIsOver, PidfilesFresh,
         NEW j \in Jobs, Handle(j)
  PROVE  OverIsOver'
<1>1. /\ phase = "agents" /\ UNCHANGED <<proc, execute, life, phase>> /\ Once(j) /\ Over(j)
      /\ \A k \in Jobs : aborted[k] => aborted'[k]
  BY DEF Handle, droneVars, StartedOnce, OverIsOver, Postpone, StartAutoserv, PollAutoserv, Throttle,
         NoResults, StartParse, PollParse, TimeOut, dbVars
<1>2. Next
  BY DEF Next, Dispatcher
<1>3. ASSUME NEW u, calls' \subseteq calls \cup {u}, NEW t, t # u PROVE Gone(t) => Gone(t)'
  BY <1>1, <1>3 DEF Gone
<1>4. ASSUME \A k \in Jobs : k # j => status'[k] = status[k] /\ agent'[k] = agent[k],
             calls' \subseteq calls \cup {Autoserv(j)} \/ calls' \subseteq calls \cup {Parse(j)},
             Over(j)'
      PROVE  OverIsOver'
  <2> SUFFICES ASSUME NEW k \in Jobs, k # j PROVE Over(k)'
    BY <1>4 DEF OverIsOver
  <2>1. Gone(Autoserv(k)) => Gone(Autoserv(k))'
    BY <1>3, <1>4, TaskFacts
  <2> QED
    BY <1>1, <1>2, <1>4, <2>1, OverSame DEF OverIsOver
<1>5. ASSUME status[j] = "Parsing", calls' \subseteq calls \cup {Parse(j)} PROVE Over(j)'
  <2>1. Gone(Autoserv(j)) => Gone(Autoserv(j))'
    BY <1>3, <1>5, TaskFacts
  <2> QED
    BY <1>1, <1>2, <1>5, <2>1, OverSame
<1>6. CASE Postpone(j)
  <2>1. UNCHANGED <<status, agent, calls>>
    BY <1>6 DEF Postpone, dbVars, memoryVars
  <2>2. Gone(Autoserv(j)) => Gone(Autoserv(j))'
    BY <1>1, <2>1 DEF Gone
  <2>3. Over(j)'
    BY <1>1, <1>2, <2>1, <2>2, OverSame
  <2> QED
    BY <1>4, <2>1, <2>3
<1>7. CASE StartAutoserv(j)
  <2>1. calls' = calls \cup {Autoserv(j)} /\ Unstarted(Autoserv(j))
    BY <1>1, <1>7, StartsUnstarted DEF StartAutoserv
  <2>2. CASE HasExited(Autoserv(j))
    <3>1. ~Trusted(j)
      BY <1>1, <2>1, <2>2, SeenOver, TaskFacts DEF Unstarted, Trusted
    <3>2. Over(j)'
      BY <1>1, <1>2, <3>1, OverKept
    <3> QED
      BY <1>4, <1>7, <2>1, <2>2, <3>2, Ends DEF StartAutoserv
  <2>3. CASE ~HasExited(Autoserv(j))
    <3>1. /\ status' = [status EXCEPT ![j] = "Running"]
          /\ agent' = [agent EXCEPT ![j] = "watching"]
      BY <1>7, <2>3 DEF StartAutoserv
    <3>2. Over(j)'
      BY <3>1 DEF Over, TypeOK, Ended
    <3> QED
      BY <1>4, <2>1, <3>1, <3>2 DEF TypeOK
  <2> QED
    BY <2>2, <2>3
<1>8. CASE PollAutoserv(j)
  <2>1. UNCHANGED calls
    BY <1>8 DEF PollAutoserv
  <2>2. Gone(Autoserv(j)) => Gone(Autoserv(j))'
    BY <1>1, <2>1 DEF Gone
  <2>3. CASE FinishAutoserv(j) /\ HasExited(Autoserv(j))
    <3>1. Over(j)'
      BY <1>1, <1>2, <2>2, <2>3, SeenOver, OverKept, TaskFacts DEF Trusted
    <3> QED
      BY <1>4, <2>1, <2>3, <3>1, Ends
  <2>4. CASE FinishAutoserv(j) /\ agent[j] = "lost"
    <3>1. Over(j)'
      BY <1>1, <1>2, <2>2, <2>4, OverSame
    <3> QED
      BY <1>4, <2>1, <2>4, <3>1, Ends
  <2>5. CASE agent' = [agent EXCEPT ![j] = "watching"] /\ UNCHANGED status
    <3>1. agent'[j] = "watching" /\ \A k \in Jobs : k # j => agent'[k] = agent[k]
      BY <2>5 DEF TypeOK
    <3>2. Over(j)'
      BY <1>1, <1>2, <2>2, <2>5, <3>1, OverSame
    <3> QED
      BY <1>4, <2>1, <2>5, <3>1, <3>2
  <2> QED
    BY <1>8, <2>3, <2>4, <2>5 DEF PollAutoserv
<1>9. CASE Throttle(j)
  BY <1>4, <1>5, <1>9 DEF Throttle, TypeOK, dbVars
<1>10. CASE NoResults(j)
  BY <1>4, <1>5, <1>10, Ends DEF NoResults
<1>11. CASE StartParse(j)
  <2>1. calls' \subseteq calls \cup {Parse(j)} /\ status[j] = "Parsing"
    BY <1>11 DEF StartParse
  <2>2. \A k \in Jobs : k # j => status'[k] = status[k] /\ agent'[k] = agent[k]
    BY <1>11, Ends DEF StartParse, TypeOK
  <2> QED
    BY <1>4, <1>5, <2>1, <2>2
<1>12. CASE PollParse(j)
  <2>1. UNCHANGED calls /\ status[j] = "Parsing"
    BY <1>12 DEF PollParse
  <2>2. \A k \in Jobs : k # j => status'[k] = status[k] /\ agent'[k] = agent[k]
    BY <1>12, Ends DEF PollParse, TypeOK
  <2> QED
    BY <1>4, <1>5, <2>1, <2>2
<1>13. CASE TimeOut(j)
  <2>1. UNCHANGED calls
    BY <1>13 DEF TimeOut
  <2>2. CASE status[j] = "Parsing" /\ FinishParse(j, 1)
    BY <1>4, <1>5, <2>1, <2>2, Ends
  <2>3. CASE status[j] # "Parsing" /\ FinishAutoserv(j)
    <3>1. Autoserv(j) \in Slow \/ NoPidComes(Autoserv(j))
      BY <1>13, <2>3 DEF TimeOut, Task
    <3>2. Trusted(j) => Gone(Autoserv(j))
      <4>1. CASE Unstarted(Autoserv(j))
        BY <4>1 DEF Unstarted, Gone, Alive
      <4>2. CASE ~Unstarted(Autoserv(j))
        <5>1. age[Autoserv(j)] # None
          BY <1>13, <2>3, <4>2 DEF TimeOut, Monitors, Tended, PidfilesFresh, Fresh, Task
        <5> QED
          BY <3>1, <5>1, TaskFacts DEF NoPidComes, Trusted, Gone, PidfilesTrue, Alive, TypeOK
      <4> QED
        BY <4>1, <4>2
    <3>3. Gone(Autoserv(j)) => Gone(Autoserv(j))'
      BY <1>1, <2>1 DEF Gone
    <3>4. Over(j)'
      BY <1>1, <1>2, <3>2, <3>3, OverKept
    <3> QED
      BY <1>4, <2>1, <2>3, <3>4, Ends
  <2> QED
    BY <1>13, <2>2, <2>3 DEF TimeOut
<1> QED
  BY <1>6, <1>7, <1>8, <1>9, <1>10, <1>11, <1>12, <1>13 DEF Handle

LEMMA DispatcherOver ==
  ASSUME DroneInv, Dispatcher \/ Crash \/ \E j \in Jobs : RequestAbort(j)
  PROVE  OverIsOver'
<1> USE DEF dbVars, droneVars, viewVars, memoryVars
<1>0. /\ TypeOK /\ CallsInOrder /\ StartedOnce /\ PidfilesTrue /\ ScanComplete /\ AbortsAsked /\ OverIsOver
      /\ PidfilesFresh /\ Next
  BY DEF DroneInv, Next
<1>1. ASSUME UNCHANGED <<proc, life>>, calls' \cup execute'[life] \subseteq calls \cup execute[life], NEW t
      PROVE  Gone(t) => Gone(t)'
  BY <1>1 DEF Gone
<1>2. CASE BeginTick
  <2> SUFFICES ASSUME NEW k \in Jobs PROVE Over(k)'
    BY DEF OverIsOver
  <2>1. UNCHANGED <<proc, life, calls, execute, aborted>>
    BY <1>2 DEF BeginTick
  <2>2. status'[k] \in {status[k], "Starting"} /\ agent'[k] \in {agent[k], "new"}
    BY <1>0, <1>2 DEF BeginTick, TypeOK
  <2>3. status'[k] \in {"Parsing"} \cup Ended \/ agent'[k] = "lost"
            => status[k] \in {"Parsing"} \cup Ended \/ agent[k] = "lost"
    BY <2>2 DEF Ended
  <2> QED
    BY <1>0, <1>1, <2>1, <2>3, OverSame DEF OverIsOver
<1>3. CASE SyncRefresh \/ BeginAgents \/ ExecuteActions \/ SyncRecovery \/ Recovered
  <2>1. /\ UNCHANGED <<status, aborted, agent, proc, life>>
        /\ calls' \cup execute'[life] \subseteq calls \cup execute[life]
    BY <1>0, <1>3 DEF SyncRefresh, BeginAgents, ExecuteActions, SyncRecovery, Recovered, TypeOK
  <2> QED
    BY <1>0, <1>1, <2>1, OverSame DEF OverIsOver
<1>4. CASE Restart
  <2>1. life' \in Lives /\ life' > life /\ UNCHANGED <<proc, execute, calls>> /\ calls = {}
    BY <1>0, <1>4, LifeFacts DEF Restart, CallsInOrder, TypeOK
  <2>2. \A t \in Tasks : Gone(t)'
    BY <1>0, <2>1 DEF Gone, CallsInOrder, Alive
  <2> QED
    BY <2>2, TaskFacts DEF OverIsOver, Over, Gone
<1>5. ASSUME NEW j \in Jobs, Abort(j) PROVE OverIsOver'
  <2> SUFFICES ASSUME NEW k \in Jobs PROVE Over(k)'
    BY DEF OverIsOver
  <2>1. aborted[j] /\ UNCHANGED <<proc, life, calls, execute, aborted>>
    BY <1>0, <1>5 DEF Abort, AbortsAsked
  <2>2. CASE k = j
    BY <2>1, <2>2 DEF Over
  <2>3. CASE k # j
    <3>1. status'[k] = status[k] /\ agent'[k] = agent[k]
      BY <1>0, <1>5, <2>3, Ends DEF Abort
    <3> QED
      BY <1>0, <1>1, <2>1, <3>1, OverSame DEF OverIsOver
  <2> QED
    BY <2>2, <2>3
<1>6. ASSUME NEW j \in Jobs, Recover(j) PROVE OverIsOver'
  <2> SUFFICES ASSUME NEW k \in Jobs PROVE Over(k)'
    BY DEF OverIsOver
  <2>1. phase = "recover" /\ Over(k) /\ UNCHANGED <<proc, life, calls, execute, aborted>>
    BY <1>0, <1>6 DEF Recover, OverIsOver
  <2>2. \A t : Gone(t) => Gone(t)'
    BY <1>1, <2>1
  <2>3. CASE k = j
    <3>1. CASE status[j] = "Parsing"
      BY <1>0, <2>1, <2>2, <2>3, <3>1, OverSame
    <3>2. CASE status[j] # "Parsing"
      <4>1. UNCHANGED status /\ Task(j) = Autoserv(j)
        BY <1>6, <3>2 DEF Recover, Task
      <4>2. agent'[j] = "lost" => Look(Autoserv(j)) = "lost"
        BY <1>0, <1>6, <3>2, <4>1 DEF Recover, TypeOK
      <4>3. agent'[j] = "lost" => HasExited(Autoserv(j))
        BY <4>2 DEF HasExited
      <4>4. CASE agent'[j] = "lost"
        BY <1>0, <2>1, <2>2, <2>3, <4>3, <4>4, SeenOver, OverKept, TaskFacts DEF Trusted
      <4>5. CASE agent'[j] # "lost"
        BY <1>0, <2>1, <2>2, <2>3, <4>1, <4>5, OverSame
      <4> QED
        BY <4>4, <4>5
    <3> QED
      BY <3>1, <3>2
  <2>4. CASE k # j
    <3>1. status'[k] = status[k] /\ agent'[k] = agent[k]
      BY <1>0, <1>6, <2>4, Ends DEF Recover, TypeOK
    <3> QED
      BY <1>0, <2>1, <2>2, <3>1, OverSame
  <2> QED
    BY <2>3, <2>4
<1>7. CASE Crash
  <2>1. /\ UNCHANGED <<status, aborted, proc, life>> /\ \A k \in Jobs : agent'[k] = "none"
        /\ calls' \cup execute'[life] \subseteq calls \cup execute[life]
    BY <1>0, <1>7 DEF Crash, TypeOK
  <2> QED
    BY <1>0, <1>1, <2>1, OverSame DEF OverIsOver
<1>8. ASSUME NEW j \in Jobs, RequestAbort(j) PROVE OverIsOver'
  <2>1. /\ UNCHANGED <<status, agent, proc, life, calls, execute>>
        /\ \A k \in Jobs : aborted[k] => aborted'[k]
    BY <1>0, <1>8 DEF RequestAbort, TypeOK
  <2> QED
    BY <1>0, <1>1, <2>1, OverSame DEF OverIsOver
<1>9. ASSUME NEW j \in Jobs, Handle(j) PROVE OverIsOver'
  BY <1>0, <1>9, HandleOver
<1> QED
  BY <1>2, <1>3, <1>4, <1>5, <1>6, <1>7, <1>8, <1>9 DEF Dispatcher

-----------------------------------------------------------------------------
(* The pidfile of a monitor is registered.                                 *)

\* A job the step is not about: its task is the same, and so is the age of its pidfile.
LEMMA FreshSame ==
  ASSUME NEW k \in Jobs, Fresh(k), UNCHANGED phase, k \in todo => k \in todo',
         status'[k] = status[k], agent'[k] = agent[k], age'[Task(k)] = age[Task(k)],
         Unstarted(Autoserv(k)) => Unstarted(Autoserv(k))'
  PROVE  Fresh(k)'
<1>1. Task(k)' = Task(k) /\ (Tended(k)' => Tended(k))
  BY DEF Task, Tended
<1> QED
  BY <1>1 DEF Fresh

\* A job whose monitor is gone, or has just looked at its pidfile.
LEMMA FreshLooked ==
  ASSUME NEW k \in Jobs, phase' \notin {"restart", "recover"} \/ agent'[k] = "none" \/ age'[Task(k)'] # None,
         Tended(k)' => age'[Task(k)'] = 0, 0 # None
  PROVE  Fresh(k)'
BY DEF Fresh

\* The registrations of other jobs are left alone.
LEMMA AgesOfOthers ==
  ASSUME TypeOK, NEW j \in Jobs, NEW k \in Jobs, k # j
  PROVE  /\ Forget(j)[Task(k)] = age[Task(k)]
         /\ Register({Autoserv(j)})[Task(k)] = age[Task(k)]
         /\ Register({Autoserv(j), Parse(j)})[Task(k)] = age[Task(k)]
         /\ Touch({Autoserv(j)})[Task(k)] = age[Task(k)]
         /\ Touch({Parse(j)})[Task(k)] = age[Task(k)]
         /\ Touch({Autoserv(j), Task(j)})[Task(k)] = age[Task(k)]
<1>1. Task(k) \in Tasks /\ Task(k)[1] = k
  BY TaskFacts DEF Task
<1>2. Task(k) \notin {Autoserv(j), Parse(j), Task(j)}
  BY TaskFacts DEF Task
<1> QED
  BY <1>1, <1>2 DEF Forget, Register, Touch

LEMMA HandleFresh ==
  ASSUME TypeOK, StartedOnce, PidfilesFresh, NEW j \in Jobs, Handle(j)
  PROVE  PidfilesFresh'
<1>1. phase = "agents" /\ UNCHANGED phase /\ todo' = todo \ {j} /\ Fresh(j) /\ Once(j) /\ 0 # None
  BY DroneAssumption DEF Handle, PidfilesFresh, StartedOnce
<1>0. ASSUME NEW k \in Jobs, k # j PROVE Unstarted(Autoserv(k)) => Unstarted(Autoserv(k))'
  <2>1. UNCHANGED calls \/ calls' = calls \cup {Autoserv(j)} \/ calls' = calls \cup {Parse(j)}
    BY DEF Handle, Postpone, StartAutoserv, PollAutoserv, Throttle, NoResults, StartParse, PollParse, TimeOut, memoryVars
  <2>2. UNCHANGED <<proc, execute, life>> /\ Autoserv(k) \notin {Autoserv(j), Parse(j)}
    BY <1>0, TaskFacts DEF Handle, droneVars
  <2> QED
    BY <2>1, <2>2 DEF Unstarted
<1>2. ASSUME \A k \in Jobs : k # j => status'[k] = status[k] /\ agent'[k] = agent[k]
                                      /\ age'[Task(k)] = age[Task(k)],
             Tended(j)' => age'[Task(j)'] = 0
      PROVE  PidfilesFresh'
  <2> SUFFICES ASSUME NEW k \in Jobs PROVE Fresh(k)'
    BY DEF PidfilesFresh
  <2>1. CASE k = j
    BY <1>1, <1>2, <2>1, FreshLooked
  <2>2. CASE k # j
    BY <1>0, <1>1, <1>2, <2>2, FreshSame DEF PidfilesFresh
  <2> QED
    BY <2>1, <2>2
<1>3. ASSUME NEW n, FinishParse(j, n) PROVE PidfilesFresh'
  <2>1. age' = Forget(j) /\ agent'[j] = "none"
        /\ \A k \in Jobs : k # j => status'[k] = status[k] /\ agent'[k] = agent[k]
    BY <1>3, Ends
  <2>2. \A k \in Jobs : k # j => age'[Task(k)] = age[Task(k)]
    BY <2>1, AgesOfOthers
  <2> QED
    BY <1>2, <2>1, <2>2 DEF Tended, Monitors
<1>4. ASSUME FinishAutoserv(j), age' \in {age, Register({Autoserv(j)}), Touch({Autoserv(j)})} PROVE PidfilesFresh'
  <2>1. agent'[j] = "none"
        /\ \A k \in Jobs : k # j => status'[k] = status[k] /\ agent'[k] = agent[k]
    BY <1>4, Ends
  <2>2. \A k \in Jobs : k # j => age'[Task(k)] = age[Task(k)]
    BY <1>4, AgesOfOthers
  <2> QED
    BY <1>2, <2>1, <2>2 DEF Tended, Monitors
<1>5. CASE Postpone(j)
  <2>1. UNCHANGED <<status, agent, age, calls, proc, execute, life>>
    BY <1>5 DEF Postpone, Handle, dbVars, memoryVars, droneVars
  <2>2. Unstarted(Autoserv(j)) /\ status[j] # "Parsing"
    BY <1>1, <1>5 DEF Postpone, Once
  <2>3. ~Tended(j)'
    BY <2>1, <2>2 DEF Tended, Unstarted
  <2> QED
    BY <1>2, <2>1, <2>3
<1>6. CASE StartAutoserv(j)
  <2>1. age' = Register({Autoserv(j)})
    BY <1>6 DEF StartAutoserv
  <2>2. CASE FinishAutoserv(j)
    BY <1>4, <2>1, <2>2
  <2>3. CASE /\ status' = [status EXCEPT ![j] = "Running"]
             /\ agent' = [agent EXCEPT ![j] = "watching"]
    <3>1. Task(j)' = Autoserv(j) /\ age'[Autoserv(j)] = 0
      BY <2>1, <2>3, TaskFacts DEF Task, Register, TypeOK
    <3>2. \A k \in Jobs : k # j => status'[k] = status[k] /\ agent'[k] = agent[k]
      BY <2>3 DEF TypeOK
    <3> QED
      BY <1>2, <2>1, <3>1, <3>2, AgesOfOthers
  <2> QED
    BY <1>6, <2>2, <2>3 DEF StartAutoserv
<1>7. CASE PollAutoserv(j)
  <2>1. /\ age' \in {age, Touch({Autoserv(j)})} /\ Task(j) = Autoserv(j) /\ agent[j] \in Monitors
        /\ UNCHANGED <<calls, proc, execute, life>>
    BY <1>7 DEF PollAutoserv, Task, Handle, droneVars
  <2>2. CASE FinishAutoserv(j)
    BY <1>4, <2>1, <2>2
  <2>3. CASE /\ agent' = [agent EXCEPT ![j] = "watching"] /\ UNCHANGED status /\ status[j] = "Running"
             /\ age' = Touch({Autoserv(j)})
    <3>1. Task(j)' = Autoserv(j) /\ (Tended(j)' => Tended(j))
      BY <2>1, <2>3 DEF Task, Tended, Unstarted
    <3>2. Tended(j)' => age'[Autoserv(j)] = 0
      BY <1>1, <2>1, <2>3, <3>1, TaskFacts DEF Touch, Fresh
    <3>3. \A k \in Jobs : k # j => status'[k] = status[k] /\ agent'[k] = agent[k]
      BY <2>3 DEF TypeOK
    <3> QED
      BY <1>2, <2>3, <3>1, <3>2, <3>3, AgesOfOthers
  <2> QED
    BY <1>7, <2>2, <2>3 DEF PollAutoserv
<1>8. CASE Throttle(j)
  <2>1. /\ UNCHANGED status /\ agent' = [agent EXCEPT ![j] = "throttled"]
        /\ age' \in {age, Register({Autoserv(j), Parse(j)})}
    BY <1>8 DEF Throttle, dbVars
  <2>2. ~Tended(j)'
    BY <2>1 DEF Tended, Monitors, TypeOK
  <2> QED
    BY <1>2, <2>1, <2>2, AgesOfOthers DEF TypeOK
<1>9. CASE NoResults(j)
  BY <1>3, <1>9 DEF NoResults
<1>10. CASE StartParse(j)
  <2>1. CASE FinishParse(j, 0)
    BY <1>3, <2>1
  <2>2. CASE ~FinishParse(j, 0)
    <3>1. /\ UNCHANGED status /\ agent' = [agent EXCEPT ![j] = "watching"] /\ status[j] = "Parsing"
          /\ age' = Register({Autoserv(j), Parse(j)})
      BY <1>10, <2>2 DEF StartParse
    <3>2. Task(j)' = Parse(j) /\ age'[Parse(j)] = 0
      BY <3>1, TaskFacts DEF Task, Register
    <3> QED
      BY <1>2, <3>1, <3>2, AgesOfOthers DEF TypeOK
  <2> QED
    BY <2>1, <2>2
<1>11. CASE PollParse(j)
  <2>1. CASE FinishParse(j, 1)
    BY <1>3, <2>1
  <2>2. CASE ~FinishParse(j, 1)
    <3>1. /\ UNCHANGED status /\ agent' = [agent EXCEPT ![j] = "watching"] /\ age' = Touch({Parse(j)})
          /\ agent[j] \in Monitors /\ status[j] = "Parsing"
      BY <1>11, <2>2 DEF PollParse
    <3>2. Task(j) = Parse(j) /\ Task(j)' = Parse(j)
      BY <3>1 DEF Task
    <3>3. age'[Parse(j)] = 0
      BY <1>1, <3>1, <3>2, TaskFacts DEF Touch, Fresh, Tended
    <3>4. \A k \in Jobs : k # j => agent'[k] = agent[k]
      BY <3>1 DEF TypeOK
    <3> QED
      BY <1>2, <3>1, <3>2, <3>3, <3>4, AgesOfOthers
  <2> QED
    BY <2>1, <2>2
<1>12. CASE TimeOut(j)
  BY <1>3, <1>4, <1>12 DEF TimeOut
<1> QED
  BY <1>5, <1>6, <1>7, <1>8, <1>9, <1>10, <1>11, <1>12 DEF Handle

\* Every job the tick has to look at has been looked at, or keeps its age.
LEMMA NextFresh ==
  ASSUME TypeOK, CallsInOrder, StartedOnce, PidfilesFresh, Next
  PROVE  PidfilesFresh'
<1> USE DEF dbVars, droneVars, viewVars, memoryVars
<1>0. 0 # None /\ 1 # None /\ MaxPidfileRefreshes \in Nat
  BY DroneAssumption
<1>1. CASE Drone \/ \E j \in Jobs : RequestAbort(j)
  <2>1. UNCHANGED <<status, agent, age, phase, todo>>
    BY <1>1 DEF Drone, WritePid, Finish, Die, Kill, Spawn, Scan, FirstRead, SecondRead, RequestAbort
  <2>2. ASSUME NEW k \in Jobs, Unstarted(Autoserv(k)) PROVE Unstarted(Autoserv(k))'
    <3>1. CASE Drone
      BY <2>2, <3>1, DroneUnstarted, TaskFacts
    <3>2. CASE \E j \in Jobs : RequestAbort(j)
      BY <2>2, <3>2 DEF RequestAbort, Unstarted
    <3> QED
      BY <1>1, <3>1, <3>2
  <2> QED
    BY <2>1, <2>2, FreshSame DEF PidfilesFresh
<1>2. CASE BeginTick
  <2> SUFFICES ASSUME NEW k \in Jobs, Tended(k)' PROVE age'[Task(k)'] # None
    BY <1>2 DEF PidfilesFresh, Fresh, BeginTick
  <2>1. Fresh(k) /\ phase = "execute" /\ StartRefresh(age)
    BY <1>2 DEF PidfilesFresh, BeginTick
  <2>2. agent'[k] \in {agent[k], "new"} /\ (status'[k] = "Parsing" <=> status[k] = "Parsing")
    BY <1>2 DEF BeginTick, TypeOK
  <2>3. Tended(k)
    BY <1>2, <2>2 DEF Tended, Unstarted, Monitors, BeginTick
  <2>4. Task(k)' = Task(k) /\ Task(k) \in Tasks /\ age[Task(k)] = 0
    BY <2>1, <2>2, <2>3, TaskFacts DEF Fresh, Task
  <2> QED
    BY <1>0, <2>1, <2>4 DEF StartRefresh
<1>3. CASE SyncRefresh \/ BeginAgents
  <2>1. /\ UNCHANGED <<status, agent, age>>
        /\ \/ phase' = "aborting"
           \/ phase' = "agents" /\ todo' = {j \in Jobs : agent[j] # "none"}
    BY <1>3 DEF SyncRefresh, BeginAgents
  <2>2. \A k \in Jobs : Task(k)' = Task(k) /\ (Tended(k)' <=> Tended(k)) /\ (Tended(k) => agent[k] # "none")
    BY <1>3 DEF SyncRefresh, BeginAgents, Tended, Task, Unstarted, Monitors
  <2> QED
    BY <2>1, <2>2 DEF PidfilesFresh, Fresh
<1>4. CASE ExecuteActions \/ Recovered
  <2>1. /\ UNCHANGED <<status, agent, age>> /\ phase \in {"agents", "recover"} /\ todo = {}
        /\ phase' = "execute"
    BY <1>4 DEF ExecuteActions, Recovered
  <2>2. \A t : Unstarted(t) => Unstarted(t)'
    <3>1. CASE ExecuteActions
      BY <3>1 DEF ExecuteActions, Unstarted, TypeOK
    <3>2. CASE Recovered
      BY <3>2 DEF Recovered, Unstarted
    <3> QED
      BY <1>4, <3>1, <3>2
  <2>3. \A k \in Jobs : Task(k)' = Task(k) /\ (Tended(k)' => Tended(k))
    BY <2>1, <2>2 DEF Tended, Task
  <2> QED
    BY <2>1, <2>3 DEF PidfilesFresh, Fresh
<1>5. CASE Restart
  <2> SUFFICES ASSUME NEW k \in Jobs, agent'[k] # "none" PROVE age'[Task(k)'] # None
    BY <1>5 DEF PidfilesFresh, Fresh, Restart, Tended, Monitors
  <2> DEFINE pidfiles == {t \in Tasks : /\ t[1] \in {j \in Jobs : status[j] \in {"Starting", "Running", "Parsing"}}
                                        /\ t[2] = "parse" => status[t[1]] = "Parsing"}
  <2>1. UNCHANGED status /\ StartRefresh(Register(pidfiles)) /\ status[k] \in {"Starting", "Running", "Parsing"}
    BY <1>5 DEF Restart
  <2>2. Task(k)' = Task(k) /\ Task(k) \in Tasks /\ Task(k) \in pidfiles
    BY <2>1, TaskFacts DEF Task
  <2>3. Register(pidfiles)[Task(k)] = 0
    BY <2>2 DEF Register
  <2> HIDE DEF pidfiles
  <2> QED
    BY <1>0, <2>1, <2>2, <2>3 DEF StartRefresh
<1>6. CASE SyncRecovery
  <2>1. UNCHANGED <<status, agent, age>> /\ phase = "restart" /\ phase' = "recover"
        /\ todo' = {j \in Jobs : agent[j] # "none"}
    BY <1>6 DEF SyncRecovery
  <2>2. \A k \in Jobs : Task(k)' = Task(k) /\ (Tended(k)' <=> Tended(k)) /\ (Tended(k) => agent[k] # "none")
    BY <1>6 DEF SyncRecovery, Tended, Task, Unstarted, Monitors
  <2> QED
    BY <2>1, <2>2 DEF PidfilesFresh, Fresh
<1>7. ASSUME NEW j \in Jobs, Abort(j) PROVE PidfilesFresh'
  <2> SUFFICES ASSUME NEW k \in Jobs PROVE Fresh(k)'
    BY DEF PidfilesFresh
  <2>1. Fresh(k) /\ phase = "aborting" /\ UNCHANGED phase
    BY <1>7 DEF Abort, PidfilesFresh
  <2>0. \A t : Unstarted(t) => Unstarted(t)'
    BY <1>7 DEF Abort, Unstarted
  <2>2. CASE UNCHANGED <<status, agent, age>>
    <3>1. Task(k)' = Task(k) /\ (Tended(k)' => Tended(k))
      BY <2>0, <2>2 DEF Task, Tended
    <3> QED
      BY <2>1, <2>2, <3>1 DEF Fresh
  <2>3. CASE /\ agent'[j] = "none" /\ \A i \in Jobs : i # j => status'[i] = status[i] /\ agent'[i] = agent[i]
             /\ age' \in {age, Forget(j), Touch({Autoserv(j)})}
    <3>1. CASE k = j
      BY <2>1, <2>3, <3>1 DEF Fresh, Tended, Monitors
    <3>2. CASE k # j
      <4>1. age'[Task(k)] = age[Task(k)]
        BY <2>3, <3>2, AgesOfOthers
      <4>2. Task(k)' = Task(k) /\ (Tended(k)' => Tended(k))
        BY <2>0, <2>3, <3>2 DEF Task, Tended
      <4> QED
        BY <2>1, <2>3, <3>2, <4>1, <4>2 DEF Fresh
    <3> QED
      BY <3>1, <3>2
  <2> QED
    <3>1. CASE status[j] = "Parsing" /\ UNCHANGED <<status, agent, age, kills>>
      BY <2>2, <3>1
    <3>2. CASE End(j, "Aborted")
      BY <2>3, <3>2, Ends
    <3>3. CASE FinishAutoserv(j) /\ age' \in {age, Touch({Autoserv(j)})}
      BY <2>3, <3>3, Ends
    <3> QED
      BY <1>7, <3>1, <3>2, <3>3 DEF Abort
<1>8. ASSUME NEW j \in Jobs, Recover(j) PROVE PidfilesFresh'
  <2> SUFFICES ASSUME NEW k \in Jobs PROVE Fresh(k)'
    BY DEF PidfilesFresh
  <2>1. /\ Fresh(k) /\ Fresh(j) /\ Once(j) /\ phase = "recover" /\ UNCHANGED phase
        /\ j \in todo /\ todo' = todo \ {j}
    BY <1>8 DEF Recover, PidfilesFresh, StartedOnce
  <2>0. \A t : Unstarted(t) => Unstarted(t)'
    BY <1>8 DEF Recover, Unstarted
  <2>2. CASE k = j
    <3>1. CASE FinishParse(j, 0)
      BY <1>0, <2>2, <3>1, Ends, FreshLooked DEF Tended, Monitors
    <3>2. CASE ~FinishParse(j, 0)
      <4>1. age' = Touch({Autoserv(j), Task(j)}) /\ UNCHANGED status
        BY <1>8, <3>2 DEF Recover
      <4>2. Task(j)' = Task(j) /\ Task(j) \in Tasks
        BY <4>1, TaskFacts DEF Task
      <4>3. age[Task(j)] # None
        BY <2>1 DEF Fresh, Once
      <4>4. age'[Task(j)] = 0
        BY <4>1, <4>2, <4>3 DEF Touch
      <4> QED
        BY <1>0, <2>2, <4>2, <4>4, FreshLooked
    <3> QED
      BY <3>1, <3>2
  <2>3. CASE k # j
    <3>1. /\ status'[k] = status[k] /\ agent'[k] = agent[k]
          /\ age' \in {Forget(j), Touch({Autoserv(j), Task(j)})}
      BY <1>8, <2>3, Ends DEF Recover, TypeOK
    <3> QED
      BY <2>0, <2>1, <2>3, <3>1, AgesOfOthers, FreshSame
  <2> QED
    BY <2>2, <2>3
<1>9. CASE Crash
  <2>1. phase' = "down" /\ \A k \in Jobs : agent'[k] = "none"
    BY <1>9 DEF Crash
  <2> QED
    BY <2>1 DEF PidfilesFresh, Fresh, Tended, Monitors
<1>10. ASSUME NEW j \in Jobs, Handle(j) PROVE PidfilesFresh'
  BY <1>10, HandleFresh
<1> QED
  BY <1>1, <1>2, <1>3, <1>4, <1>5, <1>6, <1>7, <1>8, <1>9, <1>10 DEF Next, Dispatcher

-----------------------------------------------------------------------------
(* The theorems.                                                           *)

\* The dispatcher is about to start; nothing has been read or sent.
LEMMA InitInv == Init => DroneInv
<1> SUFFICES ASSUME Init PROVE DroneInv
  OBVIOUS
<1>0. TypeOK
  BY InitType
<1>p. PICK load \in Loads, alive \in SUBSET Jobs :
      /\ alive \subseteq load.left
      /\ status = [j \in Jobs |-> CASE j \in load.run -> "Queued"
                                    [] j \in load.left \ load.run -> "Running"
                                    [] j \in load.parse \ (load.run \cup load.left) -> "Parsing"
                                    [] OTHER -> "Aborted"]
      /\ proc = [p \in Procs |-> IF p[1][2] = "autoserv" /\ p[2] = 0 THEN Left(p[1][1], alive) ELSE "none"]
      /\ life = load.starts
  BY DEF Init
<1>1. life \in 0..(MaxStarts - 1) /\ 0 \in Lives /\ life < MaxStarts
  BY <1>p, DroneAssumption DEF Lives
<1>2. \A t \in Tasks, l \in Lives :
         /\ proc[<<t, l>>] \in {"none", "logged", "passed"}
         /\ proc[<<t, l>>] = "passed" => status[t[1]] = "Parsing" /\ t[2] = "autoserv" /\ l = 0
         /\ proc[<<t, l>>] = "logged" => status[t[1]] = "Running" /\ t[2] = "autoserv" /\ l = 0
  BY <1>p, ProcFacts DEF Left
<1>3. \A j \in Jobs : status[j] \in {"Queued", "Running", "Parsing", "Aborted"}
  BY <1>p
<1>4. CallsInOrder
  <2>1. \A l \in Lives : l > life => l # 0
    BY <1>1, LifeFacts
  <2> QED
    BY <1>1, <1>2, <2>1 DEF Init, CallsInOrder
<1>5. StartedOnce
  <2> SUFFICES ASSUME NEW j \in Jobs PROVE Once(j)
    BY DEF StartedOnce
  <2>1. life \in Lives /\ calls = {} /\ execute[life] = {} /\ phase = "down" /\ agent[j] = "none"
    BY <1>0 DEF Init, TypeOK
  <2>2. /\ status[j] \notin {"Running", "Parsing"} => Unstarted(Autoserv(j))
        /\ Unstarted(Parse(j))
    <3>1. proc[<<Parse(j), life>>] = "none"
      BY <1>2, <2>1, TaskFacts
    <3>2. status[j] \notin {"Running", "Parsing"} => proc[<<Autoserv(j), life>>] = "none"
      BY <1>2, <2>1, TaskFacts
    <3> QED
      BY <2>1, <3>1, <3>2 DEF Unstarted
  <2> QED
    BY <2>1, <2>2 DEF Once
<1>6. PidfilesTrue
  <2>1. ASSUME NEW t \in Tasks
        PROVE  /\ file[t] = CASE proc[<<t, 0>>] = "passed" -> [pid |-> 0, code |-> "passed"]
                               [] proc[<<t, 0>>] = "logged" -> [pid |-> 0, code |-> None]
                               [] OTHER -> NoFile
               /\ first[t] = NoFile /\ second[t] = NoFile /\ life \in Lives
    BY <1>0, ContentsFacts DEF Init, TypeOK
  <2>2. ASSUME NEW t \in Tasks PROVE True(file[t], t)
    <3>1. CASE proc[<<t, 0>>] = "passed"
      <4>1. file[t].pid = 0 /\ file[t].code = "passed"
        BY <2>1, <3>1
      <4> QED
        BY <1>1, <3>1, <4>1 DEF True
    <3>2. CASE proc[<<t, 0>>] = "logged"
      <4>1. file[t].pid = 0 /\ file[t].code = None
        BY <2>1, <3>2
      <4> QED
        BY <1>1, <3>2, <4>1 DEF True
    <3>3. CASE proc[<<t, 0>>] \notin {"passed", "logged"}
      BY <2>1, <3>3, NoFileTrue
    <3> QED
      BY <3>1, <3>2, <3>3
  <2>3. \A t \in Tasks : True(first[t], t) /\ True(second[t], t)
    BY <2>1, NoFileTrue
  <2>4. \A t \in Tasks : proc[<<t, life>>] = "logged" => file[t].pid # None
    <3>1. 0 # None
      BY DroneAssumption
    <3>2. ASSUME NEW t \in Tasks, proc[<<t, life>>] = "logged" PROVE file[t].pid # None
      <4>1. life = 0 /\ proc[<<t, 0>>] = "logged"
        BY <1>2, <2>1, <3>2
      <4> QED
        BY <2>1, <3>1, <4>1
    <3> QED
      BY <3>2
  <2> QED
    BY <2>2, <2>3, <2>4 DEF PidfilesTrue
<1>7. ScanComplete /\ AbortsAsked
  BY DEF Init, ScanComplete, AbortsAsked
<1>8. OverIsOver
  <2> SUFFICES ASSUME NEW j \in Jobs, status[j] \in {"Parsing"} \cup Ended \/ agent[j] = "lost"
               PROVE  Autoserv(j) \notin calls \cup execute[life] /\ proc[<<Autoserv(j), life>>] \notin Alive
    BY DEF OverIsOver, Over
  <2>1. life \in Lives /\ calls = {} /\ execute[life] = {} /\ agent[j] = "none"
    BY <1>0 DEF Init, TypeOK
  <2>2. status[j] # "Running"
    BY <2>1 DEF Ended
  <2> QED
    BY <1>2, <2>1, <2>2, TaskFacts DEF Alive
<1>9. PidfilesFresh
  BY DEF Init, PidfilesFresh, Fresh, Tended, Monitors
<1>10. CompletedIsEarned
  BY <1>3 DEF CompletedIsEarned
<1> QED
  BY <1>0, <1>4, <1>5, <1>6, <1>7, <1>8, <1>9, <1>10 DEF DroneInv

\* Every step, and a step that changes nothing, keeps the invariant.
LEMMA StepInv == DroneInv /\ [Next]_vars => DroneInv'
<1> SUFFICES ASSUME DroneInv, [Next]_vars PROVE DroneInv'
  OBVIOUS
<1>0. /\ TypeOK /\ CallsInOrder /\ StartedOnce /\ PidfilesTrue /\ ScanComplete /\ AbortsAsked /\ OverIsOver
      /\ PidfilesFresh /\ CompletedIsEarned
  BY DEF DroneInv
<1>1. CASE Next
  <2>1. TypeOK' /\ CallsInOrder' /\ StartedOnce' /\ OverIsOver'
    <3>1. CASE Drone
      BY <1>0, <3>1, DroneType, DroneCalls, DroneOnce, DroneOver
    <3>2. CASE Dispatcher \/ Crash \/ \E j \in Jobs : RequestAbort(j)
      BY <1>0, <3>2, DispatcherType, DispatcherCalls, DispatcherOnce, DispatcherOver
    <3> QED
      BY <1>1, <3>1, <3>2 DEF Next
  <2>2. PidfilesTrue' /\ ScanComplete' /\ AbortsAsked' /\ PidfilesFresh' /\ CompletedIsEarned'
    BY <1>0, <1>1, TruthStays, ScanStays, AbortsStay, NextFresh, CompletedStays
  <2> QED
    BY <2>1, <2>2 DEF DroneInv
<1>2. CASE UNCHANGED vars
  <2>1. UNCHANGED <<status, aborted, proc, file, linked, execute, kill>>
    BY <1>2 DEF vars, dbVars, droneVars
  <2>2. UNCHANGED <<refresh, scan, first, second, agent, running, age, calls, kills, life, phase, todo>>
    BY <1>2 DEF vars, viewVars, memoryVars
  <2>3. TypeOK'
    BY <1>0, <2>1, <2>2 DEF TypeOK
  <2>4. CallsInOrder' /\ StartedOnce'
    BY <1>0, <2>1, <2>2 DEF CallsInOrder, StartedOnce, Once, Unstarted
  <2>5. PidfilesTrue' /\ CompletedIsEarned'
    BY <1>0, <2>1, <2>2 DEF PidfilesTrue, True, OnlyNow, CompletedIsEarned
  <2>6. ScanComplete' /\ AbortsAsked'
    BY <1>0, <2>1, <2>2 DEF ScanComplete, AbortsAsked
  <2>7. OverIsOver' /\ PidfilesFresh'
    BY <1>0, <2>1, <2>2 DEF OverIsOver, Over, OnlyNow, PidfilesFresh, Fresh, Task, Tended, Unstarted
  <2> QED
    BY <2>3, <2>4, <2>5, <2>6, <2>7 DEF DroneInv
<1> QED
  BY <1>1, <1>2

\* The invariant of the dispatcher and its drone: what the dispatcher has sent, what the
\* pidfiles and the process list say and what the agents take them to say fit together,
\* in every interleaving of ticks, processes, late calls and restarts.  The freshness of
\* watched pidfiles is part of it, for the tasks a tick cannot pass over.
THEOREM DroneInvariant == Spec => []DroneInv
BY InitInv, StepInv, PTL DEF Spec

\* The state of the dispatcher, the drone and the pidfiles keeps its types; among them,
\* the age of a registered pidfile never exceeds max_pidfile_refreshes + 1.
THEOREM DroneTypes == Spec => []TypeOK
<1>1. DroneInv => TypeOK
  BY DEF DroneInv
<1> QED
  BY <1>1, DroneInvariant, PTL

\* _drop_old_pidfiles never drops the pidfile of a task whose agent has been ticked with
\* its monitor: every autoserv this dispatcher has started itself, and every parser.
THEOREM WatchedStaysRegistered == Spec => []WatchedIsRegistered
<1>1. DroneInv => WatchedIsRegistered
  BY DEF DroneInv, PidfilesFresh, Fresh, WatchedIsRegistered
<1> QED
  BY <1>1, DroneInvariant, PTL

\* _final_status says Completed only of a job that has an autoserv with exit status 0.
THEOREM CompletedEarned == Spec => []CompletedIsEarned
<1>1. DroneInv => CompletedIsEarned
  BY DEF DroneInv
<1> QED
  BY <1>1, DroneInvariant, PTL

\* A parser is not started over an autoserv that this dispatcher has started and
\* that still runs.
THEOREM ParsedOnlyWhenOver == Spec => []ParsedWhenOver
<1>1. DroneInv => ParsedWhenOver
  <2> SUFFICES ASSUME DroneInv, NEW j \in Jobs, Autoserv(j) \notin Slow, ~aborted[j], OnlyNow(Autoserv(j)),
                      Parse(j) \in calls \cup execute[life] \/ proc[<<Parse(j), life>>] # "none"
               PROVE  Live(Autoserv(j)) = {}
    BY DEF ParsedWhenOver
  <2>1. TypeOK /\ CallsInOrder /\ Once(j) /\ Over(j)
    BY DEF DroneInv, StartedOnce, OverIsOver
  <2>2. status[j] \in {"Parsing"} \cup Ended
    BY <2>1 DEF Once, Unstarted, TypeOK
  <2>3. proc[<<Autoserv(j), life>>] \notin Alive
    BY <2>1, <2>2 DEF Over
  <2>4. ASSUME NEW l \in Lives PROVE proc[<<Autoserv(j), l>>] \notin Alive
    <3>1. l \in Int /\ life \in Int /\ l >= 0
      BY <2>1, LifeFacts DEF TypeOK
    <3>2. l = life \/ l > life \/ l \in 0..(life - 1)
      BY <3>1
    <3> QED
      BY <2>1, <2>3, <3>2, TaskFacts DEF CallsInOrder, OnlyNow, Alive
  <2> QED
    BY <2>4 DEF Live
<1> QED
  BY <1>1, DroneInvariant, PTL

=============================================================================
