-------------------------- MODULE DroneTasks_proofs --------------------------
(***************************************************************************)
(* What the dispatcher makes of the processes it has started: its counter  *)
(* of parsers keeps them within max_parse_processes, and a job whose       *)
(* autoserv has passed fails only when its pidfile was dropped.            *)
(***************************************************************************)
EXTENDS DroneManager_proofs, FiniteSetTheorems

\* jobs whose parser an earlier dispatcher has started
Old == {j \in Jobs : ~OnlyNow(Parse(j))}

\* jobs whose parser this dispatcher has queued or started, and that runs or will
Working == {j \in Jobs : Parse(j) \notin Slow /\ ~Gone(Parse(j))}

\* jobs whose parser has a monitor: those the counter has been increased for, and
\* those it has been decreased for without
Monitored(j) == status[j] = "Parsing" /\ agent[j] \in Monitors
Counted   == {j \in Jobs : Monitored(j) /\ ~Unstarted(Parse(j))}
Uncounted == {j \in Jobs : j \in Old /\ status[j] \in Ended /\ Unstarted(Parse(j))}

\* The counter falls short of the parsers it stands for by the jobs it was decreased
\* for without having been increased.
CounterInv ==
    /\ running <= MaxParse
    /\ Cardinality(Counted) <= running + Cardinality(Uncounted)

\* A parser of this dispatcher that works has a monitor; a monitor without one, or that
\* has lost its process, was recovered.
MonitorInv ==
    /\ phase # "down" => \A j \in Working : j \in Old \/ Monitored(j)
    /\ \A j \in Jobs : Monitored(j) /\ (Unstarted(Parse(j)) \/ agent[j] = "lost") => j \in Old

\* A dead dispatcher has no agents; what it has started goes on.
DownInv ==
    /\ phase = "down" => running = 0 /\ \A j \in Jobs : agent[j] = "none"
    /\ phase = "down" => Cardinality(Working) <= MaxParse + Cardinality(Old)

LimitInv == CounterInv /\ MonitorInv /\ DownInv

-----------------------------------------------------------------------------
(* Counting.                                                               *)

\* The sets of jobs are finite.
LEMMA JobSets ==
  /\ IsFiniteSet(Old) /\ Cardinality(Old) \in Nat /\ Old \subseteq Jobs
  /\ IsFiniteSet(Working) /\ Cardinality(Working) \in Nat /\ Working \subseteq Jobs
  /\ IsFiniteSet(Counted) /\ Cardinality(Counted) \in Nat
  /\ IsFiniteSet(Uncounted) /\ Cardinality(Uncounted) \in Nat /\ Uncounted \subseteq Old
  /\ MaxParse \in Nat
<1>1. IsFiniteSet(Jobs) /\ MaxParse \in Nat
  BY DroneAssumption
<1>2. Old \in SUBSET Jobs /\ Working \in SUBSET Jobs /\ Counted \in SUBSET Jobs /\ Uncounted \in SUBSET Jobs
  BY DEF Old, Working, Counted, Uncounted
<1>3. \A S \in SUBSET Jobs : IsFiniteSet(S) /\ Cardinality(S) \in Nat
  BY <1>1, FS_Subset, FS_CardinalityType
<1> QED
  BY <1>1, <1>2, <1>3 DEF Uncounted

\* While the dispatcher lives, its counter bounds the parsers it has started.
LEMMA WorkingBound ==
  ASSUME CounterInv, MonitorInv, TypeOK, phase # "down"
  PROVE  Cardinality(Working) <= MaxParse + Cardinality(Old)
<1> DEFINE Rest == Old \ Uncounted
<1>1. Working \subseteq Counted \cup Rest
  BY DEF MonitorInv, Working, Counted, Uncounted, Gone, Unstarted, Alive
<1>2. IsFiniteSet(Rest) /\ Cardinality(Rest) = Cardinality(Old) - Cardinality(Uncounted)
  <2>1. Old \cap Uncounted = Uncounted
    BY JobSets
  <2> QED
    BY <2>1, JobSets, FS_Difference
<1>3. /\ IsFiniteSet(Counted \cup Rest)
      /\ Cardinality(Counted \cup Rest) = Cardinality(Counted) + Cardinality(Rest) - Cardinality(Counted \cap Rest)
  BY <1>2, JobSets, FS_Union
<1>4. IsFiniteSet(Counted \cap Rest)
  <2>1. Counted \cap Rest \in SUBSET Rest
    OBVIOUS
  <2> QED
    BY <1>2, <2>1, FS_Subset
<1>5. Cardinality(Counted \cap Rest) \in Nat /\ Cardinality(Rest) \in Nat
  BY <1>2, <1>4, FS_CardinalityType
<1>6. Cardinality(Working) <= Cardinality(Counted \cup Rest)
  BY <1>1, <1>3, FS_Subset
<1>7. running \in Int
  BY DEF TypeOK
<1> HIDE DEF Rest
<1> QED
  BY <1>2, <1>3, <1>5, <1>6, <1>7, JobSets DEF CounterInv

\* Parsers that end, and no job less with an old one.
LEMMA WorkShrinks ==
  ASSUME Working' \subseteq Working, Old \subseteq Old',
         Cardinality(Working) <= MaxParse + Cardinality(Old)
  PROVE  Cardinality(Working') <= MaxParse + Cardinality(Old')
<1>1. IsFiniteSet(Old') /\ Cardinality(Old') \in Nat /\ Cardinality(Working') \in Nat
  <2>1. IsFiniteSet(Jobs) /\ Old' \in SUBSET Jobs /\ Working' \in SUBSET Jobs
    BY DroneAssumption DEF Old, Working
  <2> QED
    BY <2>1, FS_Subset, FS_CardinalityType
<1>2. Cardinality(Working') <= Cardinality(Working) /\ Cardinality(Old) <= Cardinality(Old')
  BY <1>1, JobSets, FS_Subset
<1> QED
  BY <1>1, <1>2, JobSets

\* A step that leaves the counter alone and changes neither set for the worse.
LEMMA CounterSame ==
  ASSUME TypeOK, CounterInv, UNCHANGED running, Counted' \subseteq Counted, Uncounted \subseteq Uncounted',
         TypeOK'
  PROVE  CounterInv'
<1>1. IsFiniteSet(Uncounted') /\ Cardinality(Counted') \in Nat /\ Cardinality(Uncounted') \in Nat
  <2>1. IsFiniteSet(Jobs) /\ Counted' \in SUBSET Jobs /\ Uncounted' \in SUBSET Jobs
    BY DroneAssumption DEF Counted, Uncounted
  <2> QED
    BY <2>1, FS_Subset, FS_CardinalityType
<1>2. Cardinality(Counted') <= Cardinality(Counted)
  BY JobSets, FS_Subset
<1>3. Cardinality(Uncounted) <= Cardinality(Uncounted')
  BY <1>1, FS_Subset
<1>4. running \in Int /\ running' = running
  BY DEF TypeOK
<1> QED
  BY <1>1, <1>2, <1>3, <1>4, JobSets DEF CounterInv

\* A step that the counter goes up for, and one that it goes down for: one more parser
\* counted, one less, or one more for which it was not increased.
LEMMA CounterUp ==
  ASSUME TypeOK, CounterInv, running < MaxParse, running' = running + 1, NEW j \in Jobs,
         Counted' \subseteq Counted \cup {j}, Uncounted \subseteq Uncounted'
  PROVE  CounterInv'
<1>1. IsFiniteSet(Uncounted') /\ Cardinality(Counted') \in Nat /\ Cardinality(Uncounted') \in Nat
  <2>1. IsFiniteSet(Jobs) /\ Counted' \in SUBSET Jobs /\ Uncounted' \in SUBSET Jobs
    BY DroneAssumption DEF Counted, Uncounted
  <2> QED
    BY <2>1, FS_Subset, FS_CardinalityType
<1>2. /\ IsFiniteSet(Counted \cup {j})
      /\ Cardinality(Counted \cup {j}) = IF j \in Counted THEN Cardinality(Counted) ELSE Cardinality(Counted) + 1
  BY JobSets, FS_AddElement
<1>3. Cardinality(Counted') <= Cardinality(Counted \cup {j})
  BY <1>2, FS_Subset
<1>4. Cardinality(Uncounted) <= Cardinality(Uncounted')
  BY <1>1, FS_Subset
<1>5. running \in Int
  BY DEF TypeOK
<1> QED
  BY <1>1, <1>2, <1>3, <1>4, <1>5, JobSets DEF CounterInv

LEMMA CounterDown ==
  ASSUME TypeOK, CounterInv, running' = running - 1, NEW j \in Jobs,
         Counted' \subseteq Counted \ {j}, Uncounted \subseteq Uncounted',
         j \in Counted \/ j \in Uncounted' \ Uncounted
  PROVE  CounterInv'
<1>1. IsFiniteSet(Uncounted') /\ Cardinality(Counted') \in Nat /\ Cardinality(Uncounted') \in Nat
  <2>1. IsFiniteSet(Jobs) /\ Counted' \in SUBSET Jobs /\ Uncounted' \in SUBSET Jobs
    BY DroneAssumption DEF Counted, Uncounted
  <2> QED
    BY <2>1, FS_Subset, FS_CardinalityType
<1>2. /\ IsFiniteSet(Counted \ {j}) /\ Cardinality(Counted \ {j}) \in Nat
      /\ Cardinality(Counted \ {j}) = IF j \in Counted THEN Cardinality(Counted) - 1 ELSE Cardinality(Counted)
  BY JobSets, FS_RemoveElement, FS_CardinalityType
<1>3. Cardinality(Counted') <= Cardinality(Counted \ {j})
  BY <1>2, FS_Subset
<1>4. Cardinality(Uncounted) <= Cardinality(Uncounted')
  BY <1>1, FS_Subset
<1>5. j \in Uncounted' \ Uncounted => Cardinality(Uncounted) + 1 <= Cardinality(Uncounted')
  <2> SUFFICES ASSUME j \in Uncounted' \ Uncounted PROVE Cardinality(Uncounted) + 1 <= Cardinality(Uncounted')
    OBVIOUS
  <2>1. Cardinality(Uncounted \cup {j}) = Cardinality(Uncounted) + 1
    BY JobSets, FS_AddElement
  <2>2. Uncounted \cup {j} \in SUBSET (Uncounted')
    OBVIOUS
  <2>3. Cardinality(Uncounted \cup {j}) <= Cardinality(Uncounted')
    BY <1>1, <2>2, FS_Subset
  <2> QED
    BY <2>1, <2>3
<1>6. running \in Int
  BY DEF TypeOK
<1> QED
  BY <1>1, <1>2, <1>3, <1>4, <1>5, <1>6, JobSets DEF CounterInv

-----------------------------------------------------------------------------
(* The drone, and the agents.                                              *)

\* A life has started a task or not whatever the drone does, and what is gone stays so.
LEMMA DroneSent ==
  ASSUME TypeOK, CallsInOrder, Drone, NEW t \in Tasks
  PROVE  /\ Unstarted(t) <=> Unstarted(t)'
         /\ Gone(t) => Gone(t)'
<1>1. UNCHANGED <<status, aborted, agent, phase, life, calls>> /\ Next
  BY DEF Next, Drone, WritePid, Finish, Die, Kill, Spawn, Scan, FirstRead, SecondRead, dbVars, memoryVars
<1>2. /\ execute'[life] \subseteq execute[life]
      /\ Unstarted(t) <=> Unstarted(t)'
  <2> USE <1>1, ProcFacts DEF TypeOK, Unstarted
  <2>1. ASSUME NEW p \in Procs, WritePid(p) \/ Finish(p) \/ Die(p)
        PROVE  execute' = execute /\ (Unstarted(t) <=> Unstarted(t)')
    <3>1. CASE WritePid(p)
      BY <3>1 DEF WritePid
    <3>2. CASE Finish(p)
      <4>1. PICK code \in Exit : proc' = [proc EXCEPT ![p] = code]
        BY <3>2 DEF Finish
      <4>2. execute' = execute /\ proc[p] = "logged" /\ code # "none"
        BY <3>2 DEF Finish, Exit
      <4> QED
        BY <4>1, <4>2
    <3>3. CASE Die(p)
      BY <3>3 DEF Die, Alive
    <3> QED
      BY <2>1, <3>1, <3>2, <3>3
  <2>2. ASSUME NEW l \in Lives, Kill(l) PROVE execute' = execute /\ (Unstarted(t) <=> Unstarted(t)')
    BY <2>2 DEF Kill, Alive
  <2>3. ASSUME NEW l \in Lives, NEW u \in Tasks, Spawn(l, u)
        PROVE  execute'[life] \subseteq execute[life] /\ (Unstarted(t) <=> Unstarted(t)')
    <3>1. CASE <<u, l>> = <<t, life>>
      BY <2>3, <3>1 DEF Spawn
    <3>2. CASE <<u, l>> # <<t, life>>
      <4>1. proc'[<<t, life>>] = proc[<<t, life>>] /\ (t \in execute'[life] <=> t \in execute[life])
        BY <2>3, <3>2 DEF Spawn
      <4>2. execute'[life] \subseteq execute[life]
        BY <2>3 DEF Spawn
      <4> QED
        BY <4>1, <4>2
    <3> QED
      BY <3>1, <3>2
  <2>4. CASE Scan \/ FirstRead \/ SecondRead
    BY <2>4 DEF Scan, FirstRead, SecondRead, droneVars
  <2> QED
    BY <2>1, <2>2, <2>3, <2>4 DEF Drone
<1> QED
  BY <1>1, <1>2, LiveStays DEF Gone

\* The jobs with an old parser are those there were, while the dispatcher lives.
LEMMA OldStays ==
  ASSUME TypeOK, CallsInOrder, Next, UNCHANGED life
  PROVE  Old \subseteq Old'
BY OnlyNowBack, TaskFacts DEF Old

LEMMA DroneLimit ==
  ASSUME TypeOK, TypeOK', CallsInOrder, LimitInv, Drone
  PROVE  LimitInv'
<1>1. UNCHANGED <<status, agent, phase, life, calls, running>> /\ Next
  BY DEF Next, Drone, WritePid, Finish, Die, Kill, Spawn, Scan, FirstRead, SecondRead, dbVars, memoryVars
<1>2. Old \subseteq Old'
  BY <1>1, OldStays
<1>3. \A j \in Jobs : /\ Unstarted(Parse(j)) <=> Unstarted(Parse(j))'
                      /\ Gone(Parse(j)) => Gone(Parse(j))'
                      /\ Monitored(j) <=> Monitored(j)'
  BY <1>1, DroneSent, TaskFacts DEF Monitored, Monitors
<1>4. Counted' = Counted /\ Uncounted \subseteq Uncounted' /\ Working' \subseteq Working
  BY <1>1, <1>2, <1>3 DEF Counted, Uncounted, Working
<1>5. CounterInv'
  BY <1>1, <1>4, CounterSame DEF LimitInv
<1>6. MonitorInv'
  BY <1>1, <1>2, <1>3, <1>4, JobSets DEF LimitInv, MonitorInv
<1>7. DownInv'
  BY <1>1, <1>2, <1>4, WorkShrinks DEF LimitInv, DownInv
<1> QED
  BY <1>5, <1>6, <1>7 DEF LimitInv

\* The monitor of one job.
MonitorOf(j) ==
    /\ j \in Working => j \in Old \/ Monitored(j)
    /\ Monitored(j) /\ (Unstarted(Parse(j)) \/ agent[j] = "lost") => j \in Old

\* A step about one job.
LEMMA OneJobLimit ==
  ASSUME LimitInv, phase # "down", phase' # "down", Old \subseteq Old', NEW j \in Jobs,
         \A k \in Jobs : k # j => /\ status'[k] = status[k] /\ agent'[k] = agent[k]
                                  /\ Unstarted(Parse(k)) <=> Unstarted(Parse(k))'
                                  /\ Gone(Parse(k)) => Gone(Parse(k))'
  PROVE  /\ Counted' \ {j} = Counted \ {j}
         /\ Uncounted \ {j} \subseteq Uncounted'
         /\ MonitorOf(j)' => MonitorInv'
<1>1. \A k \in Jobs : k # j => (Monitored(k) <=> Monitored(k)')
  BY DEF Monitored, Monitors
<1>2. Counted' \ {j} = Counted \ {j}
  BY <1>1 DEF Counted
<1>3. Uncounted \ {j} \subseteq Uncounted'
  BY DEF Uncounted
<1>4. ASSUME MonitorOf(j)' PROVE MonitorInv'
  <2>1. Working' \subseteq Working \cup {j} /\ Working' \subseteq Jobs
    BY DEF Working
  <2>2. \A k \in Working' : k \in Old' \/ Monitored(k)'
    BY <1>1, <1>4, <2>1 DEF LimitInv, MonitorInv, MonitorOf
  <2>3. \A k \in Jobs : Monitored(k)' /\ (Unstarted(Parse(k))' \/ agent'[k] = "lost") => k \in Old'
    BY <1>1, <1>4 DEF LimitInv, MonitorInv, MonitorOf
  <2> QED
    BY <2>2, <2>3 DEF MonitorInv
<1> QED
  BY <1>2, <1>3, <1>4

\* An agent that does not start or end a parser.
LEMMA QuietJobLimit ==
  ASSUME TypeOK, TypeOK', LimitInv, phase # "down", phase' # "down", Old \subseteq Old', NEW j \in Jobs,
         \A k \in Jobs : k # j => /\ status'[k] = status[k] /\ agent'[k] = agent[k]
                                  /\ Unstarted(Parse(k)) <=> Unstarted(Parse(k))'
                                  /\ Gone(Parse(k)) => Gone(Parse(k))',
         UNCHANGED running, MonitorOf(j)', j \in Counted' => j \in Counted, j \in Uncounted => j \in Uncounted'
  PROVE  LimitInv'
<1>1. /\ Counted' \ {j} = Counted \ {j} /\ Uncounted \ {j} \subseteq Uncounted' /\ MonitorInv'
  BY OneJobLimit
<1>2. CounterInv'
  BY <1>1, CounterSame DEF LimitInv
<1>3. DownInv'
  BY DEF DownInv
<1> QED
  BY <1>1, <1>2, <1>3 DEF LimitInv

LEMMA HandleLimit ==
  ASSUME DroneInv, TypeOK', LimitInv, NEW j \in Jobs, Handle(j)
  PROVE  LimitInv'
<1>1. /\ TypeOK /\ CallsInOrder /\ Once(j) /\ PidfilesTrue /\ ScanComplete
      /\ CounterInv /\ MonitorInv /\ MonitorOf(j)
  BY DEF DroneInv, StartedOnce, LimitInv, MonitorInv, MonitorOf, Handle
<1>2. phase = "agents" /\ phase' = "agents" /\ UNCHANGED <<proc, execute, life>>
  BY DEF Handle, droneVars
<1>3. Old' = Old
  BY <1>2 DEF Old, OnlyNow
<1>4. ASSUME NEW t, t \in calls' <=> t \in calls
      PROVE  (Unstarted(t) <=> Unstarted(t)') /\ (Gone(t) <=> Gone(t)')
  BY <1>2, <1>4 DEF Unstarted, Gone
<1>5. UNCHANGED calls \/ calls' = calls \cup {Autoserv(j)} \/ calls' = calls \cup {Parse(j)}
  BY DEF Handle, Postpone, StartAutoserv, PollAutoserv, Throttle, NoResults, StartParse, PollParse, TimeOut, memoryVars
<1>6. \A k \in Jobs : k # j => status'[k] = status[k] /\ agent'[k] = agent[k]
  <2>1. CASE Postpone(j) \/ Throttle(j)
    BY <1>1, <2>1 DEF Postpone, Throttle, dbVars, memoryVars, TypeOK
  <2>2. CASE StartAutoserv(j) \/ PollAutoserv(j)
    BY <1>1, <2>2, Ends DEF StartAutoserv, PollAutoserv, TypeOK
  <2>3. CASE NoResults(j) \/ StartParse(j)
    BY <1>1, <2>3, Ends DEF NoResults, StartParse, TypeOK
  <2>4. CASE PollParse(j) \/ TimeOut(j)
    BY <1>1, <2>4, Ends DEF PollParse, TimeOut, TypeOK
  <2> QED
    BY <2>1, <2>2, <2>3, <2>4 DEF Handle
<1>7. \A k \in Jobs : k # j => /\ status'[k] = status[k] /\ agent'[k] = agent[k]
                               /\ Unstarted(Parse(k)) <=> Unstarted(Parse(k))'
                               /\ Gone(Parse(k)) => Gone(Parse(k))'
  BY <1>4, <1>5, <1>6, TaskFacts
<1>8. ASSUME UNCHANGED running, MonitorOf(j)', j \in Counted' => j \in Counted, j \in Uncounted => j \in Uncounted'
      PROVE  LimitInv'
  BY <1>1, <1>2, <1>3, <1>7, <1>8, QuietJobLimit
<1>9. /\ Counted' \ {j} = Counted \ {j} /\ Uncounted \ {j} \subseteq Uncounted'
      /\ MonitorOf(j)' => MonitorInv'
  BY <1>2, <1>3, <1>7, OneJobLimit
<1>10. CASE status[j] # "Parsing"
  <2>1. /\ UNCHANGED running
        /\ status'[j] \in {"Starting", "Running"} \/ (status'[j] = "Parsing" /\ agent'[j] = "none")
    <3>0. status[j] \in {"Starting", "Running"}
      BY <1>1, <1>10 DEF Once, Handle, Postpone, StartAutoserv, PollAutoserv, Throttle, NoResults, StartParse,
                         PollParse, TimeOut
    <3>1. CASE Postpone(j)
      BY <3>0, <3>1 DEF Postpone, dbVars, memoryVars
    <3>2. CASE StartAutoserv(j)
      BY <1>1, <3>2, Ends DEF StartAutoserv, TypeOK
    <3>3. CASE PollAutoserv(j)
      BY <1>1, <3>0, <3>3, Ends DEF PollAutoserv
    <3>4. CASE TimeOut(j)
      BY <1>1, <1>10, <3>4, Ends DEF TimeOut
    <3> QED
      BY <1>10, <3>1, <3>2, <3>3, <3>4 DEF Handle, Throttle, NoResults, StartParse, PollParse
  <2>2. Unstarted(Parse(j)) /\ status[j] \notin Ended
    BY <1>1, <1>10 DEF Once, Ended, Handle, Postpone, StartAutoserv, PollAutoserv, Throttle, NoResults, StartParse,
                       PollParse, TimeOut
  <2>3. UNCHANGED calls \/ calls' = calls \cup {Autoserv(j)}
    BY <1>10 DEF Handle, Postpone, StartAutoserv, PollAutoserv, Throttle, NoResults, StartParse, PollParse, TimeOut, memoryVars
  <2>4. Unstarted(Parse(j))'
    BY <1>4, <2>2, <2>3, TaskFacts
  <2>5. ~Monitored(j)' /\ j \notin Working'
    BY <2>1, <2>4 DEF Monitored, Monitors, Working, Gone, Unstarted, Alive
  <2> QED
    BY <1>8, <2>1, <2>2, <2>5 DEF MonitorOf, Counted, Uncounted
<1>11. CASE Throttle(j)
  <2>1. UNCHANGED <<running, calls>> /\ status'[j] = "Parsing" /\ agent'[j] = "throttled" /\ Unstarted(Parse(j))
    BY <1>1, <1>2, <1>11 DEF Throttle, TypeOK, dbVars, Once
  <2>2. ~Monitored(j)' /\ j \notin Working'
    BY <1>4, <2>1 DEF Monitored, Monitors, Working, Gone, Unstarted, Alive
  <2> QED
    BY <1>8, <1>11, <2>1, <2>2 DEF MonitorOf, Counted, Uncounted, Throttle, Ended
<1>12. CASE NoResults(j)
  <2>1. UNCHANGED calls /\ running' = running - 0 /\ status[j] = "Parsing" /\ agent'[j] = "none" /\ Unstarted(Parse(j))
    BY <1>1, <1>2, <1>12, Ends DEF NoResults, Once
  <2>2. ~Monitored(j)' /\ j \notin Working' /\ UNCHANGED running
    BY <1>1, <1>4, <2>1 DEF Monitored, Monitors, Working, Gone, Unstarted, Alive, TypeOK
  <2> QED
    BY <1>8, <2>1, <2>2 DEF MonitorOf, Counted, Uncounted, Ended
<1>13. CASE StartParse(j) /\ agent[j] = "new" /\ HasExited(Parse(j))
  <2>1. running' = running - 0 /\ status[j] = "Parsing" /\ agent'[j] = "none" /\ Unstarted(Parse(j))
    BY <1>1, <1>2, <1>13, Ends DEF StartParse, Once
  <2>2. j \in Old
    BY <1>1, <1>2, <1>13, <2>1, SeenOver, TaskFacts DEF Old, Unstarted
  <2>3. ~Monitored(j)' /\ UNCHANGED running
    BY <1>1, <2>1 DEF Monitored, Monitors, TypeOK
  <2> QED
    BY <1>3, <1>8, <2>1, <2>2, <2>3 DEF MonitorOf, Counted, Uncounted, Ended
<1>14. CASE StartParse(j) /\ ~(agent[j] = "new" /\ HasExited(Parse(j)))
  <2>1. /\ running < MaxParse /\ running' = running + 1 /\ calls' = calls \cup {Parse(j)}
        /\ status[j] = "Parsing" /\ status'[j] = "Parsing" /\ agent'[j] = "watching"
    BY <1>1, <1>14 DEF StartParse, TypeOK
  <2>2. Monitored(j)' /\ ~Unstarted(Parse(j))'
    BY <2>1 DEF Monitored, Monitors, Unstarted
  <2>3. MonitorOf(j)'
    BY <2>1, <2>2 DEF MonitorOf
  <2>4. Counted' \subseteq Counted \cup {j} /\ Uncounted \subseteq Uncounted'
    BY <1>9, <2>1 DEF Uncounted, Ended
  <2>5. CounterInv'
    BY <1>1, <2>1, <2>4, CounterUp
  <2> QED
    BY <1>2, <1>9, <2>3, <2>5 DEF LimitInv, DownInv
<1>15. CASE PollParse(j) /\ ~(agent[j] = "lost" \/ HasExited(Parse(j)))
  <2>1. /\ UNCHANGED <<status, running, calls>> /\ status[j] = "Parsing" /\ agent[j] \in Monitors
        /\ agent'[j] = "watching"
    BY <1>1, <1>15 DEF PollParse, TypeOK
  <2>2. /\ Monitored(j)' /\ Monitored(j)
        /\ Unstarted(Parse(j))' <=> Unstarted(Parse(j))
        /\ Gone(Parse(j))' <=> Gone(Parse(j))
    BY <1>2, <2>1 DEF Monitored, Monitors, Unstarted, Gone
  <2> QED
    BY <1>1, <1>3, <1>8, <2>1, <2>2 DEF MonitorOf, Counted, Uncounted, Working
<1>16. ASSUME Monitored(j), FinishParse(j, 1), UNCHANGED calls,
              j \in Old \/ Parse(j) \in Slow \/ Gone(Parse(j))
       PROVE  LimitInv'
  <2>1. running' = running - 1 /\ status'[j] \in Ended /\ agent'[j] = "none"
    BY <1>1, <1>16, Ends
  <2>2. (Unstarted(Parse(j)) <=> Unstarted(Parse(j))') /\ (Gone(Parse(j)) <=> Gone(Parse(j))')
    BY <1>4, <1>16
  <2>3. ~Monitored(j)' /\ j \notin Uncounted
    BY <1>16, <2>1 DEF Monitored, Monitors, Uncounted, Ended
  <2>4. MonitorOf(j)'
    BY <1>3, <1>16, <2>2, <2>3 DEF MonitorOf, Working
  <2>5. j \in Counted \/ j \in Uncounted' \ Uncounted
    BY <1>1, <1>3, <1>16, <2>1, <2>2, <2>3 DEF Counted, Uncounted, MonitorOf
  <2>6. Counted' \subseteq Counted \ {j} /\ Uncounted \subseteq Uncounted'
    BY <1>9, <2>3 DEF Counted
  <2>7. CounterInv'
    BY <1>1, <2>1, <2>5, <2>6, CounterDown
  <2> QED
    BY <1>2, <1>9, <2>4, <2>7 DEF LimitInv, DownInv
<1>17. CASE PollParse(j) /\ (agent[j] = "lost" \/ HasExited(Parse(j)))
  <2>1. Monitored(j) /\ FinishParse(j, 1) /\ UNCHANGED calls
    BY <1>17 DEF PollParse, Monitored, Monitors
  <2>2. j \in Old \/ Gone(Parse(j))
    BY <1>1, <1>2, <1>17, <2>1, SeenOver, TaskFacts DEF MonitorOf, Old
  <2> QED
    BY <1>16, <2>1, <2>2
<1>18. CASE TimeOut(j) /\ status[j] = "Parsing"
  <2>1. Monitored(j) /\ FinishParse(j, 1) /\ UNCHANGED calls
    BY <1>18 DEF TimeOut, Monitored, Monitors
  <2>2. Parse(j) \in Slow \/ NoPidComes(Parse(j))
    BY <1>18 DEF TimeOut, Task
  <2>4. age[Parse(j)] # None
    BY <1>18, <2>1 DEF DroneInv, PidfilesFresh, Fresh, Tended, Monitored, Task
  <2>3. NoPidComes(Parse(j)) /\ OnlyNow(Parse(j)) => Gone(Parse(j))
    BY <1>1, <2>4, TaskFacts DEF NoPidComes, Gone, PidfilesTrue, Alive, TypeOK
  <2> QED
    BY <1>16, <2>1, <2>2, <2>3 DEF Old
<1> QED
  BY <1>10, <1>11, <1>12, <1>13, <1>14, <1>15, <1>17, <1>18 DEF Handle, Postpone, StartAutoserv, PollAutoserv

\* The tick and a request leave the parsers and their monitors alone.
LEMMA TickLimit ==
  ASSUME DroneInv, TypeOK', LimitInv, NEW j \in Jobs,
         \/ BeginTick \/ SyncRefresh \/ BeginAgents \/ ExecuteActions \/ SyncRecovery \/ Recovered
         \/ RequestAbort(j)
  PROVE  LimitInv'
<1> USE DEF dbVars, droneVars, viewVars, memoryVars
<1>1. TypeOK /\ CallsInOrder /\ StartedOnce /\ CounterInv /\ MonitorInv /\ DownInv
  BY DEF DroneInv, LimitInv
<1>2. UNCHANGED <<life, running, proc>> /\ (phase' = "down" <=> phase = "down")
  BY DEF BeginTick, SyncRefresh, BeginAgents, ExecuteActions, SyncRecovery, Recovered, RequestAbort
<1>3. /\ calls' \cup execute'[life] = calls \cup execute[life]
      /\ \A l \in Lives : l # life => execute'[l] = execute[l]
  <2>1. CASE ExecuteActions
    <3>1. execute[life] = {}
      BY <1>1, <2>1 DEF ExecuteActions, CallsInOrder
    <3> QED
      BY <1>1, <2>1, <3>1 DEF ExecuteActions, TypeOK
  <2>2. CASE ~ExecuteActions
    BY <2>2 DEF BeginTick, SyncRefresh, BeginAgents, SyncRecovery, Recovered, RequestAbort
  <2> QED
    BY <2>1, <2>2
<1>4. \A t : (Unstarted(t) <=> Unstarted(t)') /\ (Gone(t) <=> Gone(t)')
  BY <1>2, <1>3 DEF Unstarted, Gone
<1>5. \A l \in 0..(life - 1) : l \in Lives /\ l # life
  BY <1>1, LifeFacts DEF TypeOK, Lives
<1>6. Old' = Old
  BY <1>2, <1>3, <1>5 DEF Old, OnlyNow
<1>7. \A k \in Jobs : /\ Monitored(k)' <=> Monitored(k)
                      /\ status[k] \in Ended <=> status'[k] \in Ended
                      /\ agent'[k] = "lost" => agent[k] = "lost"
  <2>1. CASE BeginTick
    <3>1. \A k \in Jobs : /\ status'[k] = IF status[k] = "Queued" /\ ~aborted[k] THEN "Starting" ELSE status[k]
                          /\ agent'[k] = agent[k] \/ (agent'[k] = "new" /\ (status[k] = "Queued" \/ agent[k] = "none"))
      BY <1>1, <2>1 DEF BeginTick, TypeOK
    <3> QED
      BY <3>1 DEF Monitored, Monitors, Ended
  <2>2. CASE ~BeginTick
    <3>1. UNCHANGED <<status, agent>>
      BY <2>2 DEF SyncRefresh, BeginAgents, ExecuteActions, SyncRecovery, Recovered, RequestAbort
    <3> QED
      BY <3>1 DEF Monitored, Monitors
  <2> QED
    BY <2>1, <2>2
<1>8. Counted' = Counted /\ Uncounted' = Uncounted /\ Working' = Working
  BY <1>4, <1>6, <1>7 DEF Counted, Uncounted, Working
<1>9. CounterInv'
  BY <1>1, <1>2, <1>8, CounterSame
<1>10. MonitorInv'
  BY <1>1, <1>2, <1>4, <1>6, <1>7, <1>8, JobSets DEF MonitorInv
<1>11. DownInv'
  <2>1. phase = "down" => UNCHANGED agent
    BY DEF BeginTick, SyncRefresh, BeginAgents, ExecuteActions, SyncRecovery, Recovered, RequestAbort
  <2> QED
    BY <1>1, <1>2, <1>6, <1>8, <2>1 DEF DownInv
<1> QED
  BY <1>9, <1>10, <1>11 DEF LimitInv

LEMMA AbortLimit ==
  ASSUME DroneInv, TypeOK', LimitInv, NEW j \in Jobs, Abort(j)
  PROVE  LimitInv'
<1>1. TypeOK /\ Once(j) /\ MonitorOf(j)
  BY DEF DroneInv, StartedOnce, LimitInv, MonitorInv, MonitorOf, Abort
<1>2. phase = "aborting" /\ phase' = "aborting" /\ UNCHANGED <<proc, execute, life, calls, running>>
  BY DEF Abort, droneVars
<1>3. Old' = Old /\ \A t : (Unstarted(t) <=> Unstarted(t)') /\ (Gone(t) <=> Gone(t)')
  BY <1>2 DEF Old, OnlyNow, Unstarted, Gone
<1>4. \A k \in Jobs : k # j => status'[k] = status[k] /\ agent'[k] = agent[k]
  BY <1>1, Ends DEF Abort
<1>5. CASE UNCHANGED <<status, agent>>
  <2>1. Monitored(j)' <=> Monitored(j)
    BY <1>5 DEF Monitored, Monitors
  <2> QED
    BY <1>1, <1>2, <1>3, <1>4, <1>5, <2>1, QuietJobLimit DEF MonitorOf, Counted, Uncounted, Working
<1>6. CASE agent'[j] = "none" /\ status[j] \in {"Queued", "Starting", "Running"}
  <2>1. Unstarted(Parse(j)) /\ ~Monitored(j)'
    BY <1>1, <1>6 DEF Once, Monitored, Monitors
  <2>2. j \notin Working' /\ j \notin Counted' /\ j \notin Uncounted
    BY <1>3, <1>6, <2>1 DEF Working, Gone, Unstarted, Alive, Counted, Uncounted, Ended
  <2>3. MonitorOf(j)'
    BY <2>1, <2>2 DEF MonitorOf
  <2> QED
    BY <1>1, <1>2, <1>3, <1>4, <2>2, <2>3, QuietJobLimit
<1> QED
  BY <1>1, <1>5, <1>6, Ends DEF Abort

\* A parser with a process when it is recovered is an old one.
LEMMA RecoveredIsOld ==
  ASSUME TypeOK, CallsInOrder, PidfilesTrue, phase = "recover", NEW t \in Tasks, HasProcess(t)
  PROVE  ~OnlyNow(t)
<1>1. first[t].pid # None
  BY DEF HasProcess, Look
<1>2. first[t].pid \in Lives /\ proc[<<t, first[t].pid>>] # "none"
  BY <1>1, ContentsFacts DEF PidfilesTrue, True, TypeOK
<1>3. proc[<<t, life>>] = "none" /\ life \in Int
  BY LifeFacts DEF CallsInOrder, TypeOK
<1> DEFINE l == first[t].pid
<1>4. l \in Int /\ l >= 0 /\ l # life /\ ~(l > life)
  BY <1>2, <1>3, LifeFacts DEF CallsInOrder
<1>5. l \in 0..(life - 1)
  BY <1>3, <1>4
<1> QED
  BY <1>2, <1>5 DEF OnlyNow

LEMMA RecoverLimit ==
  ASSUME DroneInv, TypeOK', LimitInv, NEW j \in Jobs, Recover(j)
  PROVE  LimitInv'
<1>1. TypeOK /\ CallsInOrder /\ Once(j) /\ PidfilesTrue /\ phase = "recover"
  BY DEF DroneInv, StartedOnce, Recover
<1>2. phase' = "recover" /\ UNCHANGED <<proc, execute, life, calls>>
  BY DEF Recover, droneVars
<1>3. Old' = Old /\ \A t : (Unstarted(t) <=> Unstarted(t)') /\ (Gone(t) <=> Gone(t)')
  BY <1>2 DEF Old, OnlyNow, Unstarted, Gone
<1>4. \A k \in Jobs : k # j => status'[k] = status[k] /\ agent'[k] = agent[k]
  BY <1>1, Ends DEF Recover, TypeOK
<1>5. \A t \in Tasks : Unstarted(t)
  BY <1>1 DEF CallsInOrder, Unstarted
<1>6. j \notin Working' /\ j \notin Counted'
  BY <1>3, <1>5, TaskFacts DEF Working, Gone, Unstarted, Alive, Counted
<1>7. UNCHANGED running
  BY <1>1, Ends DEF Recover, TypeOK
<1>8. Monitored(j)' => HasProcess(Parse(j))
  <2>1. CASE status[j] = "Parsing" /\ ~HasProcess(Autoserv(j))
    BY <1>1, <2>1, Ends DEF Recover, Monitored, Monitors
  <2>2. CASE ~(status[j] = "Parsing" /\ ~HasProcess(Autoserv(j)))
    <3>1. /\ UNCHANGED status
          /\ agent'[j] = IF ~HasProcess(Task(j)) THEN "new" ELSE IF Look(Task(j)) = "lost" THEN "lost" ELSE "recovered"
      BY <1>1, <2>2 DEF Recover, TypeOK
    <3> QED
      BY <3>1 DEF Monitored, Monitors, Task
  <2> QED
    BY <2>1, <2>2
<1>9. MonitorOf(j)'
  BY <1>1, <1>3, <1>6, <1>8, RecoveredIsOld, TaskFacts DEF MonitorOf, Old
<1>10. status[j] \notin Ended
  BY <1>1 DEF Once, Recover, Ended
<1>11. j \notin Uncounted
  BY <1>10 DEF Uncounted
<1> QED
  BY <1>1, <1>2, <1>3, <1>4, <1>6, <1>7, <1>9, <1>11, QuietJobLimit

\* The dispatcher dies, and starts again with nothing of its own at work.
LEMMA DeathLimit ==
  ASSUME DroneInv, TypeOK', LimitInv, Crash \/ Restart
  PROVE  LimitInv'
<1>1. TypeOK /\ CallsInOrder /\ CounterInv /\ MonitorInv /\ DownInv
  BY DEF DroneInv, LimitInv
<1>2. running' = 0 /\ \A k \in Jobs : agent'[k] \in {"none", "new"}
  BY <1>1 DEF Crash, Restart, DownInv
<1>3. Counted' = {} /\ \A k \in Jobs : ~Monitored(k)'
  BY <1>2 DEF Counted, Monitored, Monitors
<1>4. Cardinality(Counted') = 0 /\ Cardinality(Uncounted') \in Nat
  <2>1. IsFiniteSet(Jobs) /\ Uncounted' \in SUBSET Jobs
    BY DroneAssumption DEF Uncounted
  <2>2. Cardinality(Uncounted') \in Nat
    BY <2>1, FS_Subset, FS_CardinalityType
  <2> QED
    BY <1>3, <2>2, FS_EmptySet
<1>5. CounterInv'
  BY <1>2, <1>4, JobSets DEF CounterInv
<1>6. CASE Crash
  <2>1. Cardinality(Working) <= MaxParse + Cardinality(Old)
    BY <1>1, <1>6, WorkingBound DEF Crash
  <2>2. UNCHANGED <<proc, life>> /\ calls' \cup execute'[life] \subseteq calls \cup execute[life] /\ Next
    BY <1>1, <1>6 DEF Crash, TypeOK, Next
  <2>3. Old \subseteq Old' /\ Working' \subseteq Working
    BY <1>1, <2>2, OldStays DEF Working, Gone
  <2>4. Cardinality(Working') <= MaxParse + Cardinality(Old')
    BY <2>1, <2>3, WorkShrinks
  <2>5. phase' = "down" /\ \A k \in Jobs : agent'[k] = "none"
    BY <1>6 DEF Crash
  <2> QED
    BY <1>2, <1>3, <1>5, <2>4, <2>5 DEF LimitInv, MonitorInv, DownInv
<1>7. CASE Restart
  <2>1. life' \in Lives /\ life' > life /\ UNCHANGED <<proc, execute, calls>> /\ calls = {} /\ phase' = "restart"
    BY <1>1, <1>7, LifeFacts DEF Restart, CallsInOrder, TypeOK, droneVars
  <2>2. \A t \in Tasks : Gone(t)'
    BY <1>1, <2>1 DEF Gone, CallsInOrder, Alive
  <2>3. Working' = {}
    BY <2>2, TaskFacts DEF Working
  <2> QED
    BY <1>3, <1>5, <2>1, <2>3 DEF LimitInv, MonitorInv, DownInv
<1> QED
  BY <1>6, <1>7

LEMMA StepLimit == DroneInv /\ LimitInv /\ [Next]_vars => LimitInv'
<1> SUFFICES ASSUME DroneInv, LimitInv, [Next]_vars PROVE LimitInv'
  OBVIOUS
<1>1. DroneInv' /\ TypeOK /\ TypeOK' /\ CallsInOrder
  BY StepInv DEF DroneInv
<1>2. CASE UNCHANGED vars
  <2>1. UNCHANGED <<status, agent, running, phase, calls, execute, life, proc>>
    BY <1>2 DEF vars, dbVars, droneVars, memoryVars
  <2>2. Old' = Old /\ Working' = Working /\ Counted' = Counted /\ Uncounted' = Uncounted
    BY <2>1 DEF Old, OnlyNow, Working, Gone, Counted, Uncounted, Monitored, Monitors, Unstarted
  <2> QED
    BY <2>1, <2>2 DEF LimitInv, CounterInv, MonitorInv, DownInv, Monitored, Monitors, Unstarted
<1>3. CASE Drone
  BY <1>1, <1>3, DroneLimit
<1>4. CASE BeginTick \/ SyncRefresh \/ BeginAgents \/ ExecuteActions \/ SyncRecovery \/ Recovered
  <2>1. CASE Jobs = {}
    <3>1. Old' = {} /\ Working' = {} /\ Counted' = {} /\ Uncounted' = {}
      BY <2>1 DEF Old, Working, Counted, Uncounted
    <3>2. Old = {} /\ Working = {} /\ Counted = {} /\ Uncounted = {}
      BY <2>1 DEF Old, Working, Counted, Uncounted
    <3>3. UNCHANGED running /\ (phase' = "down" <=> phase = "down")
      BY <1>4 DEF BeginTick, SyncRefresh, BeginAgents, ExecuteActions, SyncRecovery, Recovered, memoryVars
    <3> QED
      BY <2>1, <3>1, <3>2, <3>3 DEF LimitInv, CounterInv, MonitorInv, DownInv
  <2>2. ASSUME NEW j \in Jobs PROVE LimitInv'
    BY <1>1, <1>4, TickLimit
  <2> QED
    BY <2>1, <2>2
<1>5. ASSUME NEW j \in Jobs, RequestAbort(j) \/ Abort(j) \/ Handle(j) \/ Recover(j) PROVE LimitInv'
  BY <1>1, <1>5, TickLimit, AbortLimit, HandleLimit, RecoverLimit
<1>6. CASE Crash \/ Restart
  BY <1>1, <1>6, DeathLimit
<1> QED
  BY <1>2, <1>3, <1>4, <1>5, <1>6 DEF Next, Dispatcher

LEMMA InitLimit == Init => LimitInv
<1> SUFFICES ASSUME Init PROVE LimitInv
  OBVIOUS
<1>1. TypeOK /\ phase = "down" /\ running = 0 /\ \A j \in Jobs : agent[j] = "none"
  BY InitType DEF Init
<1>2. Counted = {} /\ \A j \in Jobs : ~Monitored(j)
  BY <1>1 DEF Counted, Monitored, Monitors
<1>3. Working = {}
  <2>1. calls = {} /\ execute[life] = {}
    BY <1>1 DEF Init, TypeOK
  <2>2. \A j \in Jobs : proc[<<Parse(j), life>>] \notin Alive
    <3>1. \A p \in Procs : p[1][2] # "autoserv" => proc[p] = "none"
      BY DEF Init
    <3> QED
      BY <1>1, <3>1, TaskFacts, ProcFacts DEF Alive, TypeOK
  <2> QED
    BY <1>1, <2>1, <2>2, TaskFacts, ProcFacts DEF Working, Gone, TypeOK
<1>4. Cardinality({}) = 0
  BY FS_EmptySet
<1> QED
  BY <1>1, <1>2, <1>3, <1>4, JobSets DEF LimitInv, CounterInv, MonitorInv, DownInv

\* The parsers a dispatcher has started are at most max_parse_processes, and one more
\* for every job whose parser an earlier dispatcher had started: the counter of
\* FinalReparseTask does its work through throttling, time-outs, lost processes and
\* restarts, for every limit and every number of jobs.
THEOREM ParsersLimited == Spec => []ParseLimit
<1>1. Init => LimitInv
  BY InitLimit
<1>2. DroneInv /\ LimitInv /\ [Next]_vars => LimitInv'
  BY StepLimit
<1>3. DroneInv /\ LimitInv => ParseLimit
  <2> SUFFICES ASSUME DroneInv, LimitInv PROVE ParseLimit
    OBVIOUS
  <2> DEFINE Parsers == {j \in Jobs : Parse(j) \notin Slow /\ proc[<<Parse(j), life>>] \in Alive}
  <2>1. Cardinality(Working) <= MaxParse + Cardinality(Old)
    BY WorkingBound DEF LimitInv, DownInv, DroneInv
  <2>2. Parsers \in SUBSET Working
    BY DEF Working, Gone
  <2>3. Cardinality(Parsers) <= Cardinality(Working) /\ Cardinality(Parsers) \in Nat
    BY <2>2, JobSets, FS_Subset, FS_CardinalityType
  <2>4. Cardinality(Parsers) <= MaxParse + Cardinality(Old)
    BY <2>1, <2>3, JobSets
  <2> QED
    BY <2>4 DEF ParseLimit, Old
<1> QED
  BY <1>1, <1>2, <1>3, DroneInvariant, PTL DEF Spec

-----------------------------------------------------------------------------
(* What becomes of a job that has passed.                                  *)

\* The pidfile of a task that only this dispatcher has run is the one its process has
\* open, and keeps its exit status.
Kept(t) ==
    OnlyNow(t) =>
       /\ proc[<<t, life>>] = "logged" => <<t, life>> \in linked
       /\ proc[<<t, life>>] \in Exit => file[t].pid # None /\ file[t].code = proc[<<t, life>>]
FilesKept == \A t \in Tasks : Kept(t)

Passed(j) ==
    /\ Trusted(j) /\ phase # "down"
    /\ status[j] = "Parsing" /\ proc[<<Autoserv(j), life>>] = "passed"

\* The pidfile of a job that has passed is registered until its parser is first looked
\* at, and the exit status has been read when it is looked at and still registered.
Known(j) ==
    /\ agent[j] = "none" => age[Autoserv(j)] = 0
    /\ agent[j] = "new" => /\ age[Autoserv(j)] # None /\ phase # "execute"
                           /\ phase = "agents" => j \in todo
    /\ /\ agent[j] # "none" /\ age[Autoserv(j)] # None
       /\ refresh \in {"second", "done"} \/ phase = "aborting" \/ (phase = "agents" /\ j \in todo)
       => first[Autoserv(j)].pid # None /\ first[Autoserv(j)].code = "passed"
PassedIsKnown == \A j \in Jobs : Passed(j) => Known(j)

VerdictInv == FilesKept /\ PassedIsKnown

\* A task that only this dispatcher has run has no other process.
LEMMA OnlyThis ==
  ASSUME TypeOK, CallsInOrder, NEW t \in Tasks, OnlyNow(t), NEW l \in Lives, proc[<<t, l>>] # "none"
  PROVE  l = life
<1>1. l \in Int /\ life \in Int /\ l >= 0
  BY LifeFacts DEF TypeOK
<1>2. l = life \/ l > life \/ l \in 0..(life - 1)
  BY <1>1
<1> QED
  BY <1>2 DEF OnlyNow, CallsInOrder

\* The drone keeps the pidfile of such a task.
LEMMA DroneKeeps ==
  ASSUME TypeOK, CallsInOrder, PidfilesTrue, FilesKept, Drone, NEW t \in Tasks
  PROVE  Kept(t)'
<1>1. UNCHANGED <<phase, life, calls>> /\ Next
  BY DEF Next, Drone, WritePid, Finish, Die, Kill, Spawn, Scan, FirstRead, SecondRead, dbVars, memoryVars
<1> SUFFICES ASSUME OnlyNow(t)' PROVE Kept(t)'
  BY DEF Kept
<1>2. OnlyNow(t) /\ Kept(t) /\ life \in Lives /\ <<t, life>> \in Procs
  BY <1>1, OnlyNowBack, ProcFacts DEF FilesKept, TypeOK
<1>3. /\ proc[<<t, life>>] = "logged" => <<t, life>> \in linked /\ file[t].pid # None
      /\ proc[<<t, life>>] \in Exit => file[t].pid # None /\ file[t].code = proc[<<t, life>>]
  BY <1>2 DEF Kept, PidfilesTrue
<1>4. \A p \in Procs : p[1] = t /\ proc[p] # "none" => p = <<t, life>>
  BY <1>2, OnlyThis, ProcFacts
<1>5. ASSUME proc'[<<t, life>>] = "logged" => <<t, life>> \in linked',
             proc'[<<t, life>>] \in Exit => file'[t].pid # None /\ file'[t].code = proc'[<<t, life>>]
      PROVE  Kept(t)'
  BY <1>1, <1>5 DEF Kept
<1> USE ProcFacts DEF TypeOK
<1>6. ASSUME NEW p \in Procs, WritePid(p) PROVE Kept(t)'
  <2>1. CASE p[1] = t
    <3>1. p = <<t, life>>
      BY <1>4, <1>6, <2>1 DEF WritePid
    <3> QED
      BY <1>5, <1>6, <3>1 DEF WritePid, Exit
  <2>2. CASE p[1] # t
    <3>1. proc'[<<t, life>>] = proc[<<t, life>>] /\ linked \subseteq linked' /\ file'[t] = file[t]
      BY <1>2, <1>6, <2>2 DEF WritePid
    <3> QED
      BY <1>3, <1>5, <3>1
  <2> QED
    BY <2>1, <2>2
<1>7. ASSUME NEW p \in Procs, Finish(p) PROVE Kept(t)'
  <2>0. PICK code \in Exit : /\ proc' = [proc EXCEPT ![p] = code]
                             /\ file' = IF p \in linked THEN [file EXCEPT ![p[1]].code = code] ELSE file
    BY <1>7 DEF Finish
  <2>1. CASE p[1] = t
    <3>1. p = <<t, life>> /\ proc[p] = "logged"
      BY <1>4, <1>7, <2>1 DEF Finish
    <3>2. file' = [file EXCEPT ![t].code = code] /\ proc'[<<t, life>>] = code
      BY <1>2, <1>3, <2>0, <2>1, <3>1
    <3>3. file[t] \in Contents
      OBVIOUS
    <3>4. file'[t].pid # None /\ file'[t].code = code
      BY <1>3, <3>1, <3>2, <3>3, ContentsFacts DEF Contents
    <3> QED
      BY <1>5, <3>2, <3>4 DEF Exit
  <2>2. CASE p[1] # t
    <3>1. proc'[<<t, life>>] = proc[<<t, life>>] /\ file'[t] = file[t]
      BY <1>2, <2>0, <2>2
    <3>2. <<t, life>> \in linked => <<t, life>> \in linked'
      BY <1>2, <1>7, <2>2 DEF Finish
    <3> QED
      BY <1>3, <1>5, <3>1, <3>2
  <2> QED
    BY <2>1, <2>2
<1>8. ASSUME NEW p \in Procs, Die(p) PROVE Kept(t)'
  <2>1. CASE p[1] = t
    <3>1. p = <<t, life>>
      BY <1>4, <1>8, <2>1 DEF Die, Alive
    <3> QED
      BY <1>5, <1>8, <3>1 DEF Die, Exit
  <2>2. CASE p[1] # t
    <3>1. proc'[<<t, life>>] = proc[<<t, life>>] /\ file'[t] = file[t]
      BY <1>2, <1>8, <2>2 DEF Die
    <3>2. <<t, life>> \in linked => <<t, life>> \in linked'
      BY <1>2, <1>8, <2>2 DEF Die
    <3> QED
      BY <1>3, <1>5, <3>1, <3>2
  <2> QED
    BY <2>1, <2>2
<1>9. ASSUME NEW l \in Lives, Kill(l) PROVE Kept(t)'
  <2>0. PICK graceful \in SUBSET {p \in kill[l] : proc[p] = "logged"} :
          /\ proc' = [p \in Procs |-> CASE p \in graceful -> "failed"
                                        [] p \in kill[l] \ graceful /\ proc[p] \in Alive -> "died"
                                        [] OTHER -> proc[p]]
          /\ file' = [u \in Tasks |-> IF \E p \in graceful \cap linked : p[1] = u
                                      THEN [file[u] EXCEPT !.code = "failed"] ELSE file[u]]
    BY <1>9 DEF Kill
  <2>1. linked' = linked \ kill[l] /\ kill[l] \subseteq Procs
    BY <1>9 DEF Kill
  <2>2. CASE <<t, life>> \in graceful
    <3>1. proc[<<t, life>>] = "logged" /\ proc'[<<t, life>>] = "failed"
      BY <1>2, <2>0, <2>2
    <3>2. file'[t] = [file[t] EXCEPT !.code = "failed"]
      BY <1>3, <2>0, <2>2, <3>1
    <3>3. file[t] \in Contents /\ "failed" \in Exit
      BY DEF Exit
    <3>4. file'[t].pid # None /\ file'[t].code = "failed"
      BY <1>3, <3>1, <3>2, <3>3, ContentsFacts
    <3> QED
      BY <1>5, <3>1, <3>4
  <2>3. CASE <<t, life>> \notin graceful
    <3>1. ~\E p \in graceful \cap linked : p[1] = t
      <4> SUFFICES ASSUME NEW p \in graceful, p[1] = t PROVE FALSE
        OBVIOUS
      <4>1. p \in Procs /\ proc[p] = "logged"
        BY <2>1
      <4> QED
        BY <1>4, <2>3, <4>1
    <3>2. file'[t] = file[t]
      BY <2>0, <3>1
    <3>3. CASE <<t, life>> \in kill[l] /\ proc[<<t, life>>] \in Alive
      <4>1. proc'[<<t, life>>] = "died"
        BY <1>2, <2>0, <2>3, <3>3
      <4> QED
        BY <1>5, <4>1 DEF Exit
    <3>4. CASE ~(<<t, life>> \in kill[l] /\ proc[<<t, life>>] \in Alive)
      <4>1. proc'[<<t, life>>] = proc[<<t, life>>]
        BY <1>2, <2>0, <2>3, <3>4
      <4>2. proc[<<t, life>>] = "logged" => <<t, life>> \in linked'
        BY <1>3, <2>1, <3>4 DEF Alive
      <4> QED
        BY <1>3, <1>5, <3>2, <4>1, <4>2
    <3> QED
      BY <3>3, <3>4
  <2> QED
    BY <2>2, <2>3
<1>10. ASSUME NEW l \in Lives, NEW u \in Tasks, Spawn(l, u) PROVE Kept(t)'
  <2>1. l <= life /\ l \in Int /\ l >= 0 /\ life \in Int
    <3>1. l \in Int /\ l >= 0 /\ life \in Int
      BY LifeFacts
    <3>2. ~(l > life)
      BY <1>10 DEF Spawn, CallsInOrder
    <3> HIDE DEF TypeOK
    <3> QED
      BY <3>1, <3>2
  <2>2. CASE u = t
    <3>1. t \in execute[l]
      BY <1>10, <2>2 DEF Spawn
    <3>2. ~(l \in 0..(life - 1))
      BY <1>2, <3>1 DEF OnlyNow
    <3>3. l = life
      <4> HIDE DEF TypeOK
      <4> QED
        BY <2>1, <3>2
    <3>4. proc'[<<t, life>>] = "starting"
      BY <1>2, <1>10, <2>2, <3>3 DEF Spawn
    <3> QED
      BY <1>5, <3>4 DEF Exit
  <2>3. CASE u # t
    <3>1. proc'[<<t, life>>] = proc[<<t, life>>] /\ file'[t] = file[t]
      BY <1>2, <1>10, <2>3 DEF Spawn
    <3>2. <<t, life>> \in linked => <<t, life>> \in linked'
      BY <1>2, <1>10, <2>3 DEF Spawn
    <3> QED
      BY <1>3, <1>5, <3>1, <3>2
  <2> QED
    BY <2>2, <2>3
<1>11. CASE Scan \/ FirstRead \/ SecondRead
  <2>1. UNCHANGED <<proc, file, linked>>
    BY <1>11 DEF Scan, FirstRead, SecondRead, droneVars
  <2> QED
    BY <1>3, <1>5, <2>1
<1> QED
  BY <1>6, <1>7, <1>8, <1>9, <1>10, <1>11 DEF Drone

LEMMA NextKeeps ==
  ASSUME DroneInv, FilesKept, Next
  PROVE  FilesKept'
<1>1. TypeOK /\ CallsInOrder /\ PidfilesTrue
  BY DEF DroneInv
<1>2. CASE Drone
  BY <1>1, <1>2, DroneKeeps DEF FilesKept
<1>3. CASE Restart
  <2>1. life' \in Lives /\ life' > life /\ UNCHANGED proc
    BY <1>1, <1>3, LifeFacts DEF Restart, CallsInOrder, TypeOK, droneVars
  <2>2. \A t \in Tasks : proc'[<<t, life'>>] = "none"
    BY <1>1, <2>1 DEF CallsInOrder
  <2> QED
    BY <2>2 DEF FilesKept, Kept, Exit
<1>4. CASE ~Drone /\ ~Restart
  <2>1. UNCHANGED <<proc, file, linked, life>>
    BY <1>4 DEF Next, Dispatcher, Crash, RequestAbort, BeginTick, SyncRefresh, BeginAgents, ExecuteActions,
                SyncRecovery, Recovered, Abort, Handle, Recover, droneVars
  <2>2. \A t \in Tasks : OnlyNow(t)' => OnlyNow(t)
    BY <1>1, <2>1, OnlyNowBack
  <2> QED
    BY <2>1, <2>2 DEF FilesKept, Kept
<1> QED
  BY <1>2, <1>3, <1>4

\* A job that has passed after a step of the dispatcher's life was Parsing and had
\* passed before it, or has just become Parsing.
LEMMA PassedBack ==
  ASSUME DroneInv, Next, UNCHANGED life, NEW j \in Jobs, Passed(j)',
         aborted[j] => aborted'[j], status[j] = "Parsing", phase # "down"
  PROVE  Passed(j)
<1>1. TypeOK /\ CallsInOrder /\ Over(j) /\ <<Autoserv(j), life>> \in Procs /\ Autoserv(j) \in Tasks
  BY TaskFacts, ProcFacts DEF DroneInv, OverIsOver, TypeOK
<1>2. Trusted(j)
  BY <1>1, OnlyNowBack DEF Passed, Trusted
<1>3. proc[<<Autoserv(j), life>>] \notin Alive /\ Autoserv(j) \notin execute[life]
  BY <1>2, <1>1 DEF Over, Trusted
<1>4. proc'[<<Autoserv(j), life>>] = "passed"
  BY DEF Passed
<1>5. CASE proc[<<Autoserv(j), life>>] = "none"
  <2>1. Unstarted(Autoserv(j)) \/ Autoserv(j) \in calls
    BY <1>3, <1>5 DEF Unstarted
  <2>2. CASE Drone
    <3>1. Autoserv(j) \notin calls
      BY <1>1, <1>2, <1>3 DEF Over, Trusted
    <3> QED
      BY <1>1, <1>4, <2>1, <2>2, <3>1, DroneSent DEF Unstarted
  <2>3. CASE ~Drone
    <3>1. UNCHANGED proc
      BY <2>3 DEF Next, Dispatcher, Crash, RequestAbort, BeginTick, SyncRefresh, BeginAgents, ExecuteActions,
                  Restart, SyncRecovery, Recovered, Abort, Handle, Recover, droneVars
    <3> QED
      BY <1>4, <1>5, <3>1
  <2> QED
    BY <2>2, <2>3
<1>6. CASE proc[<<Autoserv(j), life>>] # "none"
  <2>1. proc[<<Autoserv(j), life>>] \in {"died"} \cup Exit
    BY <1>1, <1>3, <1>6 DEF TypeOK
  <2>2. proc[<<Autoserv(j), life>>] = "passed"
    BY <1>1, <1>4, <2>1, ProcessesOnward DEF Onward
  <2> QED
    BY <1>2, <2>2 DEF Passed
<1> QED
  BY <1>5, <1>6

LEMMA DroneKnows ==
  ASSUME DroneInv, VerdictInv, Drone
  PROVE  PassedIsKnown'
<1> USE DEF dbVars, droneVars, viewVars, memoryVars
<1>1. UNCHANGED <<status, aborted, agent, age, todo, phase, life>> /\ Next
  BY DEF Next, Drone, WritePid, Finish, Die, Kill, Spawn, Scan, FirstRead, SecondRead
<1> SUFFICES ASSUME NEW j \in Jobs, Passed(j)' PROVE Known(j)'
  BY DEF PassedIsKnown
<1>2. status[j] = "Parsing" /\ phase # "down"
  BY <1>1 DEF Passed
<1>3. Passed(j)
  BY <1>1, <1>2, PassedBack
<1>4. Known(j)
  BY <1>3 DEF VerdictInv, PassedIsKnown
<1>5. CASE Scan
  <2>1. refresh' = "first" /\ phase \notin {"aborting", "agents"}
    BY <1>5 DEF Scan, DroneInv, CallsInOrder
  <2> QED
    BY <1>1, <1>4, <2>1 DEF Known
<1>6. CASE FirstRead
  <2>1. Autoserv(j) \in Tasks
    BY TaskFacts
  <2>2. age[Autoserv(j)] # None => first'[Autoserv(j)] = file[Autoserv(j)]
    BY <1>6, <2>1 DEF FirstRead, ReadPidfiles
  <2>3. file[Autoserv(j)].pid # None /\ file[Autoserv(j)].code = "passed"
    BY <1>3, <2>1 DEF VerdictInv, FilesKept, Kept, Passed, Trusted, Exit
  <2> QED
    BY <1>1, <1>4, <2>2, <2>3 DEF Known
<1>7. CASE SecondRead
  BY <1>1, <1>4, <1>7 DEF Known, SecondRead
<1>8. CASE UNCHANGED <<refresh, first>>
  BY <1>1, <1>4, <1>8 DEF Known
<1> QED
  BY <1>5, <1>6, <1>7, <1>8 DEF Drone, WritePid, Finish, Die, Kill, Spawn

\* What a step about another job does to the registration of an autoserv.
LEMMA AutoservAges ==
  ASSUME TypeOK, NEW j \in Jobs, NEW k \in Jobs, k # j
  PROVE  /\ Forget(k)[Autoserv(j)] = age[Autoserv(j)]
         /\ \A T \in SUBSET {Autoserv(k), Parse(k)} :
               /\ Register(T)[Autoserv(j)] = age[Autoserv(j)]
               /\ Touch(T)[Autoserv(j)] = age[Autoserv(j)]
<1>1. Autoserv(j) \in Tasks /\ Autoserv(j)[1] = j /\ Autoserv(j) \notin {Autoserv(k), Parse(k)}
  BY TaskFacts
<1> QED
  BY <1>1 DEF Forget, Register, Touch

\* An agent at work on another job.
LEMMA HandleOthersAges ==
  ASSUME TypeOK, NEW j \in Jobs, NEW k \in Jobs, k # j, Handle(k)
  PROVE  age'[Autoserv(j)] = age[Autoserv(j)] /\ status'[j] = status[j] /\ agent'[j] = agent[j]
<1> USE AutoservAges, Ends
<1>1. CASE Postpone(k)
  BY <1>1 DEF Postpone, dbVars, memoryVars
<1>2. CASE StartAutoserv(k)
  BY <1>2 DEF StartAutoserv, TypeOK
<1>3. CASE PollAutoserv(k)
  BY <1>3 DEF PollAutoserv, TypeOK
<1>4. CASE Throttle(k)
  BY <1>4 DEF Throttle, dbVars, TypeOK
<1>5. CASE NoResults(k)
  BY <1>5 DEF NoResults
<1>6. CASE StartParse(k)
  BY <1>6 DEF StartParse, TypeOK
<1>7. CASE PollParse(k)
  BY <1>7 DEF PollParse, TypeOK
<1>8. CASE TimeOut(k)
  <2>1. CASE FinishParse(k, 1)
    BY <2>1
  <2>2. CASE FinishAutoserv(k) /\ age' = Touch({Autoserv(k)})
    BY <2>2
  <2> QED
    BY <1>8, <2>1, <2>2 DEF TimeOut
<1> QED
  BY <1>1, <1>2, <1>3, <1>4, <1>5, <1>6, <1>7, <1>8 DEF Handle

\* An agent whose job is Parsing afterwards and whose autoserv was started in this life
\* has registered or looked at the pidfile of its autoserv if it has given way, and has
\* moved on from being new otherwise.
LEMMA HandleRegisters ==
  ASSUME TypeOK, StartedOnce, PidfilesFresh, NEW j \in Jobs, Handle(j), status'[j] = "Parsing",
         proc[<<Autoserv(j), life>>] # "none"
  PROVE  /\ agent'[j] = "none" => age'[Autoserv(j)] = 0
         /\ agent'[j] # "new"
<1>1. Autoserv(j) \in Tasks /\ Autoserv(j) \in {Autoserv(j)}
  BY TaskFacts
<1>2. \A T : Autoserv(j) \in T => Register(T)[Autoserv(j)] = 0
  BY <1>1 DEF Register
<1>3. agent[j] \in Monitors /\ status[j] # "Parsing" => age[Autoserv(j)] # None /\ agent[j] = "watching"
  BY DEF PidfilesFresh, Fresh, Task, Tended, Unstarted, StartedOnce, Once, Monitors
<1>4. age[Autoserv(j)] # None => Touch({Autoserv(j)})[Autoserv(j)] = 0
  BY <1>1 DEF Touch
<1>5. CASE Postpone(j)
  BY <1>5 DEF Postpone, dbVars
<1>6. CASE StartAutoserv(j)
  BY <1>2, <1>6, Ends DEF StartAutoserv, TypeOK
<1>7. CASE PollAutoserv(j)
  BY <1>3, <1>4, <1>7, Ends DEF PollAutoserv, TypeOK
<1>8. CASE Throttle(j)
  BY <1>8 DEF Throttle, TypeOK
<1>9. CASE NoResults(j)
  BY <1>9, Ends DEF NoResults, Ended
<1>10. CASE StartParse(j)
  <2>1. CASE FinishParse(j, 0)
    BY <2>1, Ends DEF Ended
  <2>2. CASE agent' = [agent EXCEPT ![j] = "watching"]
    BY <2>2 DEF TypeOK
  <2> QED
    BY <1>10, <2>1, <2>2 DEF StartParse
<1>11. CASE PollParse(j)
  <2>1. CASE FinishParse(j, 1)
    BY <2>1, Ends DEF Ended
  <2>2. CASE agent' = [agent EXCEPT ![j] = "watching"]
    BY <2>2 DEF TypeOK
  <2> QED
    BY <1>11, <2>1, <2>2 DEF PollParse
<1>12. CASE TimeOut(j)
  <2>1. CASE status[j] = "Parsing"
    BY <1>12, <2>1, Ends DEF TimeOut, Ended
  <2>2. CASE status[j] # "Parsing"
    BY <1>3, <1>4, <1>12, <2>2, Ends DEF TimeOut, Monitors
  <2> QED
    BY <2>1, <2>2
<1> QED
  BY <1>5, <1>6, <1>7, <1>8, <1>9, <1>10, <1>11, <1>12 DEF Handle

LEMMA DispatcherKnows ==
  ASSUME DroneInv, VerdictInv, Dispatcher \/ Crash \/ \E k \in Jobs : RequestAbort(k)
  PROVE  PassedIsKnown'
<1> USE DEF dbVars, droneVars, viewVars, memoryVars
<1> SUFFICES ASSUME NEW j \in Jobs, Passed(j)' PROVE Known(j)'
  BY DEF PassedIsKnown
<1>1. /\ TypeOK /\ CallsInOrder /\ StartedOnce /\ AbortsAsked /\ PidfilesFresh /\ Next
      /\ Autoserv(j) \in Tasks /\ (Passed(j) => Known(j))
  BY TaskFacts DEF DroneInv, VerdictInv, PassedIsKnown, Next
<1>2. phase' # "down" /\ ~aborted'[j] /\ status'[j] = "Parsing" /\ proc'[<<Autoserv(j), life'>>] = "passed"
  BY DEF Passed, Trusted
<1>3. ASSUME UNCHANGED life, aborted[j] => aborted'[j], status[j] = "Parsing", phase # "down"
      PROVE  Known(j)
  BY <1>1, <1>3, PassedBack
<1>4. CASE BeginTick
  <2>1. UNCHANGED <<life, aborted>> /\ phase = "execute" /\ phase' = "sync" /\ refresh' = "scan"
    BY <1>4 DEF BeginTick, StartRefresh
  <2>2. status[j] = "Parsing" /\ agent'[j] = IF agent[j] = "none" THEN "new" ELSE agent[j]
    BY <1>1, <1>2, <1>4 DEF BeginTick, TypeOK
  <2>3. Known(j)
    BY <1>3, <2>1, <2>2
  <2>4. age[Autoserv(j)] = 0 => age'[Autoserv(j)] # None
    <3>1. age'[Autoserv(j)] = IF age[Autoserv(j)] = None \/ age[Autoserv(j)] > MaxPidfileRefreshes
                              THEN None ELSE age[Autoserv(j)] + 1
      BY <1>1, <1>4 DEF BeginTick, StartRefresh
    <3>2. MaxPidfileRefreshes \in Nat /\ None \notin Int
      BY DroneAssumption
    <3> QED
      BY <3>1, <3>2
  <2> QED
    BY <2>1, <2>2, <2>3, <2>4 DEF Known
<1>5. CASE SyncRefresh
  <2>1. UNCHANGED <<life, aborted, status, agent, age, first>> /\ phase = "sync" /\ refresh = "done"
        /\ phase' = "aborting" /\ refresh' = "none"
    BY <1>5 DEF SyncRefresh
  <2>2. Known(j)
    BY <1>2, <1>3, <2>1
  <2> QED
    BY <2>1, <2>2 DEF Known
<1>6. CASE BeginAgents
  <2>1. /\ UNCHANGED <<life, aborted, status, agent, age, first, refresh>> /\ phase = "aborting"
        /\ phase' = "agents" /\ todo' = {k \in Jobs : agent[k] # "none"}
    BY <1>6 DEF BeginAgents
  <2>2. Known(j)
    BY <1>2, <1>3, <2>1
  <2> QED
    BY <2>1, <2>2 DEF Known
<1>7. CASE ExecuteActions
  <2>1. UNCHANGED <<life, aborted, status, agent, age, refresh>> /\ phase = "agents" /\ phase' = "execute" /\ todo = {}
    BY <1>7 DEF ExecuteActions
  <2>2. Known(j) /\ refresh = "none"
    BY <1>1, <1>2, <1>3, <2>1 DEF CallsInOrder
  <2> QED
    BY <2>1, <2>2 DEF Known
<1>8. CASE Restart
  <2>1. life' \in Lives /\ life' > life /\ UNCHANGED proc
    BY <1>1, <1>8, LifeFacts DEF Restart, CallsInOrder, TypeOK
  <2> QED
    BY <1>1, <1>2, <2>1 DEF CallsInOrder
<1>9. CASE SyncRecovery \/ Recovered \/ \E k \in Jobs : Recover(k)
  <2>1. UNCHANGED <<proc, life>> /\ phase \in {"restart", "recover"}
    BY <1>9 DEF SyncRecovery, Recovered, Recover
  <2> QED
    BY <1>1, <1>2, <2>1 DEF CallsInOrder
<1>10. CASE Crash
  BY <1>2, <1>10 DEF Crash
<1>11. ASSUME NEW k \in Jobs, RequestAbort(k) PROVE Known(j)'
  <2>1. UNCHANGED <<life, status, agent, age, first, refresh, phase, todo>> /\ (aborted[j] => aborted'[j])
    BY <1>1, <1>11 DEF RequestAbort, TypeOK
  <2>2. Known(j)
    BY <1>2, <1>3, <2>1
  <2> QED
    BY <2>1, <2>2 DEF Known
<1>12. ASSUME NEW k \in Jobs, Abort(k) PROVE Known(j)'
  <2>1. UNCHANGED <<life, aborted, first, refresh, phase>> /\ aborted[k] /\ phase = "aborting"
    BY <1>1, <1>12 DEF Abort, AbortsAsked
  <2>2. k # j
    BY <1>2, <2>1
  <2>3. status'[j] = status[j] /\ agent'[j] = agent[j] /\ age'[Autoserv(j)] = age[Autoserv(j)]
    BY <1>1, <1>12, <2>2, Ends, AutoservAges DEF Abort
  <2>4. Known(j)
    BY <1>2, <1>3, <2>1, <2>3
  <2> QED
    BY <2>1, <2>3, <2>4 DEF Known
<1>13. ASSUME NEW k \in Jobs, Handle(k) PROVE Known(j)'
  <2>1. /\ UNCHANGED <<life, first, refresh, phase>> /\ phase = "agents" /\ todo' = todo \ {k} /\ refresh = "none"
    BY <1>1, <1>13 DEF Handle, CallsInOrder
  <2>2. UNCHANGED aborted
    BY <1>13 DEF Handle, Postpone, StartAutoserv, PollAutoserv, Throttle, NoResults, StartParse, PollParse, TimeOut
  <2>3. CASE k = j
    <3>1. proc[<<Autoserv(j), life>>] # "none"
      BY <1>2, <1>13 DEF Handle
    <3> QED
      BY <1>1, <1>2, <1>13, <2>1, <2>3, <3>1, HandleRegisters DEF Known
  <2>4. CASE k # j
    <3>1. age'[Autoserv(j)] = age[Autoserv(j)] /\ status'[j] = status[j] /\ agent'[j] = agent[j]
      BY <1>1, <1>13, <2>4, HandleOthersAges
    <3>2. Known(j)
      BY <1>2, <1>3, <2>1, <2>2, <3>1
    <3> QED
      BY <2>1, <2>4, <3>1, <3>2 DEF Known
  <2> QED
    BY <2>3, <2>4
<1> QED
  BY <1>4, <1>5, <1>6, <1>7, <1>8, <1>9, <1>10, <1>11, <1>12, <1>13 DEF Dispatcher

LEMMA StepVerdict == DroneInv /\ VerdictInv /\ [Next]_vars => VerdictInv'
<1> SUFFICES ASSUME DroneInv, VerdictInv, [Next]_vars PROVE VerdictInv'
  OBVIOUS
<1>1. CASE UNCHANGED vars
  <2>1. UNCHANGED <<status, aborted, agent, phase, execute, life, proc, linked, file, age, first, refresh, todo>>
    BY <1>1 DEF vars, dbVars, droneVars, memoryVars, viewVars
  <2> QED
    BY <2>1 DEF VerdictInv, FilesKept, Kept, PassedIsKnown, Passed, Known, Trusted, OnlyNow
<1>2. CASE Next
  <2>1. FilesKept'
    BY <1>2, NextKeeps DEF VerdictInv
  <2>2. PassedIsKnown'
    BY <1>2, DroneKnows, DispatcherKnows DEF Next
  <2> QED
    BY <2>1, <2>2 DEF VerdictInv
<1> QED
  BY <1>1, <1>2

LEMMA InitVerdict == Init => VerdictInv
<1> SUFFICES ASSUME Init PROVE VerdictInv
  OBVIOUS
<1>1. TypeOK /\ phase = "down" /\ 0 \in Lives /\ life \in Lives
  <2>1. TypeOK /\ phase = "down"
    BY InitType DEF Init
  <2>2. MaxStarts \in Nat
    BY DroneAssumption
  <2> QED
    BY <2>1, <2>2 DEF TypeOK, Lives
<1>2. \A p \in Procs : proc[p] \in {"none", "logged", "passed"} /\ (proc[p] = "passed" => p[2] = 0)
  BY DEF Init, Left
<1>3. ASSUME NEW t \in Tasks PROVE Kept(t)
  <2>1. <<t, life>> \in Procs /\ <<t, life>>[2] = life /\ <<t, 0>> \in Procs
    BY <1>1, ProcFacts
  <2>2. CASE proc[<<t, life>>] = "passed"
    <3>1. life = 0
      BY <1>2, <2>1, <2>2
    <3>2. file[t] = [pid |-> 0, code |-> "passed"]
      BY <2>2, <3>1 DEF Init
    <3>3. 0 # None
      BY DroneAssumption
    <3> QED
      BY <2>2, <3>2, <3>3 DEF Kept
  <2>3. CASE proc[<<t, life>>] # "passed"
    BY <1>2, <2>1, <2>3 DEF Kept, Exit, Init
  <2> QED
    BY <2>2, <2>3
<1> QED
  BY <1>1, <1>3 DEF VerdictInv, FilesKept, PassedIsKnown, Passed

\* A job fails when its agent has ended its parser and has not seen that it has passed.
LEMMA FailedByAgent ==
  ASSUME TypeOK, Next, NEW j \in Jobs, status[j] \notin Ended, status'[j] = "Failed"
  PROVE  /\ Handle(j) \/ Recover(j)
         /\ status[j] = "Parsing"
         /\ FinalStatus(j) = "Failed"
<1> USE DEF dbVars, Ended
<1>0. status[j] # "Failed"
  OBVIOUS
<1>1. ASSUME NEW k \in Jobs, Handle(k) PROVE k = j /\ status[j] = "Parsing" /\ FinalStatus(j) = "Failed"
  <2>1. k = j
    BY <1>0, <1>1, HandleOthersAges
  <2>2. CASE Postpone(k) \/ Throttle(k)
    BY <1>0, <2>2 DEF Postpone, Throttle
  <2>3. CASE StartAutoserv(k)
    BY <1>0, <2>1, <2>3, Ends DEF StartAutoserv, TypeOK
  <2>4. CASE PollAutoserv(k)
    BY <1>0, <2>1, <2>4, Ends DEF PollAutoserv
  <2>5. CASE NoResults(k)
    BY <2>1, <2>5, Ends DEF NoResults
  <2>6. CASE StartParse(k)
    BY <1>0, <2>1, <2>6, Ends DEF StartParse
  <2>7. CASE PollParse(k)
    BY <1>0, <2>1, <2>7, Ends DEF PollParse
  <2>8. CASE TimeOut(k)
    BY <1>0, <2>1, <2>8, Ends DEF TimeOut
  <2> QED
    BY <1>1, <2>1, <2>2, <2>3, <2>4, <2>5, <2>6, <2>7, <2>8 DEF Handle
<1>2. ASSUME NEW k \in Jobs, Recover(k) PROVE k = j /\ status[j] = "Parsing" /\ FinalStatus(j) = "Failed"
  BY <1>0, <1>2, Ends DEF Recover
<1>3. ASSUME NEW k \in Jobs, Abort(k) PROVE FALSE
  BY <1>0, <1>3, Ends DEF Abort
<1>4. CASE BeginTick
  BY <1>0, <1>4 DEF BeginTick, TypeOK
<1>5. \/ Drone \/ SyncRefresh \/ BeginAgents \/ ExecuteActions \/ Restart \/ SyncRecovery \/ Recovered
      \/ Crash \/ \E k \in Jobs : RequestAbort(k)
      => UNCHANGED status
  BY DEF Drone, WritePid, Finish, Die, Kill, Spawn, Scan, FirstRead, SecondRead, SyncRefresh, BeginAgents,
         ExecuteActions, Restart, SyncRecovery, Recovered, Crash, RequestAbort
<1> QED
  BY <1>0, <1>1, <1>2, <1>3, <1>4, <1>5 DEF Next, Dispatcher

\* A job whose autoserv has passed is not written Failed, whatever was lost, timed out or
\* restarted on the way, but in one case: its pidfile was dropped as leaked while the job
\* waited for its parser.
THEOREM FailuresEarned == Spec => FailedIsEarned
<1> DEFINE Step == \A j \in Jobs :
          /\ Autoserv(j) \notin Slow
          /\ status[j] \notin Ended /\ status'[j] = "Failed"
          /\ OnlyNow(Autoserv(j)) /\ proc[<<Autoserv(j), life>>] = "passed"
          => agent[j] # "new" /\ age[Autoserv(j)] = None
<1>1. Init => VerdictInv
  BY InitVerdict
<1>2. DroneInv /\ VerdictInv /\ [Next]_vars => VerdictInv'
  BY StepVerdict
<1>3. ASSUME DroneInv, VerdictInv, Next PROVE Step
  <2> SUFFICES ASSUME NEW j \in Jobs, Autoserv(j) \notin Slow, status[j] \notin Ended, status'[j] = "Failed",
                      OnlyNow(Autoserv(j)), proc[<<Autoserv(j), life>>] = "passed"
               PROVE  agent[j] # "new" /\ age[Autoserv(j)] = None
    OBVIOUS
  <2>1. TypeOK /\ CallsInOrder /\ Autoserv(j) \in Tasks
    BY <1>3, TaskFacts DEF DroneInv
  <2>2. (Handle(j) \/ Recover(j)) /\ status[j] = "Parsing" /\ FinalStatus(j) = "Failed"
    BY <1>3, <2>1, FailedByAgent
  <2>3. phase # "recover"
    BY <2>1 DEF CallsInOrder
  <2>4. phase = "agents" /\ j \in todo /\ agent[j] # "none"
    BY <2>2, <2>3 DEF Handle, Recover, Postpone, StartAutoserv, PollAutoserv, Throttle, NoResults, StartParse,
                      PollParse, TimeOut, Monitors
  <2>5. ~aborted[j] /\ Look(Autoserv(j)) # "passed"
    BY <2>2 DEF FinalStatus
  <2>6. Passed(j)
    BY <2>2, <2>4, <2>5 DEF Passed, Trusted
  <2>7. Known(j)
    BY <1>3, <2>6 DEF VerdictInv, PassedIsKnown
  <2>8. "passed" # None
    BY DroneAssumption
  <2>9. age[Autoserv(j)] = None
    BY <2>4, <2>5, <2>7, <2>8 DEF Known, Look
  <2> QED
    BY <2>7, <2>9 DEF Known
<1>4. DroneInv /\ VerdictInv /\ [Next]_vars => [Step]_vars
  BY <1>3
<1>5. Spec => [][Step]_vars
  BY <1>1, <1>2, <1>4, DroneInvariant, PTL DEF Spec
<1> QED
  BY <1>5 DEF FailedIsEarned

=============================================================================
