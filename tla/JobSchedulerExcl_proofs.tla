----------------------- MODULE JobSchedulerExcl_proofs -----------------------
(***************************************************************************)
(* A host serves one job at a time, and an entry only moves forward, for   *)
(* any number of hosts, entries and crashes, as long as no user aborts an  *)
(* entry.  XInv (JobSchedulerExcl) is inductive: one lemma per part of it, *)
(* by cases over the actions.                                              *)
(***************************************************************************)
EXTENDS JobSchedulerExcl, JobScheduler_proofs, FiniteSetTheorems

\* Initially nothing is assigned, leased, queued or watched.
LEMMA InitExcl == Init => ExclInv
  <1> SUFFICES ASSUME Init PROVE ExclInv
    OBVIOUS
  <1> USE ConstantsAssumption DEF Init
  <1>1. OpenTasks = {} /\ PreJobTasks = {} /\ BusyTasks = {}
    BY DEF OpenTasks, PreJobTasks, BusyTasks, TaskAgents, EpilogTasks
  <1>2. EntryInv /\ ActiveInv
    BY <1>1 DEF EntryInv, ActiveInv, AgentAgrees, ContAgrees, HasPreJob, Assigning,
       ActiveStatuses
  <1>3. AbortInv
    BY DEF AbortInv, CompleteStatuses
  <1>4. LeaseInv /\ OwnHostInv
    BY DEF LeaseInv, OwnHostInv, OneJobPerHost
  <1>5. OneTaskInv /\ RepairInv
    BY <1>1 DEF OneTaskInv, RepairInv
  <1> QED
    BY <1>2, <1>3, <1>4, <1>5 DEF ExclInv

-----------------------------------------------------------------------------
(* What the invariant says to the actions.                                 *)

\* An entry with a pre-job task is active, on the host of the task, in a pre-job
\* status; the host scheduler is not at it and it has no agent of its own.
LEMMA PreJobFacts ==
  ASSUME XInv, NEW e \in Entries, HasPreJob(e)
  PROVE  /\ e \in active /\ hqeStatus[e] \in PreJobStatuses
         /\ hqeAgent[e] = "none"
         /\ hsJobs[e] = None /\ hsEntry # e
         /\ cont # None /\ cont.op # "epilog" => cont.hqe # e
  <1> USE DEF XInv, IInv, ExclInv
  <1>1. e \in active /\ hqeStatus[e] \in PreJobStatuses
    BY DEF EntryInv, ActiveInv
  <1>2. hsJobs[e] = None /\ hsEntry # e
    BY DEF QueuedEntryIsFree
  <1>3. AgentAgrees(e) /\ ContAgrees(e)
    BY DEF EntryInv
  <1>4. hqeAgent[e] = "none"
    BY <1>1, <1>3 DEF AgentAgrees, PreJobStatuses, TypeOK, DispatcherTypes
  <1>5. cont # None /\ cont.op # "epilog" => cont.hqe # e
    BY <1>1, <1>3 DEF ContAgrees, PreJobStatuses, TypeOK, DispatcherTypes, Conts
  <1> QED
    BY <1>1, <1>2, <1>4, <1>5

\* A pre-job task some agent is about to start or has just finished.
LEMMA TaskFacts ==
  ASSUME XInv, NEW t \in OpenTasks
  PROVE  /\ t \in Task /\ t.host \in Hosts /\ t.kind \in Kinds /\ t.hqe \in Entries \cup {None}
         /\ t.hqe # None /\ t.kind # "Repair" =>
               t.hqe \in Entries /\ HasPreJob(t.hqe) /\ hqeHost[t.hqe] = t.host
  <1> USE ConstantsAssumption DEF XInv, IInv
  <1>1. t \in Task
    BY DEF OpenTasks, TaskAgents, EpilogTasks, TypeOK, DbTypes, DispatcherTypes, Conts
  <1>2. ASSUME t.hqe # None, t.kind # "Repair"
        PROVE  t.hqe \in Entries /\ HasPreJob(t.hqe) /\ hqeHost[t.hqe] = t.host
    BY <1>1, <1>2 DEF PreJobTasks, HasPreJob, OnePreJobTask, Task
  <1> QED
    BY <1>1, <1>2 DEF Task

\* An active entry is on a host of its own, and an entry whose status is active is.
LEMMA ActiveFacts ==
  ASSUME XInv, NEW e \in Entries, hqeStatus[e] \in ActiveStatuses
  PROVE  e \in active /\ hqeHost[e] \in Hosts /\ e \in ActiveOn(hqeHost[e])
  BY DEF XInv, IInv, ExclInv, ActiveInv, LeaseInv, ActiveOn

\* The statuses a prolog writes are pre-job statuses.
LEMMA StatusOfPreJob ==
  ASSUME NEW k \in Kinds, k # "Repair"
  PROVE  StatusOf(k) \in PreJobStatuses \ {"Queued"}
  <1> USE DEF StatusOf, PreJobStatuses
  <1>1. CASE k = "Verify"
    BY <1>1
  <1>2. CASE k = "Cleanup"
    BY <1>2
  <1>3. CASE k = "Reset"
    BY <1>3
  <1>4. CASE k = "Provision"
    BY <1>4
  <1> QED
    BY <1>1, <1>2, <1>3, <1>4 DEF Kinds, PreJobKinds

\* Nobody aborts, and the rows _find_aborting fetched are those of entries whose
\* job has begun.
LEMMA NoEarlyAbort ==
  ASSUME XInv, Abortable = {}, NEW e \in Entries
  PROVE  ~AbortHqe(e) /\ ~AbortStarting(e) /\ ~AbortPreJob(e)
  BY DEF XInv, ExclInv, AbortInv, AbortHqe, AbortStarting, AbortPreJob, Seen

\* A successful pre-job task that makes its entry Pending was its last one.
LEMMA LastPreJob ==
  ASSUME XInv, EpilogOnPending, NEW t, t = cont.task
  PROVE  /\ t \in Task /\ t.hqe \in Entries /\ t \in PreJobTasks
         /\ hqeHost[t.hqe] = t.host
         /\ HasPreJob(t.hqe) /\ ~HasPreJob(t.hqe)'
         /\ PreJobTasks' \subseteq PreJobTasks
  <1> USE DEF XInv, EpilogOnPending, InEpilog, ShouldPending
  <1>1. /\ t \in Task /\ t.hqe \in Entries /\ t \in PreJobTasks
        /\ t \notin TaskAgents \cup running
        /\ HasPreJob(t.hqe) /\ hqeHost[t.hqe] = t.host
    BY EpilogFacts
  <1>2. \A q \in PreJobTasks' : q \in queued \cup running \cup TaskAgents
    BY DEF PreJobTasks, OpenTasks, EpilogTasks, TaskAgents, taskVars, agentVars
  <1>3. PreJobTasks' \subseteq PreJobTasks
    BY <1>2 DEF PreJobTasks, OpenTasks
  <1>4. ASSUME NEW q \in PreJobTasks', q.hqe = t.hqe PROVE FALSE
    <2>1. q = t
      BY <1>1, <1>3, <1>4 DEF IInv, OnePreJobTask
    <2> QED
      BY <1>1, <1>2, <2>1
  <1> QED
    BY <1>1, <1>3, <1>4 DEF HasPreJob

\* A failed pre-job task was the last one of the entry it requeues or fails.
LEMMA FailedPreJob ==
  ASSUME XInv, NEW t \in Task, t.hqe # None, EpilogRequeue(t) \/ EpilogGiveUp(t)
  PROVE  /\ t.hqe \in Entries /\ t \in PreJobTasks /\ t \in EpilogTasks
         /\ HasPreJob(t.hqe) /\ hqeHost[t.hqe] = t.host /\ t.host \in Hosts
         /\ ~HasPreJob(t.hqe)'
         /\ PreJobTasks' \subseteq PreJobTasks
         /\ SetStatus(t.hqe, "Queued") \/ SetStatus(t.hqe, "Parsing")
  <1> USE DEF XInv
  <1>1. PrejobFailed(t)
    BY DEF EpilogRequeue, EpilogGiveUp
  <1>2. /\ t.hqe \in Entries /\ t \in PreJobTasks /\ t \notin TaskAgents \cup running
        /\ HasPreJob(t.hqe) /\ hqeHost[t.hqe] = t.host /\ t.host \in Hosts
    BY <1>1, EpilogFacts DEF PrejobFailed, InEpilog
  <1>3. t \in EpilogTasks /\ EpilogTasks' = {} /\ TaskAgents' = TaskAgents
    BY <1>1 DEF PrejobFailed, InEpilog, EpilogTasks, TaskAgents, agentVars
  <1>4. SetStatus(t.hqe, "Queued") \/ SetStatus(t.hqe, "Parsing")
    BY DEF EpilogRequeue, EpilogGiveUp
  <1>5. \A q \in queued' \cup running' : q.kind # "Repair" =>
            q \in queued \cup running /\ ~(q.hqe = t.hqe /\ q.host = t.host)
    <2>1. SpecialTask(t.host, "Repair", t.hqe).kind = "Repair"
      BY DEF SpecialTask
    <2>2. CASE EpilogRequeue(t)
      BY <2>1, <2>2 DEF EpilogRequeue, Without, WithoutOn
    <2>3. CASE EpilogGiveUp(t)
      BY <2>3 DEF EpilogGiveUp, Without, WithoutOn
    <2> QED
      BY <2>2, <2>3
  <1>6. PreJobTasks' \subseteq PreJobTasks
    BY <1>3, <1>5 DEF PreJobTasks, OpenTasks
  <1>7. ASSUME NEW q \in PreJobTasks', q.hqe = t.hqe PROVE FALSE
    <2>1. q = t
      BY <1>2, <1>6, <1>7 DEF IInv, OnePreJobTask
    <2>2. t \in queued' \cup running'
      BY <1>2, <1>3, <2>1 DEF PreJobTasks, OpenTasks
    <2> QED
      BY <1>2, <1>5, <2>2 DEF PreJobTasks
  <1> QED
    BY <1>2, <1>3, <1>4, <1>6, <1>7 DEF HasPreJob

\* A repair that can fail its entry has the entry's host to itself.
LEMMA DecisiveFacts ==
  ASSUME XInv, NEW t \in OpenTasks, Decisive(t)
  PROVE  /\ t.hqe \in Entries \ MetaHost /\ hqeHost[t.hqe] = t.host
         /\ t.hqe \notin active /\ ~HasPreJob(t.hqe) /\ ~Assigning(t.hqe)
         /\ hsJobs[t.hqe] = None
         /\ \A e \in active : hqeHost[e] # t.host
  <1> USE DEF XInv, ExclInv
  <1>1. /\ t.hqe \in Entries \ MetaHost /\ t.host = HostOf[t.hqe]
        /\ Held(t.host) /\ ActiveOn(t.host) = {}
    BY DEF RepairInv, Decisive
  <1>2. hqeHost[t.hqe] = t.host /\ hsJobs[t.hqe] \in {None, t.host}
    BY <1>1 DEF OwnHostInv
  <1>3. t.hqe \notin active /\ hsJobs[t.hqe] = None
    BY <1>1, <1>2 DEF ActiveOn, Held
  <1>4. \A e \in active : hqeHost[e] # t.host
    BY <1>1 DEF ActiveOn
  <1> QED
    BY <1>1, <1>2, <1>3, <1>4 DEF ActiveInv

-----------------------------------------------------------------------------
(* The steps, by what they leave alone.                                    *)

\* steps that write neither a column of an entry, aborted excepted, nor its agent
QuietStep ==
    \/ (\E h \in Hosts : ReverifyHost(h)) \/ ScheduleSpecial \/ FindAborting \/ HandleAborted
    \/ (\E e \in Entries : AbortPostJob(e) \/ StartGather(e) \/ StartParse(e))
    \/ (\E x \in todo : SkipAgent(x))
    \/ (\E t \in agentRun, ok \in BOOLEAN : FinishTask(t, ok))
    \/ EpilogReady \/ (\E t \in Task : EpilogRepair(t)) \/ GatherReset
    \/ (\E failed \in BOOLEAN : GatherReboot(failed))
    \/ EndTick \/ ReverifyHosts \/ UNCHANGED vars

\* steps that only create or lose agents
AgentStep == ScheduleRunning \/ Crash \/ (\E found \in SUBSET Recoverable : RecoverTasks(found))

\* steps of the dispatcher that write the status of an entry
WriteStep ==
    \/ (\E e \in Entries : AbortQueueTask(e) \/ StartQueueTask(e) \/ FinishGather(e)
                           \/ FinishParse(e))
    \/ (\E e \in Entries, code \in {"ok", "fail", "signal"} : FinishQueueTask(e, code))
    \/ (\E t \in agentNew : StartTask(t)) \/ EpilogOnPending \/ RunIfReady \/ RepairFailed
    \/ (\E t \in Task : EpilogRequeue(t) \/ EpilogGiveUp(t))
    \/ RecoverPending \/ CheckUnrecovered

\* There are no others, since nobody aborts.
LEMMA StepCases ==
  ASSUME XInv, Abortable = {}, [Next]_vars
  PROVE  QuietStep \/ AgentStep \/ WriteStep \/ HostScheduler \/ HsCrash
  <1>1. CASE Frontend
    BY <1>1, NoEarlyAbort DEF Frontend, QuietStep
  <1>2. CASE Aborting
    BY <1>2, NoEarlyAbort DEF Aborting, QuietStep, WriteStep
  <1>3. CASE Handle
    <2>1. CASE Epilog
      BY <2>1 DEF Epilog, QuietStep, WriteStep
    <2>2. CASE \E e \in Entries : StartQueueTask(e) \/ StartGather(e) \/ FinishGather(e)
                                  \/ StartParse(e) \/ FinishParse(e)
      BY <2>2 DEF QuietStep, WriteStep
    <2>3. CASE ~Epilog /\ ~ \E e \in Entries : StartQueueTask(e) \/ StartGather(e)
                               \/ FinishGather(e) \/ StartParse(e) \/ FinishParse(e)
      BY <1>3, <2>3 DEF Handle, QuietStep, WriteStep
    <2> QED
      BY <2>1, <2>2, <2>3
  <1>4. CASE Recovery
    BY <1>4 DEF Recovery, QuietStep, AgentStep, WriteStep
  <1>5. CASE Crash \/ ScheduleRunning
    BY <1>5 DEF AgentStep
  <1>6. CASE ScheduleSpecial \/ FindAborting \/ HandleAborted \/ EndTick \/ UNCHANGED vars
    BY <1>6 DEF QuietStep
  <1> QED
    BY <1>1, <1>2, <1>3, <1>4, <1>5, <1>6 DEF Next, Dispatcher

\* no task of an entry begins to exist
NoNewTask == \A t \in OpenTasks' : t \in OpenTasks \/ t.hqe = None

\* the rest of a handler only shrinks, or is an epilog
ContShrinks ==
    cont' # None /\ cont'.op # "epilog" =>
        /\ cont # None /\ cont.op # "epilog" /\ cont'.hqe = cont.hqe
        /\ cont'.op = "run" <=> cont.op = "run"
        /\ cont'.op = "reboot" => cont.op = "reboot"

\* What a quiet step leaves alone.
LEMMA QuietFacts ==
  ASSUME XInv, QuietStep
  PROVE  /\ UNCHANGED <<hqeStatus, hqeHost, active, complete, hqeAgent, leased, hsVars>>
         /\ NoNewTask /\ PreJobTasks' \subseteq PreJobTasks
         /\ ContShrinks
  <1> DEFINE Keeps == /\ UNCHANGED <<hqeStatus, hqeHost, active, complete, hqeAgent, leased, hsVars>>
                      /\ ContShrinks
  <1> SUFFICES Keeps /\ NoNewTask
    BY DEF NoNewTask, PreJobTasks
  <1> USE DEF ContShrinks, NoNewTask
  <1> USE DEF entryVars, hostVars, dispVars, agentVars, taskVars, hsVars
  <1>1. CASE \E h \in Hosts : ReverifyHost(h)
    <2>1. Keeps
      BY <1>1 DEF ReverifyHost
    <2>2. NoNewTask
      BY <1>1 DEF ReverifyHost, OpenTasks, TaskAgents, EpilogTasks, SpecialTask
    <2> QED
      BY <2>1, <2>2
  <1>2. CASE ScheduleSpecial
    <2>1. Keeps
      BY <1>2 DEF ScheduleSpecial
    <2>2. agentNew' \subseteq agentNew \cup queued
      <3>1. PICK pick \in [Hosts -> queued \cup {None}] :
                agentNew' = agentNew \cup ({pick[h] : h \in Hosts} \ {None})
        BY <1>2 DEF ScheduleSpecial
      <3> QED
        BY <3>1
    <2>3. NoNewTask
      BY <1>2, <2>2 DEF ScheduleSpecial, OpenTasks, TaskAgents, EpilogTasks
    <2> QED
      BY <2>1, <2>3
  <1>3. CASE FindAborting \/ HandleAborted \/ EndTick \/ UNCHANGED vars
    BY <1>3 DEF FindAborting, HandleAborted, EndTick, vars, OpenTasks, TaskAgents,
       EpilogTasks
  <1>4. CASE \E e \in Entries : AbortPostJob(e) \/ StartGather(e) \/ StartParse(e)
    <2>1. Keeps
      BY <1>4 DEF AbortPostJob, Seen, StartGather, StartParse, Handling
    <2>2. NoNewTask
      BY <1>4 DEF AbortPostJob, DropTasks, Without, Seen, StartGather, StartParse, Handling,
         OpenTasks, TaskAgents, EpilogTasks
    <2> QED
      BY <2>1, <2>2
  <1>5. CASE \E x \in todo : SkipAgent(x)
    BY <1>5 DEF SkipAgent, Handling, OpenTasks, TaskAgents, EpilogTasks
  <1>6. CASE \E t \in agentRun, ok \in BOOLEAN : FinishTask(t, ok)
    BY <1>6 DEF FinishTask, Handling, OpenTasks, TaskAgents, EpilogTasks
  <1>7. CASE EpilogReady
    BY <1>7 DEF EpilogReady, InEpilog, OpenTasks, TaskAgents, EpilogTasks
  <1>8. CASE \E t \in Task : EpilogRepair(t)
    BY <1>8 DEF EpilogRepair, PrejobFailed, InEpilog, OpenTasks, TaskAgents,
       EpilogTasks, SpecialTask
  <1>9. CASE GatherReset
    BY <1>9 DEF GatherReset, OpenTasks, TaskAgents, EpilogTasks, SpecialTask
  <1>10. CASE \E failed \in BOOLEAN : GatherReboot(failed)
    <2>1. PICK failed \in BOOLEAN : GatherReboot(failed)
      BY <1>10
    <2>2. Keeps
      BY <2>1 DEF GatherReboot
    <2>3. /\ queued' \subseteq queued \cup {SpecialTask(hqeHost[cont.hqe], "Cleanup", None)}
          /\ EpilogTasks' = {}
      BY <2>1 DEF GatherReboot, EpilogTasks
    <2>4. NoNewTask
      BY <2>1, <2>3 DEF GatherReboot, OpenTasks, TaskAgents, SpecialTask
    <2> QED
      BY <2>2, <2>4
  <1>11. CASE ReverifyHosts
    <2>1. Keeps
      BY <1>11 DEF ReverifyHosts
    <2>2. \A q \in queued' : q \in queued \/ q.hqe = None
      <3>1. \A h \in Hosts : SpecialTask(h, "Reset", None).hqe = None
        BY DEF SpecialTask
      <3> QED
        BY <1>11, <3>1 DEF ReverifyHosts
    <2>3. NoNewTask
      BY <1>11, <2>2 DEF ReverifyHosts, OpenTasks, TaskAgents, EpilogTasks
    <2> QED
      BY <2>1, <2>3
  <1> QED
    BY <1>1, <1>2, <1>3, <1>4, <1>5, <1>6, <1>7, <1>8, <1>9, <1>10, <1>11 DEF QuietStep

\* Crashes, restarts and new agents concern the dispatcher's memory only.
LEMMA AgentFacts ==
  ASSUME XInv, AgentStep
  PROVE  /\ UNCHANGED <<entryVars, hostVars, taskVars, hsVars>>
         /\ OpenTasks' \subseteq OpenTasks /\ PreJobTasks' \subseteq PreJobTasks
         /\ cont' = cont \/ cont' = None
         /\ \A e \in Entries :
               \/ hqeAgent'[e] \in {"none", hqeAgent[e]}
               \/ hqeAgent'[e] = AgentKind(hqeStatus[e]) /\ hqeStatus[e] \in HandledStatuses
  <1> USE DEF XInv, IInv, entryVars, hostVars, taskVars, hsVars
  <1>1. /\ UNCHANGED <<entryVars, hostVars, taskVars, hsVars>>
        /\ cont' = cont \/ cont' = None
    BY DEF AgentStep, ScheduleRunning, Crash, RecoverTasks
  <1>2. OpenTasks' \subseteq OpenTasks /\ PreJobTasks' \subseteq PreJobTasks
    BY DEF AgentStep, ScheduleRunning, Crash, RecoverTasks, PreJobTasks, OpenTasks, TaskAgents,
       EpilogTasks
  <1>3. ASSUME NEW e \in Entries
        PROVE  \/ hqeAgent'[e] \in {"none", hqeAgent[e]}
               \/ hqeAgent'[e] = AgentKind(hqeStatus[e]) /\ hqeStatus[e] \in HandledStatuses
    <2>1. CASE ScheduleRunning
      BY <2>1 DEF ScheduleRunning
    <2>2. CASE Crash
      BY <2>2 DEF Crash
    <2>3. CASE \E found \in SUBSET Recoverable : RecoverTasks(found)
      BY <2>3 DEF RecoverTasks
    <2> QED
      BY <2>1, <2>2, <2>3 DEF AgentStep
  <1> QED
    BY <1>1, <1>2, <1>3

-----------------------------------------------------------------------------
(* What the dispatcher does to one entry.                                  *)

\* nothing
Kept(e) ==
    /\ hqeStatus'[e] = hqeStatus[e] /\ hqeHost'[e] = hqeHost[e] /\ hqeAgent'[e] = hqeAgent[e]
    /\ (e \in active' <=> e \in active) /\ (e \in complete' <=> e \in complete)

\* write an active status, host and agent kept: a prolog, on_pending, run_if_ready
\* and recovery's on_pending, the prolog of a QueueTask
Advanced(e) ==
    /\ \/ HasPreJob(e) /\ hqeStatus'[e] \in PreJobStatuses \ {"Queued"}
       \/ HasPreJob(e) /\ ~HasPreJob(e)' /\ hqeStatus'[e] = "Pending"
       \/ hqeStatus[e] = "Pending" /\ hqeStatus'[e] = "Starting"
       \/ hqeAgent[e] = "queue" /\ hqeStatus'[e] = "Running"
    /\ e \in active' /\ hqeHost'[e] = hqeHost[e] /\ hqeAgent'[e] = hqeAgent[e]

\* end the work of the agent of the entry
Finished(e) ==
    /\ hqeAgent'[e] = "none" /\ hqeHost'[e] = hqeHost[e]
    /\ \/ hqeAgent[e] = "queue" /\ hqeStatus'[e] = "Gathering" /\ e \in active'
       \/ hqeAgent[e] = "gather" /\ hqeStatus'[e] = "Parsing" /\ e \notin active'
       \/ /\ hqeAgent[e] = "parse" /\ hqeStatus'[e] \in CompleteStatuses
          /\ e \notin active' /\ e \in complete'

\* give up the host: a failed pre-job task, a lost one, a failed repair
Stopped(e) ==
    /\ \/ HasPreJob(e) /\ hqeStatus'[e] \in {"Queued", "Parsing"}
       \/ hqeStatus[e] = "Resetting" /\ hqeStatus'[e] = "Queued"
       \/ /\ hqeStatus[e] = "Queued" /\ hqeStatus'[e] = "Parsing"
          /\ e \notin active /\ ~HasPreJob(e) /\ ~Assigning(e) /\ hsJobs[e] = None
    /\ ~HasPreJob(e)' /\ e \notin active' /\ hqeAgent'[e] = hqeAgent[e]
    /\ e \notin MetaHost => hqeHost'[e] = hqeHost[e]

EntryMove(e) == Kept(e) \/ Advanced(e) \/ Finished(e) \/ Stopped(e)

\* the rest of the handler, after the write
ContMove ==
    \/ cont' = None
    \/ \E e \in Entries : /\ cont' = [op |-> "run", hqe |-> e]
                          /\ HasPreJob(e) /\ hqeStatus'[e] = "Pending"
    \/ \E e \in Entries : /\ cont' = [op |-> "reboot", hqe |-> e]
                          /\ hqeAgent[e] = "gather" /\ hqeStatus'[e] = "Parsing"
                          /\ hqeHost'[e] = hqeHost[e]

DispatcherMove ==
    /\ UNCHANGED <<leased, hsVars>>
    /\ PreJobTasks' \subseteq PreJobTasks
    /\ \A e \in Entries : EntryMove(e)
    /\ ContMove

\* A step of an agent of an entry: its queue, gather or parse agent writes.
LEMMA JobMove ==
  ASSUME XInv, NEW e \in Entries,
         \/ AbortQueueTask(e) \/ StartQueueTask(e) \/ FinishGather(e) \/ FinishParse(e)
         \/ \E code \in {"ok", "fail", "signal"} : FinishQueueTask(e, code)
  PROVE  DispatcherMove
  <1> USE DEF XInv, IInv, TypeOK, DbTypes, DispatcherTypes
  <1>1. UNCHANGED <<leased, hsVars>> /\ PreJobTasks' \subseteq PreJobTasks
    <2>1. CASE AbortQueueTask(e)
      BY <2>1 DEF AbortQueueTask, Seen, DropTasks, Without, PreJobTasks, OpenTasks, TaskAgents,
         EpilogTasks
    <2>2. CASE StartQueueTask(e) \/ FinishParse(e)
               \/ \E code \in {"ok", "fail", "signal"} : FinishQueueTask(e, code)
      BY <2>2 DEF StartQueueTask, FinishParse, FinishQueueTask, Handling, taskVars, PreJobTasks,
         OpenTasks, TaskAgents, EpilogTasks
    <2>3. CASE FinishGather(e)
      BY <2>3 DEF FinishGather, Handling, taskVars, PreJobTasks, OpenTasks, TaskAgents, EpilogTasks
    <2> QED
      BY <2>1, <2>2, <2>3
  <1>2. ASSUME NEW d \in Entries, d # e PROVE Kept(d)
    BY <1>2 DEF Kept, AbortQueueTask, Seen, StartQueueTask, FinishGather, FinishParse,
       FinishQueueTask, SetStatus
  <1>3. EntryMove(e) /\ ContMove
    <2>1. CASE AbortQueueTask(e)
      <3>1. Finished(e)
        BY <2>1 DEF AbortQueueTask, Seen, Finished
      <3>2. cont' = None
        BY <2>1 DEF AbortQueueTask, Seen, PhaseInv
      <3> QED
        BY <3>1, <3>2 DEF EntryMove, ContMove
    <2>2. CASE StartQueueTask(e)
      <3>1. Advanced(e)
        BY <2>2 DEF StartQueueTask, SetStatus, ActiveStatuses, Advanced
      <3>2. cont' = None
        BY <2>2 DEF StartQueueTask, Handling
      <3> QED
        BY <3>1, <3>2 DEF EntryMove, ContMove
    <2>3. CASE \E code \in {"ok", "fail", "signal"} : FinishQueueTask(e, code)
      <3>1. Finished(e)
        BY <2>3 DEF FinishQueueTask, SetStatus, ActiveStatuses, Finished
      <3>2. cont' = None
        BY <2>3 DEF FinishQueueTask, Handling
      <3> QED
        BY <3>1, <3>2 DEF EntryMove, ContMove
    <2>4. CASE FinishGather(e)
      <3>1. Finished(e)
        BY <2>4 DEF FinishGather, SetStatus, ActiveStatuses, Finished
      <3>2. ContMove
        BY <2>4, <3>1 DEF FinishGather, SetStatus, ContMove
      <3> QED
        BY <3>1, <3>2 DEF EntryMove
    <2>5. CASE FinishParse(e)
      <3>1. PICK s \in CompleteStatuses : SetStatus(e, s)
        BY <2>5 DEF FinishParse, CompleteStatuses
      <3>2. Finished(e)
        BY <2>5, <3>1 DEF FinishParse, SetStatus, ActiveStatuses, CompleteStatuses, Finished
      <3>3. cont' = None
        BY <2>5 DEF FinishParse, Handling
      <3> QED
        BY <3>2, <3>3 DEF EntryMove, ContMove
    <2> QED
      BY <2>1, <2>2, <2>3, <2>4, <2>5
  <1> QED
    BY <1>1, <1>2, <1>3 DEF DispatcherMove, EntryMove

\* The prolog of a special task: only a pre-job task writes its entry.
LEMMA StartTaskMove ==
  ASSUME XInv, NEW t \in agentNew, StartTask(t) PROVE DispatcherMove
  <1> USE DEF XInv, IInv, TypeOK, DbTypes, DispatcherTypes
  <1>0. t \in OpenTasks
    BY DEF OpenTasks, TaskAgents
  <1>1. /\ t.kind \in Kinds
        /\ t.hqe # None /\ t.kind # "Repair" => t.hqe \in Entries /\ HasPreJob(t.hqe)
    BY <1>0, TaskFacts
  <1>2. UNCHANGED <<leased, hsVars>> /\ PreJobTasks' \subseteq PreJobTasks /\ cont' = None
    BY DEF StartTask, Handling, PreJobTasks, OpenTasks, TaskAgents, EpilogTasks
  <1>3. ASSUME NEW d \in Entries PROVE EntryMove(d)
    <2>1. CASE t.hqe = d /\ t.kind # "Repair" /\ t.hqe # None
      <3>1. StatusOf(t.kind) \in PreJobStatuses \ {"Queued"}
        BY <1>1, <2>1, StatusOfPreJob
      <3>2. Advanced(d)
        BY <1>1, <2>1, <3>1 DEF StartTask, SetStatus, Advanced, PreJobStatuses, ActiveStatuses
      <3> QED
        BY <3>2 DEF EntryMove
    <2>2. CASE ~(t.hqe = d /\ t.kind # "Repair" /\ t.hqe # None)
      <3>1. Kept(d)
        BY <1>1, <2>2 DEF StartTask, SetStatus, Kept
      <3> QED
        BY <3>1 DEF EntryMove
    <2> QED
      BY <2>1, <2>2
  <1> QED
    BY <1>2, <1>3 DEF DispatcherMove, ContMove

\* The epilog of a special task, and what run_if_ready writes after it.
LEMMA EpilogMove ==
  ASSUME XInv,
         \/ EpilogOnPending \/ RunIfReady \/ RepairFailed
         \/ \E t \in Task : EpilogRequeue(t) \/ EpilogGiveUp(t)
  PROVE  DispatcherMove
  <1> USE ConstantsAssumption DEF XInv, IInv, TypeOK, DbTypes, DispatcherTypes
  <1>1. CASE EpilogOnPending
    <2>1. PICK t : t = cont.task
      OBVIOUS
    <2>2. /\ t.hqe \in Entries /\ HasPreJob(t.hqe) /\ ~HasPreJob(t.hqe)'
          /\ PreJobTasks' \subseteq PreJobTasks
      BY <1>1, <2>1, LastPreJob
    <2>3. UNCHANGED <<leased, hsVars>>
      BY <1>1 DEF EpilogOnPending, InEpilog
    <2>4. Advanced(t.hqe)
      BY <1>1, <2>1, <2>2 DEF EpilogOnPending, InEpilog, agentVars, SetStatus, Advanced,
         ActiveStatuses
    <2>5. \A d \in Entries : d # t.hqe => Kept(d)
      BY <1>1, <2>1, <2>2 DEF EpilogOnPending, InEpilog, agentVars, SetStatus, Kept
    <2>6. ContMove
      BY <1>1, <2>1, <2>2 DEF EpilogOnPending, SetStatus, ContMove
    <2> QED
      BY <2>2, <2>3, <2>4, <2>5, <2>6 DEF DispatcherMove, EntryMove
  <1>2. CASE RunIfReady
    <2>1. PICK e \in Entries : e = cont.hqe
      BY <1>2 DEF RunIfReady, Conts
    <2>2. hqeStatus[e] = "Pending"
      BY <1>2, <2>1 DEF RunIfReady, ExclInv, EntryInv, ContAgrees
    <2>3. UNCHANGED <<leased, hsVars>> /\ PreJobTasks' \subseteq PreJobTasks /\ cont' = None
      BY <1>2 DEF RunIfReady, hostVars, taskVars, agentVars, PreJobTasks, OpenTasks, TaskAgents,
         EpilogTasks
    <2>4. Advanced(e)
      BY <1>2, <2>1, <2>2 DEF RunIfReady, agentVars, SetStatus, Advanced, ActiveStatuses
    <2>5. \A d \in Entries : d # e => Kept(d)
      BY <1>2, <2>1 DEF RunIfReady, agentVars, SetStatus, Kept
    <2> QED
      BY <2>3, <2>4, <2>5 DEF DispatcherMove, EntryMove, ContMove
  <1>3. CASE RepairFailed
    <2>1. PICK t \in Task : t = cont.task
      BY <1>3 DEF RepairFailed, InEpilog, Conts
    <2>2. /\ UNCHANGED <<leased, hsVars>> /\ cont' = None
          /\ PreJobTasks' \subseteq PreJobTasks
      <3>1. UNCHANGED <<leased, hsVars, agentVars, hqeHost>> /\ cont' = None
        BY <1>3 DEF RepairFailed, InEpilog
      <3>2. queued' \subseteq queued /\ running' \subseteq running
        BY <1>3 DEF RepairFailed, Without
      <3>3. EpilogTasks' = {} /\ TaskAgents' = TaskAgents
        BY <3>1 DEF EpilogTasks, TaskAgents, agentVars
      <3>4. PreJobTasks' \subseteq PreJobTasks
        BY <3>2, <3>3 DEF PreJobTasks, OpenTasks
      <3> QED
        BY <3>1, <3>4
    <2>3. CASE t.hqe # None /\ t.hqe \notin MetaHost /\ hqeStatus[t.hqe] = "Queued"
      <3>1. t \in OpenTasks /\ Decisive(t)
        BY <1>3, <2>1, <2>3 DEF RepairFailed, InEpilog, EpilogTasks, OpenTasks, Decisive, Task,
           OverStatuses, CompleteStatuses
      <3>2. /\ t.hqe \in Entries \ MetaHost
            /\ t.hqe \notin active /\ ~HasPreJob(t.hqe) /\ ~Assigning(t.hqe)
            /\ hsJobs[t.hqe] = None
        BY <3>1, DecisiveFacts
      <3>3. Stopped(t.hqe)
        <4>1. ~HasPreJob(t.hqe)'
          BY <2>2, <3>2 DEF HasPreJob
        <4> QED
          BY <1>3, <2>1, <2>3, <3>2, <4>1 DEF RepairFailed, InEpilog, agentVars, SetStatus,
             Stopped, ActiveStatuses
      <3>4. \A d \in Entries : d # t.hqe => Kept(d)
        <4>1. SetStatus(t.hqe, "Parsing") /\ UNCHANGED <<hqeHost, hqeAgent>>
          BY <1>3, <2>1, <2>3 DEF RepairFailed, InEpilog, agentVars
        <4> QED
          BY <3>2, <4>1 DEF SetStatus, Kept
      <3> QED
        BY <2>2, <3>3, <3>4 DEF DispatcherMove, EntryMove, ContMove
    <2>4. CASE ~(t.hqe # None /\ t.hqe \notin MetaHost /\ hqeStatus[t.hqe] = "Queued")
      <3>1. \A d \in Entries : Kept(d)
        BY <1>3, <2>1, <2>4 DEF RepairFailed, InEpilog, agentVars, Kept
      <3> QED
        BY <2>2, <3>1 DEF DispatcherMove, EntryMove, ContMove
    <2> QED
      BY <2>3, <2>4
  <1>4. CASE \E t \in Task : EpilogRequeue(t) \/ EpilogGiveUp(t)
    <2>1. PICK t \in Task : EpilogRequeue(t) \/ EpilogGiveUp(t)
      BY <1>4
    <2>2. /\ PrejobFailed(t) /\ t.hqe # None
          /\ hqeHost' = [hqeHost EXCEPT ![t.hqe] = HostAfterFailure(t.hqe)]
      BY <2>1 DEF EpilogRequeue, EpilogGiveUp
    <2>3. /\ t.hqe \in Entries /\ HasPreJob(t.hqe) /\ ~HasPreJob(t.hqe)'
          /\ PreJobTasks' \subseteq PreJobTasks
          /\ SetStatus(t.hqe, "Queued") \/ SetStatus(t.hqe, "Parsing")
      BY <2>1, <2>2, FailedPreJob
    <2>4. UNCHANGED <<leased, hsVars>> /\ cont' = None /\ UNCHANGED hqeAgent
      BY <2>2 DEF PrejobFailed, InEpilog, agentVars
    <2>5. Stopped(t.hqe)
      BY <2>2, <2>3, <2>4 DEF SetStatus, Stopped, ActiveStatuses, HostAfterFailure
    <2>6. \A d \in Entries : d # t.hqe => Kept(d)
      BY <2>2, <2>3, <2>4 DEF SetStatus, Kept
    <2> QED
      BY <2>3, <2>4, <2>5, <2>6 DEF DispatcherMove, EntryMove, ContMove
  <1> QED
    BY <1>1, <1>2, <1>3, <1>4

\* Recovery: what was Pending is started, what lost its reset goes back to the queue.
LEMMA RecoveryMove ==
  ASSUME XInv, RecoverPending \/ CheckUnrecovered PROVE DispatcherMove
  <1> USE DEF XInv, IInv, TypeOK, DbTypes, DispatcherTypes
  <1>1. /\ UNCHANGED <<leased, hsVars, hqeHost, hqeAgent>> /\ cont' = None /\ cont = None
        /\ PreJobTasks' = PreJobTasks
    BY DEF RecoverPending, CheckUnrecovered, PhaseInv, taskVars, agentVars, PreJobTasks,
       OpenTasks, TaskAgents, EpilogTasks
  <1>2. CASE RecoverPending
    <2>1. ASSUME NEW e \in Entries PROVE Kept(e) \/ Advanced(e)
      BY <1>1, <1>2 DEF RecoverPending, Kept, Advanced
    <2> QED
      BY <1>1, <2>1 DEF DispatcherMove, EntryMove, ContMove
  <1>3. CASE CheckUnrecovered
    <2>1. ASSUME NEW e \in Entries PROVE Kept(e) \/ Stopped(e)
      <3> DEFINE Lost == /\ hqeStatus[e] = "Resetting"
                         /\ \A t \in queued \cup running :
                               t.hqe = e => t.kind \notin {"Cleanup", "Verify", "Reset"}
      <3>1. CASE ~Lost
        BY <1>1, <1>3, <3>1 DEF CheckUnrecovered, Kept
      <3>2. CASE Lost
        <4>1. ~HasPreJob(e)
          <5> SUFFICES ASSUME NEW t \in PreJobTasks, t.hqe = e PROVE FALSE
            BY DEF HasPreJob
          <5>1. t.kind = "Reset"
            BY <3>2 DEF TaskInv
          <5>2. t \in queued \cup running
            BY <1>1, <1>3 DEF CheckUnrecovered, PhaseInv, PreJobTasks, OpenTasks, EpilogTasks
          <5> QED
            BY <3>2, <5>1, <5>2
        <4>2. ~HasPreJob(e)'
          BY <1>1, <4>1 DEF HasPreJob
        <4> QED
          BY <1>1, <1>3, <3>2, <4>2 DEF CheckUnrecovered, Stopped
      <3> QED
        BY <3>1, <3>2
    <2> QED
      BY <1>1, <2>1 DEF DispatcherMove, EntryMove, ContMove
  <1> QED
    BY <1>2, <1>3

\* Every write of the dispatcher is one of these moves.
LEMMA WriteMove == ASSUME XInv, WriteStep PROVE DispatcherMove
  BY JobMove, StartTaskMove, EpilogMove, RecoveryMove DEF WriteStep

-----------------------------------------------------------------------------
(* How far an entry has come.                                              *)

\* The order of the statuses.
LEMMA RankOf ==
  /\ Rank("Queued") = 0
  /\ \A s \in PreJobStatuses \ {"Queued"} : Rank(s) = 1
  /\ Rank("Pending") = 2 /\ Rank("Starting") = 3 /\ Rank("Running") = 4
  /\ Rank("Gathering") = 5 /\ Rank("Parsing") = 6
  /\ \A s \in CompleteStatuses : Rank(s) = 7
  BY DEF Rank, PreJobStatuses, CompleteStatuses

\* an entry moves forward, or from a pre-job task back to the queue
Forward(e) ==
    \/ Rank(hqeStatus'[e]) >= Rank(hqeStatus[e])
    \/ Rank(hqeStatus[e]) = 1 /\ hqeStatus'[e] = "Queued"

\* Forwards is forwards: what has begun has begun, what is over is over.
LEMMA RankBounds ==
  ASSUME NEW s \in Statuses
  PROVE  /\ Rank(s) \in Nat
         /\ s \in LateStatuses <=> Rank(s) >= 4
         /\ s \in OverStatuses <=> Rank(s) >= 6
  <1> USE RankOf DEF LateStatuses, OverStatuses, CompleteStatuses, PreJobStatuses
  <1>1. CASE s \in CompleteStatuses
    BY <1>1
  <1>2. CASE s \in PreJobStatuses
    BY <1>2
  <1>3. CASE s \in {"Pending", "Starting", "Running", "Gathering", "Parsing"}
    BY <1>3
  <1> QED
    BY <1>1, <1>2, <1>3 DEF Statuses, ActiveStatuses

\* A move of the dispatcher is a move forward.
LEMMA MoveForward ==
  ASSUME XInv, NEW e \in Entries, EntryMove(e) PROVE Forward(e)
  <1> USE DEF XInv, IInv, ExclInv
  <1>0. Rank(hqeStatus[e]) \in Nat /\ hqeStatus[e] \in Statuses
    BY RankBounds DEF TypeOK, DbTypes
  <1>1. AgentAgrees(e) /\ (HasPreJob(e) => hqeStatus[e] \in PreJobStatuses)
    BY DEF EntryInv
  <1>2. HasPreJob(e) => Rank(hqeStatus[e]) \in {0, 1}
    BY <1>1, RankOf
  <1>3. CASE Kept(e)
    BY <1>0, <1>3 DEF Kept, Forward
  <1>4. CASE Advanced(e)
    <2>1. CASE HasPreJob(e)
      <3>1. \/ hqeStatus'[e] \in PreJobStatuses \ {"Queued"} \/ hqeStatus'[e] = "Pending"
            \/ hqeStatus[e] = "Pending" /\ hqeStatus'[e] = "Starting"
            \/ hqeAgent[e] = "queue" /\ hqeStatus'[e] = "Running"
        BY <1>4 DEF Advanced
      <3>2. Rank(hqeStatus'[e]) \in {1, 2, 3, 4}
        BY <3>1, RankOf
      <3> QED
        BY <1>2, <2>1, <3>2 DEF Forward
    <2>2. CASE hqeStatus[e] = "Pending" /\ hqeStatus'[e] = "Starting"
      BY <2>2, RankOf DEF Forward
    <2>3. CASE hqeAgent[e] = "queue" /\ hqeStatus'[e] = "Running"
      BY <1>1, <2>3, RankOf DEF Forward, AgentAgrees
    <2> QED
      BY <1>4, <2>1, <2>2, <2>3 DEF Advanced
  <1>5. CASE Finished(e)
    <2>1. CASE hqeAgent[e] = "queue" /\ hqeStatus'[e] = "Gathering"
      BY <1>1, <2>1, RankOf DEF Forward, AgentAgrees
    <2>2. CASE hqeAgent[e] = "gather" /\ hqeStatus'[e] = "Parsing"
      BY <1>1, <2>2, RankOf DEF Forward, AgentAgrees
    <2>3. CASE hqeAgent[e] = "parse" /\ hqeStatus'[e] \in CompleteStatuses
      BY <1>1, <2>3, RankOf DEF Forward, AgentAgrees
    <2> QED
      BY <1>5, <2>1, <2>2, <2>3 DEF Finished
  <1>6. CASE Stopped(e)
    <2>1. CASE HasPreJob(e) /\ hqeStatus'[e] \in {"Queued", "Parsing"}
      <3>1. \/ Rank(hqeStatus'[e]) = 0 /\ hqeStatus'[e] = "Queued"
            \/ Rank(hqeStatus'[e]) = 6
        BY <2>1, RankOf
      <3> QED
        BY <1>2, <2>1, <3>1 DEF Forward
    <2>2. CASE hqeStatus[e] = "Resetting" /\ hqeStatus'[e] = "Queued"
      BY <2>2, RankOf DEF Forward, PreJobStatuses
    <2>3. CASE hqeStatus[e] = "Queued" /\ hqeStatus'[e] = "Parsing"
      BY <2>3, RankOf DEF Forward
    <2> QED
      BY <1>6, <2>1, <2>2, <2>3 DEF Stopped
  <1> QED
    BY <1>3, <1>4, <1>5, <1>6 DEF EntryMove

\* Nobody moves an entry backwards, the host scheduler's stale writes included.
LEMMA StepForward ==
  ASSUME XInv, Abortable = {}, [Next]_vars, NEW e \in Entries PROVE Forward(e)
  <1> USE DEF XInv, IInv, ExclInv
  <1>0. Rank(hqeStatus[e]) \in Nat
    BY RankBounds DEF TypeOK, DbTypes
  <1>1. CASE hqeStatus'[e] = hqeStatus[e]
    BY <1>0, <1>1 DEF Forward
  <1>2. CASE WriteStep
    BY <1>2, WriteMove, MoveForward DEF DispatcherMove
  <1>3. CASE HsOnPending /\ e = hsEntry
    <2>1. hqeStatus[e] = "Queued" /\ hqeStatus'[e] = "Pending"
      BY <1>3 DEF HsOnPending, EntryInv, Assigning, TypeOK, DbTypes
    <2> QED
      BY <2>1, RankOf DEF Forward
  <1>4. CASE HsRun /\ e = hsEntry /\ hqeStatus[e] = "Pending"
    <2>1. hqeStatus'[e] = "Starting"
      BY <1>4 DEF HsRun, TypeOK, DbTypes
    <2> QED
      BY <1>4, <2>1, RankOf DEF Forward
  <1>5. CASE (HostScheduler /\ ~(HsOnPending /\ e = hsEntry)
               /\ ~(HsRun /\ e = hsEntry /\ hqeStatus[e] = "Pending")) \/ HsCrash
    <2>1. hqeStatus'[e] = hqeStatus[e]
      BY <1>5 DEF HostScheduler, HsLease, HsAcquire, HsSetHost, HsActivate, HsPreJob, HsOnPending,
         HsRun, HsFindUnused, HsUnlease, HsCrash, entryVars, TypeOK, DbTypes
    <2> QED
      BY <1>1, <2>1
  <1>6. CASE QuietStep \/ AgentStep
    <2>1. hqeStatus' = hqeStatus
      BY <1>6, QuietFacts, AgentFacts DEF entryVars
    <2> QED
      BY <1>1, <2>1
  <1> QED
    BY <1>2, <1>3, <1>4, <1>5, <1>6, StepCases

\* So a job that has begun, or is over, stays so.
LEMMA LateStays ==
  ASSUME XInv, Abortable = {}, [Next]_vars, NEW e \in Entries
  PROVE  /\ hqeStatus[e] \in LateStatuses => hqeStatus'[e] \in LateStatuses
         /\ hqeStatus[e] \in OverStatuses => hqeStatus'[e] \in OverStatuses
  <1>1. hqeStatus[e] \in Statuses /\ hqeStatus'[e] \in Statuses
    BY NextIInv DEF XInv, IInv, TypeOK, DbTypes
  <1>2. Forward(e)
    BY StepForward
  <1>3. /\ Rank(hqeStatus[e]) \in Nat /\ Rank(hqeStatus'[e]) \in Nat
        /\ hqeStatus[e] \in LateStatuses <=> Rank(hqeStatus[e]) >= 4
        /\ hqeStatus[e] \in OverStatuses <=> Rank(hqeStatus[e]) >= 6
        /\ hqeStatus'[e] \in LateStatuses <=> Rank(hqeStatus'[e]) >= 4
        /\ hqeStatus'[e] \in OverStatuses <=> Rank(hqeStatus'[e]) >= 6
    BY <1>1, RankBounds
  <1> QED
    BY <1>2, <1>3 DEF Forward

-----------------------------------------------------------------------------
(* The parts of the invariant, one by one.                                 *)

\* The entry the host scheduler is at is waiting for its first task.
LEMMA AssigningFacts ==
  ASSUME XInv, hsPhase = "prejob"
  PROVE  /\ hsEntry \in Entries /\ hqeStatus[hsEntry] = "Queued" /\ hsEntry \in active
         /\ hqeAgent[hsEntry] = "none" /\ ~HasPreJob(hsEntry) /\ hsJobs[hsEntry] = None
         /\ cont # None /\ cont.op # "epilog" => cont.hqe # hsEntry
         /\ hqeHost[hsEntry] \in Hosts
  <1> USE DEF XInv, IInv, ExclInv
  <1>1. hsEntry \in Entries
    BY DEF HsInv, TypeOK, HostSchedulerTypes
  <1>2. hqeStatus[hsEntry] = "Queued" /\ hsEntry \in active
    BY <1>1 DEF EntryInv, ActiveInv, Assigning
  <1>3. AgentAgrees(hsEntry) /\ ContAgrees(hsEntry)
    BY <1>1 DEF EntryInv
  <1>4. hqeAgent[hsEntry] = "none"
    BY <1>1, <1>2, <1>3 DEF AgentAgrees, TypeOK, DispatcherTypes
  <1>5. cont # None /\ cont.op # "epilog" => cont.hqe # hsEntry
    BY <1>2, <1>3 DEF ContAgrees, TypeOK, DispatcherTypes, Conts
  <1>6. ~HasPreJob(hsEntry) /\ hsJobs[hsEntry] = None
    BY <1>1 DEF QueuedEntryIsFree, HsInv
  <1>7. hqeHost[hsEntry] \in Hosts
    BY <1>2 DEF LeaseInv
  <1> QED
    BY <1>1, <1>2, <1>4, <1>5, <1>6, <1>7

\* Steps of the host scheduler neither create a task, but for one, nor touch
\* the dispatcher's memory.
LEMMA HsTasks ==
  ASSUME HostScheduler \/ HsCrash
  PROVE  /\ UNCHANGED <<dispVars, running, complete, aborted>>
         /\ UNCHANGED <<TaskAgents, EpilogTasks, BusyTasks>>
         /\ UNCHANGED queued \/ \E k \in PreJobKinds : HsPreJob(k)
  <1>1. UNCHANGED <<dispVars, running, complete, aborted>>
    BY DEF HostScheduler, HsLease, HsAcquire, HsSetHost, HsActivate, HsPreJob, HsOnPending,
       HsRun, HsFindUnused, HsUnlease, HsCrash, entryVars, taskVars
  <1>2. UNCHANGED <<TaskAgents, EpilogTasks, BusyTasks>>
    BY <1>1 DEF dispVars, TaskAgents, EpilogTasks, BusyTasks
  <1>3. UNCHANGED queued \/ \E k \in PreJobKinds : HsPreJob(k)
    BY DEF HostScheduler, HsLease, HsAcquire, HsSetHost, HsActivate, HsOnPending,
       HsRun, HsFindUnused, HsUnlease, HsCrash, taskVars
  <1> QED
    BY <1>1, <1>2, <1>3

\* The pre-job tasks after a step of the host scheduler.
LEMMA HsPreJobTasks ==
  ASSUME XInv, HostScheduler \/ HsCrash, NEW e \in Entries, HasPreJob(e)'
  PROVE  HasPreJob(e) \/ ((\E k \in PreJobKinds : HsPreJob(k)) /\ e = hsEntry)
  <1>1. PICK t \in PreJobTasks' : t.hqe = e
    BY DEF HasPreJob
  <1>2. CASE UNCHANGED queued
    <2>1. PreJobTasks' = PreJobTasks
      BY <1>2, HsTasks DEF PreJobTasks, OpenTasks
    <2> QED
      BY <1>1, <2>1 DEF HasPreJob
  <1>3. CASE \E k \in PreJobKinds : HsPreJob(k)
    <2>1. PICK k \in PreJobKinds : HsPreJob(k)
      BY <1>3
    <2>2. t \in PreJobTasks \/ t = SpecialTask(hqeHost[hsEntry], k, hsEntry)
      BY <2>1, <1>1, HsTasks DEF HsPreJob, PreJobTasks, OpenTasks
    <2>3. SpecialTask(hqeHost[hsEntry], k, hsEntry).hqe = hsEntry
      BY DEF SpecialTask
    <2> QED
      BY <1>1, <1>3, <2>2, <2>3 DEF HasPreJob
  <1> QED
    BY <1>2, <1>3, HsTasks

\* EntryInv: whoever writes the status of an entry drops what depended on the old one.
LEMMA NextEntryInv == ASSUME XInv, Abortable = {}, [Next]_vars PROVE EntryInv'
  <1> SUFFICES ASSUME NEW e \in Entries
               PROVE  /\ AgentAgrees(e)' /\ ContAgrees(e)'
                      /\ HasPreJob(e)' => hqeStatus'[e] \in PreJobStatuses
                      /\ (hsJobs[e] # None \/ Assigning(e))' => hqeStatus'[e] = "Queued"
    BY DEF EntryInv
  <1> USE DEF XInv, IInv, ExclInv
  <1>0. /\ AgentAgrees(e) /\ ContAgrees(e)
        /\ HasPreJob(e) => hqeStatus[e] \in PreJobStatuses
        /\ hsJobs[e] # None \/ Assigning(e) => hqeStatus[e] = "Queued"
    BY DEF EntryInv
  <1>1. CASE QuietStep
    <2>1. /\ UNCHANGED <<hqeStatus, hqeAgent, hsVars>> /\ PreJobTasks' \subseteq PreJobTasks
          /\ ContShrinks
      BY <1>1, QuietFacts
    <2>2. AgentAgrees(e)' /\ ContAgrees(e)'
      BY <1>0, <2>1 DEF AgentAgrees, ContAgrees, ContShrinks, hsVars
    <2>3. HasPreJob(e)' => hqeStatus'[e] \in PreJobStatuses
      BY <1>0, <2>1 DEF HasPreJob
    <2> QED
      BY <1>0, <2>1, <2>2, <2>3 DEF hsVars, Assigning
  <1>2. CASE AgentStep
    <2>1. /\ UNCHANGED <<hqeStatus, hsVars>> /\ PreJobTasks' \subseteq PreJobTasks
          /\ cont' = cont \/ cont' = None
          /\ \/ hqeAgent'[e] \in {"none", hqeAgent[e]}
             \/ hqeAgent'[e] = AgentKind(hqeStatus[e]) /\ hqeStatus[e] \in HandledStatuses
      BY <1>2, AgentFacts DEF entryVars
    <2>2. AgentAgrees(e)'
      BY <1>0, <2>1 DEF AgentAgrees, AgentKind, HandledStatuses
    <2>3. ContAgrees(e)'
      BY <1>0, <2>1 DEF ContAgrees, hsVars
    <2>4. HasPreJob(e)' => hqeStatus'[e] \in PreJobStatuses
      BY <1>0, <2>1 DEF HasPreJob
    <2> QED
      BY <1>0, <2>1, <2>2, <2>3, <2>4 DEF hsVars, Assigning
  <1>3. CASE WriteStep
    <2>0. DispatcherMove
      BY <1>3, WriteMove
    <2>1. /\ UNCHANGED hsVars /\ PreJobTasks' \subseteq PreJobTasks
          /\ EntryMove(e) /\ ContMove /\ (HasPreJob(e)' => HasPreJob(e))
      BY <2>0 DEF DispatcherMove, HasPreJob
    <2>2. HasPreJob(e) => /\ hqeAgent[e] = "none" /\ hsJobs[e] = None /\ hsEntry # e
      BY PreJobFacts
    <2>3. ContAgrees(e)'
      BY <2>1, <2>2 DEF ContMove, ContAgrees, hsVars
    <2>4. AgentAgrees(e)'
      BY <1>0, <2>1, <2>2 DEF EntryMove, Kept, Advanced, Finished, Stopped, AgentAgrees
    <2>5. HasPreJob(e)' => hqeStatus'[e] \in PreJobStatuses
      <3> SUFFICES ASSUME HasPreJob(e)' PROVE hqeStatus'[e] \in PreJobStatuses
        OBVIOUS
      <3>1. Kept(e) \/ hqeStatus'[e] \in PreJobStatuses
        BY <1>0, <2>1, <2>2 DEF EntryMove, Advanced, Finished, Stopped, PreJobStatuses
      <3> QED
        BY <1>0, <2>1, <3>1 DEF Kept
    <2>6. (hsJobs[e] # None \/ Assigning(e))' => hqeStatus'[e] = "Queued"
      <3> SUFFICES ASSUME hsJobs[e] # None \/ Assigning(e) PROVE hqeStatus'[e] = "Queued"
        BY <2>1 DEF hsVars, Assigning
      <3>1. Kept(e)
        BY <1>0, <2>1, <2>2 DEF EntryMove, Advanced, Finished, Stopped, AgentAgrees, Assigning
      <3> QED
        BY <1>0, <3>1 DEF Kept
    <2> QED
      BY <2>3, <2>4, <2>5, <2>6
  <1>4. CASE HostScheduler \/ HsCrash
    <2>0. UNCHANGED <<hqeAgent, cont>>
      BY <1>4, HsTasks DEF dispVars
    <2>1. CASE HsLease \/ HsFindUnused \/ HsUnlease \/ HsCrash
      <3>1. /\ UNCHANGED hqeStatus /\ ~Assigning(e)'
            /\ hsJobs'[e] \in {None, hsJobs[e]} /\ hsEntry' \in {None, hsEntry}
        BY <2>1 DEF HsLease, HsFindUnused, HsUnlease, HsCrash, entryVars, Assigning
      <3>2. HasPreJob(e)' => HasPreJob(e)
        BY <1>4, <2>1, HsPreJobTasks DEF HsLease, HsFindUnused, HsUnlease, HsCrash, HsPreJob
      <3> QED
        BY <1>0, <2>0, <3>1, <3>2, ConstantsAssumption DEF AgentAgrees, ContAgrees
    <2>2. CASE HsAcquire
      <3>1. /\ UNCHANGED hqeStatus /\ ~Assigning(e)' /\ UNCHANGED hsEntry
            /\ hsJobs'[e] # None => Pending(e)
        BY <2>2 DEF HsAcquire, Acquisitions, entryVars, Assigning
      <3>2. HasPreJob(e)' => HasPreJob(e)
        BY <1>4, <2>2, HsPreJobTasks DEF HsAcquire, HsPreJob
      <3> QED
        BY <1>0, <2>0, <3>1, <3>2 DEF AgentAgrees, ContAgrees, Pending
    <2>3. CASE \E d \in Entries : HsActivate(d)
      <3>1. PICK d \in Entries : HsActivate(d)
        BY <2>3
      <3>2. /\ UNCHANGED hqeStatus /\ hqeStatus[d] = "Queued" /\ hsEntry' = d
            /\ hsJobs'[e] \in {None, hsJobs[e]}
        BY <3>1 DEF HsActivate, EntryInv, TypeOK, HostSchedulerTypes
      <3>3. HasPreJob(e)' => HasPreJob(e)
        BY <1>4, <3>1, HsPreJobTasks DEF HsActivate, HsPreJob
      <3>4. ContAgrees(e)'
        BY <1>0, <2>0, <3>2 DEF ContAgrees
      <3> QED
        BY <1>0, <2>0, <3>2, <3>3, <3>4 DEF AgentAgrees, Assigning
    <2>7. CASE \E d \in Entries : HsSetHost(d)
      <3>1. PICK d \in Entries : HsSetHost(d)
        BY <2>7
      <3>2. /\ UNCHANGED <<hqeStatus, hsJobs>> /\ hqeStatus[d] = "Queued" /\ hsEntry' = d
            /\ ~Assigning(e)'
        BY <3>1 DEF HsSetHost, EntryInv, Assigning
      <3>3. HasPreJob(e)' => HasPreJob(e)
        BY <1>4, <3>1, HsPreJobTasks DEF HsSetHost, HsPreJob
      <3>4. ContAgrees(e)'
        BY <1>0, <2>0, <3>2 DEF ContAgrees
      <3> QED
        BY <1>0, <2>0, <3>2, <3>3, <3>4 DEF AgentAgrees
    <2>4. CASE \E k \in PreJobKinds : HsPreJob(k)
      <3>1. /\ UNCHANGED <<hqeStatus, hsJobs>> /\ ~Assigning(e)' /\ hsEntry' = None
            /\ hsPhase = "prejob"
        BY <2>4 DEF HsPreJob, entryVars, Assigning
      <3>2. HasPreJob(e)' => HasPreJob(e) \/ hqeStatus[e] = "Queued"
        BY <1>4, <3>1, HsPreJobTasks, AssigningFacts
      <3> QED
        BY <1>0, <2>0, <3>1, <3>2, ConstantsAssumption DEF AgentAgrees, ContAgrees, PreJobStatuses
    <2>5. CASE HsOnPending
      <3>1. /\ UNCHANGED <<hsJobs, hsEntry>> /\ ~Assigning(e)' /\ hsPhase = "prejob"
            /\ hqeStatus'[e] = IF e = hsEntry THEN "Pending" ELSE hqeStatus[e]
        BY <2>5 DEF HsOnPending, Assigning, TypeOK, DbTypes
      <3>2. HasPreJob(e)' => HasPreJob(e)
        BY <1>4, <2>5, HsPreJobTasks DEF HsOnPending, HsPreJob, taskVars
      <3>3. e = hsEntry => /\ hqeAgent[e] = "none" /\ ~HasPreJob(e) /\ hsJobs[e] = None
                           /\ cont # None /\ cont.op # "epilog" => cont.hqe # e
        BY <3>1, AssigningFacts
      <3> QED
        BY <1>0, <2>0, <3>1, <3>2, <3>3 DEF AgentAgrees, ContAgrees
    <2>6. CASE HsRun
      <3>1. /\ UNCHANGED hsJobs /\ ~Assigning(e)' /\ hsEntry' = None
            /\ hqeStatus'[e] = IF e = hsEntry /\ hqeStatus[e] = "Pending"
                               THEN "Starting" ELSE hqeStatus[e]
        BY <2>6 DEF HsRun, Assigning, TypeOK, DbTypes
      <3>2. HasPreJob(e)' => HasPreJob(e)
        BY <1>4, <2>6, HsPreJobTasks DEF HsRun, HsPreJob, taskVars
      <3>3. ContAgrees(e)'
        BY <1>0, <2>0, <3>1, ConstantsAssumption DEF ContAgrees, TypeOK, DispatcherTypes, Conts
      <3> QED
        BY <1>0, <2>0, <3>1, <3>2, <3>3 DEF AgentAgrees, PreJobStatuses
    <2> QED
      BY <1>4, <2>1, <2>2, <2>3, <2>4, <2>5, <2>6, <2>7 DEF HostScheduler
  <1> QED
    BY <1>1, <1>2, <1>3, <1>4, StepCases

\* The dispatcher never activates an entry, and an active entry keeps its host.
LEMMA MoveActive ==
  ASSUME XInv, NEW e \in Entries, EntryMove(e)
  PROVE  /\ e \in active' => e \in active /\ hqeHost'[e] = hqeHost[e]
         /\ e \notin MetaHost => hqeHost'[e] = hqeHost[e]
  <1> USE DEF XInv, ExclInv
  <1>1. /\ hqeStatus[e] \in ActiveStatuses \/ HasPreJob(e) => e \in active
        /\ AgentAgrees(e)
    BY DEF ActiveInv, EntryInv
  <1>2. hqeAgent[e] = "queue" \/ hqeStatus[e] = "Pending" => e \in active
    BY <1>1 DEF AgentAgrees, ActiveStatuses
  <1> QED
    BY <1>1, <1>2 DEF EntryMove, Kept, Advanced, Finished, Stopped

\* A quiet step and a step about agents are moves that keep every entry.
LEMMA OtherActive ==
  ASSUME XInv, [Next]_vars, QuietStep \/ AgentStep \/ WriteStep
  PROVE  /\ UNCHANGED <<leased, hsVars>> /\ active' \subseteq active
         /\ \A e \in Entries : e \in active' \/ e \notin MetaHost => hqeHost'[e] = hqeHost[e]
  <1>1. CASE QuietStep \/ AgentStep
    BY <1>1, QuietFacts, AgentFacts DEF entryVars, hostVars
  <1>2. CASE WriteStep
    <2>1. UNCHANGED <<leased, hsVars>> /\ \A e \in Entries : EntryMove(e)
      BY <1>2, WriteMove DEF DispatcherMove
    <2>2. active' \subseteq Entries
      BY NextIInv DEF XInv, IInv, TypeOK, DbTypes
    <2> QED
      BY <2>1, <2>2, MoveActive
  <1> QED
    BY <1>1, <1>2

\* ActiveInv: an entry loses the active bit only with its last pre-job task.
LEMMA NextActiveInv == ASSUME XInv, Abortable = {}, [Next]_vars PROVE ActiveInv'
  <1> SUFFICES ASSUME NEW e \in Entries,
                      hqeStatus'[e] \in ActiveStatuses \/ HasPreJob(e)' \/ Assigning(e)'
               PROVE  e \in active'
    BY DEF ActiveInv
  <1> USE DEF XInv, IInv, ExclInv
  <1>0. hqeStatus[e] \in ActiveStatuses \/ HasPreJob(e) \/ Assigning(e) => e \in active
    BY DEF ActiveInv
  <1>1. CASE QuietStep
    <2>1. UNCHANGED <<hqeStatus, active, hsVars>> /\ PreJobTasks' \subseteq PreJobTasks
      BY <1>1, QuietFacts
    <2> QED
      BY <1>0, <2>1 DEF HasPreJob, Assigning, hsVars
  <1>2. CASE AgentStep
    <2>1. UNCHANGED <<hqeStatus, active, hsVars>> /\ PreJobTasks' \subseteq PreJobTasks
      BY <1>2, AgentFacts DEF entryVars
    <2> QED
      BY <1>0, <2>1 DEF HasPreJob, Assigning, hsVars
  <1>3. CASE WriteStep
    <2>0. DispatcherMove
      BY <1>3, WriteMove
    <2>1. /\ EntryMove(e) /\ (HasPreJob(e)' => HasPreJob(e))
          /\ Assigning(e)' = Assigning(e)
      BY <2>0 DEF DispatcherMove, HasPreJob, hsVars, Assigning
    <2>2. CASE Kept(e)
      BY <1>0, <2>1, <2>2 DEF Kept
    <2>3. CASE Advanced(e)
      BY <2>3 DEF Advanced
    <2>4. CASE Finished(e)
      <3>1. ~HasPreJob(e) /\ ~Assigning(e)
        BY <2>4, PreJobFacts, AssigningFacts DEF Finished, Assigning
      <3> QED
        BY <2>1, <2>4, <3>1 DEF Finished, ActiveStatuses, CompleteStatuses
    <2>5. CASE Stopped(e)
      <3>1. hqeStatus'[e] \notin ActiveStatuses /\ ~HasPreJob(e)'
        BY <2>5 DEF Stopped, ActiveStatuses
      <3>2. ~Assigning(e)
        BY <2>5, AssigningFacts DEF Stopped, Assigning
      <3> QED
        BY <2>1, <3>1, <3>2
    <2> QED
      BY <2>1, <2>2, <2>3, <2>4, <2>5 DEF EntryMove
  <1>4. CASE HostScheduler \/ HsCrash
    <2>1. CASE HsLease \/ HsAcquire \/ HsFindUnused \/ HsUnlease \/ HsCrash
      <3>1. UNCHANGED <<hqeStatus, active>> /\ ~Assigning(e)'
        BY <2>1 DEF HsLease, HsAcquire, HsFindUnused, HsUnlease, HsCrash, entryVars, Assigning
      <3>2. HasPreJob(e)' => HasPreJob(e)
        BY <1>4, <2>1, HsPreJobTasks DEF HsLease, HsAcquire, HsFindUnused, HsUnlease, HsCrash,
           HsPreJob
      <3> QED
        BY <1>0, <3>1, <3>2
    <2>2. CASE \E d \in Entries : HsActivate(d)
      <3>1. PICK d \in Entries : HsActivate(d)
        BY <2>2
      <3>2. UNCHANGED hqeStatus /\ hsEntry' = d /\ active' = active \cup {d}
        BY <3>1 DEF HsActivate
      <3>3. HasPreJob(e)' => HasPreJob(e)
        BY <1>4, <3>1, HsPreJobTasks DEF HsActivate, HsPreJob
      <3> QED
        BY <1>0, <3>2, <3>3 DEF Assigning
    <2>6. CASE \E d \in Entries : HsSetHost(d)
      <3>1. PICK d \in Entries : HsSetHost(d)
        BY <2>6
      <3>2. UNCHANGED <<hqeStatus, active>> /\ ~Assigning(e)'
        BY <3>1 DEF HsSetHost, Assigning
      <3>3. HasPreJob(e)' => HasPreJob(e)
        BY <1>4, <3>1, HsPreJobTasks DEF HsSetHost, HsPreJob
      <3> QED
        BY <1>0, <3>2, <3>3
    <2>3. CASE \E k \in PreJobKinds : HsPreJob(k)
      <3>1. UNCHANGED <<hqeStatus, active>> /\ ~Assigning(e)' /\ hsPhase = "prejob"
        BY <2>3 DEF HsPreJob, entryVars, Assigning
      <3>2. HasPreJob(e)' => HasPreJob(e) \/ e \in active
        BY <1>4, <3>1, HsPreJobTasks, AssigningFacts
      <3> QED
        BY <1>0, <3>1, <3>2
    <2>4. CASE HsOnPending
      <3>1. /\ ~Assigning(e)' /\ hsPhase = "prejob" /\ UNCHANGED active
            /\ e # hsEntry => hqeStatus'[e] = hqeStatus[e]
        BY <2>4 DEF HsOnPending, Assigning, TypeOK, DbTypes
      <3>2. HasPreJob(e)' => HasPreJob(e)
        BY <1>4, <2>4, HsPreJobTasks DEF HsOnPending, HsPreJob, taskVars
      <3> QED
        BY <1>0, <3>1, <3>2, AssigningFacts
    <2>5. CASE HsRun
      <3>1. /\ ~Assigning(e)' /\ UNCHANGED active
            /\ hqeStatus'[e] = hqeStatus[e] \/ hqeStatus[e] = "Pending"
        BY <2>5 DEF HsRun, Assigning, TypeOK, DbTypes
      <3>2. HasPreJob(e)' => HasPreJob(e)
        BY <1>4, <2>5, HsPreJobTasks DEF HsRun, HsPreJob, taskVars
      <3> QED
        BY <1>0, <3>1, <3>2 DEF ActiveStatuses
    <2> QED
      BY <1>4, <2>1, <2>2, <2>3, <2>4, <2>5, <2>6 DEF HostScheduler
  <1> QED
    BY <1>1, <1>2, <1>3, <1>4, StepCases

\* A row _find_aborting fetched stays as it is, and so does the agent of its entry,
\* until the abort is handled.
LEMMA SeenKept ==
  ASSUME XInv, Abortable = {}, [Next]_vars, ~FindAborting, NEW e \in Entries, seen'[e] # NotSeen
  PROVE  seen'[e] = seen[e] /\ hqeAgent'[e] = hqeAgent[e]
  <1> USE DEF XInv, IInv, TypeOK, DispatcherTypes
  <1>0. phase # "aborting" => seen[e] = NotSeen
    BY DEF PhaseInv
  <1>1. CASE HostScheduler \/ HsCrash
    BY <1>1, HsTasks DEF dispVars
  <1>2. CASE AgentStep
    BY <1>0, <1>2 DEF AgentStep, ScheduleRunning, Crash, RecoverTasks
  <1>3. CASE QuietStep
    <2>1. hqeAgent' = hqeAgent
      BY <1>3, QuietFacts
    <2>2. CASE \E d \in Entries : AbortPostJob(d)
      BY <2>1, <2>2 DEF AbortPostJob, Seen
    <2>3. CASE ~ \E d \in Entries : AbortPostJob(d)
      BY <1>3, <2>1, <2>3 DEF QuietStep, ReverifyHost, ScheduleSpecial, HandleAborted, StartGather,
         StartParse, SkipAgent, FinishTask, Handling, EpilogReady, EpilogRepair, PrejobFailed,
         InEpilog, GatherReset, GatherReboot, EndTick, ReverifyHosts, vars, dispVars
    <2> QED
      BY <2>2, <2>3
  <1>4. CASE WriteStep
    <2>1. CASE \E d \in Entries : AbortQueueTask(d)
      BY <2>1 DEF AbortQueueTask, Seen
    <2>2. CASE ~ \E d \in Entries : AbortQueueTask(d)
      <3>1. phase # "aborting" /\ UNCHANGED seen
        BY <1>4, <2>2 DEF WriteStep, StartQueueTask, FinishGather, FinishParse, FinishQueueTask,
           StartTask, Handling, EpilogOnPending, RunIfReady, RepairFailed, EpilogRequeue,
           EpilogGiveUp, PrejobFailed, InEpilog, RecoverPending, CheckUnrecovered
      <3> QED
        BY <1>0, <3>1
    <2> QED
      BY <2>1, <2>2
  <1> QED
    BY <1>1, <1>2, <1>3, <1>4, StepCases

\* AbortInv: an entry is aborted by its own agent only, after its job has begun;
\* what _find_aborting fetched stays true until the entry is handled.
LEMMA NextAbortInv == ASSUME XInv, Abortable = {}, [Next]_vars PROVE AbortInv'
  <1> SUFFICES ASSUME NEW e \in Entries
               PROVE  /\ e \in aborted' => hqeStatus'[e] \in LateStatuses
                      /\ hqeStatus'[e] \in CompleteStatuses => e \in complete'
                      /\ seen'[e] # NotSeen =>
                           /\ e \in aborted'
                           /\ hqeAgent'[e] = "queue" \/ seen'[e].status \in {"Gathering", "Parsing"}
    BY DEF AbortInv
  <1> USE DEF XInv, IInv, ExclInv
  <1>0. /\ e \in aborted => hqeStatus[e] \in LateStatuses
        /\ hqeStatus[e] \in CompleteStatuses => e \in complete
        /\ seen[e] # NotSeen =>
              e \in aborted /\ (hqeAgent[e] = "queue" \/ seen[e].status \in {"Gathering", "Parsing"})
        /\ AgentAgrees(e)
    BY DEF AbortInv, EntryInv
  <1>1. hqeStatus[e] \in LateStatuses => hqeStatus'[e] \in LateStatuses
    BY LateStays
  <1>2. aborted \subseteq aborted' /\ (e \in aborted' => e \in aborted \/ hqeStatus'[e] \in LateStatuses)
    <2>1. CASE HostScheduler \/ HsCrash
      BY <2>1, HsTasks
    <2>2. CASE AgentStep
      BY <2>2, AgentFacts DEF entryVars
    <2>3. CASE QuietStep
      <3>1. CASE \E d \in Entries : StartGather(d)
        <4>1. PICK d \in Entries : StartGather(d)
          BY <3>1
        <4>2. hqeStatus'[d] = "Gathering"
          <5>1. AgentAgrees(d)
            BY DEF EntryInv
          <5> QED
            BY <4>1, <5>1 DEF StartGather, AgentAgrees
        <4> QED
          BY <4>1, <4>2 DEF StartGather, CheckStatuses, HostIn, LateStatuses
      <3>2. CASE \E d \in Entries : StartParse(d)
        <4>1. PICK d \in Entries : StartParse(d)
          BY <3>2
        <4>2. hqeStatus[d] = "Parsing"
          BY <4>1 DEF EntryInv, AgentAgrees, StartParse
        <4> QED
          BY <4>1, <4>2 DEF StartParse, CheckStatuses
      <3>3. CASE ~ \E d \in Entries : StartGather(d) \/ StartParse(d)
        BY <2>3, <3>3 DEF QuietStep, ReverifyHost, ScheduleSpecial, FindAborting, HandleAborted,
           AbortPostJob, Seen, SkipAgent, FinishTask, EpilogReady, EpilogRepair,
           PrejobFailed, InEpilog, GatherReset, GatherReboot, EndTick, ReverifyHosts, vars, entryVars
      <3> QED
        BY <3>1, <3>2, <3>3
    <2>4. CASE WriteStep
      <3>1. CASE \E d \in Entries : StartQueueTask(d) \/ FinishGather(d)
        <4>1. PICK d \in Entries : StartQueueTask(d) \/ FinishGather(d)
          BY <3>1
        <4>2. hqeStatus'[d] \in {"Running", "Parsing"}
          BY <4>1 DEF StartQueueTask, FinishGather, SetStatus, TypeOK, DbTypes
        <4>3. aborted' \in {aborted, aborted \cup {d}}
          BY <4>1 DEF StartQueueTask, FinishGather, CheckStatuses, HostIn
        <4> QED
          BY <4>2, <4>3 DEF LateStatuses
      <3>2. CASE \E d \in Entries : FinishParse(d)
        <4>1. PICK d \in Entries : FinishParse(d)
          BY <3>2
        <4>2. hqeStatus[d] = "Parsing"
          BY <4>1 DEF EntryInv, AgentAgrees, FinishParse
        <4> QED
          BY <4>1, <4>2 DEF FinishParse, CheckStatuses
      <3>3. CASE ~ \E d \in Entries : StartQueueTask(d) \/ FinishGather(d) \/ FinishParse(d)
        BY <2>4, <3>3 DEF WriteStep, AbortQueueTask, Seen, FinishQueueTask, StartTask,
           EpilogOnPending, RunIfReady, RepairFailed, EpilogRequeue, EpilogGiveUp, PrejobFailed,
           InEpilog, RecoverPending, CheckUnrecovered
      <3> QED
        BY <3>1, <3>2, <3>3
    <2> QED
      BY <2>1, <2>2, <2>3, <2>4, StepCases
  <1>3. hqeStatus'[e] \in CompleteStatuses => e \in complete'
    <2>1. CASE HostScheduler \/ HsCrash
      <3>1. hqeStatus'[e] \in {hqeStatus[e], "Pending", "Starting"}
        BY <2>1 DEF HostScheduler, HsLease, HsAcquire, HsSetHost, HsActivate, HsPreJob, HsOnPending,
           HsRun, HsFindUnused, HsUnlease, HsCrash, entryVars, TypeOK, DbTypes
      <3> QED
        BY <1>0, <2>1, <3>1, HsTasks DEF CompleteStatuses
    <2>2. CASE AgentStep \/ QuietStep
      BY <1>0, <2>2, AgentFacts, QuietFacts DEF entryVars
    <2>3. CASE WriteStep
      <3>1. EntryMove(e)
        BY <2>3, WriteMove DEF DispatcherMove
      <3> QED
        BY <1>0, <3>1 DEF EntryMove, Kept, Advanced, Finished, Stopped, CompleteStatuses,
           PreJobStatuses
    <2> QED
      BY <2>1, <2>2, <2>3, StepCases
  <1>4. ASSUME seen'[e] # NotSeen
        PROVE  /\ e \in aborted'
               /\ hqeAgent'[e] = "queue" \/ seen'[e].status \in {"Gathering", "Parsing"}
    <2>1. CASE FindAborting
      <3>1. /\ e \in aborted \ complete /\ seen'[e].status = hqeStatus[e]
            /\ UNCHANGED <<aborted, hqeAgent>> /\ phase = "find"
        BY <1>4, <2>1 DEF FindAborting, entryVars, agentVars
      <3>2. hqeStatus[e] \in {"Running", "Gathering", "Parsing"}
        BY <1>0, <3>1 DEF LateStatuses
      <3>3. hqeStatus[e] = "Running" => hqeAgent[e] = "queue"
        BY <3>1 DEF RunningIsWatched
      <3> QED
        BY <3>1, <3>2, <3>3
    <2>2. CASE ~FindAborting
      <3>1. seen'[e] = seen[e] /\ hqeAgent'[e] = hqeAgent[e]
        BY <1>4, <2>2, SeenKept
      <3> QED
        BY <1>0, <1>2, <1>4, <3>1
    <2> QED
      BY <2>1, <2>2
  <1> QED
    BY <1>0, <1>1, <1>2, <1>3, <1>4

\* LeaseInv: hosts are leased before they are given away and released only when
\* unused; the dispatcher changes none of it, and never activates an entry.
LEMMA NextLeaseInv == ASSUME XInv, Abortable = {}, [Next]_vars PROVE LeaseInv'
  <1> USE ConstantsAssumption DEF XInv, IInv, ExclInv, TypeOK, DbTypes, HostSchedulerTypes
  <1>0. LeaseInv /\ active \subseteq Entries
    OBVIOUS
  <1>1. CASE QuietStep \/ AgentStep \/ WriteStep
    <2>1. /\ UNCHANGED <<leased, hsVars>> /\ active' \subseteq active
          /\ \A e \in active' : hqeHost'[e] = hqeHost[e]
      BY <1>0, <1>1, OtherActive
    <2> QED
      BY <1>0, <2>1 DEF LeaseInv, OneJobPerHost, Held, hsVars
  <1>2. CASE HsLease \/ HsOnPending \/ HsRun \/ HsCrash \/ \E k \in PreJobKinds : HsPreJob(k)
    <2>1. /\ UNCHANGED <<active, hqeHost>> /\ leased \subseteq leased'
          /\ hsRelease' \subseteq hsRelease /\ \A e \in Entries : hsJobs'[e] \in {None, hsJobs[e]}
          /\ hsJobs' = hsJobs \/ \A e \in Entries : hsJobs'[e] = None
      BY <1>2 DEF HsLease, HsOnPending, HsRun, HsCrash, HsPreJob, entryVars, hostVars
    <2>2. /\ hsRelease' # {} => hsPhase' = "unlease"
          /\ hsPhase' \in {"lease", "acquire", "unlease"} => \A e \in Entries : hsJobs'[e] = None
      BY <1>0, <1>2 DEF HsLease, HsOnPending, HsRun, HsCrash, HsPreJob, LeaseInv
    <2> QED
      BY <1>0, <2>1, <2>2 DEF LeaseInv, OneJobPerHost, Held
  <1>3. CASE HsAcquire
    <2>1. /\ UNCHANGED <<active, hqeHost, hsRelease>> /\ leased \subseteq leased'
          /\ hsRelease = {} /\ hsPhase' = "assign"
          /\ \A e \in Entries : hsJobs'[e] # None => hsJobs'[e] \notin leased /\ hsJobs'[e] \in leased'
          /\ \A d, e \in Entries : d # e /\ hsJobs'[d] # None => hsJobs'[d] # hsJobs'[e]
      BY <1>0, <1>3 DEF HsAcquire, Acquisitions, entryVars, LeaseInv
    <2>2. \A e \in active : hqeHost[e] \in Hosts /\ hqeHost[e] \in leased
      BY <1>0 DEF LeaseInv, Held
    <2> QED
      BY <1>0, <2>1, <2>2 DEF LeaseInv, OneJobPerHost, Held
  <1>4. CASE \E e \in Entries : HsActivate(e)
    <2>1. PICK e \in Entries : HsActivate(e)
      BY <1>4
    <2>2. PICK h : h = hsJobs[e]
      OBVIOUS
    <2>3. /\ UNCHANGED <<leased, hsRelease>> /\ hsRelease = {} /\ hsPhase' = "prejob"
          /\ active' = active \cup {e}
          /\ h \in Hosts /\ hqeHost'[e] = h /\ hsJobs'[e] = None
          /\ \A d \in Entries : d # e => hqeHost'[d] = hqeHost[d] /\ hsJobs'[d] = hsJobs[d]
      BY <1>0, <2>1, <2>2 DEF HsActivate, HsInv, hostVars, LeaseInv
    <2>4. /\ h \in leased
          /\ \A d \in Entries : d # e => hsJobs[d] # h
          /\ \A d \in active : hqeHost[d] # h
      BY <1>0, <2>1, <2>2, <2>3 DEF LeaseInv, Held
    <2>5. ASSUME NEW d \in active' PROVE hqeHost'[d] \in Hosts /\ Held(hqeHost[d])'
      <3>1. CASE d = e
        BY <2>3, <2>4, <3>1 DEF Held
      <3>2. CASE d # e
        BY <1>0, <2>3, <3>2 DEF Held, LeaseInv
      <3> QED
        BY <3>1, <3>2
    <2>6. OneJobPerHost'
      BY <1>0, <2>3, <2>4 DEF OneJobPerHost, LeaseInv
    <2> QED
      BY <1>0, <2>3, <2>5, <2>6 DEF LeaseInv
  <1>7. CASE \E e \in Entries : HsSetHost(e)
    <2>1. PICK e \in Entries : HsSetHost(e)
      BY <1>7
    <2>2. /\ UNCHANGED <<active, leased, hsRelease, hsJobs>> /\ hsRelease = {}
          /\ hsPhase' = "activate" /\ e \notin active
          /\ \A d \in active : hqeHost'[d] = hqeHost[d]
      BY <1>0, <2>1 DEF HsSetHost, hostVars, LeaseInv
    <2> QED
      BY <1>0, <2>2 DEF LeaseInv, OneJobPerHost, Held
  <1>5. CASE HsFindUnused
    <2>1. /\ UNCHANGED <<active, hqeHost, leased, hsJobs>> /\ hsPhase' = "unlease"
          /\ \A e \in Entries : hsJobs[e] = None
          /\ \A h \in hsRelease' : ActiveOn(h) = {}
      BY <1>5 DEF HsFindUnused, Unused, entryVars, hostVars
    <2>2. \A e \in active : hqeHost[e] \notin hsRelease'
      BY <2>1 DEF ActiveOn
    <2> QED
      BY <1>0, <2>1, <2>2 DEF LeaseInv, OneJobPerHost, Held
  <1>6. CASE HsUnlease
    <2>1. /\ UNCHANGED <<active, hqeHost, hsJobs>> /\ leased' = leased \ hsRelease
          /\ hsRelease' = {} /\ \A e \in Entries : hsJobs[e] = None
      BY <1>0, <1>6 DEF HsUnlease, LeaseInv, entryVars
    <2> QED
      BY <1>0, <2>1 DEF LeaseInv, OneJobPerHost, Held
  <1> QED
    BY <1>1, <1>2, <1>3, <1>4, <1>5, <1>6, <1>7, StepCases DEF HostScheduler

\* OwnHostInv: requeue() takes the host of metahost entries only, and the rdb
\* answers the request of any other entry with its own host.
LEMMA NextOwnHostInv == ASSUME XInv, Abortable = {}, [Next]_vars PROVE OwnHostInv'
  <1> USE ConstantsAssumption DEF XInv, IInv, ExclInv, TypeOK, DbTypes, HostSchedulerTypes
  <1>0. OwnHostInv
    OBVIOUS
  <1>1. CASE QuietStep \/ AgentStep \/ WriteStep
    <2>1. /\ UNCHANGED <<leased, hsVars>>
          /\ \A e \in Entries \ MetaHost : hqeHost'[e] = hqeHost[e]
      BY <1>1, OtherActive
    <2> QED
      BY <1>0, <2>1 DEF OwnHostInv, hsVars
  <1>2. CASE HsAcquire
    BY <1>0, <1>2 DEF HsAcquire, Acquisitions, OwnHostInv, entryVars
  <1>3. CASE \E e \in Entries : HsSetHost(e) \/ HsActivate(e)
    BY <1>0, <1>3 DEF HsSetHost, HsActivate, OwnHostInv
  <1>4. CASE (HostScheduler /\ ~HsAcquire /\ ~ \E e \in Entries : HsSetHost(e) \/ HsActivate(e)) \/ HsCrash
    <2>1. UNCHANGED hqeHost /\ \A e \in Entries : hsJobs'[e] \in {None, hsJobs[e]}
      BY <1>4 DEF HostScheduler, HsLease, HsPreJob, HsOnPending, HsRun, HsFindUnused, HsUnlease,
         HsCrash, entryVars
    <2> QED
      BY <1>0, <2>1 DEF OwnHostInv
  <1> QED
    BY <1>1, <1>2, <1>3, <1>4, StepCases

\* OneTaskInv: a task gets an agent only where there is none, and recovery gives
\* agents to the tasks that had them.
LEMMA NextOneTaskInv == ASSUME XInv, Abortable = {}, [Next]_vars PROVE OneTaskInv'
  <1> USE DEF XInv, IInv, ExclInv
  <1>0. OneTaskInv
    OBVIOUS
  <1>1. CASE ScheduleSpecial
    <2>1. PICK pick \in [Hosts -> queued \cup {None}] :
             /\ \A h \in Hosts : pick[h] \in Schedulable(h) \cup {None}
             /\ agentNew' = agentNew \cup ({pick[h] : h \in Hosts} \ {None})
      BY <1>1 DEF ScheduleSpecial
    <2>2. /\ UNCHANGED <<agentRun, running, cont>> /\ EpilogTasks = {} /\ EpilogTasks' = {}
          /\ running \subseteq TaskAgents
      BY <1>0, <1>1 DEF ScheduleSpecial, PhaseInv, EpilogTasks, OneTaskInv, taskVars
    <2>3. \A h \in Hosts : pick[h] # None =>
             pick[h].host = h /\ \A t \in TaskAgents : t.host # h
      BY <2>1 DEF Schedulable, HostHasAgent
    <2>4. BusyTasks = TaskAgents /\ BusyTasks' = TaskAgents' /\ running' \subseteq TaskAgents'
      BY <2>1, <2>2 DEF BusyTasks, TaskAgents
    <2>5. ASSUME NEW s \in TaskAgents', NEW t \in TaskAgents', s.host = t.host PROVE s = t
      <3>1. \A u \in TaskAgents' : u \in TaskAgents \/ \E h \in Hosts : u = pick[h] /\ u # None
        BY <2>1, <2>2 DEF TaskAgents
      <3>2. s \in TaskAgents /\ t \in TaskAgents => s = t
        BY <1>0, <2>4, <2>5 DEF OneTaskInv
      <3> QED
        BY <2>3, <2>5, <3>1, <3>2
    <2> QED
      BY <2>4, <2>5 DEF OneTaskInv
  <1>2. CASE Crash
    BY <1>0, <1>2 DEF Crash, OneTaskInv, BusyTasks, TaskAgents, EpilogTasks, taskVars
  <1>3. CASE \E found \in SUBSET Recoverable : RecoverTasks(found)
    <2>1. TaskAgents' = running /\ UNCHANGED <<running, cont>> /\ cont = None
      BY <1>3 DEF RecoverTasks, PhaseInv, TaskAgents, taskVars
    <2> QED
      BY <1>0, <2>1 DEF OneTaskInv, BusyTasks, EpilogTasks
  <1>4. ASSUME BusyTasks' \subseteq BusyTasks, running' \subseteq TaskAgents' \/ phase' = "down"
        PROVE  OneTaskInv'
    BY <1>0, <1>4 DEF OneTaskInv
  <1> USE DEF taskVars, agentVars
  <1>5. CASE ScheduleRunning
    BY <1>0, <1>4, <1>5 DEF ScheduleRunning, OneTaskInv, BusyTasks, TaskAgents, EpilogTasks
  <1>6. CASE HostScheduler \/ HsCrash
    <2>1. UNCHANGED <<TaskAgents, BusyTasks, running, phase>>
      BY <1>6, HsTasks DEF dispVars
    <2> QED
      BY <1>0, <1>4, <2>1 DEF OneTaskInv
  <1>7. CASE QuietStep /\ ~ScheduleSpecial
    <2>1. CASE \E e \in Entries : AbortPostJob(e)
      BY <1>0, <1>4, <2>1 DEF AbortPostJob, Seen, DropTasks, OneTaskInv, BusyTasks, TaskAgents,
         EpilogTasks
    <2>2. CASE \E t \in agentRun, ok \in BOOLEAN : FinishTask(t, ok)
      <3>1. PICK t \in agentRun, ok \in BOOLEAN : FinishTask(t, ok)
        BY <2>2
      <3>2. /\ agentRun' = agentRun \ {t} /\ running' = running \ {t} /\ UNCHANGED agentNew
            /\ EpilogTasks' \subseteq {t} /\ running \subseteq TaskAgents
        BY <1>0, <3>1 DEF FinishTask, Handling, EpilogTasks, OneTaskInv
      <3>3. BusyTasks' \subseteq BusyTasks /\ running' \subseteq TaskAgents'
        BY <3>2 DEF BusyTasks, TaskAgents
      <3> QED
        BY <1>4, <3>3
    <2>3. CASE ~(\E e \in Entries : AbortPostJob(e))
               /\ ~(\E t \in agentRun, ok \in BOOLEAN : FinishTask(t, ok))
      <3>1. /\ UNCHANGED <<agentNew, agentRun, running>>
            /\ phase = "down" => phase' = "down"
            /\ cont' = cont \/ cont' = None \/ cont'.op # "epilog"
        <4>1. CASE (\E h \in Hosts : ReverifyHost(h)) \/ UNCHANGED vars
          BY <4>1 DEF ReverifyHost, vars, dispVars
        <4>2. CASE FindAborting \/ HandleAborted \/ EndTick \/ ReverifyHosts
          BY <4>2 DEF FindAborting, HandleAborted, EndTick, ReverifyHosts
        <4>3. CASE \/ \E e \in Entries : StartGather(e) \/ StartParse(e)
                   \/ \E x \in todo : SkipAgent(x)
          BY <4>3 DEF StartGather, StartParse, SkipAgent, Handling
        <4>4. CASE EpilogReady \/ (\E t \in Task : EpilogRepair(t)) \/ GatherReset
                   \/ \E failed \in BOOLEAN : GatherReboot(failed)
          BY <4>4 DEF EpilogReady, EpilogRepair, PrejobFailed, InEpilog, GatherReset, GatherReboot
        <4> QED
          BY <1>7, <2>3, <4>1, <4>2, <4>3, <4>4 DEF QuietStep
      <3>2. BusyTasks' \subseteq BusyTasks /\ TaskAgents' = TaskAgents
        BY <3>1 DEF BusyTasks, TaskAgents, EpilogTasks
      <3> QED
        BY <1>0, <1>4, <3>1, <3>2 DEF OneTaskInv
    <2> QED
      BY <2>1, <2>2, <2>3
  <1>8. CASE WriteStep
    <2>1. CASE \E e \in Entries : AbortQueueTask(e)
      BY <1>0, <1>4, <2>1 DEF AbortQueueTask, Seen, DropTasks, OneTaskInv, BusyTasks, TaskAgents,
         EpilogTasks
    <2>2. CASE \E t \in agentNew : StartTask(t)
      BY <1>0, <1>4, <2>2 DEF StartTask, Handling, OneTaskInv, BusyTasks, TaskAgents, EpilogTasks
    <2>3. CASE ~(\E e \in Entries : AbortQueueTask(e)) /\ ~(\E t \in agentNew : StartTask(t))
      <3>1. /\ UNCHANGED <<agentNew, agentRun>> /\ running' \subseteq running
            /\ phase # "down"
        BY <1>8, <2>3 DEF WriteStep, StartQueueTask, FinishGather, FinishParse, FinishQueueTask,
           Handling, EpilogOnPending, RunIfReady, RepairFailed, EpilogRequeue, EpilogGiveUp,
           PrejobFailed, InEpilog, RecoverPending, CheckUnrecovered, Without, WithoutOn
      <3>2. EpilogTasks' = {}
        BY <1>8, WriteMove DEF DispatcherMove, ContMove, EpilogTasks
      <3>3. BusyTasks' \subseteq BusyTasks /\ TaskAgents' = TaskAgents
        BY <3>1, <3>2 DEF BusyTasks, TaskAgents
      <3> QED
        BY <1>0, <1>4, <3>1, <3>3 DEF OneTaskInv
    <2> QED
      BY <2>1, <2>2, <2>3
  <1> QED
    BY <1>1, <1>2, <1>3, <1>5, <1>6, <1>7, <1>8, StepCases DEF AgentStep

\* Repairs for an entry are queued in one place, the epilog of its pre-job task.
LEMMA NewRepairs ==
  ASSUME XInv, Abortable = {}, [Next]_vars,
         NEW t \in OpenTasks', t.kind = "Repair", t.hqe # None
  PROVE  t \in OpenTasks \/ \E u \in Task : /\ EpilogRequeue(u)
                                            /\ t = SpecialTask(u.host, "Repair", u.hqe)
  <1>1. CASE QuietStep
    BY <1>1, QuietFacts DEF NoNewTask
  <1>2. CASE AgentStep
    BY <1>2, AgentFacts
  <1>3. CASE HostScheduler \/ HsCrash
    <2>1. CASE UNCHANGED queued
      BY <1>3, <2>1, HsTasks DEF OpenTasks
    <2>2. CASE \E k \in PreJobKinds : HsPreJob(k)
      <3>1. PICK k \in PreJobKinds : HsPreJob(k)
        BY <2>2
      <3>2. t \in OpenTasks \/ t = SpecialTask(hqeHost[hsEntry], k, hsEntry)
        BY <1>3, <3>1, HsTasks DEF HsPreJob, OpenTasks
      <3>3. SpecialTask(hqeHost[hsEntry], k, hsEntry).kind # "Repair"
        BY DEF SpecialTask, PreJobKinds
      <3> QED
        BY <3>2, <3>3
    <2> QED
      BY <1>3, <2>1, <2>2, HsTasks
  <1>4. CASE WriteStep
    <2>1. CASE \E e \in Entries : AbortQueueTask(e)
      BY <2>1 DEF AbortQueueTask, Seen, DropTasks, Without, OpenTasks, TaskAgents, EpilogTasks
    <2>2. CASE \E u \in agentNew : StartTask(u)
      BY <2>2 DEF StartTask, Handling, OpenTasks, TaskAgents, EpilogTasks
    <2>3. CASE ~(\E e \in Entries : AbortQueueTask(e)) /\ ~(\E u \in agentNew : StartTask(u))
      <3>1. EpilogTasks' = {}
        BY <1>4, WriteMove DEF DispatcherMove, ContMove, EpilogTasks
      <3>2. /\ UNCHANGED <<agentNew, agentRun>> /\ running' \subseteq running
            /\ \/ queued' \subseteq queued
               \/ \E u \in Task : /\ EpilogRequeue(u)
                                  /\ queued' \subseteq queued \cup {SpecialTask(u.host, "Repair", u.hqe)}
        <4>1. CASE \/ \E e \in Entries : StartQueueTask(e) \/ FinishGather(e) \/ FinishParse(e)
                   \/ \E e \in Entries, code \in {"ok", "fail", "signal"} : FinishQueueTask(e, code)
          BY <4>1 DEF StartQueueTask, FinishGather, FinishParse, FinishQueueTask, taskVars
        <4>2. CASE EpilogOnPending \/ RunIfReady \/ RepairFailed \/ RecoverPending \/ CheckUnrecovered
          BY <4>2 DEF EpilogOnPending, RunIfReady, RepairFailed, RecoverPending, CheckUnrecovered,
             InEpilog, Without, taskVars, agentVars
        <4>3. CASE \E u \in Task : EpilogRequeue(u) \/ EpilogGiveUp(u)
          <5>1. PICK u \in Task : EpilogRequeue(u) \/ EpilogGiveUp(u)
            BY <4>3
          <5>2. UNCHANGED <<agentNew, agentRun>> /\ running' \subseteq running
            BY <5>1 DEF EpilogRequeue, EpilogGiveUp, PrejobFailed, InEpilog, agentVars, Without,
               WithoutOn
          <5>3. EpilogRequeue(u) => queued' \subseteq queued \cup {SpecialTask(u.host, "Repair", u.hqe)}
            BY DEF EpilogRequeue, Without, WithoutOn
          <5>4. EpilogGiveUp(u) => queued' \subseteq queued
            BY DEF EpilogGiveUp, Without, WithoutOn
          <5> QED
            BY <5>1, <5>2, <5>3, <5>4
        <4> QED
          BY <1>4, <2>3, <4>1, <4>2, <4>3 DEF WriteStep
      <3> QED
        BY <3>1, <3>2 DEF OpenTasks, TaskAgents
    <2> QED
      BY <2>1, <2>2, <2>3
  <1> QED
    BY <1>1, <1>2, <1>3, <1>4, StepCases

\* A host that is held, idle and in use by something else than an entry stays so:
\* neither the query for unused hosts nor an acquisition returns it.
LEMMA HeldStays ==
  ASSUME XInv, Abortable = {}, [Next]_vars, NEW h \in Hosts,
         Held(h), ActiveOn(h) = {}, ~Unused(h)
  PROVE  Held(h)' /\ ActiveOn(h)' = {}
  <1> USE ConstantsAssumption DEF XInv, IInv, ExclInv, TypeOK, DbTypes, HostSchedulerTypes
  <1>0. \A e \in active : hqeHost[e] # h
    BY DEF ActiveOn
  <1>1. CASE QuietStep \/ AgentStep \/ WriteStep
    <2>1. /\ UNCHANGED <<leased, hsVars>> /\ active' \subseteq active
          /\ \A e \in active' : hqeHost'[e] = hqeHost[e]
      BY <1>1, OtherActive
    <2>2. Held(h)'
      BY <2>1 DEF Held, hsVars
    <2> QED
      BY <1>0, <2>1, <2>2 DEF ActiveOn
  <1>2. CASE \E e \in Entries : HsActivate(e)
    <2>1. PICK e \in Entries : HsActivate(e)
      BY <1>2
    <2>2. /\ UNCHANGED <<leased, hsRelease>> /\ active' = active \cup {e}
          /\ hqeHost'[e] = hsJobs[e] /\ hsJobs'[e] = None
          /\ \A d \in Entries : d # e => hqeHost'[d] = hqeHost[d] /\ hsJobs'[d] = hsJobs[d]
      BY <2>1 DEF HsActivate, HsInv, hostVars
    <2>3. Held(h)'
      BY <2>2 DEF Held
    <2> QED
      BY <1>0, <2>2, <2>3 DEF ActiveOn, Held
  <1>4. CASE \E e \in Entries : HsSetHost(e)
    <2>1. PICK e \in Entries : HsSetHost(e)
      BY <1>4
    <2>2. /\ UNCHANGED <<active, leased, hsRelease, hsJobs>>
          /\ \A d \in active : hqeHost'[d] = hqeHost[d]
      BY <2>1 DEF HsSetHost, hostVars, LeaseInv
    <2>3. Held(h)'
      BY <2>2 DEF Held
    <2> QED
      BY <1>0, <2>2, <2>3 DEF ActiveOn
  <1>3. CASE (HostScheduler /\ ~ \E e \in Entries : HsSetHost(e) \/ HsActivate(e)) \/ HsCrash
    <2>1. UNCHANGED <<active, hqeHost>>
      BY <1>3 DEF HostScheduler, HsLease, HsAcquire, HsPreJob, HsOnPending, HsRun, HsFindUnused,
         HsUnlease, HsCrash, entryVars
    <2>2. h \in leased' \ hsRelease'
      BY <1>3 DEF HostScheduler, HsLease, HsAcquire, HsPreJob, HsOnPending, HsRun, HsFindUnused,
         HsUnlease, HsCrash, hostVars, Held
    <2>3. \A e \in Entries : hsJobs'[e] # h
      BY <1>3 DEF HostScheduler, HsLease, HsAcquire, Acquisitions, HsPreJob, HsOnPending, HsRun,
         HsFindUnused, HsUnlease, HsCrash, Held
    <2> QED
      BY <1>0, <2>1, <2>2, <2>3 DEF Held, ActiveOn
  <1> QED
    BY <1>1, <1>2, <1>3, <1>4, StepCases

\* Who writes the status of a host: an entry active on it, the prolog of a task,
\* the epilog of the task that had it, or the rest of a finished job.
LEMMA HostStatusWriters ==
  ASSUME XInv, Abortable = {}, [Next]_vars, NEW h \in Hosts, hostStatus'[h] # hostStatus[h]
  PROVE  \/ \E e \in active : hqeHost[e] = h
         \/ \E u \in agentNew : StartTask(u) /\ u.host = h
         \/ \E u \in EpilogTasks : u.host = h /\ running' \subseteq running /\ UNCHANGED agentRun
                                   /\ EpilogTasks' = {}
         \/ cont # None /\ cont.op = "reboot" /\ hqeHost[cont.hqe] = h
  <1> USE DEF XInv, IInv, TypeOK, DbTypes, DispatcherTypes, SetHostStatus
  <1>1. CASE HostScheduler \/ HsCrash
    <2>1. HsOnPending /\ hqeHost[hsEntry] = h
      BY <1>1 DEF HostScheduler, HsLease, HsAcquire, HsSetHost, HsActivate, HsPreJob, HsOnPending, HsRun,
         HsFindUnused, HsUnlease, HsCrash, hostVars
    <2>2. hsEntry \in active
      BY <2>1, AssigningFacts DEF HsOnPending
    <2> QED
      BY <2>1, <2>2
  <1>2. CASE AgentStep
    BY <1>2, AgentFacts DEF hostVars
  <1>3. CASE QuietStep
    <2>1. CASE EpilogReady
      <3>1. h = cont.task.host /\ EpilogTasks' = {} /\ cont.task \in EpilogTasks
        BY <2>1 DEF EpilogReady, InEpilog, EpilogTasks
      <3> QED
        BY <2>1, <3>1 DEF EpilogReady, InEpilog, taskVars, agentVars
    <2>2. CASE \E failed \in BOOLEAN : GatherReboot(failed)
      BY <2>2 DEF GatherReboot
    <2>3. CASE ~EpilogReady /\ ~ \E failed \in BOOLEAN : GatherReboot(failed)
      <3>1. UNCHANGED hostStatus
        BY <1>3, <2>3 DEF QuietStep, ReverifyHost, ScheduleSpecial, FindAborting, HandleAborted,
         AbortPostJob, StartGather, StartParse, SkipAgent, FinishTask, EpilogRepair,
         GatherReset, EndTick, ReverifyHosts, vars, hostVars
      <3> QED
        BY <3>1
    <2> QED
      BY <2>1, <2>2, <2>3
  <1>4. CASE WriteStep
    <2>1. CASE \E e \in Entries : AbortQueueTask(e) \/ StartQueueTask(e)
                  \/ \E code \in {"ok", "fail", "signal"} : FinishQueueTask(e, code)
      <3>1. PICK e \in Entries : AbortQueueTask(e) \/ StartQueueTask(e)
                  \/ \E code \in {"ok", "fail", "signal"} : FinishQueueTask(e, code)
        BY <2>1
      <3>2. hqeAgent[e] = "queue" /\ hqeHost[e] = h
        BY <3>1 DEF AbortQueueTask, StartQueueTask, FinishQueueTask
      <3>3. e \in active
        BY <3>2, ActiveFacts DEF ExclInv, EntryInv, AgentAgrees, ActiveStatuses
      <3> QED
        BY <3>2, <3>3
    <2>2. CASE \E e \in Entries : FinishGather(e) \/ FinishParse(e)
      BY <2>2 DEF FinishGather, FinishParse
    <2>3. CASE \E u \in agentNew : StartTask(u)
      BY <2>3 DEF StartTask, Task
    <2>4. CASE EpilogOnPending
      <3>1. PICK t : t = cont.task
        OBVIOUS
      <3>2. t.hqe \in Entries /\ HasPreJob(t.hqe)
        BY <2>4, <3>1, LastPreJob
      <3>3. t.hqe \in active /\ hqeHost[t.hqe] = h
        BY <2>4, <3>1, <3>2, PreJobFacts DEF EpilogOnPending
      <3> QED
        BY <3>3
    <2>5. CASE RunIfReady
      BY <2>5 DEF RunIfReady, hostVars
    <2>6. CASE RepairFailed \/ \E t \in Task : EpilogRequeue(t) \/ EpilogGiveUp(t)
      <3>1. /\ EpilogTasks' = {} /\ cont.task \in EpilogTasks
            /\ UNCHANGED agentRun
        BY <2>6 DEF RepairFailed, EpilogRequeue, EpilogGiveUp, PrejobFailed, InEpilog, EpilogTasks,
           agentVars
      <3>2. cont.task.host = h
        <4>1. CASE RepairFailed
          BY <4>1 DEF RepairFailed
        <4>2. CASE \E t \in Task : EpilogRequeue(t) \/ EpilogGiveUp(t)
          <5>1. PICK t \in Task : EpilogRequeue(t) \/ EpilogGiveUp(t)
            BY <4>2
          <5>2. EpilogGiveUp(t) /\ t.host \in Hosts
            BY <5>1 DEF EpilogRequeue, Task
          <5> QED
            BY <5>2 DEF EpilogGiveUp, PrejobFailed
        <4> QED
          BY <2>6, <4>1, <4>2
      <3>3. running' \subseteq running
        BY <2>6 DEF RepairFailed, EpilogRequeue, EpilogGiveUp, Without, WithoutOn
      <3> QED
        BY <3>1, <3>2, <3>3
    <2>7. CASE RecoverPending \/ CheckUnrecovered
      <3>1. PICK e \in Entries : hqeStatus[e] \in {"Pending", "Resetting"} /\ hqeHost[e] = h
        BY <2>7 DEF RecoverPending, CheckUnrecovered
      <3> QED
        BY <3>1, ActiveFacts DEF ActiveStatuses
    <2> QED
      BY <1>4, <2>1, <2>2, <2>3, <2>4, <2>5, <2>6, <2>7 DEF WriteStep
  <1> QED
    BY <1>1, <1>2, <1>3, <1>4, StepCases

\* A decisive repair that is being worked on keeps its row.
LEMMA RepairKeepsRow ==
  ASSUME XInv, Abortable = {}, [Next]_vars, NEW t \in OpenTasks, Decisive(t), Decisive(t)',
         t \in TaskAgents'
  PROVE  t \in queued' \cup running'
  <1> USE DEF XInv, IInv, ExclInv
  <1>0. /\ t.kind = "Repair" /\ t.hqe \in Entries \ MetaHost /\ hqeHost[t.hqe] = t.host
        /\ \A e \in active : hqeHost[e] # t.host
        /\ hqeStatus[t.hqe] \notin OverStatuses /\ hqeStatus'[t.hqe] \notin OverStatuses
    BY DecisiveFacts DEF Decisive
  <1>1. t \in TaskAgents => t \in queued \cup running
    BY DEF RepairInv
  \* the entry of t is not active, so it is nobody's whose tasks are dropped
  <1>2. \A e \in Entries : e \in active => t.hqe # e
    BY <1>0
  <1>3. CASE HostScheduler \/ HsCrash
    <2>1. queued \subseteq queued' /\ UNCHANGED <<running, TaskAgents>>
      BY <1>3, HsTasks DEF HsPreJob
    <2> QED
      BY <1>1, <2>1
  <1>4. CASE AgentStep
    <2>1. UNCHANGED <<queued, running>>
      BY <1>4, AgentFacts DEF taskVars
    <2>2. t \in TaskAgents \/ t \in running
      BY <1>4 DEF AgentStep, ScheduleRunning, Crash, RecoverTasks, TaskAgents
    <2> QED
      BY <1>1, <2>1, <2>2
  <1>5. CASE QuietStep
    <2>1. CASE \E e \in Entries : AbortPostJob(e)
      <3>1. PICK e \in Entries : AbortPostJob(e)
        BY <2>1
      <3>2. hqeStatus[e] \in LateStatuses
        BY <3>1 DEF AbortPostJob, Seen, AbortInv
      <3>3. t.hqe # e
        <4> SUFFICES ASSUME t.hqe = e PROVE FALSE
          OBVIOUS
        <4>1. hqeStatus[e] \in ActiveStatuses
          BY <1>0, <3>2 DEF LateStatuses, OverStatuses, ActiveStatuses
        <4> QED
          BY <1>2, <4>1, ActiveFacts
      <3> QED
        BY <1>1, <3>1, <3>3 DEF AbortPostJob, DropTasks, Without, AgentsFor, TaskAgents
    <2>2. CASE ScheduleSpecial
      <3>1. agentNew' \subseteq agentNew \cup queued
        <4>1. PICK pick \in [Hosts -> queued \cup {None}] :
                  agentNew' = agentNew \cup ({pick[h] : h \in Hosts} \ {None})
          BY <2>2 DEF ScheduleSpecial
        <4> QED
          BY <4>1
      <3> QED
        BY <1>1, <2>2, <3>1 DEF ScheduleSpecial, TaskAgents, taskVars
    <2>3. CASE \E u \in agentRun, ok \in BOOLEAN : FinishTask(u, ok)
      BY <1>1, <2>3 DEF FinishTask, TaskAgents, TaskInv
    <2>4. CASE ~(\E e \in Entries : AbortPostJob(e)) /\ ~ScheduleSpecial
               /\ ~(\E u \in agentRun, ok \in BOOLEAN : FinishTask(u, ok))
      <3>1. UNCHANGED <<agentNew, agentRun, running>> /\ queued \subseteq queued'
        <4>1. CASE (\E h \in Hosts : ReverifyHost(h)) \/ UNCHANGED vars
          BY <4>1 DEF ReverifyHost, vars, dispVars, taskVars
        <4>2. CASE FindAborting \/ HandleAborted \/ EndTick \/ ReverifyHosts
          BY <4>2 DEF FindAborting, HandleAborted, EndTick, ReverifyHosts, taskVars, agentVars
        <4>3. CASE \/ \E e \in Entries : StartGather(e) \/ StartParse(e)
                   \/ \E x \in todo : SkipAgent(x)
          BY <4>3 DEF StartGather, StartParse, SkipAgent, taskVars, agentVars
        <4>4. CASE EpilogReady \/ (\E u \in Task : EpilogRepair(u)) \/ GatherReset
                   \/ \E failed \in BOOLEAN : GatherReboot(failed)
          BY <4>4 DEF EpilogReady, EpilogRepair, PrejobFailed, InEpilog, GatherReset, GatherReboot,
             taskVars, agentVars
        <4> QED
          BY <1>5, <2>4, <4>1, <4>2, <4>3, <4>4 DEF QuietStep
      <3> QED
        BY <1>1, <3>1 DEF TaskAgents
    <2> QED
      BY <2>1, <2>2, <2>3, <2>4
  <1>6. CASE WriteStep
    <2>1. CASE \E e \in Entries : AbortQueueTask(e)
      <3>1. PICK e \in Entries : AbortQueueTask(e)
        BY <2>1
      <3>2. hqeStatus[e] \in ActiveStatuses
        BY <3>1 DEF AbortQueueTask, EntryInv, AgentAgrees, ActiveStatuses
      <3>3. t.hqe # e
        BY <1>2, <3>2, ActiveFacts
      <3> QED
        BY <1>1, <3>1, <3>3 DEF AbortQueueTask, DropTasks, Without, AgentsFor, TaskAgents
    <2>2. CASE \E u \in agentNew : StartTask(u)
      <3>1. PICK u \in agentNew : StartTask(u)
        BY <2>2
      <3>2. t \notin Removed(u) /\ t \in TaskAgents
        BY <1>0, <3>1, ConstantsAssumption DEF Removed, StartTask, TaskAgents
      <3> QED
        BY <1>1, <3>1, <3>2 DEF StartTask
    <2>3. CASE \E u \in Task : EpilogRequeue(u) \/ EpilogGiveUp(u)
      <3>1. PICK u \in Task : EpilogRequeue(u) \/ EpilogGiveUp(u)
        BY <2>3
      <3>2. u.hqe \in Entries /\ HasPreJob(u.hqe)
        BY <3>1, FailedPreJob DEF EpilogRequeue, EpilogGiveUp
      <3>3. t.hqe # u.hqe
        BY <1>2, <3>2, PreJobFacts
      <3>4. UNCHANGED TaskAgents
        BY <3>1 DEF EpilogRequeue, EpilogGiveUp, PrejobFailed, InEpilog, agentVars, TaskAgents
      <3>5. t \in queued \cup running => t \in queued' \cup running'
        BY <3>1, <3>3 DEF EpilogRequeue, EpilogGiveUp, Without, WithoutOn
      <3> QED
        BY <1>1, <3>4, <3>5
    <2>4. CASE RepairFailed
      <3>1. PICK u \in Task : u = cont.task
        BY <2>4 DEF RepairFailed, InEpilog, TypeOK, DispatcherTypes, Conts
      <3>2. UNCHANGED TaskAgents
        BY <2>4 DEF RepairFailed, InEpilog, agentVars, TaskAgents
      <3>3. CASE u.hqe # None /\ u.hqe \notin MetaHost /\ hqeStatus[u.hqe] = "Queued"
        <4>1. u.hqe \in Entries /\ hqeStatus'[u.hqe] = "Parsing"
          BY <2>4, <3>1, <3>3 DEF RepairFailed, SetStatus, Task, TypeOK, DbTypes
        <4>2. t.hqe # u.hqe
          BY <1>0, <4>1 DEF OverStatuses
        <4> QED
          BY <1>1, <2>4, <3>1, <3>2, <3>3, <4>2 DEF RepairFailed, Without
      <3>4. CASE ~(u.hqe # None /\ u.hqe \notin MetaHost /\ hqeStatus[u.hqe] = "Queued")
        BY <1>1, <2>4, <3>1, <3>2, <3>4 DEF RepairFailed
      <3> QED
        BY <3>3, <3>4
    <2>5. CASE ~(\E e \in Entries : AbortQueueTask(e)) /\ ~(\E u \in agentNew : StartTask(u))
               /\ ~RepairFailed /\ ~(\E u \in Task : EpilogRequeue(u) \/ EpilogGiveUp(u))
      <3>1. UNCHANGED <<queued, running, agentNew, agentRun>>
        BY <1>6, <2>5 DEF WriteStep, StartQueueTask, FinishGather, FinishParse, FinishQueueTask,
           EpilogOnPending, RunIfReady, InEpilog, RecoverPending, CheckUnrecovered,
           taskVars, agentVars
      <3> QED
        BY <1>1, <3>1 DEF TaskAgents
    <2> QED
      BY <2>1, <2>2, <2>3, <2>4, <2>5
  <1> QED
    BY <1>3, <1>4, <1>5, <1>6, StepCases

\* A decisive repair that has begun is what its host shows until it ends.
LEMMA RepairKeepsStatus ==
  ASSUME XInv, Abortable = {}, [Next]_vars, NEW t \in OpenTasks, Decisive(t),
         t \in running' \cup agentRun' \cup EpilogTasks'
  PROVE  hostStatus'[t.host] = "Repairing"
  <1> USE DEF XInv, IInv, ExclInv
  <1>0. /\ t.kind = "Repair" /\ t.host \in Hosts /\ \A e \in active : hqeHost[e] # t.host
        /\ ~(cont # None /\ cont.op = "reboot" /\ hqeHost[cont.hqe] = t.host)
    BY DecisiveFacts, TaskFacts DEF Decisive, RepairInv
  <1>1. CASE \E u \in agentNew : StartTask(u) /\ u = t
    BY <1>0, <1>1 DEF StartTask, SetHostStatus, StatusOf, TypeOK, DbTypes
  <1>2. CASE ~ \E u \in agentNew : StartTask(u) /\ u = t
    <2>1. t \in running \cup agentRun \cup EpilogTasks
      <3>1. CASE QuietStep
        <4>1. CASE \E u \in agentRun, ok \in BOOLEAN : FinishTask(u, ok)
          BY <4>1 DEF FinishTask, EpilogTasks
        <4>2. CASE ~ \E u \in agentRun, ok \in BOOLEAN : FinishTask(u, ok)
          <5>1. CASE (\E h \in Hosts : ReverifyHost(h)) \/ UNCHANGED vars
            BY <5>1 DEF ReverifyHost, vars, dispVars, taskVars, EpilogTasks
          <5>2. CASE FindAborting \/ HandleAborted \/ EndTick \/ ReverifyHosts \/ ScheduleSpecial
            BY <5>2 DEF FindAborting, HandleAborted, EndTick, ReverifyHosts, ScheduleSpecial,
               taskVars, agentVars, EpilogTasks
          <5>3. CASE \/ \E e \in Entries : StartGather(e) \/ StartParse(e) \/ AbortPostJob(e)
                     \/ \E x \in todo : SkipAgent(x)
            BY <5>3 DEF StartGather, StartParse, SkipAgent, AbortPostJob, Seen, DropTasks,
               taskVars, agentVars, EpilogTasks
          <5>4. CASE EpilogReady \/ (\E u \in Task : EpilogRepair(u)) \/ GatherReset
                     \/ \E failed \in BOOLEAN : GatherReboot(failed)
            BY <5>4 DEF EpilogReady, EpilogRepair, PrejobFailed, InEpilog, GatherReset,
               GatherReboot, taskVars, agentVars, EpilogTasks
          <5> QED
            BY <3>1, <4>2, <5>1, <5>2, <5>3, <5>4 DEF QuietStep
        <4> QED
          BY <4>1, <4>2
      <3>2. CASE AgentStep
        BY <3>2 DEF AgentStep, ScheduleRunning, Crash, RecoverTasks, taskVars, EpilogTasks
      <3>3. CASE HostScheduler \/ HsCrash
        BY <3>3, HsTasks DEF dispVars
      <3>4. CASE WriteStep
        <4>1. EpilogTasks' = {}
          BY <3>4, WriteMove DEF DispatcherMove, ContMove, EpilogTasks
        <4>2. CASE \E u \in agentNew : StartTask(u)
          BY <1>2, <4>1, <4>2 DEF StartTask
        <4>3. CASE ~ \E u \in agentNew : StartTask(u)
          <5>1. running' \subseteq running /\ agentRun' \subseteq agentRun
            BY <3>4, <4>3 DEF WriteStep, AbortQueueTask, DropTasks, StartQueueTask, FinishGather,
               FinishParse, FinishQueueTask, EpilogOnPending, RunIfReady, RepairFailed,
               EpilogRequeue, EpilogGiveUp, PrejobFailed, InEpilog, RecoverPending,
               CheckUnrecovered, Without, WithoutOn, taskVars, agentVars
          <5> QED
            BY <4>1, <5>1
        <4> QED
          BY <4>2, <4>3
      <3> QED
        BY <3>1, <3>2, <3>3, <3>4, StepCases
    <2>2. hostStatus[t.host] = "Repairing"
      BY <2>1 DEF RepairInv
    <2>3. t \in BusyTasks
      BY <2>1 DEF BusyTasks, TaskAgents
    <2>4. ASSUME hostStatus'[t.host] # hostStatus[t.host] PROVE FALSE
      <3>1. CASE \E u \in agentNew : StartTask(u) /\ u.host = t.host
        BY <1>2, <2>3, <3>1 DEF OneTaskInv, BusyTasks, TaskAgents
      <3>2. CASE \E u \in EpilogTasks : u.host = t.host /\ running' \subseteq running
                                        /\ UNCHANGED agentRun /\ EpilogTasks' = {}
        <4>1. t \in EpilogTasks
          BY <2>3, <3>2 DEF OneTaskInv, BusyTasks
        <4>2. t \notin TaskAgents \cup running
          BY <4>1 DEF TaskInv
        <4> QED
          BY <3>2, <4>2 DEF TaskAgents
      <3> QED
        BY <1>0, <2>4, <3>1, <3>2, HostStatusWriters
    <2> QED
      BY <2>2, <2>4
  <1> QED
    BY <1>1, <1>2

\* RepairInv: a failed pre-job task hands the host of its entry to the repair, and
\* nothing takes it away until the repair has ended.
LEMMA NextRepairInv == ASSUME XInv, Abortable = {}, [Next]_vars PROVE RepairInv'
  <1> SUFFICES ASSUME NEW t \in OpenTasks', Decisive(t)'
               PROVE  /\ t.host = HostOf[t.hqe]
                      /\ Held(t.host)' /\ ActiveOn(t.host)' = {}
                      /\ t \in TaskAgents' => t \in queued' \cup running'
                      /\ t \in running' \cup agentRun' \cup EpilogTasks' =>
                            hostStatus'[t.host] = "Repairing"
                      /\ cont' # None /\ cont'.op = "reboot" => hqeHost'[cont'.hqe] # t.host
    BY DEF RepairInv
  <1> USE ConstantsAssumption DEF XInv, IInv, ExclInv
  <1>0. /\ t.kind = "Repair" /\ t.hqe \in Entries \ MetaHost /\ t.hqe # None
        /\ hqeStatus[t.hqe] \notin OverStatuses
    BY LateStays DEF Decisive
  <1>1. CASE t \in OpenTasks
    <2>1. Decisive(t)
      BY <1>0 DEF Decisive
    <2>2. /\ t.host = HostOf[t.hqe] /\ t.host \in Hosts
          /\ Held(t.host) /\ ActiveOn(t.host) = {}
          /\ t \in TaskAgents => t \in queued \cup running
          /\ t \in EpilogTasks => hostStatus[t.host] = "Repairing"
          /\ cont # None /\ cont.op = "reboot" => hqeHost[cont.hqe] # t.host
      BY <1>1, <2>1, TaskFacts DEF RepairInv
    <2>3. ~Unused(t.host)
      BY <1>1, <2>2 DEF OpenTasks, Unused
    <2>4. Held(t.host)' /\ ActiveOn(t.host)' = {}
      BY <2>2, <2>3, HeldStays
    <2>5. t \in TaskAgents' => t \in queued' \cup running'
      BY <1>1, <2>1, RepairKeepsRow
    <2>6. t \in running' \cup agentRun' \cup EpilogTasks' => hostStatus'[t.host] = "Repairing"
      BY <1>1, <2>1, RepairKeepsStatus
    <2>7. ASSUME cont' # None, cont'.op = "reboot" PROVE hqeHost'[cont'.hqe] # t.host
      <3>1. CASE QuietStep
        BY <2>2, <2>7, <3>1, QuietFacts DEF ContShrinks
      <3>2. CASE AgentStep
        BY <2>2, <2>7, <3>2, AgentFacts DEF entryVars
      <3>3. CASE HostScheduler \/ HsCrash
        <4>1. cont' = cont /\ cont.hqe \in Entries
          BY <2>7, <3>3, HsTasks DEF dispVars, TypeOK, DispatcherTypes, Conts
        <4>2. hqeStatus[cont.hqe] = "Parsing"
          BY <2>7, <4>1 DEF EntryInv, ContAgrees
        <4>3. hsJobs[cont.hqe] = None
          BY <4>1, <4>2 DEF EntryInv
        <4>4. hqeHost'[cont.hqe] = hqeHost[cont.hqe]
          BY <3>3, <4>1, <4>3 DEF HostScheduler, HsLease, HsAcquire, HsSetHost, HsActivate, HsPreJob,
             HsOnPending, HsRun, HsFindUnused, HsUnlease, HsCrash, entryVars, TypeOK, DbTypes
        <4> QED
          BY <2>2, <2>7, <4>1, <4>4
      <3>4. CASE WriteStep
        <4>1. PICK e \in Entries : /\ cont'.hqe = e /\ hqeAgent[e] = "gather"
                                   /\ hqeHost'[e] = hqeHost[e]
          BY <2>7, <3>4, WriteMove DEF DispatcherMove, ContMove
        <4>2. e \in ActiveOn(hqeHost[e])
          BY <4>1, ActiveFacts DEF EntryInv, AgentAgrees, ActiveStatuses
        <4> QED
          BY <2>2, <4>1, <4>2
      <3> QED
        BY <3>1, <3>2, <3>3, <3>4, StepCases
    <2> QED
      BY <2>2, <2>4, <2>5, <2>6, <2>7
  <1>2. CASE t \notin OpenTasks
    <2>1. PICK u \in Task : EpilogRequeue(u) /\ t = SpecialTask(u.host, "Repair", u.hqe)
      BY <1>0, <1>2, NewRepairs
    <2>2. t.host = u.host /\ t.hqe = u.hqe
      BY <2>1 DEF SpecialTask
    <2>3. HasPreJob(t.hqe) /\ hqeHost[t.hqe] = t.host
      BY <1>0, <2>1, <2>2, FailedPreJob
    <2>4. t.hqe \in active /\ Held(t.host) /\ t.host = HostOf[t.hqe]
      BY <1>0, <2>3, PreJobFacts DEF LeaseInv, OwnHostInv
    <2>5. WriteStep
      BY <2>1 DEF WriteStep
    <2>6. /\ UNCHANGED <<leased, hsVars>> /\ active' \subseteq active /\ active \subseteq Entries
          /\ \A e \in active' : hqeHost'[e] = hqeHost[e]
      BY <2>5, OtherActive DEF TypeOK, DbTypes
    <2>7. t.hqe \notin active'
      <3>1. SetStatus(t.hqe, "Queued") \/ SetStatus(t.hqe, "Parsing")
        BY <2>1, <2>2 DEF EpilogRequeue
      <3> QED
        BY <3>1 DEF SetStatus, ActiveStatuses
    <2>8. Held(t.host)' /\ ActiveOn(t.host)' = {}
      <3>1. Held(t.host)'
        BY <2>4, <2>6 DEF Held, hsVars
      <3>2. \A e \in active' : hqeHost'[e] # t.host
        BY <2>3, <2>4, <2>6, <2>7 DEF LeaseInv, OneJobPerHost
      <3> QED
        BY <3>1, <3>2 DEF ActiveOn
    <2>9. UNCHANGED <<agentNew, agentRun>> /\ running' \subseteq running /\ cont' = None
      BY <2>1 DEF EpilogRequeue, PrejobFailed, InEpilog, agentVars, Without, WithoutOn
    <2> QED
      BY <1>2, <2>4, <2>8, <2>9 DEF OpenTasks, TaskAgents, EpilogTasks
  <1> QED
    BY <1>1, <1>2

-----------------------------------------------------------------------------
(* The theorems.                                                           *)

\* Every step of every process, crashes included, preserves the invariant.
LEMMA NextXInv == ASSUME Abortable = {} PROVE XInv /\ [Next]_vars => XInv'
  BY NextIInv, NextRunningIsWatched, NextEntryInv, NextActiveInv, NextAbortInv, NextLeaseInv,
     NextOwnHostInv, NextOneTaskInv, NextRepairInv DEF XInv, ExclInv, IInv

\* The invariant holds in every reachable state of a system without user aborts.
THEOREM Exclusivity == ASSUME Abortable = {} PROVE Spec => []XInv
  <1>1. Init => XInv
    BY InitIInv, InitExcl DEF XInv, RunningIsWatched, Init
  <1> QED
    BY <1>1, NextXInv, PTL DEF Spec

\* Two active entries never hold the same host, however often either process
\* crashes: leases, releases and recoveries keep the jobs of a host apart.
THEOREM OneJob == ASSUME Abortable = {} PROVE Spec => []OneJobPerHost
  <1>1. XInv => OneJobPerHost
    BY DEF XInv, ExclInv, LeaseInv
  <1> QED
    BY <1>1, Exclusivity, PTL

\* _release_hosts never takes back the host of an active entry.
THEOREM ActiveLeased == ASSUME Abortable = {} PROVE Spec => []ActiveHostLeased
  <1>1. XInv => ActiveHostLeased
    BY DEF XInv, ExclInv, LeaseInv, Held, ActiveHostLeased
  <1> QED
    BY <1>1, Exclusivity, PTL

\* No crash, recovery or stale write runs a job again or reopens a result.
THEOREM EntriesForward == ASSUME Abortable = {} PROVE Spec => StatusForward
  <1>1. XInv /\ [Next]_vars =>
           [\A e \in Entries : \/ Rank(hqeStatus'[e]) >= Rank(hqeStatus[e])
                               \/ Rank(hqeStatus[e]) = 1 /\ hqeStatus'[e] = "Queued"]_vars
    BY StepForward DEF Forward
  <1> QED
    BY <1>1, Exclusivity, PTL DEF Spec, StatusForward

-----------------------------------------------------------------------------
(* One agent per host.                                                     *)

\* Without a crash the dispatcher never goes through its recovery.
LEMMA NoRecovery ==
  ASSUME MaxCrashes = 0, AgentInv, [Next]_vars
  PROVE  /\ crashes' = 0 /\ phase' \notin {"down", "pending", "unrecovered", "reverify"}
         /\ ~Crash /\ ~Recovery
  <1> USE DEF AgentInv
  <1>1. ~Crash /\ ~HsCrash /\ ~Recovery
    <2>1. ~Crash /\ ~HsCrash
      BY DEF Crash, HsCrash
    <2>2. ~RecoverPending /\ ~CheckUnrecovered /\ ~ReverifyHosts
      BY DEF RecoverPending, CheckUnrecovered, ReverifyHosts
    <2>3. \A found : ~RecoverTasks(found)
      BY DEF RecoverTasks
    <2> QED
      BY <2>1, <2>2, <2>3 DEF Recovery
  <1>2. CASE Frontend \/ UNCHANGED vars
    BY <1>1, <1>2 DEF Frontend, AbortHqe, ReverifyHost, vars, dispVars
  <1>3. CASE HostScheduler
    BY <1>1, <1>3 DEF HostScheduler, HsLease, HsAcquire, HsSetHost, HsActivate, HsPreJob, HsOnPending, HsRun,
       HsFindUnused, HsUnlease, dispVars
  <1>4. CASE ScheduleRunning \/ ScheduleSpecial \/ FindAborting \/ HandleAborted \/ EndTick
    BY <1>1, <1>4 DEF ScheduleRunning, ScheduleSpecial, FindAborting, HandleAborted, EndTick
  <1>5. CASE Aborting
    BY <1>1, <1>5 DEF Aborting, AbortQueueTask, AbortPostJob, AbortStarting, AbortPreJob, Seen
  <1>6. CASE Handle
    <2>1. CASE Epilog
      BY <1>1, <2>1 DEF Epilog, EpilogOnPending, EpilogReady, RepairFailed, EpilogRepair,
         EpilogRequeue, EpilogGiveUp, PrejobFailed, InEpilog
    <2>2. CASE ~Epilog
      BY <1>1, <1>6, <2>2 DEF Handle, SkipAgent, StartTask, FinishTask, Handling, RunIfReady,
         GatherReset, GatherReboot, StartQueueTask, StartGather, FinishGather, StartParse,
         FinishParse, FinishQueueTask
    <2> QED
      BY <2>1, <2>2
  <1> QED
    BY <1>1, <1>2, <1>3, <1>4, <1>5, <1>6 DEF Next, Dispatcher

\* Only _schedule_special_tasks gives a task an agent, only
\* _schedule_running_host_queue_entries an entry: each looks at the other's.
LEMMA NextAgentInv ==
  ASSUME Abortable = {}, MaxCrashes = 0, XInv, AgentInv, [Next]_vars PROVE AgentInv'
  <1>0. /\ crashes' = 0 /\ phase' \notin {"down", "pending", "unrecovered", "reverify"}
        /\ ~Crash /\ ~Recovery
    BY NoRecovery
  <1> SUFFICES ASSUME NEW t \in TaskAgents', NEW e \in Entries,
                      hqeAgent'[e] \in {"queue", "gather"}
               PROVE  hqeHost'[e] # t.host
    BY <1>0 DEF AgentInv
  <1> USE DEF XInv, IInv, ExclInv
  <1>1. t \in TaskAgents /\ hqeAgent[e] \in {"queue", "gather"} => hqeHost[e] # t.host
    BY DEF AgentInv
  <1>2. AgentAgrees(e)
    BY DEF EntryInv
  <1>3. CASE HostScheduler
    <2>1. UNCHANGED <<TaskAgents, hqeAgent>>
      BY <1>3, HsTasks DEF dispVars
    <2>2. hsJobs[e] = None
      BY <1>2, <2>1 DEF EntryInv, AgentAgrees
    <2>3. hqeHost'[e] = hqeHost[e]
      BY <1>3, <2>2 DEF HostScheduler, HsLease, HsAcquire, HsSetHost, HsActivate, HsPreJob, HsOnPending, HsRun,
         HsFindUnused, HsUnlease, entryVars, TypeOK, DbTypes
    <2> QED
      BY <1>1, <2>1, <2>3
  <1>4. CASE ScheduleRunning
    <2>1. UNCHANGED <<hqeHost, TaskAgents>>
      BY <1>4 DEF ScheduleRunning, entryVars, TaskAgents
    <2>2. CASE hqeAgent'[e] = hqeAgent[e]
      BY <1>1, <2>1, <2>2
    <2>3. CASE hqeAgent'[e] # hqeAgent[e]
      <3>1. hqeStatus[e] \in HandledStatuses /\ hqeAgent'[e] = AgentKind(hqeStatus[e])
            /\ (hqeStatus[e] # "Parsing" => ~HostHasAgent(hqeHost[e]))
        BY <1>4, <2>3 DEF ScheduleRunning
      <3>2. hqeStatus[e] # "Parsing"
        BY <3>1 DEF AgentKind
      <3> QED
        BY <2>1, <3>1, <3>2 DEF HostHasAgent
    <2> QED
      BY <2>2, <2>3
  <1>5. CASE ScheduleSpecial
    <2>1. UNCHANGED <<hqeHost, hqeAgent, agentRun>>
      BY <1>5 DEF ScheduleSpecial, entryVars
    <2>2. CASE t \in TaskAgents
      BY <1>1, <2>1, <2>2
    <2>3. CASE t \notin TaskAgents
      <3>1. PICK h \in Hosts : t \in Schedulable(h)
        BY <1>5, <2>3 DEF ScheduleSpecial, TaskAgents
      <3> QED
        BY <2>1, <3>1 DEF Schedulable, HostHasAgent
    <2> QED
      BY <2>2, <2>3
  <1>6. CASE QuietStep /\ ~ScheduleSpecial
    <2>1. UNCHANGED <<hqeHost, hqeAgent>>
      BY <1>6, QuietFacts
    <2>2. TaskAgents' \subseteq TaskAgents
      BY <1>6 DEF QuietStep, ReverifyHost, FindAborting, HandleAborted, AbortPostJob, DropTasks,
         StartGather, StartParse, SkipAgent, FinishTask, EpilogReady, EpilogRepair, PrejobFailed,
         InEpilog, GatherReset, GatherReboot, EndTick, ReverifyHosts, vars, dispVars, agentVars,
         TaskAgents
    <2> QED
      BY <1>1, <2>1, <2>2
  <1>7. CASE WriteStep
    <2>1. EntryMove(e)
      BY <1>7, WriteMove DEF DispatcherMove
    <2>2. HasPreJob(e) => hqeAgent[e] = "none"
      BY PreJobFacts
    <2>3. hqeAgent'[e] = hqeAgent[e] /\ hqeHost'[e] = hqeHost[e]
      BY <1>2, <2>1, <2>2 DEF EntryMove, Kept, Advanced, Finished, Stopped, AgentAgrees
    <2>4. TaskAgents' \subseteq TaskAgents
      BY <1>7 DEF WriteStep, AbortQueueTask, DropTasks, StartQueueTask, FinishGather, StartTask,
         FinishParse, FinishQueueTask, EpilogOnPending, RunIfReady, RepairFailed,
         EpilogRequeue, EpilogGiveUp, PrejobFailed, InEpilog, RecoverPending,
         CheckUnrecovered, agentVars, TaskAgents
    <2> QED
      BY <1>1, <2>3, <2>4
  <1>8. ~HsCrash
    BY DEF HsCrash, AgentInv
  <1> QED
    BY <1>0, <1>3, <1>4, <1>5, <1>6, <1>7, <1>8, StepCases DEF AgentStep, Recovery

\* The agents of one host are all the same one.
LEMMA AgentsAgree ==
  ASSUME XInv, AgentInv PROVE OneAgentPerHost
  <1> USE DEF XInv, IInv, ExclInv
  <1> SUFFICES ASSUME NEW h \in Hosts
               PROVE  Cardinality({t \in TaskAgents : t.host = h} \cup
                        {e \in Entries : hqeAgent[e] \in {"queue", "gather"} /\ hqeHost[e] = h}) <= 1
    BY DEF OneAgentPerHost
  <1> DEFINE T == {t \in TaskAgents : t.host = h}
             E == {e \in Entries : hqeAgent[e] \in {"queue", "gather"} /\ hqeHost[e] = h}
  <1>1. \A s, t \in T : s = t
    BY DEF OneTaskInv, BusyTasks
  <1>2. \A d, e \in E : d = e
    <2>1. \A e \in E : e \in active
      BY ActiveFacts DEF EntryInv, AgentAgrees, ActiveStatuses
    <2> QED
      BY <2>1 DEF LeaseInv, OneJobPerHost
  <1>3. T = {} \/ E = {}
    BY DEF AgentInv
  <1>4. \A x, y \in T \cup E : x = y
    BY <1>1, <1>2, <1>3
  <1> HIDE DEF T, E
  <1>5. T \cup E = {} \/ \E x : T \cup E = {x}
    <2>1. CASE T \cup E # {}
      <3>1. PICK x : x \in T \cup E
        BY <2>1
      <3>2. T \cup E = {x}
        BY <1>4, <3>1
      <3> QED
        BY <3>2
    <2> QED
      BY <2>1
  <1>6. Cardinality(T \cup E) <= 1
    <2>1. CASE T \cup E = {}
      BY <2>1, FS_EmptySet
    <2>2. CASE \E x : T \cup E = {x}
      <3>1. PICK x : T \cup E = {x}
        BY <2>2
      <3>2. Cardinality(T \cup E) = 1
        BY <3>1, FS_Singleton, Zenon
      <3> QED
        BY <3>2
    <2> QED
      BY <1>5, <2>1, <2>2
  <1> QED
    BY <1>6 DEF T, E

\* Between crashes a host has one agent at a time: "in practice we never see > 1
\* agent/task per host at any time".
THEOREM OneAgent ==
  ASSUME Abortable = {}, MaxCrashes = 0 PROVE Spec => []OneAgentPerHost
  <1>1. Init => AgentInv
    BY DEF Init, AgentInv, TaskAgents
  <1>2. XInv /\ AgentInv /\ [Next]_vars => AgentInv'
    BY NextAgentInv
  <1>3. XInv /\ AgentInv => OneAgentPerHost
    BY AgentsAgree
  <1> QED
    BY <1>1, <1>2, <1>3, Exclusivity, PTL DEF Spec

=============================================================================
