------------------------ MODULE JobScheduler_proofs -------------------------
(***************************************************************************)
(* Proofs about the job scheduler, for any number of hosts and entries and *)
(* any limits: the types, where pre-job tasks can be, and that a Running   *)
(* job is always watched.  IInv (JobSchedulerInv) holds initially          *)
(* (InitIInv) and every action preserves it, one lemma per action; the     *)
(* theorems at the end follow.                                             *)
(***************************************************************************)
EXTENDS JobSchedulerInv, TLAPS

\* HostQueueEntry.set_status changes one row and keeps the types of its columns.
LEMMA SetStatusFacts ==
  ASSUME TypeOK, NEW e \in Entries, NEW s \in Statuses, SetStatus(e, s)
  PROVE  /\ hqeStatus' \in [Entries -> Statuses]
         /\ active' \subseteq Entries /\ complete' \subseteq Entries
         /\ hqeStatus'[e] = s
         /\ \A d \in Entries : d # e => /\ hqeStatus'[d] = hqeStatus[d]
                                        /\ d \in active' <=> d \in active
                                        /\ d \in complete' <=> d \in complete
  <1> USE DEF SetStatus, TypeOK, DbTypes
  <1>1. hqeStatus' \in [Entries -> Statuses] /\ hqeStatus'[e] = s
    OBVIOUS
  <1>2. \A d \in Entries : d # e => hqeStatus'[d] = hqeStatus[d]
    OBVIOUS
  <1>3. /\ active' \subseteq Entries
        /\ \A d \in Entries : d # e => (d \in active' <=> d \in active)
    OBVIOUS
  <1>4. /\ complete' \subseteq Entries
        /\ \A d \in Entries : d # e => (d \in complete' <=> d \in complete)
    OBVIOUS
  <1> QED
    BY <1>1, <1>2, <1>3, <1>4

\* A pre-job task belongs to an entry.
LEMMA PreJobTasksType ==
  ASSUME TypeOK PROVE \A t \in PreJobTasks : t.hqe \in Entries
  <1> SUFFICES ASSUME NEW t \in PreJobTasks PROVE t.hqe \in Entries
    OBVIOUS
  <1>1. OpenTasks \subseteq Task
    BY DEF OpenTasks, TaskAgents, EpilogTasks, TypeOK, DbTypes, DispatcherTypes, Conts
  <1> QED
    BY <1>1 DEF PreJobTasks, Task

\* The statuses a prolog writes: never one a pre-job task must not leave behind,
\* and Resetting only for a reset.
LEMMA StatusOfKind ==
  ASSUME NEW k \in Kinds
  PROVE  /\ StatusOf(k) \in HostStatuses
         /\ k # "Repair" => StatusOf(k) \in Statuses
         /\ StatusOf(k) \notin HandledStatuses \cup {"Pending", "Queued"}
         /\ StatusOf(k) = "Resetting" => k = "Reset"
  <1> USE DEF StatusOf, Statuses, ActiveStatuses, HostStatuses, HandledStatuses
  <1>1. CASE k = "Verify"
    BY <1>1
  <1>2. CASE k = "Cleanup"
    BY <1>2
  <1>3. CASE k = "Reset"
    BY <1>3
  <1>4. CASE k = "Provision"
    BY <1>4
  <1>5. CASE k = "Repair"
    BY <1>5
  <1> QED
    BY <1>1, <1>2, <1>3, <1>4, <1>5 DEF Kinds, PreJobKinds

\* What the epilog of a pre-job task knows of its entry: it still holds the host
\* of the task, nobody else works on the task and the host scheduler is not at it.
LEMMA EpilogFacts ==
  ASSUME IInv, NEW t, cont # None, cont.op = "epilog", cont.task = t,
         t.kind # "Repair", t.hqe # None
  PROVE  /\ t \in Task /\ t.hqe \in Entries /\ t.host \in Hosts /\ t \in PreJobTasks
         /\ t \notin TaskAgents \cup running
         /\ HasPreJob(t.hqe)
         /\ hqeHost[t.hqe] = t.host
         /\ hsJobs[t.hqe] = None /\ hsEntry # t.hqe
         /\ t.hqe \in MetaHost => hqeAgent[t.hqe] = "none"
  <1> USE ConstantsAssumption DEF IInv
  <1>1. t \in Task /\ EpilogTasks = {t}
    BY DEF TypeOK, DispatcherTypes, Conts, EpilogTasks
  <1>2. t.hqe \in Entries /\ t.host \in Hosts
    BY <1>1 DEF Task
  <1>3. t \in PreJobTasks /\ HasPreJob(t.hqe)
    BY <1>1 DEF PreJobTasks, OpenTasks, HasPreJob
  <1>4. hsJobs[t.hqe] = None /\ hsEntry # t.hqe /\ hqeHost[t.hqe] = t.host
    BY <1>2, <1>3 DEF OnePreJobTask, QueuedEntryIsFree
  <1>5. t \notin TaskAgents \cup running
    BY <1>1 DEF TaskInv
  <1>6. t.hqe \in MetaHost => hqeAgent[t.hqe] = "none"
    BY <1>2, <1>3 DEF MetaInv, AgentAgrees, TaskAgrees, HandledStatuses, TypeOK, DispatcherTypes
  <1> QED
    BY <1>1, <1>2, <1>3, <1>4, <1>5, <1>6

\* A failed pre-job task that requeues or fails its entry: with the rows of the
\* entry on the host completed, no pre-job task of the entry is left.
LEMMA EntryDropped ==
  ASSUME IInv, NEW t \in Task, PrejobFailed(t), t.hqe # None,
         NEW s \in {"Queued", "Parsing"}, SetStatus(t.hqe, s),
         hqeHost' = [hqeHost EXCEPT ![t.hqe] = HostAfterFailure(t.hqe)],
         HostAfterFailure(t.hqe) = None => s = "Queued",
         \A q \in queued' \cup running' : q.kind # "Repair" =>
             q \in queued \cup running /\ ~(q.hqe = t.hqe /\ q.host = t.host)
  PROVE  /\ PhaseInv' /\ HsInv' /\ TaskInv' /\ MetaInv'
         /\ QueuedEntryIsFree' /\ OnePreJobTask' /\ HostlessIsIdle'
  <1> USE ConstantsAssumption DEF IInv, PrejobFailed, InEpilog, agentVars, hsVars
  <1> DEFINE e == t.hqe
  <1>0. /\ e \in Entries /\ t \in PreJobTasks /\ t \notin TaskAgents \cup running
        /\ HasPreJob(e) /\ hqeHost[e] = t.host /\ t.host \in Hosts
        /\ hsJobs[e] = None /\ hsEntry # e
        /\ e \in MetaHost => hqeAgent[e] = "none"
    BY EpilogFacts
  <1>1. /\ hqeStatus'[e] = s
        /\ \A d \in Entries : d # e => /\ hqeStatus'[d] = hqeStatus[d]
                                       /\ Pending(d)' <=> Pending(d)
                                       /\ hqeHost'[d] = hqeHost[d]
        /\ hqeHost'[e] = HostAfterFailure(e)
    BY <1>0, SetStatusFacts DEF Statuses, TypeOK, DbTypes, Pending
  <1>2. PreJobTasks' \subseteq PreJobTasks /\ \A q \in PreJobTasks' : q.hqe # e
    <2>1. EpilogTasks' = {} /\ TaskAgents' = TaskAgents
      BY DEF EpilogTasks, TaskAgents
    <2>2. PreJobTasks' \subseteq PreJobTasks
      BY <2>1 DEF PreJobTasks, OpenTasks
    <2>3. ASSUME NEW q \in PreJobTasks', q.hqe = e PROVE FALSE
      <3>1. q = t
        BY <1>0, <2>2, <2>3 DEF OnePreJobTask
      <3>2. t \in queued' \cup running'
        BY <1>0, <2>1, <3>1 DEF PreJobTasks, OpenTasks
      <3> QED
        BY <3>2
    <2> QED
      BY <2>2, <2>3
  <1>3. PhaseInv'
    BY DEF PhaseInv
  <1>4. HsInv'
    BY <1>0, <1>1 DEF HsInv
  <1>5. TaskInv'
    <2>1. \A q \in PreJobTasks' : q.hqe \in Entries
      BY <1>2 DEF PreJobTasks, OpenTasks, TypeOK, DbTypes, DispatcherTypes, TaskAgents,
         EpilogTasks, Conts, Task
    <2> QED
      BY <1>1, <1>2, <2>1 DEF TaskInv, EpilogTasks
  <1>6. MetaInv'
    BY <1>0, <1>1, <1>2 DEF MetaInv, AgentAgrees, SeenAgrees, ContAgrees, TaskAgrees,
       HsAgrees, HasPreJob
  <1>7. QueuedEntryIsFree'
    BY <1>0, <1>1, <1>2 DEF QueuedEntryIsFree, HasPreJob
  <1>8. OnePreJobTask'
    <2>1. \A q \in PreJobTasks' : q.hqe \in Entries
      BY <1>2 DEF PreJobTasks, OpenTasks, TypeOK, DbTypes, DispatcherTypes, TaskAgents,
         EpilogTasks, Conts, Task
    <2> QED
      BY <1>1, <1>2, <2>1 DEF OnePreJobTask
  <1>9. HostlessIsIdle'
    <2>1. HostAfterFailure(e) = None => e \in MetaHost
      BY <1>0 DEF HostAfterFailure
    <2>2. \A d \in Entries : seen[d].status = "none"
      BY DEF PhaseInv, NotSeen
    <2> QED
      BY <1>0, <1>1, <1>2, <2>1, <2>2 DEF HostlessIsIdle, HasPreJob
  <1> QED
    BY <1>3, <1>4, <1>5, <1>6, <1>7, <1>8, <1>9

\* The invariant holds in the empty database with both schedulers up.
LEMMA InitIInv == Init => IInv
  <1> SUFFICES ASSUME Init PROVE IInv
    OBVIOUS
  <1> USE ConstantsAssumption DEF Init
  <1>1. TypeOK
    BY DEF TypeOK, DbTypes, DispatcherTypes, HostSchedulerTypes, Statuses, HostStatuses,
       Phases, HsPhases, NotSeen
  <1>2. PreJobTasks = {}
    BY DEF PreJobTasks, OpenTasks, TaskAgents, EpilogTasks
  <1>3. PhaseInv /\ HsInv
    BY DEF PhaseInv, HsInv, TaskAgents
  <1>4. TaskInv /\ MetaInv
    BY <1>2 DEF TaskInv, MetaInv, EpilogTasks, HasPreJob, TaskAgents, AgentAgrees,
       SeenAgrees, ContAgrees, TaskAgrees, HsAgrees
  <1>5. QueuedEntryIsFree /\ OnePreJobTask /\ HostlessIsIdle
    BY <1>2 DEF QueuedEntryIsFree, OnePreJobTask, HostlessIsIdle, HasPreJob, NotSeen
  <1> QED
    BY <1>1, <1>3, <1>4, <1>5 DEF IInv

-----------------------------------------------------------------------------
(* The frontend and the host scheduler.                                    *)

\* An abort of an entry preserves the invariant.
LEMMA AbortHqeIInv == ASSUME IInv, NEW e \in Entries, AbortHqe(e) PROVE IInv'
  <1> USE ConstantsAssumption DEF IInv, AbortHqe, hostVars, taskVars, dispVars, hsVars
  <1>1. TypeOK'
    BY DEF TypeOK, DbTypes, DispatcherTypes, HostSchedulerTypes
  <1>2. PreJobTasks' \subseteq PreJobTasks
    BY DEF PreJobTasks, OpenTasks, TaskAgents, EpilogTasks
  <1>3. PhaseInv'
    BY DEF PhaseInv, TaskAgents
  <1>4. HsInv'
    BY DEF HsInv, Pending
  <1>5. TaskInv'
    BY <1>2 DEF TaskInv, TaskAgents, EpilogTasks
  <1>6. MetaInv'
    BY <1>2 DEF MetaInv, AgentAgrees, SeenAgrees, ContAgrees, TaskAgrees, HsAgrees, HasPreJob
  <1>7. QueuedEntryIsFree'
    BY <1>2 DEF QueuedEntryIsFree, HasPreJob, Pending
  <1>8. OnePreJobTask'
    BY <1>2 DEF OnePreJobTask
  <1>9. HostlessIsIdle'
    BY <1>2 DEF HostlessIsIdle, HasPreJob
  <1> QED
    BY <1>1, <1>3, <1>4, <1>5, <1>6, <1>7, <1>8, <1>9

\* A reverify asked for by the frontend preserves the invariant.
LEMMA ReverifyHostIInv == ASSUME IInv, NEW h \in Hosts, ReverifyHost(h) PROVE IInv'
  <1> USE ConstantsAssumption DEF IInv, ReverifyHost, entryVars, hostVars, dispVars, hsVars
  <1>0. SpecialTask(h, "Verify", None) \in Task /\ SpecialTask(h, "Verify", None).hqe = None
    BY DEF SpecialTask, Task, Kinds, PreJobKinds
  <1>1. TypeOK'
    BY <1>0 DEF TypeOK, DbTypes, DispatcherTypes, HostSchedulerTypes
  <1>2. PreJobTasks' \subseteq PreJobTasks
    BY <1>0 DEF PreJobTasks, OpenTasks, TaskAgents, EpilogTasks
  <1>3. PhaseInv'
    BY DEF PhaseInv, TaskAgents
  <1>4. HsInv'
    BY <1>0 DEF HsInv, Pending
  <1>5. TaskInv'
    BY <1>0, <1>2 DEF TaskInv, TaskAgents, EpilogTasks
  <1>6. MetaInv'
    BY <1>0, <1>2 DEF MetaInv, AgentAgrees, SeenAgrees, ContAgrees, TaskAgrees, HsAgrees,
       HasPreJob
  <1>7. QueuedEntryIsFree'
    BY <1>0, <1>2 DEF QueuedEntryIsFree, HasPreJob, Pending
  <1>8. OnePreJobTask'
    BY <1>0, <1>2 DEF OnePreJobTask
  <1>9. HostlessIsIdle'
    BY <1>0, <1>2 DEF HostlessIsIdle, HasPreJob
  <1> QED
    BY <1>1, <1>3, <1>4, <1>5, <1>6, <1>7, <1>8, <1>9

\* Leasing hosts for frontend tasks preserves the invariant.
LEMMA HsLeaseIInv == ASSUME IInv, HsLease PROVE IInv'
  <1> USE ConstantsAssumption DEF IInv, HsLease, entryVars, taskVars, dispVars
  <1>1. TypeOK'
    BY DEF TypeOK, DbTypes, DispatcherTypes, HostSchedulerTypes, HsPhases, Task
  <1>2. PreJobTasks' \subseteq PreJobTasks
    BY DEF PreJobTasks, OpenTasks, TaskAgents, EpilogTasks
  <1>3. PhaseInv'
    BY DEF PhaseInv, TaskAgents
  <1>4. HsInv'
    BY DEF HsInv, Pending
  <1>5. TaskInv'
    BY <1>2 DEF TaskInv, TaskAgents, EpilogTasks
  <1>6. MetaInv'
    BY <1>2 DEF MetaInv, AgentAgrees, SeenAgrees, ContAgrees, TaskAgrees, HsAgrees, HasPreJob
  <1>7. QueuedEntryIsFree'
    BY <1>2 DEF QueuedEntryIsFree, HasPreJob, Pending
  <1>8. OnePreJobTask'
    BY <1>2 DEF OnePreJobTask
  <1>9. HostlessIsIdle'
    BY <1>2 DEF HostlessIsIdle, HasPreJob
  <1> QED
    BY <1>1, <1>3, <1>4, <1>5, <1>6, <1>7, <1>8, <1>9

\* Acquiring hosts preserves the invariant.
LEMMA HsAcquireIInv == ASSUME IInv, HsAcquire PROVE IInv'
  <1> USE ConstantsAssumption DEF IInv, HsAcquire, entryVars, taskVars, dispVars
  <1>0. /\ hsJobs' \in [Entries -> Hosts \cup {None}] /\ leased' \subseteq Hosts
        /\ \A e \in Entries : hsJobs'[e] # None => Pending(e) /\ hqeHost[e] \in {None, hsJobs'[e]}
    <2>1. /\ hsJobs' \in [Entries -> Hosts \cup {None}]
          /\ \A e \in Entries : hsJobs'[e] # None => Pending(e) /\ hqeHost[e] \in {None, hsJobs'[e]}
      BY DEF Acquisitions
    <2>2. leased' \subseteq Hosts
      BY <2>1 DEF TypeOK, DbTypes
    <2> QED
      BY <2>1, <2>2
  <1>1. TypeOK'
    BY <1>0 DEF TypeOK, DbTypes, DispatcherTypes, HostSchedulerTypes, HsPhases
  <1>2. PreJobTasks' \subseteq PreJobTasks
    BY <1>0 DEF PreJobTasks, OpenTasks, TaskAgents, EpilogTasks
  <1>3. PhaseInv'
    BY DEF PhaseInv, TaskAgents
  <1>4. HsInv'
    BY <1>0 DEF HsInv, Pending
  <1>5. TaskInv'
    BY <1>0, <1>2 DEF TaskInv, TaskAgents, EpilogTasks
  <1>6. MetaInv'
    <2> SUFFICES ASSUME NEW d \in MetaHost
                 PROVE  /\ AgentAgrees(d)' /\ SeenAgrees(d)' /\ ContAgrees(d)'
                        /\ TaskAgrees(d)' /\ HsAgrees(d)'
      BY DEF MetaInv
    <2>0. d \in Entries /\ AgentAgrees(d) /\ SeenAgrees(d) /\ ContAgrees(d)
          /\ TaskAgrees(d) /\ HsAgrees(d)
      BY DEF MetaInv
    <2>1. AgentAgrees(d)'
      BY <1>0, <2>0 DEF AgentAgrees
    <2>2. SeenAgrees(d)'
      BY <1>0, <2>0 DEF SeenAgrees
    <2>3. ContAgrees(d)'
      BY <1>0, <2>0 DEF ContAgrees
    <2>4. TaskAgrees(d)'
      BY <1>0, <1>2, <2>0 DEF TaskAgrees, HasPreJob
    <2>5. HsAgrees(d)'
      BY <1>0, <2>0 DEF HsAgrees, Pending
    <2> QED
      BY <2>1, <2>2, <2>3, <2>4, <2>5
  <1>7. QueuedEntryIsFree'
    BY <1>0, <1>2 DEF QueuedEntryIsFree, HasPreJob, Pending
  <1>8. OnePreJobTask'
    BY <1>0, <1>2 DEF OnePreJobTask
  <1>9. HostlessIsIdle'
    BY <1>0, <1>2 DEF HostlessIsIdle, HasPreJob
  <1> QED
    BY <1>1, <1>3, <1>4, <1>5, <1>6, <1>7, <1>8, <1>9

\* Giving an entry its host preserves the invariant.
LEMMA HsSetHostIInv == ASSUME IInv, NEW e \in Entries, HsSetHost(e) PROVE IInv'
  <1> USE ConstantsAssumption DEF IInv, HsSetHost, hostVars, taskVars, dispVars
  <1>0. hsJobs[e] \in Hosts /\ ~HasPreJob(e)
    BY DEF QueuedEntryIsFree, TypeOK, HostSchedulerTypes
  <1>1. TypeOK'
    BY <1>0 DEF TypeOK, DbTypes, DispatcherTypes, HostSchedulerTypes, HsPhases
  <1>2. PreJobTasks' \subseteq PreJobTasks
    BY <1>0 DEF PreJobTasks, OpenTasks, TaskAgents, EpilogTasks
  <1>3. PhaseInv'
    BY DEF PhaseInv, TaskAgents
  <1>4. HsInv'
    BY <1>0 DEF HsInv, Pending, TypeOK, DbTypes, HostSchedulerTypes
  <1>5. TaskInv'
    BY <1>0, <1>2 DEF TaskInv, TaskAgents, EpilogTasks
  <1>6. MetaInv'
    <2> SUFFICES ASSUME NEW d \in MetaHost
                 PROVE  /\ AgentAgrees(d)' /\ SeenAgrees(d)' /\ ContAgrees(d)'
                        /\ TaskAgrees(d)' /\ HsAgrees(d)'
      BY DEF MetaInv
    <2>0. d \in Entries /\ AgentAgrees(d) /\ SeenAgrees(d) /\ ContAgrees(d)
          /\ TaskAgrees(d) /\ HsAgrees(d)
      BY DEF MetaInv
    <2>1. AgentAgrees(d)'
      BY <1>0, <2>0 DEF AgentAgrees
    <2>2. SeenAgrees(d)'
      BY <1>0, <2>0 DEF SeenAgrees
    <2>3. ContAgrees(d)'
      BY <1>0, <2>0 DEF ContAgrees, HsAgrees
    <2>4. TaskAgrees(d)'
      BY <1>0, <1>2, <2>0 DEF TaskAgrees, HasPreJob
    <2>5. HsAgrees(d)'
      BY <1>0, <2>0 DEF HsAgrees, TypeOK, HostSchedulerTypes
    <2> QED
      BY <2>1, <2>2, <2>3, <2>4, <2>5
  <1>7. QueuedEntryIsFree'
    BY <1>0, <1>2 DEF QueuedEntryIsFree, HasPreJob, Pending, TypeOK, HostSchedulerTypes
  <1>8. OnePreJobTask'
    BY <1>0, <1>2 DEF OnePreJobTask, HasPreJob, TypeOK, DbTypes, PreJobTasks
  <1>9. HostlessIsIdle'
    BY <1>0, <1>2 DEF HostlessIsIdle, HasPreJob, TypeOK, DbTypes
  <1> QED
    BY <1>1, <1>3, <1>4, <1>5, <1>6, <1>7, <1>8, <1>9

\* Activating an entry on its host preserves the invariant.
LEMMA HsActivateIInv == ASSUME IInv, NEW e \in Entries, HsActivate(e) PROVE IInv'
  <1> USE ConstantsAssumption DEF IInv, HsActivate, hostVars, taskVars, dispVars
  <1>0. hsJobs[e] \in Hosts /\ ~HasPreJob(e)
    BY DEF QueuedEntryIsFree, TypeOK, HostSchedulerTypes
  <1>1. TypeOK'
    BY <1>0 DEF TypeOK, DbTypes, DispatcherTypes, HostSchedulerTypes, HsPhases
  <1>2. PreJobTasks' \subseteq PreJobTasks
    BY <1>0 DEF PreJobTasks, OpenTasks, TaskAgents, EpilogTasks
  <1>3. PhaseInv'
    BY DEF PhaseInv, TaskAgents
  <1>4. HsInv'
    BY <1>0 DEF HsInv, Pending, TypeOK, DbTypes, HostSchedulerTypes
  <1>5. TaskInv'
    BY <1>0, <1>2 DEF TaskInv, TaskAgents, EpilogTasks
  <1>6. MetaInv'
    <2> SUFFICES ASSUME NEW d \in MetaHost
                 PROVE  /\ AgentAgrees(d)' /\ SeenAgrees(d)' /\ ContAgrees(d)'
                        /\ TaskAgrees(d)' /\ HsAgrees(d)'
      BY DEF MetaInv
    <2>0. d \in Entries /\ AgentAgrees(d) /\ SeenAgrees(d) /\ ContAgrees(d)
          /\ TaskAgrees(d) /\ HsAgrees(d)
      BY DEF MetaInv
    <2>1. AgentAgrees(d)'
      BY <1>0, <2>0 DEF AgentAgrees
    <2>2. SeenAgrees(d)'
      BY <1>0, <2>0 DEF SeenAgrees
    <2>3. ContAgrees(d)'
      BY <1>0, <2>0 DEF ContAgrees, HsAgrees
    <2>4. TaskAgrees(d)'
      BY <1>0, <1>2, <2>0 DEF TaskAgrees, HasPreJob
    <2>5. HsAgrees(d)'
      BY <1>0, <2>0 DEF HsAgrees, TypeOK, HostSchedulerTypes
    <2> QED
      BY <2>1, <2>2, <2>3, <2>4, <2>5
  <1>7. QueuedEntryIsFree'
    BY <1>0, <1>2 DEF QueuedEntryIsFree, HasPreJob, Pending, TypeOK, HostSchedulerTypes
  <1>8. OnePreJobTask'
    BY <1>0, <1>2 DEF OnePreJobTask, HasPreJob, TypeOK, DbTypes, PreJobTasks
  <1>9. HostlessIsIdle'
    BY <1>0, <1>2 DEF HostlessIsIdle, HasPreJob, TypeOK, DbTypes
  <1> QED
    BY <1>1, <1>3, <1>4, <1>5, <1>6, <1>7, <1>8, <1>9

\* Queueing a pre-job task preserves the invariant.
LEMMA HsPreJobIInv == ASSUME IInv, NEW k \in PreJobKinds, HsPreJob(k) PROVE IInv'
  <1> USE ConstantsAssumption DEF IInv, HsPreJob, entryVars, hostVars, dispVars
  <1>0. PICK e \in Entries : hsEntry = e
    BY DEF HsInv, TypeOK, HostSchedulerTypes
  <1> USE <1>0
  <1> DEFINE new == SpecialTask(hqeHost[e], k, e)
  <1>1. /\ hqeHost[e] \in Hosts /\ ~HasPreJob(e) /\ hsJobs[e] = None /\ ~Pending(e)
        /\ hqeStatus[e] # "Resetting"
    BY DEF HostlessIsIdle, QueuedEntryIsFree, HsInv, TypeOK, DbTypes
  <1>2. new \in Task /\ new.hqe = e /\ new.host = hqeHost[e]
    BY <1>1 DEF SpecialTask, Task, Kinds
  <1>3. TypeOK'
    <2>1. provisions' \in [Entries -> 0..(MaxProvisionRetries + 1)]
      BY DEF TypeOK, DbTypes, Least
    <2>2. DbTypes'
      BY <1>2, <2>1 DEF TypeOK, DbTypes
    <2> QED
      BY <2>2 DEF TypeOK, DispatcherTypes, HostSchedulerTypes, HsPhases
  <1>4. PreJobTasks' \subseteq PreJobTasks \cup {new}
    BY DEF PreJobTasks, OpenTasks, TaskAgents, EpilogTasks
  <1>5. PhaseInv'
    BY DEF PhaseInv, TaskAgents
  <1>6. HsInv'
    BY DEF HsInv, Pending
  <1>7. TaskInv'
    BY <1>1, <1>2, <1>4 DEF TaskInv, TaskAgents, EpilogTasks
  <1>8. MetaInv'
    <2> SUFFICES ASSUME NEW d \in MetaHost
                 PROVE  /\ AgentAgrees(d)' /\ SeenAgrees(d)' /\ ContAgrees(d)'
                        /\ TaskAgrees(d)' /\ HsAgrees(d)'
      BY DEF MetaInv
    <2>0. d \in Entries /\ AgentAgrees(d) /\ SeenAgrees(d) /\ ContAgrees(d)
          /\ TaskAgrees(d) /\ HsAgrees(d)
      BY DEF MetaInv
    <2>1. AgentAgrees(d)' /\ SeenAgrees(d)' /\ ContAgrees(d)' /\ HsAgrees(d)'
      BY <2>0 DEF AgentAgrees, SeenAgrees, ContAgrees, HsAgrees
    <2>2. TaskAgrees(d)'
      BY <1>2, <1>4, <2>0 DEF TaskAgrees, HasPreJob, HsAgrees, HandledStatuses
    <2> QED
      BY <2>1, <2>2
  <1>9. QueuedEntryIsFree'
    BY <1>1, <1>2, <1>4 DEF QueuedEntryIsFree, HasPreJob, Pending
  <1>10. OnePreJobTask'
    BY <1>1, <1>2, <1>4 DEF OnePreJobTask, HasPreJob
  <1>11. HostlessIsIdle'
    BY <1>1, <1>2, <1>4 DEF HostlessIsIdle, HasPreJob
  <1> QED
    BY <1>3, <1>5, <1>6, <1>7, <1>8, <1>9, <1>10, <1>11

\* on_pending in the host scheduler preserves the invariant.
LEMMA HsOnPendingIInv == ASSUME IInv, HsOnPending PROVE IInv'
  <1> USE ConstantsAssumption DEF IInv, HsOnPending, SetHostStatus, taskVars, dispVars
  <1>0. hsEntry \in Entries /\ ~HasPreJob(hsEntry) /\ hsJobs[hsEntry] = None /\ hqeHost[hsEntry] # None
    BY DEF QueuedEntryIsFree, HsInv, TypeOK, HostSchedulerTypes, HostlessIsIdle
  <1>1. TypeOK'
    <2>1. DbTypes'
      BY <1>0 DEF TypeOK, DbTypes, Statuses, ActiveStatuses, HostStatuses
    <2> QED
      BY <2>1 DEF TypeOK, DispatcherTypes, HostSchedulerTypes, HsPhases
  <1>2. PreJobTasks' \subseteq PreJobTasks
    BY <1>0 DEF PreJobTasks, OpenTasks, TaskAgents, EpilogTasks
  <1>3. PhaseInv'
    BY DEF PhaseInv, TaskAgents
  <1>4. HsInv'
    BY <1>0 DEF HsInv, Pending, TypeOK, DbTypes
  <1>5. TaskInv'
    BY <1>0, <1>2 DEF TaskInv, TaskAgents, EpilogTasks, HasPreJob, TypeOK, DbTypes
  <1>6. MetaInv'
    <2> SUFFICES ASSUME NEW d \in MetaHost
                 PROVE  /\ AgentAgrees(d)' /\ SeenAgrees(d)' /\ ContAgrees(d)'
                        /\ TaskAgrees(d)' /\ HsAgrees(d)'
      BY DEF MetaInv
    <2>0. d \in Entries /\ AgentAgrees(d) /\ SeenAgrees(d) /\ ContAgrees(d)
          /\ TaskAgrees(d) /\ HsAgrees(d)
      BY DEF MetaInv
    <2>1. AgentAgrees(d)'
      BY <1>0, <2>0 DEF AgentAgrees, HsAgrees, TypeOK, DbTypes
    <2>2. SeenAgrees(d)'
      BY <1>0, <2>0 DEF SeenAgrees
    <2>3. ContAgrees(d)'
      BY <1>0, <2>0 DEF ContAgrees, HsAgrees, TypeOK, DbTypes
    <2>4. TaskAgrees(d)'
      BY <1>0, <1>2, <2>0 DEF TaskAgrees, HasPreJob, TypeOK, DbTypes
    <2>5. HsAgrees(d)'
      BY <1>0, <2>0 DEF HsAgrees, TypeOK, DbTypes
    <2> QED
      BY <2>1, <2>2, <2>3, <2>4, <2>5
  <1>7. QueuedEntryIsFree'
    BY <1>0, <1>2 DEF QueuedEntryIsFree, HasPreJob, Pending, TypeOK, DbTypes
  <1>8. OnePreJobTask'
    BY <1>0, <1>2 DEF OnePreJobTask
  <1>9. HostlessIsIdle'
    BY <1>0, <1>2 DEF HostlessIsIdle, HasPreJob, TypeOK, DbTypes
  <1> QED
    BY <1>1, <1>3, <1>4, <1>5, <1>6, <1>7, <1>8, <1>9

\* run_if_ready in the host scheduler preserves the invariant.
LEMMA HsRunIInv == ASSUME IInv, HsRun PROVE IInv'
  <1> USE ConstantsAssumption DEF IInv, HsRun, hostVars, taskVars, dispVars
  <1>0. hsEntry \in Entries /\ ~HasPreJob(hsEntry) /\ hqeHost[hsEntry] # None /\ ~Pending(hsEntry)
    BY DEF QueuedEntryIsFree, HsInv, TypeOK, HostSchedulerTypes, HostlessIsIdle
  <1>1. TypeOK'
    BY <1>0 DEF TypeOK, DbTypes, DispatcherTypes, HostSchedulerTypes, HsPhases, Statuses,
       ActiveStatuses
  <1>2. PreJobTasks' \subseteq PreJobTasks
    BY <1>0 DEF PreJobTasks, OpenTasks, TaskAgents, EpilogTasks
  <1>3. PhaseInv'
    BY DEF PhaseInv, TaskAgents
  <1>4. HsInv'
    BY <1>0 DEF HsInv, Pending, TypeOK, DbTypes
  <1>5. TaskInv'
    BY <1>0, <1>2 DEF TaskInv, TaskAgents, EpilogTasks, HasPreJob, TypeOK, DbTypes
  <1>6. MetaInv'
    <2> SUFFICES ASSUME NEW d \in MetaHost
                 PROVE  /\ AgentAgrees(d)' /\ SeenAgrees(d)' /\ ContAgrees(d)'
                        /\ TaskAgrees(d)' /\ HsAgrees(d)'
      BY DEF MetaInv
    <2>0. d \in Entries /\ AgentAgrees(d) /\ SeenAgrees(d) /\ ContAgrees(d)
          /\ TaskAgrees(d) /\ HsAgrees(d)
      BY DEF MetaInv
    <2>1. AgentAgrees(d)'
      BY <1>0, <2>0 DEF AgentAgrees, TypeOK, DbTypes
    <2>2. SeenAgrees(d)'
      BY <1>0, <2>0 DEF SeenAgrees
    <2>3. ContAgrees(d)'
      BY <1>0, <2>0 DEF ContAgrees, TypeOK, DbTypes
    <2>4. TaskAgrees(d)'
      BY <1>0, <1>2, <2>0 DEF TaskAgrees, HasPreJob, TypeOK, DbTypes
    <2>5. HsAgrees(d)'
      BY <1>0, <2>0 DEF HsAgrees, TypeOK, DbTypes
    <2> QED
      BY <2>1, <2>2, <2>3, <2>4, <2>5
  <1>7. QueuedEntryIsFree'
    BY <1>0, <1>2 DEF QueuedEntryIsFree, HasPreJob, Pending, TypeOK, DbTypes
  <1>8. OnePreJobTask'
    BY <1>0, <1>2 DEF OnePreJobTask
  <1>9. HostlessIsIdle'
    BY <1>0, <1>2 DEF HostlessIsIdle, HasPreJob, TypeOK, DbTypes
  <1> QED
    BY <1>1, <1>3, <1>4, <1>5, <1>6, <1>7, <1>8, <1>9

\* The query for unused hosts preserves the invariant.
LEMMA HsFindUnusedIInv == ASSUME IInv, HsFindUnused PROVE IInv'
  <1> USE ConstantsAssumption DEF IInv, HsFindUnused, entryVars, hostVars, taskVars, dispVars
  <1>1. TypeOK'
    BY DEF TypeOK, DbTypes, DispatcherTypes, HostSchedulerTypes, HsPhases, Unused
  <1>2. PreJobTasks' \subseteq PreJobTasks
    BY DEF PreJobTasks, OpenTasks, TaskAgents, EpilogTasks
  <1>3. PhaseInv'
    BY DEF PhaseInv, TaskAgents
  <1>4. HsInv'
    BY DEF HsInv, Pending
  <1>5. TaskInv'
    BY <1>2 DEF TaskInv, TaskAgents, EpilogTasks
  <1>6. MetaInv'
    BY <1>2 DEF MetaInv, AgentAgrees, SeenAgrees, ContAgrees, TaskAgrees, HsAgrees, HasPreJob
  <1>7. QueuedEntryIsFree'
    BY <1>2 DEF QueuedEntryIsFree, HasPreJob, Pending
  <1>8. OnePreJobTask'
    BY <1>2 DEF OnePreJobTask
  <1>9. HostlessIsIdle'
    BY <1>2 DEF HostlessIsIdle, HasPreJob
  <1> QED
    BY <1>1, <1>3, <1>4, <1>5, <1>6, <1>7, <1>8, <1>9

\* The release of hosts preserves the invariant.
LEMMA HsUnleaseIInv == ASSUME IInv, HsUnlease PROVE IInv'
  <1> USE ConstantsAssumption DEF IInv, HsUnlease, entryVars, taskVars, dispVars
  <1>1. TypeOK'
    BY DEF TypeOK, DbTypes, DispatcherTypes, HostSchedulerTypes, HsPhases
  <1>2. PreJobTasks' \subseteq PreJobTasks
    BY DEF PreJobTasks, OpenTasks, TaskAgents, EpilogTasks
  <1>3. PhaseInv'
    BY DEF PhaseInv, TaskAgents
  <1>4. HsInv'
    BY DEF HsInv, Pending
  <1>5. TaskInv'
    BY <1>2 DEF TaskInv, TaskAgents, EpilogTasks
  <1>6. MetaInv'
    BY <1>2 DEF MetaInv, AgentAgrees, SeenAgrees, ContAgrees, TaskAgrees, HsAgrees, HasPreJob
  <1>7. QueuedEntryIsFree'
    BY <1>2 DEF QueuedEntryIsFree, HasPreJob, Pending
  <1>8. OnePreJobTask'
    BY <1>2 DEF OnePreJobTask
  <1>9. HostlessIsIdle'
    BY <1>2 DEF HostlessIsIdle, HasPreJob
  <1> QED
    BY <1>1, <1>3, <1>4, <1>5, <1>6, <1>7, <1>8, <1>9

\* A crash of the host scheduler preserves the invariant.
LEMMA HsCrashIInv == ASSUME IInv, HsCrash PROVE IInv'
  <1> USE ConstantsAssumption DEF IInv, HsCrash, entryVars, hostVars, taskVars, dispVars
  <1>1. TypeOK'
    BY DEF TypeOK, DbTypes, DispatcherTypes, HostSchedulerTypes, HsPhases
  <1>2. PreJobTasks' \subseteq PreJobTasks
    BY DEF PreJobTasks, OpenTasks, TaskAgents, EpilogTasks
  <1>3. PhaseInv'
    BY DEF PhaseInv, TaskAgents
  <1>4. HsInv'
    BY DEF HsInv, Pending
  <1>5. TaskInv'
    BY <1>2 DEF TaskInv, TaskAgents, EpilogTasks
  <1>6. MetaInv'
    BY <1>2 DEF MetaInv, AgentAgrees, SeenAgrees, ContAgrees, TaskAgrees, HsAgrees, HasPreJob
  <1>7. QueuedEntryIsFree'
    BY <1>2 DEF QueuedEntryIsFree, HasPreJob, Pending
  <1>8. OnePreJobTask'
    BY <1>2 DEF OnePreJobTask
  <1>9. HostlessIsIdle'
    BY <1>2 DEF HostlessIsIdle, HasPreJob
  <1> QED
    BY <1>1, <1>3, <1>4, <1>5, <1>6, <1>7, <1>8, <1>9

-----------------------------------------------------------------------------
(* The dispatcher: agents and aborts.                                      *)

\* Creating agents for entries preserves the invariant.
LEMMA ScheduleRunningIInv == ASSUME IInv, ScheduleRunning PROVE IInv'
  <1> USE ConstantsAssumption DEF IInv, ScheduleRunning, entryVars, hostVars, taskVars, hsVars
  <1>1. TypeOK'
    BY DEF TypeOK, DbTypes, DispatcherTypes, HostSchedulerTypes, Phases, AgentKind,
       HandledStatuses
  <1>2. PreJobTasks' \subseteq PreJobTasks
    BY DEF PreJobTasks, OpenTasks, TaskAgents, EpilogTasks
  <1>3. PhaseInv'
    BY DEF PhaseInv, TaskAgents
  <1>4. HsInv'
    BY DEF HsInv, Pending
  <1>5. TaskInv'
    BY <1>2 DEF TaskInv, TaskAgents, EpilogTasks
  <1>6. MetaInv'
    <2> SUFFICES ASSUME NEW d \in MetaHost
                 PROVE  /\ AgentAgrees(d)' /\ SeenAgrees(d)' /\ ContAgrees(d)'
                        /\ TaskAgrees(d)' /\ HsAgrees(d)'
      BY DEF MetaInv
    <2>0. d \in Entries /\ AgentAgrees(d) /\ SeenAgrees(d) /\ ContAgrees(d)
          /\ TaskAgrees(d) /\ HsAgrees(d)
      BY DEF MetaInv
    <2>1. AgentAgrees(d)'
      BY <2>0 DEF AgentAgrees, AgentKind, HandledStatuses, TypeOK, DbTypes, DispatcherTypes,
         HostSchedulerTypes
    <2>2. SeenAgrees(d)'
      BY <2>0 DEF SeenAgrees, PhaseInv
    <2>3. ContAgrees(d)'
      BY <2>0 DEF ContAgrees
    <2>4. TaskAgrees(d)'
      BY <1>2, <2>0 DEF TaskAgrees, HasPreJob
    <2>5. HsAgrees(d)'
      BY <2>0 DEF HsAgrees
    <2> QED
      BY <2>1, <2>2, <2>3, <2>4, <2>5
  <1>7. QueuedEntryIsFree'
    BY <1>2 DEF QueuedEntryIsFree, HasPreJob, Pending
  <1>8. OnePreJobTask'
    BY <1>2 DEF OnePreJobTask
  <1>9. HostlessIsIdle'
    BY <1>2 DEF HostlessIsIdle, HasPreJob, AgentKind, HandledStatuses, TypeOK, DbTypes,
       DispatcherTypes, HostSchedulerTypes
  <1> QED
    BY <1>1, <1>3, <1>4, <1>5, <1>6, <1>7, <1>8, <1>9

\* Creating agents for special tasks preserves the invariant.
LEMMA ScheduleSpecialIInv == ASSUME IInv, ScheduleSpecial PROVE IInv'
  <1> USE ConstantsAssumption DEF IInv, ScheduleSpecial, entryVars, hostVars, taskVars, hsVars
  <1>0. /\ agentNew' \subseteq agentNew \cup queued
        /\ \A t \in agentNew' \ agentNew : t \notin agentRun
    <2>1. PICK pick \in [Hosts -> queued \cup {None}] :
             /\ \A h \in Hosts : Schedulable(h) = {} => pick[h] = None
             /\ \A h \in Hosts : Schedulable(h) # {} => pick[h] \in Schedulable(h)
             /\ agentNew' = agentNew \cup ({pick[h] : h \in Hosts} \ {None})
      OBVIOUS
    <2>2. \A h \in Hosts : pick[h] # None =>
             pick[h] \in queued /\ pick[h].host = h /\ ~HostHasAgent(h)
      BY <2>1 DEF Schedulable
    <2> QED
      BY <2>1, <2>2 DEF HostHasAgent, TaskAgents
  <1>1. TypeOK'
    BY <1>0 DEF TypeOK, DbTypes, DispatcherTypes, HostSchedulerTypes, Phases
  <1>2. PreJobTasks' \subseteq PreJobTasks
    BY <1>0 DEF PreJobTasks, OpenTasks, TaskAgents, EpilogTasks
  <1>3. PhaseInv'
    BY DEF PhaseInv, TaskAgents
  <1>4. HsInv'
    BY <1>0 DEF HsInv, Pending
  <1>5. TaskInv'
    BY <1>0, <1>2 DEF TaskInv, TaskAgents, EpilogTasks, PhaseInv
  <1>6. MetaInv'
    <2> SUFFICES ASSUME NEW d \in MetaHost
                 PROVE  /\ AgentAgrees(d)' /\ SeenAgrees(d)' /\ ContAgrees(d)'
                        /\ TaskAgrees(d)' /\ HsAgrees(d)'
      BY DEF MetaInv
    <2>0. d \in Entries /\ AgentAgrees(d) /\ SeenAgrees(d) /\ ContAgrees(d)
          /\ TaskAgrees(d) /\ HsAgrees(d)
      BY DEF MetaInv
    <2>1. AgentAgrees(d)'
      BY <1>0, <2>0 DEF AgentAgrees
    <2>2. SeenAgrees(d)'
      BY <1>0, <2>0 DEF SeenAgrees
    <2>3. ContAgrees(d)'
      BY <1>0, <2>0 DEF ContAgrees
    <2>4. TaskAgrees(d)'
      BY <1>0, <1>2, <2>0 DEF TaskAgrees, HasPreJob
    <2>5. HsAgrees(d)'
      BY <1>0, <2>0 DEF HsAgrees
    <2> QED
      BY <2>1, <2>2, <2>3, <2>4, <2>5
  <1>7. QueuedEntryIsFree'
    BY <1>0, <1>2 DEF QueuedEntryIsFree, HasPreJob, Pending
  <1>8. OnePreJobTask'
    BY <1>0, <1>2 DEF OnePreJobTask
  <1>9. HostlessIsIdle'
    BY <1>0, <1>2 DEF HostlessIsIdle, HasPreJob
  <1> QED
    BY <1>1, <1>3, <1>4, <1>5, <1>6, <1>7, <1>8, <1>9

\* Fetching the aborting entries preserves the invariant.
LEMMA FindAbortingIInv == ASSUME IInv, FindAborting PROVE IInv'
  <1> USE ConstantsAssumption DEF IInv, FindAborting, entryVars, hostVars, taskVars, agentVars, hsVars
  <1>1. TypeOK'
    <2>1. seen' \in [Entries -> [status : Statuses \cup {"none"}, active : BOOLEAN]]
      BY DEF TypeOK, DbTypes, DispatcherTypes, NotSeen
    <2> QED
      BY <2>1 DEF TypeOK, DbTypes, DispatcherTypes, HostSchedulerTypes, Phases
  <1>2. PreJobTasks' \subseteq PreJobTasks
    BY DEF PreJobTasks, OpenTasks, TaskAgents, EpilogTasks
  <1>3. PhaseInv'
    BY DEF PhaseInv, TaskAgents
  <1>4. HsInv'
    BY DEF HsInv, Pending
  <1>5. TaskInv'
    BY <1>2 DEF TaskInv, TaskAgents, EpilogTasks
  <1>6. MetaInv'
    <2> SUFFICES ASSUME NEW d \in MetaHost
                 PROVE  /\ AgentAgrees(d)' /\ SeenAgrees(d)' /\ ContAgrees(d)'
                        /\ TaskAgrees(d)' /\ HsAgrees(d)'
      BY DEF MetaInv
    <2>0. d \in Entries /\ AgentAgrees(d) /\ SeenAgrees(d) /\ ContAgrees(d)
          /\ TaskAgrees(d) /\ HsAgrees(d)
      BY DEF MetaInv
    <2>1. AgentAgrees(d)'
      BY <2>0 DEF AgentAgrees
    <2>2. SeenAgrees(d)'
      BY <2>0 DEF SeenAgrees, AgentAgrees, TypeOK, DbTypes, DispatcherTypes, HostSchedulerTypes
    <2>3. ContAgrees(d)'
      BY <2>0 DEF ContAgrees
    <2>4. TaskAgrees(d)'
      BY <1>2, <2>0 DEF TaskAgrees, HasPreJob
    <2>5. HsAgrees(d)'
      BY <2>0 DEF HsAgrees
    <2> QED
      BY <2>1, <2>2, <2>3, <2>4, <2>5
  <1>7. QueuedEntryIsFree'
    BY <1>2 DEF QueuedEntryIsFree, HasPreJob, Pending
  <1>8. OnePreJobTask'
    BY <1>2 DEF OnePreJobTask
  <1>9. HostlessIsIdle'
    BY <1>2 DEF HostlessIsIdle, HasPreJob, NotSeen, TypeOK, DbTypes, DispatcherTypes,
       HostSchedulerTypes
  <1> QED
    BY <1>1, <1>3, <1>4, <1>5, <1>6, <1>7, <1>8, <1>9

\* Aborting a running job preserves the invariant.
LEMMA AbortQueueTaskIInv == ASSUME IInv, NEW e \in Entries, AbortQueueTask(e) PROVE IInv'
  <1> USE ConstantsAssumption DEF IInv, AbortQueueTask, Seen, DropTasks, hsVars
  <1>1. TypeOK'
    BY DEF TypeOK, DbTypes, DispatcherTypes, HostSchedulerTypes, Without, AgentsFor, NotSeen,
       SetHostStatus, Statuses, ActiveStatuses, HostStatuses
  <1>2. PreJobTasks' \subseteq PreJobTasks
    BY DEF PreJobTasks, OpenTasks, TaskAgents, EpilogTasks, AgentsFor, Without
  <1>3. PhaseInv'
    BY DEF PhaseInv, TaskAgents, TypeOK, DbTypes, DispatcherTypes, HostSchedulerTypes
  <1>4. HsInv'
    BY DEF HsInv, Pending, TypeOK, DbTypes
  <1>5. TaskInv'
    BY <1>2 DEF TaskInv, TaskAgents, EpilogTasks, HasPreJob, TypeOK, DbTypes
  <1>6. MetaInv'
    <2> SUFFICES ASSUME NEW d \in MetaHost
                 PROVE  /\ AgentAgrees(d)' /\ SeenAgrees(d)' /\ ContAgrees(d)'
                        /\ TaskAgrees(d)' /\ HsAgrees(d)'
      BY DEF MetaInv
    <2>0. d \in Entries /\ AgentAgrees(d) /\ SeenAgrees(d) /\ ContAgrees(d)
          /\ TaskAgrees(d) /\ HsAgrees(d)
      BY DEF MetaInv
    <2>1. AgentAgrees(d)'
      BY <2>0 DEF AgentAgrees, TypeOK, DbTypes, DispatcherTypes, HostSchedulerTypes
    <2>2. SeenAgrees(d)'
      BY <2>0 DEF SeenAgrees, NotSeen, TypeOK, DispatcherTypes
    <2>3. ContAgrees(d)'
      BY <2>0 DEF ContAgrees, PhaseInv, TypeOK, DbTypes
    <2>4. TaskAgrees(d)'
      BY <1>2, <2>0 DEF TaskAgrees, HasPreJob, AgentAgrees, HandledStatuses, TypeOK, DbTypes
    <2>5. HsAgrees(d)'
      BY <2>0 DEF HsAgrees, AgentAgrees, TypeOK, DbTypes
    <2> QED
      BY <2>1, <2>2, <2>3, <2>4, <2>5
  <1>7. QueuedEntryIsFree'
    BY <1>2 DEF QueuedEntryIsFree, HasPreJob, Pending, TypeOK, DbTypes
  <1>8. OnePreJobTask'
    BY <1>2 DEF OnePreJobTask
  <1>9. HostlessIsIdle'
    BY <1>2 DEF HostlessIsIdle, HasPreJob, NotSeen, TypeOK, DbTypes, DispatcherTypes,
       HostSchedulerTypes
  <1> QED
    BY <1>1, <1>3, <1>4, <1>5, <1>6, <1>7, <1>8, <1>9

\* Aborting an entry after its job preserves the invariant.
LEMMA AbortPostJobIInv == ASSUME IInv, NEW e \in Entries, AbortPostJob(e) PROVE IInv'
  <1> USE ConstantsAssumption DEF IInv, AbortPostJob, Seen, DropTasks, hsVars
  <1>1. TypeOK'
    BY DEF TypeOK, DbTypes, DispatcherTypes, HostSchedulerTypes, Without, AgentsFor, NotSeen
  <1>2. PreJobTasks' \subseteq PreJobTasks
    BY DEF PreJobTasks, OpenTasks, TaskAgents, EpilogTasks, AgentsFor, Without
  <1>3. PhaseInv'
    BY DEF PhaseInv, TaskAgents, TypeOK, DbTypes, DispatcherTypes, HostSchedulerTypes
  <1>4. HsInv'
    BY DEF HsInv, Pending
  <1>5. TaskInv'
    BY <1>2 DEF TaskInv, TaskAgents, EpilogTasks
  <1>6. MetaInv'
    <2> SUFFICES ASSUME NEW d \in MetaHost
                 PROVE  /\ AgentAgrees(d)' /\ SeenAgrees(d)' /\ ContAgrees(d)'
                        /\ TaskAgrees(d)' /\ HsAgrees(d)'
      BY DEF MetaInv
    <2>0. d \in Entries /\ AgentAgrees(d) /\ SeenAgrees(d) /\ ContAgrees(d)
          /\ TaskAgrees(d) /\ HsAgrees(d)
      BY DEF MetaInv
    <2>1. AgentAgrees(d)'
      BY <2>0 DEF AgentAgrees
    <2>2. SeenAgrees(d)'
      BY <2>0 DEF SeenAgrees, NotSeen, TypeOK, DispatcherTypes
    <2>3. ContAgrees(d)'
      BY <2>0 DEF ContAgrees
    <2>4. TaskAgrees(d)'
      BY <1>2, <2>0 DEF TaskAgrees, HasPreJob
    <2>5. HsAgrees(d)'
      BY <2>0 DEF HsAgrees
    <2> QED
      BY <2>1, <2>2, <2>3, <2>4, <2>5
  <1>7. QueuedEntryIsFree'
    BY <1>2 DEF QueuedEntryIsFree, HasPreJob, Pending
  <1>8. OnePreJobTask'
    BY <1>2 DEF OnePreJobTask
  <1>9. HostlessIsIdle'
    BY <1>2 DEF HostlessIsIdle, HasPreJob, NotSeen, TypeOK, DbTypes, DispatcherTypes,
       HostSchedulerTypes
  <1> QED
    BY <1>1, <1>3, <1>4, <1>5, <1>6, <1>7, <1>8, <1>9

\* Aborting an entry about to start preserves the invariant.
LEMMA AbortStartingIInv == ASSUME IInv, NEW e \in Entries, AbortStarting(e) PROVE IInv'
  <1> USE ConstantsAssumption DEF IInv, AbortStarting, Seen, DropTasks, hsVars, SetAborted
  <1>1. TypeOK'
    BY DEF TypeOK, DbTypes, DispatcherTypes, HostSchedulerTypes, Without, AgentsFor, NotSeen,
       SetHostStatus, Statuses, CompleteStatuses, HostStatuses
  <1>2. PreJobTasks' \subseteq PreJobTasks
    BY DEF PreJobTasks, OpenTasks, TaskAgents, EpilogTasks, AgentsFor, Without
  <1>3. PhaseInv'
    BY DEF PhaseInv, TaskAgents, TypeOK, DbTypes, DispatcherTypes, HostSchedulerTypes
  <1>4. HsInv'
    BY DEF HsInv, Pending, TypeOK, DbTypes
  <1>5. TaskInv'
    BY <1>2 DEF TaskInv, TaskAgents, EpilogTasks, HasPreJob, TypeOK, DbTypes
  <1>6. MetaInv'
    <2> SUFFICES ASSUME NEW d \in MetaHost
                 PROVE  /\ AgentAgrees(d)' /\ SeenAgrees(d)' /\ ContAgrees(d)'
                        /\ TaskAgrees(d)' /\ HsAgrees(d)'
      BY DEF MetaInv
    <2>0. d \in Entries /\ AgentAgrees(d) /\ SeenAgrees(d) /\ ContAgrees(d)
          /\ TaskAgrees(d) /\ HsAgrees(d)
      BY DEF MetaInv
    <2>1. AgentAgrees(d)'
      BY <2>0 DEF AgentAgrees, SeenAgrees, NotSeen, TypeOK, DbTypes, DispatcherTypes,
         HostSchedulerTypes
    <2>2. SeenAgrees(d)'
      BY <2>0 DEF SeenAgrees, NotSeen, TypeOK, DispatcherTypes
    <2>3. ContAgrees(d)'
      BY <2>0 DEF ContAgrees, PhaseInv, TypeOK, DbTypes
    <2>4. TaskAgrees(d)'
      BY <1>2, <2>0 DEF TaskAgrees, HasPreJob, HandledStatuses, TypeOK, DbTypes
    <2>5. HsAgrees(d)'
      BY <2>0 DEF HsAgrees, TypeOK, DbTypes
    <2> QED
      BY <2>1, <2>2, <2>3, <2>4, <2>5
  <1>7. QueuedEntryIsFree'
    BY <1>2 DEF QueuedEntryIsFree, HasPreJob, Pending, TypeOK, DbTypes
  <1>8. OnePreJobTask'
    BY <1>2 DEF OnePreJobTask
  <1>9. HostlessIsIdle'
    BY <1>2 DEF HostlessIsIdle, HasPreJob, NotSeen, TypeOK, DbTypes, DispatcherTypes,
       HostSchedulerTypes
  <1> QED
    BY <1>1, <1>3, <1>4, <1>5, <1>6, <1>7, <1>8, <1>9

\* Aborting an entry before its job preserves the invariant.
LEMMA AbortPreJobIInv == ASSUME IInv, NEW e \in Entries, AbortPreJob(e) PROVE IInv'
  <1> USE ConstantsAssumption DEF IInv, AbortPreJob, Seen, DropTasks, hsVars, SetAborted
  <1>0. AfterAbort(e) \subseteq Task /\ \A t \in AfterAbort(e) : t.hqe = None
    <2>0. seen[e].status \in {"Verifying", "Resetting", "Provisioning"} => hqeHost[e] # None
      BY DEF HostlessIsIdle
    <2>1. seen[e].status \in {"Verifying", "Resetting", "Provisioning"} => hqeHost[e] \in Hosts
      BY <2>0 DEF TypeOK, DbTypes
    <2> QED
      BY <2>1 DEF AfterAbort, SpecialTask, Task, Kinds, PreJobKinds
  <1>1. TypeOK'
    BY <1>0 DEF TypeOK, DbTypes, DispatcherTypes, HostSchedulerTypes, Without, AgentsFor,
       NotSeen, Statuses, CompleteStatuses
  <1>2. PreJobTasks' \subseteq PreJobTasks
    BY <1>0 DEF PreJobTasks, OpenTasks, TaskAgents, EpilogTasks, AgentsFor, Without
  <1>3. PhaseInv'
    BY DEF PhaseInv, TaskAgents, TypeOK, DbTypes, DispatcherTypes, HostSchedulerTypes
  <1>4. HsInv'
    BY <1>0 DEF HsInv, Pending, TypeOK, DbTypes
  <1>5. TaskInv'
    BY <1>0, <1>2 DEF TaskInv, TaskAgents, EpilogTasks, HasPreJob, TypeOK, DbTypes
  <1>6. MetaInv'
    <2> SUFFICES ASSUME NEW d \in MetaHost
                 PROVE  /\ AgentAgrees(d)' /\ SeenAgrees(d)' /\ ContAgrees(d)'
                        /\ TaskAgrees(d)' /\ HsAgrees(d)'
      BY DEF MetaInv
    <2>0. d \in Entries /\ AgentAgrees(d) /\ SeenAgrees(d) /\ ContAgrees(d)
          /\ TaskAgrees(d) /\ HsAgrees(d)
      BY DEF MetaInv
    <2>1. AgentAgrees(d)'
      BY <2>0 DEF AgentAgrees, SeenAgrees, NotSeen, TypeOK, DbTypes, DispatcherTypes,
         HostSchedulerTypes
    <2>2. SeenAgrees(d)'
      BY <2>0 DEF SeenAgrees, NotSeen, TypeOK, DispatcherTypes
    <2>3. ContAgrees(d)'
      BY <2>0 DEF ContAgrees, PhaseInv, TypeOK, DbTypes
    <2>4. TaskAgrees(d)'
      BY <1>2, <2>0 DEF TaskAgrees, HasPreJob, HandledStatuses, TypeOK, DbTypes
    <2>5. HsAgrees(d)'
      BY <2>0 DEF HsAgrees, TypeOK, DbTypes
    <2> QED
      BY <2>1, <2>2, <2>3, <2>4, <2>5
  <1>7. QueuedEntryIsFree'
    BY <1>0, <1>2 DEF QueuedEntryIsFree, HasPreJob, Pending, TypeOK, DbTypes
  <1>8. OnePreJobTask'
    BY <1>0, <1>2 DEF OnePreJobTask
  <1>9. HostlessIsIdle'
    BY <1>0, <1>2 DEF HostlessIsIdle, HasPreJob, NotSeen, TypeOK, DbTypes, DispatcherTypes,
       HostSchedulerTypes
  <1> QED
    BY <1>1, <1>3, <1>4, <1>5, <1>6, <1>7, <1>8, <1>9

\* The end of _find_aborting preserves the invariant.
LEMMA HandleAbortedIInv == ASSUME IInv, HandleAborted PROVE IInv'
  <1> USE ConstantsAssumption DEF IInv, HandleAborted, entryVars, hostVars, taskVars, agentVars, hsVars
  <1>1. TypeOK'
    BY DEF TypeOK, DbTypes, DispatcherTypes, HostSchedulerTypes, Phases, TaskAgents
  <1>2. PreJobTasks' \subseteq PreJobTasks
    BY DEF PreJobTasks, OpenTasks, TaskAgents, EpilogTasks
  <1>3. PhaseInv'
    BY DEF PhaseInv, TaskAgents
  <1>4. HsInv'
    BY DEF HsInv, Pending
  <1>5. TaskInv'
    BY <1>2 DEF TaskInv, TaskAgents, EpilogTasks
  <1>6. MetaInv'
    BY <1>2 DEF MetaInv, AgentAgrees, SeenAgrees, ContAgrees, TaskAgrees, HsAgrees, HasPreJob
  <1>7. QueuedEntryIsFree'
    BY <1>2 DEF QueuedEntryIsFree, HasPreJob, Pending
  <1>8. OnePreJobTask'
    BY <1>2 DEF OnePreJobTask
  <1>9. HostlessIsIdle'
    BY <1>2 DEF HostlessIsIdle, HasPreJob
  <1> QED
    BY <1>1, <1>3, <1>4, <1>5, <1>6, <1>7, <1>8, <1>9

-----------------------------------------------------------------------------
(* The dispatcher: special tasks.                                          *)

\* An agent that makes no progress preserves the invariant.
LEMMA SkipAgentIInv == ASSUME IInv, NEW x \in todo, SkipAgent(x) PROVE IInv'
  <1> USE ConstantsAssumption DEF IInv, SkipAgent, Handling, hsVars, entryVars, taskVars, agentVars
  <1>1. TypeOK'
    BY DEF TypeOK, DbTypes, DispatcherTypes, HostSchedulerTypes
  <1>2. PreJobTasks' \subseteq PreJobTasks
    BY DEF PreJobTasks, OpenTasks, TaskAgents, EpilogTasks
  <1>3. PhaseInv'
    BY DEF PhaseInv, TaskAgents
  <1>4. HsInv'
    BY DEF HsInv, Pending
  <1>5. TaskInv'
    BY <1>2 DEF TaskInv, TaskAgents, EpilogTasks
  <1>6. MetaInv'
    BY <1>2 DEF MetaInv, AgentAgrees, SeenAgrees, ContAgrees, TaskAgrees, HsAgrees, HasPreJob
  <1>7. QueuedEntryIsFree'
    BY <1>2 DEF QueuedEntryIsFree, HasPreJob, Pending
  <1>8. OnePreJobTask'
    BY <1>2 DEF OnePreJobTask
  <1>9. HostlessIsIdle'
    BY <1>2 DEF HostlessIsIdle, HasPreJob
  <1> QED
    BY <1>1, <1>3, <1>4, <1>5, <1>6, <1>7, <1>8, <1>9

\* The prolog of a special task preserves the invariant.
LEMMA StartTaskIInv == ASSUME IInv, NEW t \in agentNew, StartTask(t) PROVE IInv'
  <1> USE ConstantsAssumption DEF IInv, StartTask, Handling, hsVars
  <1> DEFINE s == StatusOf(t.kind)
  <1>1. t \in Task /\ t.kind \in Kinds
    BY DEF TypeOK, DispatcherTypes, Task
  <1>2. /\ s \in HostStatuses
        /\ t.kind # "Repair" => s \in Statuses
        /\ s \notin HandledStatuses \cup {"Pending", "Queued"}
        /\ s = "Resetting" => t.kind = "Reset"
    BY <1>1, StatusOfKind
  <1>3. PreJobTasks' \subseteq PreJobTasks
    BY DEF PreJobTasks, OpenTasks, TaskAgents, EpilogTasks, Removed
  <1>4. PhaseInv'
    BY DEF PhaseInv, TaskAgents
  <1>5. agentNew' \cap agentRun' = {} /\ EpilogTasks' = {}
    BY DEF TaskInv, EpilogTasks
  <1>6. OnePreJobTask'
    BY <1>3 DEF OnePreJobTask
  <1>7. CASE t.hqe = None \/ t.kind = "Repair"
    <2>1. UNCHANGED <<hqeStatus, active, complete>>
      BY <1>7
    <2>2. TypeOK'
      BY <1>1, <1>2, <2>1 DEF TypeOK, DbTypes, DispatcherTypes, HostSchedulerTypes,
         SetHostStatus
    <2>3. HsInv' /\ TaskInv'
      BY <1>3, <1>5, <2>1 DEF HsInv, TaskInv, Pending
    <2>4. MetaInv'
      BY <1>3, <2>1 DEF MetaInv, AgentAgrees, SeenAgrees, ContAgrees, TaskAgrees, HsAgrees,
         HasPreJob
    <2>5. QueuedEntryIsFree' /\ HostlessIsIdle'
      BY <1>3, <2>1 DEF QueuedEntryIsFree, HostlessIsIdle, HasPreJob, Pending
    <2> QED
      BY <1>4, <1>6, <2>2, <2>3, <2>4, <2>5
  <1>8. CASE t.hqe # None /\ t.kind # "Repair"
    <2> DEFINE e == t.hqe
    <2>1. e \in Entries /\ SetStatus(e, s)
      BY <1>1, <1>8 DEF Task
    <2>2. HasPreJob(e)
      BY <1>8 DEF HasPreJob, PreJobTasks, OpenTasks, TaskAgents
    <2>3. hqeHost[e] # None /\ hsJobs[e] = None /\ hsEntry # e
      BY <2>1, <2>2 DEF HostlessIsIdle, QueuedEntryIsFree
    <2>4. TypeOK'
      <3>1. DbTypes'
        BY <1>1, <1>2, <1>8, <2>1 DEF TypeOK, DbTypes, SetHostStatus, SetStatus
      <3>2. DispatcherTypes' /\ HostSchedulerTypes'
        BY <1>1, <1>2, <1>8 DEF TypeOK, DispatcherTypes, HostSchedulerTypes
      <3> QED
        BY <3>1, <3>2 DEF TypeOK
    <2>5. \A d \in Entries : Pending(d)' => Pending(d)
      BY <1>2, <2>1 DEF Pending, SetStatus, TypeOK, DbTypes
    <2>6. HsInv'
      BY <2>1, <2>3, <2>5 DEF HsInv, SetStatus, TypeOK, DbTypes
    <2>7. TaskInv'
      <3> SUFFICES ASSUME NEW q \in PreJobTasks', hqeStatus'[q.hqe] = "Resetting" PROVE q.kind = "Reset"
        BY <1>5 DEF TaskInv
      <3>1. t \in PreJobTasks
        BY <1>8 DEF PreJobTasks, OpenTasks, TaskAgents
      <3>2. CASE q.hqe = e
        BY <1>2, <1>3, <2>1, <3>1, <3>2 DEF OnePreJobTask, SetStatus, TypeOK, DbTypes
      <3>3. CASE q.hqe # e
        BY <1>3, <2>1, <3>3 DEF TaskInv, SetStatus
      <3> QED
        BY <3>2, <3>3
    <2>8. MetaInv'
      <3> SUFFICES ASSUME NEW d \in MetaHost
                   PROVE  /\ AgentAgrees(d)' /\ SeenAgrees(d)' /\ ContAgrees(d)'
                          /\ TaskAgrees(d)' /\ HsAgrees(d)'
        BY DEF MetaInv
      <3>0. d \in Entries /\ AgentAgrees(d) /\ SeenAgrees(d) /\ TaskAgrees(d) /\ HsAgrees(d)
        BY DEF MetaInv
      <3>1. AgentAgrees(d)' /\ SeenAgrees(d)' /\ ContAgrees(d)'
        BY <2>1, <2>2, <3>0 DEF AgentAgrees, SeenAgrees, ContAgrees, TaskAgrees,
           HandledStatuses, SetStatus, TypeOK, DbTypes, DispatcherTypes
      <3>2. TaskAgrees(d)'
        BY <1>2, <1>3, <2>1, <3>0 DEF TaskAgrees, HasPreJob, SetStatus, TypeOK, DbTypes
      <3>3. HsAgrees(d)'
        BY <2>1, <2>3, <3>0 DEF HsAgrees, SetStatus, TypeOK, DbTypes
      <3> QED
        BY <3>1, <3>2, <3>3
    <2>9. QueuedEntryIsFree' /\ HostlessIsIdle'
      BY <1>3, <2>1, <2>3, <2>5 DEF QueuedEntryIsFree, HostlessIsIdle, HasPreJob, SetStatus
    <2> QED
      BY <1>4, <1>6, <2>4, <2>6, <2>7, <2>8, <2>9
  <1> QED
    BY <1>7, <1>8

\* The end of the process of a special task preserves the invariant.
LEMMA FinishTaskIInv == ASSUME IInv, NEW t \in agentRun, NEW ok \in BOOLEAN, FinishTask(t, ok) PROVE IInv'
  <1> USE ConstantsAssumption DEF IInv, FinishTask, Handling, hsVars, entryVars
  <1>0. t \in Task /\ cont' \in Conts /\ EpilogTasks' \subseteq {t}
    BY DEF TypeOK, DispatcherTypes, Conts, EpilogTasks
  <1>1. TypeOK'
    BY <1>0 DEF TypeOK, DbTypes, DispatcherTypes, HostSchedulerTypes
  <1>2. PreJobTasks' \subseteq PreJobTasks
    BY <1>0 DEF PreJobTasks, OpenTasks, TaskAgents, EpilogTasks
  <1>3. PhaseInv'
    BY DEF PhaseInv, TaskAgents
  <1>4. HsInv'
    BY <1>0 DEF HsInv, Pending
  <1>5. TaskInv'
    BY <1>0, <1>2 DEF TaskInv, TaskAgents, EpilogTasks
  <1>6. MetaInv'
    BY <1>0, <1>2 DEF MetaInv, AgentAgrees, SeenAgrees, ContAgrees, TaskAgrees, HsAgrees,
       HasPreJob
  <1>7. QueuedEntryIsFree'
    BY <1>0, <1>2 DEF QueuedEntryIsFree, HasPreJob, Pending
  <1>8. OnePreJobTask'
    BY <1>0, <1>2 DEF OnePreJobTask
  <1>9. HostlessIsIdle'
    BY <1>0, <1>2 DEF HostlessIsIdle, HasPreJob
  <1> QED
    BY <1>1, <1>3, <1>4, <1>5, <1>6, <1>7, <1>8, <1>9

\* The epilog that makes its entry Pending preserves the invariant.
LEMMA EpilogOnPendingIInv == ASSUME IInv, EpilogOnPending PROVE IInv'
  <1> USE ConstantsAssumption DEF IInv, EpilogOnPending, InEpilog, agentVars, taskVars, hsVars
  <1>0. PICK t \in Task : cont.task = t
    BY DEF TypeOK, DispatcherTypes, Conts
  <1> DEFINE e == t.hqe
  <1> USE <1>0
  <1>1. t \in Task /\ t \in PreJobTasks /\ e \in Entries /\ EpilogTasks = {t}
    <2>1. t \in Task /\ EpilogTasks = {t}
      BY DEF TypeOK, DispatcherTypes, Conts, EpilogTasks
    <2>2. e \in Entries
      BY <2>1 DEF Task, ShouldPending
    <2> QED
      BY <2>1, <2>2 DEF PreJobTasks, OpenTasks
  <1>2. HasPreJob(e) /\ hqeHost[e] = t.host /\ hqeHost[e] # None /\ hsJobs[e] = None /\ hsEntry # e
    BY <1>1 DEF HasPreJob, OnePreJobTask, HostlessIsIdle, QueuedEntryIsFree
  <1>3. cont' \in Conts /\ cont'.op = "run" /\ cont'.hqe = e /\ EpilogTasks' = {}
    <2>1. cont' = [op |-> "run", hqe |-> e]
      OBVIOUS
    <2>2. cont' \in Conts
      BY <1>1, <2>1 DEF Conts
    <2>3. cont'.op = "run" /\ cont'.hqe = e
      BY <2>1
    <2> QED
      BY <2>2, <2>3 DEF EpilogTasks
  <1>4. TypeOK'
    <2>1. /\ hqeStatus' \in [Entries -> Statuses]
          /\ active' \subseteq Entries /\ complete' \subseteq Entries
      <3>1. SetStatus(e, "Pending") /\ "Pending" \in Statuses
        BY DEF Statuses, ActiveStatuses
      <3> QED
        BY <1>1, <3>1, SetStatusFacts
    <2>2. hostStatus' \in [Hosts -> HostStatuses]
      BY DEF TypeOK, DbTypes, SetHostStatus, HostStatuses
    <2>3. DbTypes'
      BY <2>1, <2>2 DEF TypeOK, DbTypes
    <2> QED
      BY <1>3, <2>3 DEF TypeOK, DispatcherTypes, HostSchedulerTypes
  <1>5. PreJobTasks' \subseteq PreJobTasks
    BY <1>3 DEF PreJobTasks, OpenTasks, TaskAgents
  <1>6. ~HasPreJob(e)'
    <2> SUFFICES ASSUME NEW q \in PreJobTasks', q.hqe = e PROVE FALSE
      BY DEF HasPreJob
    <2>1. q = t
      BY <1>1, <1>5 DEF OnePreJobTask
    <2>2. t \notin queued /\ t \notin running /\ t \notin TaskAgents
      BY <1>1 DEF ShouldPending, TaskInv
    <2> QED
      BY <1>3, <2>1, <2>2 DEF PreJobTasks, OpenTasks, TaskAgents
  <1>7. \A d \in Entries : Pending(d)' => Pending(d)
    BY <1>1 DEF Pending, SetStatus, TypeOK, DbTypes
  <1>8. PhaseInv'
    BY DEF PhaseInv, TaskAgents
  <1>9. HsInv'
    BY <1>1, <1>2, <1>7 DEF HsInv, SetStatus, TypeOK, DbTypes
  <1>10. TaskInv'
    BY <1>1, <1>3, <1>5 DEF TaskInv, TaskAgents, SetStatus, TypeOK, DbTypes
  <1>11. MetaInv'
    <2> SUFFICES ASSUME NEW d \in MetaHost
                 PROVE  /\ AgentAgrees(d)' /\ SeenAgrees(d)' /\ ContAgrees(d)'
                        /\ TaskAgrees(d)' /\ HsAgrees(d)'
      BY DEF MetaInv
    <2>0. d \in Entries /\ AgentAgrees(d) /\ SeenAgrees(d) /\ TaskAgrees(d) /\ HsAgrees(d)
      BY DEF MetaInv
    <2>1. AgentAgrees(d)' /\ SeenAgrees(d)'
      BY <1>1, <1>2, <2>0 DEF AgentAgrees, SeenAgrees, TaskAgrees, HandledStatuses,
         SetStatus, TypeOK, DbTypes, DispatcherTypes
    <2>2. ContAgrees(d)'
      BY <1>1, <1>2, <1>3, <2>0 DEF ContAgrees, SetStatus, TypeOK, DbTypes
    <2>3. TaskAgrees(d)'
      BY <1>1, <1>5, <1>6, <2>0 DEF TaskAgrees, HasPreJob, SetStatus, TypeOK, DbTypes
    <2>4. HsAgrees(d)'
      BY <1>1, <1>2, <2>0 DEF HsAgrees, SetStatus, TypeOK, DbTypes
    <2> QED
      BY <2>1, <2>2, <2>3, <2>4
  <1>12. QueuedEntryIsFree' /\ OnePreJobTask'
    BY <1>5, <1>7 DEF QueuedEntryIsFree, OnePreJobTask, HasPreJob
  <1>13. HostlessIsIdle'
    BY <1>1, <1>2, <1>3, <1>5 DEF HostlessIsIdle, HasPreJob, SetStatus, TypeOK, DbTypes
  <1> QED
    BY <1>4, <1>8, <1>9, <1>10, <1>11, <1>12, <1>13

\* The epilog that makes its host Ready preserves the invariant.
LEMMA EpilogReadyIInv == ASSUME IInv, EpilogReady PROVE IInv'
  <1> USE ConstantsAssumption DEF IInv, EpilogReady, InEpilog, agentVars, taskVars, hsVars
  <1>0. cont.task.host \in Hosts
    BY DEF TypeOK, DispatcherTypes, Conts, Task
  <1>1. TypeOK'
    <2>1. hostStatus' \in [Hosts -> HostStatuses]
      BY <1>0 DEF TypeOK, DbTypes, SetHostStatus, HostStatuses
    <2> QED
      BY <2>1 DEF TypeOK, DbTypes, DispatcherTypes, HostSchedulerTypes
  <1>2. PreJobTasks' \subseteq PreJobTasks
    BY <1>0 DEF PreJobTasks, OpenTasks, TaskAgents, EpilogTasks
  <1>3. PhaseInv'
    BY DEF PhaseInv, TaskAgents
  <1>4. HsInv'
    BY <1>0 DEF HsInv, Pending
  <1>5. TaskInv'
    BY <1>0, <1>2 DEF TaskInv, TaskAgents, EpilogTasks
  <1>6. MetaInv'
    BY <1>0, <1>2 DEF MetaInv, AgentAgrees, SeenAgrees, ContAgrees, TaskAgrees, HsAgrees,
       HasPreJob
  <1>7. QueuedEntryIsFree'
    BY <1>0, <1>2 DEF QueuedEntryIsFree, HasPreJob, Pending
  <1>8. OnePreJobTask'
    BY <1>0, <1>2 DEF OnePreJobTask
  <1>9. HostlessIsIdle'
    BY <1>0, <1>2 DEF HostlessIsIdle, HasPreJob
  <1> QED
    BY <1>1, <1>3, <1>4, <1>5, <1>6, <1>7, <1>8, <1>9

\* run_if_ready in the dispatcher preserves the invariant.
LEMMA RunIfReadyIInv == ASSUME IInv, RunIfReady PROVE IInv'
  <1> USE ConstantsAssumption DEF IInv, RunIfReady, hostVars, taskVars, agentVars, hsVars
  <1>0. PICK e \in Entries : cont.hqe = e
    BY DEF TypeOK, DispatcherTypes, Conts
  <1> USE <1>0
  <1>1. PICK s \in {"Starting"} : SetStatus(e, s)
    OBVIOUS
  <1>2. /\ hqeStatus' \in [Entries -> Statuses]
        /\ active' \subseteq Entries /\ complete' \subseteq Entries
        /\ hqeStatus'[e] = s
        /\ \A d \in Entries : d # e => hqeStatus'[d] = hqeStatus[d]
        /\ \A d \in Entries : Pending(d)' => Pending(d)
    BY <1>1, SetStatusFacts DEF Statuses, ActiveStatuses, CompleteStatuses, Pending
  <1>3. hqeHost[e] \in Hosts
    BY DEF HostlessIsIdle, TypeOK, DbTypes
  <1>4. TypeOK'
    <2>2. DbTypes'
      BY <1>2 DEF TypeOK, DbTypes
    <2> QED
      BY <2>2 DEF TypeOK, DispatcherTypes, HostSchedulerTypes
  <1>5. PreJobTasks' \subseteq PreJobTasks
    BY DEF PreJobTasks, OpenTasks, TaskAgents, EpilogTasks
  <1>6. \A t \in PreJobTasks' : t.hqe \in Entries
    BY <1>5 DEF PreJobTasks, OpenTasks, TypeOK, DbTypes, DispatcherTypes, TaskAgents,
       EpilogTasks, Conts, Task
  <1>7. PhaseInv'
    BY DEF PhaseInv, TaskAgents
  <1>8. HsInv'
    BY <1>2 DEF HsInv
  <1>9. TaskInv'
    BY <1>2, <1>5, <1>6 DEF TaskInv, TaskAgents, EpilogTasks
  <1>10. MetaInv'
    <2> SUFFICES ASSUME NEW d \in MetaHost
                 PROVE  /\ AgentAgrees(d)' /\ SeenAgrees(d)' /\ ContAgrees(d)'
                        /\ TaskAgrees(d)' /\ HsAgrees(d)'
      BY DEF MetaInv
    <2>0. d \in Entries /\ AgentAgrees(d) /\ SeenAgrees(d) /\ ContAgrees(d)
          /\ TaskAgrees(d) /\ HsAgrees(d)
      BY DEF MetaInv
    <2>1. AgentAgrees(d)' /\ SeenAgrees(d)'
      BY <1>2, <2>0 DEF AgentAgrees, SeenAgrees, ContAgrees, TypeOK, DispatcherTypes
    <2>2. ContAgrees(d)'
      BY <1>2, <2>0 DEF ContAgrees
    <2>3. TaskAgrees(d)'
      BY <1>2, <1>5, <2>0 DEF TaskAgrees, HasPreJob, AgentAgrees, ContAgrees, HandledStatuses
    <2>4. HsAgrees(d)'
      BY <1>2, <2>0 DEF HsAgrees, AgentAgrees, ContAgrees
    <2> QED
      BY <2>1, <2>2, <2>3, <2>4
  <1>11. QueuedEntryIsFree' /\ OnePreJobTask'
    BY <1>2, <1>5 DEF QueuedEntryIsFree, OnePreJobTask, HasPreJob
  <1>12. HostlessIsIdle'
    BY <1>2, <1>3, <1>5 DEF HostlessIsIdle, HasPreJob, TypeOK, DispatcherTypes
  <1> QED
    BY <1>4, <1>7, <1>8, <1>9, <1>10, <1>11, <1>12

\* The epilog that asks for a repair preserves the invariant.
LEMMA EpilogRepairIInv == ASSUME IInv, NEW t \in Task, EpilogRepair(t) PROVE IInv'
  <1> USE ConstantsAssumption DEF IInv, EpilogRepair, PrejobFailed, InEpilog, agentVars, hsVars
  <1>0. SpecialTask(t.host, "Repair", None) \in Task /\ SpecialTask(t.host, "Repair", None).hqe = None
    BY DEF SpecialTask, Task, Kinds
  <1>1. TypeOK'
    BY <1>0 DEF TypeOK, DbTypes, DispatcherTypes, HostSchedulerTypes
  <1>2. PreJobTasks' \subseteq PreJobTasks
    BY <1>0 DEF PreJobTasks, OpenTasks, TaskAgents, EpilogTasks
  <1>3. PhaseInv'
    BY DEF PhaseInv, TaskAgents
  <1>4. HsInv'
    BY <1>0 DEF HsInv, Pending
  <1>5. TaskInv'
    BY <1>0, <1>2 DEF TaskInv, TaskAgents, EpilogTasks
  <1>6. MetaInv'
    BY <1>0, <1>2 DEF MetaInv, AgentAgrees, SeenAgrees, ContAgrees, TaskAgrees, HsAgrees,
       HasPreJob
  <1>7. QueuedEntryIsFree'
    BY <1>0, <1>2 DEF QueuedEntryIsFree, HasPreJob, Pending
  <1>8. OnePreJobTask'
    BY <1>0, <1>2 DEF OnePreJobTask
  <1>9. HostlessIsIdle'
    BY <1>0, <1>2 DEF HostlessIsIdle, HasPreJob
  <1> QED
    BY <1>1, <1>3, <1>4, <1>5, <1>6, <1>7, <1>8, <1>9

\* The epilog that requeues or fails its entry preserves the invariant.
LEMMA EpilogRequeueIInv == ASSUME IInv, NEW t \in Task, EpilogRequeue(t) PROVE IInv'
  <1> USE ConstantsAssumption DEF IInv, EpilogRequeue
  <1> DEFINE e == t.hqe
             new == SpecialTask(t.host, "Repair", e)
             s == IF provisions[e] > MaxProvisionRetries THEN "Parsing" ELSE "Queued"
  <1>1. e \in Entries /\ t.host \in Hosts /\ new \in Task /\ new.kind = "Repair"
    BY DEF Task, SpecialTask, Kinds
  <1>2. SetStatus(e, s) /\ s \in {"Queued", "Parsing"}
    OBVIOUS
  <1>3. queued' \subseteq queued \cup {new} /\ running' \subseteq running
    BY DEF Without, WithoutOn
  <1>4. \A q \in queued' \cup running' : q.kind # "Repair" =>
           q \in queued \cup running /\ ~(q.hqe = e /\ q.host = t.host)
    BY <1>1 DEF Without, WithoutOn
  <1>5. HostAfterFailure(e) \in Hosts \cup {None} /\ (HostAfterFailure(e) = None => s = "Queued")
    BY <1>1, EpilogFacts DEF PrejobFailed, InEpilog, HostAfterFailure, TypeOK, DbTypes
  <1>6. TypeOK'
    <2>1. /\ hqeStatus' \in [Entries -> Statuses]
          /\ active' \subseteq Entries /\ complete' \subseteq Entries
      BY <1>1, <1>2, SetStatusFacts DEF Statuses
    <2>2. hqeHost' \in [Entries -> Hosts \cup {None}]
      BY <1>1, <1>5 DEF TypeOK, DbTypes
    <2>3. repairs' \in [Entries -> [Hosts -> 0..MaxRepairLimit]]
      BY <1>1 DEF TypeOK, DbTypes, Least
    <2>4. queued' \subseteq Task /\ running' \subseteq Task
      BY <1>1, <1>3 DEF TypeOK, DbTypes
    <2>5. DbTypes'
      BY <2>1, <2>2, <2>3, <2>4 DEF TypeOK, DbTypes, PrejobFailed, InEpilog
    <2> QED
      BY <2>5 DEF TypeOK, DispatcherTypes, HostSchedulerTypes, PrejobFailed, InEpilog,
         agentVars, hsVars
  <1> QED
    BY <1>1, <1>2, <1>4, <1>5, <1>6, EntryDropped

\* The epilog that gives up on its host preserves the invariant.
LEMMA EpilogGiveUpIInv == ASSUME IInv, NEW t \in Task, EpilogGiveUp(t) PROVE IInv'
  <1> USE ConstantsAssumption DEF IInv, EpilogGiveUp
  <1> DEFINE e == t.hqe
             s == IF HostAfterFailure(e) = None THEN "Queued" ELSE "Parsing"
  <1>1. e \in Entries /\ t.host \in Hosts
    BY DEF Task
  <1>2. SetStatus(e, s) /\ s \in {"Queued", "Parsing"}
    OBVIOUS
  <1>3. queued' \subseteq queued /\ running' \subseteq running
    BY DEF Without, WithoutOn
  <1>4. \A q \in queued' \cup running' : q.kind # "Repair" =>
           q \in queued \cup running /\ ~(q.hqe = e /\ q.host = t.host)
    <2>1. CASE queued' = WithoutOn(queued, e, t.host) /\ running' = WithoutOn(running, e, t.host)
      BY <2>1 DEF WithoutOn
    <2>2. CASE queued' = Without(queued, e) /\ running' = Without(running, e)
      BY <2>2 DEF Without
    <2> QED
      BY <2>1, <2>2
  <1>5. HostAfterFailure(e) \in Hosts \cup {None} /\ (HostAfterFailure(e) = None => s = "Queued")
    BY <1>1 DEF HostAfterFailure, TypeOK, DbTypes
  <1>6. TypeOK'
    <2>1. /\ hqeStatus' \in [Entries -> Statuses]
          /\ active' \subseteq Entries /\ complete' \subseteq Entries
      BY <1>1, <1>2, SetStatusFacts DEF Statuses
    <2>2. hqeHost' \in [Entries -> Hosts \cup {None}]
      BY <1>1, <1>5 DEF TypeOK, DbTypes
    <2>3. hostStatus' \in [Hosts -> HostStatuses]
      BY <1>1 DEF TypeOK, DbTypes, SetHostStatus, HostStatuses
    <2>4. queued' \subseteq Task /\ running' \subseteq Task
      BY <1>3 DEF TypeOK, DbTypes
    <2>5. DbTypes'
      BY <2>1, <2>2, <2>3, <2>4 DEF TypeOK, DbTypes, PrejobFailed, InEpilog
    <2> QED
      BY <2>5 DEF TypeOK, DispatcherTypes, HostSchedulerTypes, PrejobFailed, InEpilog,
         agentVars, hsVars
  <1> QED
    BY <1>1, <1>2, <1>4, <1>5, <1>6, EntryDropped

\* The epilog of a failed repair preserves the invariant.
LEMMA RepairFailedIInv == ASSUME IInv, RepairFailed PROVE IInv'
  <1> USE ConstantsAssumption DEF IInv, RepairFailed, InEpilog, agentVars, hsVars
  <1>0. PICK t \in Task : cont.task = t
    BY DEF TypeOK, DispatcherTypes, Conts
  <1> USE <1>0
  <1>1. t.host \in Hosts /\ queued' \subseteq queued /\ running' \subseteq running
    BY DEF Task, Without
  <1>2. PreJobTasks' \subseteq PreJobTasks
    BY <1>1 DEF PreJobTasks, OpenTasks, TaskAgents, EpilogTasks
  <1>3. \A q \in PreJobTasks' : q.hqe \in Entries
    BY <1>2, PreJobTasksType
  <1>4. /\ hqeStatus' \in [Entries -> Statuses]
        /\ active' \subseteq Entries /\ complete' \subseteq Entries
        /\ \A d \in Entries : Pending(d)' => Pending(d)
        /\ \A d \in MetaHost : hqeStatus'[d] = hqeStatus[d]
        /\ \A d \in Entries : hqeStatus'[d] \in {hqeStatus[d], "Parsing"}
    <2>1. CASE UNCHANGED <<hqeStatus, active, complete>>
      BY <2>1 DEF TypeOK, DbTypes, Pending
    <2>2. CASE t.hqe # None /\ t.hqe \notin MetaHost /\ SetStatus(t.hqe, "Parsing")
      <3>1. t.hqe \in Entries /\ "Parsing" \in Statuses
        BY <2>2 DEF Task, Statuses
      <3>2. /\ hqeStatus' \in [Entries -> Statuses]
            /\ active' \subseteq Entries /\ complete' \subseteq Entries
            /\ hqeStatus'[t.hqe] = "Parsing"
            /\ \A d \in Entries : d # t.hqe => /\ hqeStatus'[d] = hqeStatus[d]
                                               /\ d \in active' <=> d \in active
                                               /\ d \in complete' <=> d \in complete
        BY <2>2, <3>1, SetStatusFacts
      <3> QED
        BY <2>2, <3>1, <3>2 DEF Pending
    <2> QED
      BY <2>1, <2>2
  <1>5. TypeOK'
    <2>1. hostStatus' \in [Hosts -> HostStatuses]
      BY <1>1 DEF TypeOK, DbTypes, SetHostStatus, HostStatuses
    <2>2. DbTypes'
      BY <1>1, <1>4, <2>1 DEF TypeOK, DbTypes
    <2> QED
      BY <2>2 DEF TypeOK, DispatcherTypes, HostSchedulerTypes
  <1>6. PhaseInv'
    BY DEF PhaseInv
  <1>7. HsInv'
    BY <1>4 DEF HsInv
  <1>8. TaskInv'
    <2>1. agentNew' \cap agentRun' = {}
      BY DEF TaskInv
    <2>2. EpilogTasks' = {}
      BY DEF EpilogTasks
    <2>3. \A q \in PreJobTasks' : hqeStatus'[q.hqe] = "Resetting" => q.kind = "Reset"
      <3> TAKE q \in PreJobTasks'
      <3>1. hqeStatus'[q.hqe] \in {hqeStatus[q.hqe], "Parsing"}
        BY <1>3, <1>4
      <3> QED
        BY <1>2, <3>1 DEF TaskInv
    <2> QED
      BY <2>1, <2>2, <2>3 DEF TaskInv
  <1>9. MetaInv'
    <2> SUFFICES ASSUME NEW d \in MetaHost
                 PROVE  (/\ AgentAgrees(d) /\ SeenAgrees(d) /\ ContAgrees(d)
                         /\ TaskAgrees(d) /\ HsAgrees(d))'
      BY DEF MetaInv
    <2>1. hqeStatus'[d] = hqeStatus[d] /\ (HasPreJob(d)' => HasPreJob(d))
      BY <1>2, <1>4 DEF HasPreJob
    <2>2. (AgentAgrees(d) /\ SeenAgrees(d) /\ HsAgrees(d))'
      BY <2>1 DEF MetaInv, AgentAgrees, SeenAgrees, HsAgrees
    <2>3. (ContAgrees(d) /\ TaskAgrees(d))'
      BY <2>1 DEF MetaInv, ContAgrees, TaskAgrees
    <2> QED
      BY <2>2, <2>3
  <1>10. QueuedEntryIsFree' /\ OnePreJobTask'
    BY <1>2, <1>4 DEF QueuedEntryIsFree, OnePreJobTask, HasPreJob
  <1>11. HostlessIsIdle'
    <2> SUFFICES ASSUME NEW d \in Entries, hqeHost[d] = None
                 PROVE  /\ d \in MetaHost /\ hqeStatus'[d] \in {"Queued", "Aborted"}
                        /\ hqeAgent[d] = "none" /\ ~HasPreJob(d)' /\ hsEntry # d
                        /\ seen[d].status \in {"none", "Queued", "Aborted"}
      BY DEF HostlessIsIdle
    <2>1. d \in MetaHost /\ hqeStatus[d] \in {"Queued", "Aborted"} /\ hqeAgent[d] = "none"
          /\ ~HasPreJob(d) /\ hsEntry # d /\ seen[d].status \in {"none", "Queued", "Aborted"}
      BY DEF HostlessIsIdle
    <2> QED
      BY <1>2, <1>4, <2>1 DEF HasPreJob
  <1> QED
    BY <1>5, <1>6, <1>7, <1>8, <1>9, <1>10, <1>11

-----------------------------------------------------------------------------
(* The dispatcher: jobs.                                                   *)

\* The start of a job preserves the invariant.
LEMMA StartQueueTaskIInv == ASSUME IInv, NEW e \in Entries, StartQueueTask(e) PROVE IInv'
  <1> USE ConstantsAssumption DEF IInv, StartQueueTask, Handling, hsVars, taskVars
  <1>1. PICK s \in {"Running"} : SetStatus(e, s)
    OBVIOUS
  <1>2. /\ hqeStatus' \in [Entries -> Statuses]
        /\ active' \subseteq Entries /\ complete' \subseteq Entries
        /\ hqeStatus'[e] = s
        /\ \A d \in Entries : d # e => hqeStatus'[d] = hqeStatus[d]
        /\ \A d \in Entries : Pending(d)' => Pending(d)
    BY <1>1, SetStatusFacts DEF Statuses, ActiveStatuses, CompleteStatuses, Pending, CheckStatuses, HostIn
  <1>3. hqeHost[e] \in Hosts
    BY DEF HostlessIsIdle, TypeOK, DbTypes
  <1>4. TypeOK'
    <2>1. hostStatus' \in [Hosts -> HostStatuses]
      BY <1>3 DEF SetHostStatus, HostStatuses, TypeOK, DbTypes
    <2>2. DbTypes'
      BY <1>2, <2>1 DEF TypeOK, DbTypes, CheckStatuses, HostIn
    <2> QED
      BY <2>2 DEF TypeOK, DispatcherTypes, HostSchedulerTypes
  <1>5. PreJobTasks' \subseteq PreJobTasks
    BY DEF PreJobTasks, OpenTasks, TaskAgents, EpilogTasks
  <1>6. \A t \in PreJobTasks' : t.hqe \in Entries
    BY <1>5 DEF PreJobTasks, OpenTasks, TypeOK, DbTypes, DispatcherTypes, TaskAgents,
       EpilogTasks, Conts, Task
  <1>7. PhaseInv'
    BY DEF PhaseInv, TaskAgents
  <1>8. HsInv'
    BY <1>2 DEF HsInv
  <1>9. TaskInv'
    BY <1>2, <1>5, <1>6 DEF TaskInv, TaskAgents, EpilogTasks
  <1>10. MetaInv'
    <2> SUFFICES ASSUME NEW d \in MetaHost
                 PROVE  /\ AgentAgrees(d)' /\ SeenAgrees(d)' /\ ContAgrees(d)'
                        /\ TaskAgrees(d)' /\ HsAgrees(d)'
      BY DEF MetaInv
    <2>0. d \in Entries /\ AgentAgrees(d) /\ SeenAgrees(d) /\ ContAgrees(d)
          /\ TaskAgrees(d) /\ HsAgrees(d)
      BY DEF MetaInv
    <2>1. AgentAgrees(d)' /\ SeenAgrees(d)'
      BY <1>2, <2>0 DEF AgentAgrees, SeenAgrees, ContAgrees, TypeOK, DispatcherTypes
    <2>2. ContAgrees(d)'
      BY <1>2, <2>0 DEF ContAgrees
    <2>3. TaskAgrees(d)'
      BY <1>2, <1>5, <2>0 DEF TaskAgrees, HasPreJob, AgentAgrees, ContAgrees, HandledStatuses
    <2>4. HsAgrees(d)'
      BY <1>2, <2>0 DEF HsAgrees, AgentAgrees, ContAgrees
    <2> QED
      BY <2>1, <2>2, <2>3, <2>4
  <1>11. QueuedEntryIsFree' /\ OnePreJobTask'
    BY <1>2, <1>5 DEF QueuedEntryIsFree, OnePreJobTask, HasPreJob
  <1>12. HostlessIsIdle'
    BY <1>2, <1>3, <1>5 DEF HostlessIsIdle, HasPreJob, TypeOK, DispatcherTypes
  <1> QED
    BY <1>4, <1>7, <1>8, <1>9, <1>10, <1>11, <1>12

\* The end of a job preserves the invariant.
LEMMA FinishQueueTaskIInv == ASSUME IInv, NEW e \in Entries, NEW code \in {"ok", "fail", "signal"}, FinishQueueTask(e, code) PROVE IInv'
  <1> USE ConstantsAssumption DEF IInv, FinishQueueTask, Handling, hsVars, taskVars
  <1>1. PICK s \in {"Gathering"} : SetStatus(e, s)
    OBVIOUS
  <1>2. /\ hqeStatus' \in [Entries -> Statuses]
        /\ active' \subseteq Entries /\ complete' \subseteq Entries
        /\ hqeStatus'[e] = s
        /\ \A d \in Entries : d # e => hqeStatus'[d] = hqeStatus[d]
        /\ \A d \in Entries : Pending(d)' => Pending(d)
    BY <1>1, SetStatusFacts DEF Statuses, ActiveStatuses, CompleteStatuses, Pending
  <1>3. hqeHost[e] \in Hosts
    BY DEF HostlessIsIdle, TypeOK, DbTypes
  <1>4. TypeOK'
    <2>1. hostStatus' \in [Hosts -> HostStatuses]
      BY <1>3 DEF SetHostStatus, HostStatuses, TypeOK, DbTypes
    <2>2. DbTypes'
      BY <1>2, <2>1 DEF TypeOK, DbTypes
    <2> QED
      BY <2>2 DEF TypeOK, DispatcherTypes, HostSchedulerTypes
  <1>5. PreJobTasks' \subseteq PreJobTasks
    BY DEF PreJobTasks, OpenTasks, TaskAgents, EpilogTasks
  <1>6. \A t \in PreJobTasks' : t.hqe \in Entries
    BY <1>5 DEF PreJobTasks, OpenTasks, TypeOK, DbTypes, DispatcherTypes, TaskAgents,
       EpilogTasks, Conts, Task
  <1>7. PhaseInv'
    BY DEF PhaseInv, TaskAgents
  <1>8. HsInv'
    BY <1>2 DEF HsInv
  <1>9. TaskInv'
    BY <1>2, <1>5, <1>6 DEF TaskInv, TaskAgents, EpilogTasks
  <1>10. MetaInv'
    <2> SUFFICES ASSUME NEW d \in MetaHost
                 PROVE  /\ AgentAgrees(d)' /\ SeenAgrees(d)' /\ ContAgrees(d)'
                        /\ TaskAgrees(d)' /\ HsAgrees(d)'
      BY DEF MetaInv
    <2>0. d \in Entries /\ AgentAgrees(d) /\ SeenAgrees(d) /\ ContAgrees(d)
          /\ TaskAgrees(d) /\ HsAgrees(d)
      BY DEF MetaInv
    <2>1. AgentAgrees(d)' /\ SeenAgrees(d)'
      BY <1>2, <2>0 DEF AgentAgrees, SeenAgrees, ContAgrees, TypeOK, DispatcherTypes
    <2>2. ContAgrees(d)'
      BY <1>2, <2>0 DEF ContAgrees
    <2>3. TaskAgrees(d)'
      BY <1>2, <1>5, <2>0 DEF TaskAgrees, HasPreJob, AgentAgrees, ContAgrees, HandledStatuses
    <2>4. HsAgrees(d)'
      BY <1>2, <2>0 DEF HsAgrees, AgentAgrees, ContAgrees
    <2> QED
      BY <2>1, <2>2, <2>3, <2>4
  <1>11. QueuedEntryIsFree' /\ OnePreJobTask'
    BY <1>2, <1>5 DEF QueuedEntryIsFree, OnePreJobTask, HasPreJob
  <1>12. HostlessIsIdle'
    BY <1>2, <1>3, <1>5 DEF HostlessIsIdle, HasPreJob, TypeOK, DispatcherTypes
  <1> QED
    BY <1>4, <1>7, <1>8, <1>9, <1>10, <1>11, <1>12

\* The start of crash log gathering preserves the invariant.
LEMMA StartGatherIInv == ASSUME IInv, NEW e \in Entries, StartGather(e) PROVE IInv'
  <1> USE ConstantsAssumption DEF IInv, StartGather, Handling, hsVars, taskVars
  <1>1. TypeOK'
    BY DEF TypeOK, DbTypes, DispatcherTypes, HostSchedulerTypes, CheckStatuses, HostIn
  <1>2. PreJobTasks' \subseteq PreJobTasks
    BY DEF PreJobTasks, OpenTasks, TaskAgents, EpilogTasks
  <1>3. PhaseInv'
    BY DEF PhaseInv, TaskAgents
  <1>4. HsInv'
    BY DEF HsInv, Pending, CheckStatuses, HostIn
  <1>5. TaskInv'
    BY <1>2 DEF TaskInv, TaskAgents, EpilogTasks
  <1>6. MetaInv'
    BY <1>2 DEF MetaInv, AgentAgrees, SeenAgrees, ContAgrees, TaskAgrees, HsAgrees, HasPreJob
  <1>7. QueuedEntryIsFree'
    BY <1>2 DEF QueuedEntryIsFree, HasPreJob, Pending, CheckStatuses, HostIn
  <1>8. OnePreJobTask'
    BY <1>2 DEF OnePreJobTask
  <1>9. HostlessIsIdle'
    BY <1>2 DEF HostlessIsIdle, HasPreJob
  <1> QED
    BY <1>1, <1>3, <1>4, <1>5, <1>6, <1>7, <1>8, <1>9

\* The end of log gathering preserves the invariant.
LEMMA FinishGatherIInv == ASSUME IInv, NEW e \in Entries, FinishGather(e) PROVE IInv'
  <1> USE ConstantsAssumption DEF IInv, FinishGather, Handling, hsVars, taskVars
  <1>1. PICK s \in {"Parsing"} : SetStatus(e, s)
    OBVIOUS
  <1>2. /\ hqeStatus' \in [Entries -> Statuses]
        /\ active' \subseteq Entries /\ complete' \subseteq Entries
        /\ hqeStatus'[e] = s
        /\ \A d \in Entries : d # e => hqeStatus'[d] = hqeStatus[d]
        /\ \A d \in Entries : Pending(d)' => Pending(d)
    BY <1>1, SetStatusFacts DEF Statuses, ActiveStatuses, CompleteStatuses, Pending, CheckStatuses, HostIn
  <1>3. hqeHost[e] \in Hosts
    BY DEF HostlessIsIdle, TypeOK, DbTypes
  <1>4. TypeOK'
    <2>2. DbTypes'
      BY <1>2 DEF TypeOK, DbTypes, CheckStatuses, HostIn
    <2> QED
      BY <2>2 DEF TypeOK, DispatcherTypes, HostSchedulerTypes, Conts
  <1>5. PreJobTasks' \subseteq PreJobTasks
    BY DEF PreJobTasks, OpenTasks, TaskAgents, EpilogTasks
  <1>6. \A t \in PreJobTasks' : t.hqe \in Entries
    BY <1>5 DEF PreJobTasks, OpenTasks, TypeOK, DbTypes, DispatcherTypes, TaskAgents,
       EpilogTasks, Conts, Task
  <1>7. PhaseInv'
    BY DEF PhaseInv, TaskAgents
  <1>8. HsInv'
    BY <1>2 DEF HsInv
  <1>9. TaskInv'
    BY <1>2, <1>5, <1>6 DEF TaskInv, TaskAgents, EpilogTasks
  <1>10. MetaInv'
    <2> SUFFICES ASSUME NEW d \in MetaHost
                 PROVE  /\ AgentAgrees(d)' /\ SeenAgrees(d)' /\ ContAgrees(d)'
                        /\ TaskAgrees(d)' /\ HsAgrees(d)'
      BY DEF MetaInv
    <2>0. d \in Entries /\ AgentAgrees(d) /\ SeenAgrees(d) /\ ContAgrees(d)
          /\ TaskAgrees(d) /\ HsAgrees(d)
      BY DEF MetaInv
    <2>1. AgentAgrees(d)' /\ SeenAgrees(d)'
      BY <1>2, <2>0 DEF AgentAgrees, SeenAgrees, ContAgrees, TypeOK, DispatcherTypes
    <2>2. ContAgrees(d)'
      BY <1>2, <2>0 DEF ContAgrees
    <2>3. TaskAgrees(d)'
      BY <1>2, <1>5, <2>0 DEF TaskAgrees, HasPreJob, AgentAgrees, ContAgrees, HandledStatuses
    <2>4. HsAgrees(d)'
      BY <1>2, <2>0 DEF HsAgrees, AgentAgrees, ContAgrees
    <2> QED
      BY <2>1, <2>2, <2>3, <2>4
  <1>11. QueuedEntryIsFree' /\ OnePreJobTask'
    BY <1>2, <1>5 DEF QueuedEntryIsFree, OnePreJobTask, HasPreJob
  <1>12. HostlessIsIdle'
    BY <1>2, <1>3, <1>5 DEF HostlessIsIdle, HasPreJob, TypeOK, DispatcherTypes
  <1> QED
    BY <1>4, <1>7, <1>8, <1>9, <1>10, <1>11, <1>12

\* The reboot decision preserves the invariant.
LEMMA GatherRebootIInv == ASSUME IInv, NEW failed \in BOOLEAN, GatherReboot(failed) PROVE IInv'
  <1> USE ConstantsAssumption DEF IInv, GatherReboot, entryVars, taskVars, agentVars, hsVars
  <1>0. /\ cont.hqe \in Entries /\ hqeHost[cont.hqe] \in Hosts
        /\ SpecialTask(hqeHost[cont.hqe], "Cleanup", None) \in Task
        /\ SpecialTask(hqeHost[cont.hqe], "Cleanup", None).hqe = None
    <2>1. cont.hqe \in Entries
      BY DEF TypeOK, DispatcherTypes, Conts
    <2>2. hqeHost[cont.hqe] \in Hosts
      BY <2>1 DEF HostlessIsIdle, TypeOK, DbTypes
    <2> QED
      BY <2>1, <2>2 DEF SpecialTask, Task, Kinds, PreJobKinds
  <1>a. cont' = None \/ (cont' \in Conts /\ cont'.op = "reset" /\ cont'.hqe = cont.hqe)
    BY <1>0 DEF Conts
  <1>1. TypeOK'
    <2>1. hostStatus' \in [Hosts -> HostStatuses]
      BY <1>0 DEF TypeOK, DbTypes, SetHostStatus, HostStatuses
    <2>2. queued' \subseteq Task
      BY <1>0 DEF TypeOK, DbTypes
    <2>3. DbTypes'
      BY <2>1, <2>2 DEF TypeOK, DbTypes
    <2> QED
      BY <1>a, <2>3 DEF TypeOK, DispatcherTypes, HostSchedulerTypes
  <1>2. PreJobTasks' \subseteq PreJobTasks
    BY <1>0, <1>a DEF PreJobTasks, OpenTasks, TaskAgents, EpilogTasks
  <1>3. PhaseInv'
    BY DEF PhaseInv, TaskAgents
  <1>4. HsInv'
    BY <1>0 DEF HsInv, Pending
  <1>5. TaskInv'
    BY <1>0, <1>2, <1>a DEF TaskInv, TaskAgents, EpilogTasks
  <1>6. MetaInv'
    <2> SUFFICES ASSUME NEW d \in MetaHost
                 PROVE  /\ AgentAgrees(d)' /\ SeenAgrees(d)' /\ ContAgrees(d)'
                        /\ TaskAgrees(d)' /\ HsAgrees(d)'
      BY DEF MetaInv
    <2>0. d \in Entries /\ AgentAgrees(d) /\ SeenAgrees(d) /\ ContAgrees(d)
          /\ TaskAgrees(d) /\ HsAgrees(d)
      BY DEF MetaInv
    <2>1. AgentAgrees(d)'
      BY <1>0, <1>a, <2>0 DEF AgentAgrees
    <2>2. SeenAgrees(d)'
      BY <1>0, <1>a, <2>0 DEF SeenAgrees
    <2>3. ContAgrees(d)'
      BY <1>0, <1>a, <2>0 DEF ContAgrees
    <2>4. TaskAgrees(d)'
      BY <1>0, <1>a, <1>2, <2>0 DEF TaskAgrees, HasPreJob
    <2>5. HsAgrees(d)'
      BY <1>0, <1>a, <2>0 DEF HsAgrees
    <2> QED
      BY <2>1, <2>2, <2>3, <2>4, <2>5
  <1>7. QueuedEntryIsFree'
    BY <1>0, <1>2 DEF QueuedEntryIsFree, HasPreJob, Pending
  <1>8. OnePreJobTask'
    BY <1>0, <1>2 DEF OnePreJobTask
  <1>9. HostlessIsIdle'
    BY <1>0, <1>2, <1>a DEF HostlessIsIdle, HasPreJob
  <1> QED
    BY <1>1, <1>3, <1>4, <1>5, <1>6, <1>7, <1>8, <1>9

\* The reset after a failed job preserves the invariant.
LEMMA GatherResetIInv == ASSUME IInv, GatherReset PROVE IInv'
  <1> USE ConstantsAssumption DEF IInv, GatherReset, entryVars, hostVars, agentVars, hsVars
  <1>0. /\ cont.hqe \in Entries /\ hqeHost[cont.hqe] \in Hosts
        /\ SpecialTask(hqeHost[cont.hqe], "Reset", None) \in Task
        /\ SpecialTask(hqeHost[cont.hqe], "Reset", None).hqe = None
    <2>1. cont.hqe \in Entries
      BY DEF TypeOK, DispatcherTypes, Conts
    <2>2. hqeHost[cont.hqe] \in Hosts
      BY <2>1 DEF HostlessIsIdle, TypeOK, DbTypes
    <2> QED
      BY <2>1, <2>2 DEF SpecialTask, Task, Kinds, PreJobKinds
  <1>1. TypeOK'
    BY <1>0 DEF TypeOK, DbTypes, DispatcherTypes, HostSchedulerTypes
  <1>2. PreJobTasks' \subseteq PreJobTasks
    BY <1>0 DEF PreJobTasks, OpenTasks, TaskAgents, EpilogTasks
  <1>3. PhaseInv'
    BY DEF PhaseInv, TaskAgents
  <1>4. HsInv'
    BY <1>0 DEF HsInv, Pending
  <1>5. TaskInv'
    BY <1>0, <1>2 DEF TaskInv, TaskAgents, EpilogTasks
  <1>6. MetaInv'
    BY <1>0, <1>2 DEF MetaInv, AgentAgrees, SeenAgrees, ContAgrees, TaskAgrees, HsAgrees,
       HasPreJob
  <1>7. QueuedEntryIsFree'
    BY <1>0, <1>2 DEF QueuedEntryIsFree, HasPreJob, Pending
  <1>8. OnePreJobTask'
    BY <1>0, <1>2 DEF OnePreJobTask
  <1>9. HostlessIsIdle'
    BY <1>0, <1>2 DEF HostlessIsIdle, HasPreJob
  <1> QED
    BY <1>1, <1>3, <1>4, <1>5, <1>6, <1>7, <1>8, <1>9

\* The start of parsing preserves the invariant.
LEMMA StartParseIInv == ASSUME IInv, NEW e \in Entries, StartParse(e) PROVE IInv'
  <1> USE ConstantsAssumption DEF IInv, StartParse, CheckStatuses, Handling, hsVars, taskVars
  <1>1. TypeOK'
    BY DEF TypeOK, DbTypes, DispatcherTypes, HostSchedulerTypes
  <1>2. PreJobTasks' \subseteq PreJobTasks
    BY DEF PreJobTasks, OpenTasks, TaskAgents, EpilogTasks
  <1>3. PhaseInv'
    BY DEF PhaseInv, TaskAgents
  <1>4. HsInv'
    BY DEF HsInv, Pending
  <1>5. TaskInv'
    BY <1>2 DEF TaskInv, TaskAgents, EpilogTasks
  <1>6. MetaInv'
    BY <1>2 DEF MetaInv, AgentAgrees, SeenAgrees, ContAgrees, TaskAgrees, HsAgrees, HasPreJob
  <1>7. QueuedEntryIsFree'
    BY <1>2 DEF QueuedEntryIsFree, HasPreJob, Pending
  <1>8. OnePreJobTask'
    BY <1>2 DEF OnePreJobTask
  <1>9. HostlessIsIdle'
    BY <1>2 DEF HostlessIsIdle, HasPreJob
  <1> QED
    BY <1>1, <1>3, <1>4, <1>5, <1>6, <1>7, <1>8, <1>9

\* The end of parsing preserves the invariant.
LEMMA FinishParseIInv == ASSUME IInv, NEW e \in Entries, FinishParse(e) PROVE IInv'
  <1> USE ConstantsAssumption DEF IInv, FinishParse, CheckStatuses, Handling, hsVars, taskVars
  <1>1. PICK s \in CompleteStatuses : SetStatus(e, s)
    BY DEF CompleteStatuses
  <1>2. /\ hqeStatus' \in [Entries -> Statuses]
        /\ active' \subseteq Entries /\ complete' \subseteq Entries
        /\ hqeStatus'[e] = s
        /\ \A d \in Entries : d # e => hqeStatus'[d] = hqeStatus[d]
        /\ \A d \in Entries : Pending(d)' => Pending(d)
    BY <1>1, SetStatusFacts DEF Statuses, ActiveStatuses, CompleteStatuses, Pending
  <1>3. hqeHost[e] \in Hosts
    BY DEF HostlessIsIdle, TypeOK, DbTypes
  <1>4. TypeOK'
    <2>2. DbTypes'
      BY <1>2 DEF TypeOK, DbTypes
    <2> QED
      BY <2>2 DEF TypeOK, DispatcherTypes, HostSchedulerTypes
  <1>5. PreJobTasks' \subseteq PreJobTasks
    BY DEF PreJobTasks, OpenTasks, TaskAgents, EpilogTasks
  <1>6. \A t \in PreJobTasks' : t.hqe \in Entries
    BY <1>5 DEF PreJobTasks, OpenTasks, TypeOK, DbTypes, DispatcherTypes, TaskAgents,
       EpilogTasks, Conts, Task
  <1>7. PhaseInv'
    BY DEF PhaseInv, TaskAgents
  <1>8. HsInv'
    BY <1>2 DEF HsInv, CompleteStatuses
  <1>9. TaskInv'
    BY <1>2, <1>5, <1>6 DEF TaskInv, CompleteStatuses, TaskAgents, EpilogTasks
  <1>10. MetaInv'
    <2> SUFFICES ASSUME NEW d \in MetaHost
                 PROVE  /\ AgentAgrees(d)' /\ SeenAgrees(d)' /\ ContAgrees(d)'
                        /\ TaskAgrees(d)' /\ HsAgrees(d)'
      BY DEF MetaInv
    <2>0. d \in Entries /\ AgentAgrees(d) /\ SeenAgrees(d) /\ ContAgrees(d)
          /\ TaskAgrees(d) /\ HsAgrees(d)
      BY DEF MetaInv
    <2>1. AgentAgrees(d)' /\ SeenAgrees(d)'
      BY <1>2, <2>0 DEF AgentAgrees, SeenAgrees, ContAgrees, TypeOK, DispatcherTypes
    <2>2. ContAgrees(d)'
      BY <1>2, <2>0 DEF ContAgrees
    <2>3. TaskAgrees(d)'
      BY <1>2, <1>5, <2>0 DEF TaskAgrees, HasPreJob, AgentAgrees, ContAgrees, HandledStatuses
    <2>4. HsAgrees(d)'
      BY <1>2, <2>0 DEF HsAgrees, AgentAgrees, ContAgrees
    <2> QED
      BY <2>1, <2>2, <2>3, <2>4
  <1>11. QueuedEntryIsFree' /\ OnePreJobTask'
    BY <1>2, <1>5 DEF QueuedEntryIsFree, OnePreJobTask, HasPreJob
  <1>12. HostlessIsIdle'
    BY <1>2, <1>3, <1>5 DEF HostlessIsIdle, HasPreJob, TypeOK, DispatcherTypes
  <1> QED
    BY <1>4, <1>7, <1>8, <1>9, <1>10, <1>11, <1>12

\* The end of a tick preserves the invariant.
LEMMA EndTickIInv == ASSUME IInv, EndTick PROVE IInv'
  <1> USE ConstantsAssumption DEF IInv, EndTick, entryVars, hostVars, taskVars, agentVars, hsVars
  <1>1. TypeOK'
    BY DEF TypeOK, DbTypes, DispatcherTypes, HostSchedulerTypes, Phases
  <1>2. PreJobTasks' \subseteq PreJobTasks
    BY DEF PreJobTasks, OpenTasks, TaskAgents, EpilogTasks
  <1>3. PhaseInv'
    BY DEF PhaseInv, TaskAgents
  <1>4. HsInv'
    BY DEF HsInv, Pending
  <1>5. TaskInv'
    BY <1>2 DEF TaskInv, TaskAgents, EpilogTasks
  <1>6. MetaInv'
    BY <1>2 DEF MetaInv, AgentAgrees, SeenAgrees, ContAgrees, TaskAgrees, HsAgrees, HasPreJob
  <1>7. QueuedEntryIsFree'
    BY <1>2 DEF QueuedEntryIsFree, HasPreJob, Pending
  <1>8. OnePreJobTask'
    BY <1>2 DEF OnePreJobTask
  <1>9. HostlessIsIdle'
    BY <1>2 DEF HostlessIsIdle, HasPreJob
  <1> QED
    BY <1>1, <1>3, <1>4, <1>5, <1>6, <1>7, <1>8, <1>9

-----------------------------------------------------------------------------
(* Crash and recovery of the dispatcher.                                   *)

\* A crash of the dispatcher preserves the invariant.
LEMMA CrashIInv == ASSUME IInv, Crash PROVE IInv'
  <1> USE ConstantsAssumption DEF IInv, Crash, entryVars, hostVars, taskVars, hsVars
  <1>1. TypeOK'
    BY DEF TypeOK, DbTypes, DispatcherTypes, HostSchedulerTypes, Phases, NotSeen
  <1>2. PreJobTasks' \subseteq PreJobTasks
    BY DEF PreJobTasks, OpenTasks, TaskAgents, EpilogTasks
  <1>3. PhaseInv'
    BY DEF PhaseInv, TaskAgents
  <1>4. HsInv'
    BY DEF HsInv, Pending
  <1>5. TaskInv'
    BY <1>2 DEF TaskInv, TaskAgents, EpilogTasks
  <1>6. MetaInv'
    BY <1>2 DEF MetaInv, AgentAgrees, SeenAgrees, ContAgrees, TaskAgrees, HsAgrees, HasPreJob
  <1>7. QueuedEntryIsFree'
    BY <1>2 DEF QueuedEntryIsFree, HasPreJob, Pending
  <1>8. OnePreJobTask'
    BY <1>2 DEF OnePreJobTask
  <1>9. HostlessIsIdle'
    BY <1>2 DEF HostlessIsIdle, HasPreJob, NotSeen
  <1> QED
    BY <1>1, <1>3, <1>4, <1>5, <1>6, <1>7, <1>8, <1>9

\* Recovery of the agents preserves the invariant.
LEMMA RecoverTasksIInv == ASSUME IInv, NEW found \in SUBSET Recoverable, RecoverTasks(found) PROVE IInv'
  <1> USE ConstantsAssumption DEF IInv, RecoverTasks, entryVars, hostVars, taskVars, hsVars
  <1>0. hqeAgent' \in [Entries -> {"none", "queue", "gather", "parse"}]
    BY DEF AgentKind, HandledStatuses, TypeOK, DbTypes
  <1>1. TypeOK'
    BY <1>0 DEF TypeOK, DbTypes, DispatcherTypes, HostSchedulerTypes, Phases
  <1>2. PreJobTasks' \subseteq PreJobTasks
    BY <1>0 DEF PreJobTasks, OpenTasks, TaskAgents, EpilogTasks
  <1>3. PhaseInv'
    BY DEF PhaseInv, TaskAgents
  <1>4. HsInv'
    BY <1>0 DEF HsInv, Pending
  <1>5. TaskInv'
    BY <1>0, <1>2 DEF TaskInv, TaskAgents, EpilogTasks
  <1>6. MetaInv'
    <2> SUFFICES ASSUME NEW d \in MetaHost
                 PROVE  /\ AgentAgrees(d)' /\ SeenAgrees(d)' /\ ContAgrees(d)'
                        /\ TaskAgrees(d)' /\ HsAgrees(d)'
      BY DEF MetaInv
    <2>0. d \in Entries /\ AgentAgrees(d) /\ SeenAgrees(d) /\ ContAgrees(d)
          /\ TaskAgrees(d) /\ HsAgrees(d)
      BY DEF MetaInv
    <2>1. AgentAgrees(d)'
      BY <2>0 DEF AgentAgrees, AgentKind, HandledStatuses, TypeOK, DbTypes, DispatcherTypes,
         HostSchedulerTypes
    <2>2. SeenAgrees(d)'
      BY <2>0 DEF SeenAgrees, PhaseInv
    <2>3. ContAgrees(d)'
      BY <2>0 DEF ContAgrees
    <2>4. TaskAgrees(d)'
      BY <1>2, <2>0 DEF TaskAgrees, HasPreJob
    <2>5. HsAgrees(d)'
      BY <2>0 DEF HsAgrees
    <2> QED
      BY <2>1, <2>2, <2>3, <2>4, <2>5
  <1>7. QueuedEntryIsFree'
    BY <1>0, <1>2 DEF QueuedEntryIsFree, HasPreJob, Pending
  <1>8. OnePreJobTask'
    BY <1>0, <1>2 DEF OnePreJobTask
  <1>9. HostlessIsIdle'
    BY <1>0, <1>2 DEF HostlessIsIdle, HasPreJob, AgentKind, HandledStatuses, TypeOK, DbTypes,
       DispatcherTypes, HostSchedulerTypes
  <1> QED
    BY <1>1, <1>3, <1>4, <1>5, <1>6, <1>7, <1>8, <1>9

\* Recovery of Pending entries preserves the invariant.
LEMMA RecoverPendingIInv == ASSUME IInv, RecoverPending PROVE IInv'
  <1> USE ConstantsAssumption DEF IInv, RecoverPending, taskVars, agentVars, hsVars
  <1> DEFINE again == {e \in Entries : hqeStatus[e] = "Pending" /\ ~HasAgent(e)}
  <1>1. /\ \A d \in Entries : hqeStatus'[d] # hqeStatus[d] =>
              hqeStatus[d] = "Pending" /\ hqeStatus'[d] = "Starting" /\ hqeAgent[d] = "none"
        /\ \A d \in Entries : Pending(d)' => Pending(d)
    BY DEF HasAgent, Pending, TypeOK, DbTypes
  <1>2. TypeOK'
    <2>1. hqeStatus' \in [Entries -> Statuses] /\ hostStatus' \in [Hosts -> HostStatuses]
      BY DEF TypeOK, DbTypes, Statuses, ActiveStatuses, HostStatuses
    <2>2. DbTypes'
      BY <2>1 DEF TypeOK, DbTypes
    <2> QED
      BY <2>2 DEF TypeOK, DispatcherTypes, HostSchedulerTypes, Phases
  <1>3. PreJobTasks' \subseteq PreJobTasks
    BY DEF PreJobTasks, OpenTasks, TaskAgents, EpilogTasks
  <1>4. \A t \in PreJobTasks' : t.hqe \in Entries
    BY <1>3, PreJobTasksType
  <1>5. PhaseInv'
    BY DEF PhaseInv, TaskAgents
  <1>6. HsInv'
    BY <1>1 DEF HsInv
  <1>7. TaskInv'
    BY <1>1, <1>3, <1>4 DEF TaskInv, TaskAgents, EpilogTasks
  <1>8. MetaInv'
    <2> SUFFICES ASSUME NEW d \in MetaHost
                 PROVE  /\ AgentAgrees(d)' /\ SeenAgrees(d)' /\ ContAgrees(d)'
                        /\ TaskAgrees(d)' /\ HsAgrees(d)'
      BY DEF MetaInv
    <2>0. d \in Entries /\ AgentAgrees(d) /\ SeenAgrees(d) /\ TaskAgrees(d) /\ HsAgrees(d)
      BY DEF MetaInv
    <2>1. AgentAgrees(d)' /\ SeenAgrees(d)'
      BY <1>1, <2>0 DEF AgentAgrees, SeenAgrees
    <2>2. ContAgrees(d)' /\ HsAgrees(d)'
      BY <1>1, <2>0 DEF ContAgrees, HsAgrees, PhaseInv
    <2>3. TaskAgrees(d)'
      BY <1>1, <1>3, <2>0 DEF TaskAgrees, HasPreJob
    <2> QED
      BY <2>1, <2>2, <2>3
  <1>9. QueuedEntryIsFree' /\ OnePreJobTask'
    BY <1>1, <1>3 DEF QueuedEntryIsFree, OnePreJobTask, HasPreJob
  <1>10. HostlessIsIdle'
    BY <1>1, <1>3 DEF HostlessIsIdle, HasPreJob
  <1> QED
    BY <1>2, <1>5, <1>6, <1>7, <1>8, <1>9, <1>10

\* Requeueing lost Resetting entries preserves the invariant.
LEMMA CheckUnrecoveredIInv == ASSUME IInv, CheckUnrecovered PROVE IInv'
  <1> USE ConstantsAssumption DEF IInv, CheckUnrecovered, taskVars, agentVars, hsVars
  <1> DEFINE lost == {e \in Entries :
                        /\ hqeStatus[e] = "Resetting"
                        /\ \A t \in queued \cup running :
                             t.hqe = e => t.kind \notin {"Cleanup", "Verify", "Reset"}}
  <1>1. \A e \in lost : ~HasPreJob(e)
    <2> SUFFICES ASSUME NEW e \in lost, NEW t \in PreJobTasks, t.hqe = e PROVE FALSE
      BY DEF HasPreJob
    <2>1. t \in queued \cup running
      BY DEF PreJobTasks, OpenTasks, EpilogTasks, PhaseInv
    <2>2. t.kind = "Reset"
      BY DEF TaskInv
    <2> QED
      BY <2>1, <2>2
  <1>2. /\ \A d \in Entries : hqeStatus'[d] # hqeStatus[d] =>
              d \in lost /\ hqeStatus[d] = "Resetting" /\ hqeStatus'[d] = "Queued"
        /\ \A d \in Entries : Pending(d)' => Pending(d) \/ d \in lost
    BY DEF Pending, TypeOK, DbTypes
  <1>3. TypeOK'
    <2>1. hqeStatus' \in [Entries -> Statuses] /\ hostStatus' \in [Hosts -> HostStatuses]
      BY DEF TypeOK, DbTypes, Statuses, HostStatuses
    <2>2. DbTypes'
      BY <2>1 DEF TypeOK, DbTypes
    <2> QED
      BY <2>2 DEF TypeOK, DispatcherTypes, HostSchedulerTypes, Phases
  <1>4. PreJobTasks' \subseteq PreJobTasks
    BY DEF PreJobTasks, OpenTasks, TaskAgents, EpilogTasks
  <1>5. \A t \in PreJobTasks' : t.hqe \in Entries
    BY <1>4, PreJobTasksType
  <1>6. PhaseInv'
    BY DEF PhaseInv, TaskAgents
  <1>7. HsInv'
    <2>1. \A d \in lost : hsJobs[d] = None /\ hsEntry # d
      BY DEF HsInv
    <2> QED
      BY <1>2, <2>1 DEF HsInv
  <1>8. TaskInv'
    BY <1>2, <1>4, <1>5 DEF TaskInv, TaskAgents, EpilogTasks
  <1>9. MetaInv'
    <2> SUFFICES ASSUME NEW d \in MetaHost
                 PROVE  /\ AgentAgrees(d)' /\ SeenAgrees(d)' /\ ContAgrees(d)'
                        /\ TaskAgrees(d)' /\ HsAgrees(d)'
      BY DEF MetaInv
    <2>0. d \in Entries /\ AgentAgrees(d) /\ SeenAgrees(d) /\ TaskAgrees(d) /\ HsAgrees(d)
      BY DEF MetaInv
    <2>1. AgentAgrees(d)' /\ SeenAgrees(d)'
      BY <1>2, <2>0 DEF AgentAgrees, SeenAgrees
    <2>2. ContAgrees(d)' /\ HsAgrees(d)'
      BY <1>2, <2>0 DEF ContAgrees, HsAgrees, PhaseInv
    <2>3. TaskAgrees(d)'
      BY <1>2, <1>4, <2>0 DEF TaskAgrees, HasPreJob, HandledStatuses
    <2> QED
      BY <2>1, <2>2, <2>3
  <1>10. QueuedEntryIsFree' /\ OnePreJobTask'
    BY <1>1, <1>2, <1>4 DEF QueuedEntryIsFree, OnePreJobTask, HasPreJob
  <1>11. HostlessIsIdle'
    BY <1>2, <1>4 DEF HostlessIsIdle, HasPreJob
  <1> QED
    BY <1>3, <1>6, <1>7, <1>8, <1>9, <1>10, <1>11

\* Reverifying the remaining hosts preserves the invariant.
LEMMA ReverifyHostsIInv == ASSUME IInv, ReverifyHosts PROVE IInv'
  <1> USE ConstantsAssumption DEF IInv, ReverifyHosts, entryVars, hostVars, agentVars, hsVars
  <1>0. /\ queued' \subseteq Task
        /\ \A t \in queued' : t.hqe = None \/ t \in queued
    <2>1. \A h \in Hosts : SpecialTask(h, "Reset", None) \in Task /\ SpecialTask(h, "Reset", None).hqe = None
      BY DEF SpecialTask, Task, Kinds, PreJobKinds
    <2>2. \A t \in queued' : t \in queued \/ \E h \in Hosts : t = SpecialTask(h, "Reset", None)
      OBVIOUS
    <2>3. queued \subseteq Task
      BY DEF TypeOK, DbTypes
    <2>4. ASSUME NEW t \in queued' PROVE t \in Task /\ (t.hqe = None \/ t \in queued)
      <3>1. CASE t \in queued
        BY <2>3, <3>1
      <3>2. CASE t \notin queued
        <4>1. PICK h \in Hosts : t = SpecialTask(h, "Reset", None)
          BY <2>2, <3>2
        <4> QED
          BY <2>1, <4>1
      <3> QED
        BY <3>1, <3>2
    <2> QED
      BY <2>4
  <1>1. TypeOK'
    BY <1>0 DEF TypeOK, DbTypes, DispatcherTypes, HostSchedulerTypes, Phases
  <1>2. PreJobTasks' \subseteq PreJobTasks
    BY <1>0 DEF PreJobTasks, OpenTasks, TaskAgents, EpilogTasks
  <1>3. PhaseInv'
    BY DEF PhaseInv, TaskAgents
  <1>4. HsInv'
    BY <1>0 DEF HsInv, Pending
  <1>5. TaskInv'
    BY <1>0, <1>2 DEF TaskInv, TaskAgents, EpilogTasks
  <1>6. MetaInv'
    BY <1>0, <1>2 DEF MetaInv, AgentAgrees, SeenAgrees, ContAgrees, TaskAgrees, HsAgrees,
       HasPreJob
  <1>7. QueuedEntryIsFree'
    BY <1>0, <1>2 DEF QueuedEntryIsFree, HasPreJob, Pending
  <1>8. OnePreJobTask'
    BY <1>0, <1>2 DEF OnePreJobTask
  <1>9. HostlessIsIdle'
    BY <1>0, <1>2 DEF HostlessIsIdle, HasPreJob
  <1> QED
    BY <1>1, <1>3, <1>4, <1>5, <1>6, <1>7, <1>8, <1>9

-----------------------------------------------------------------------------
(* The theorems.                                                           *)

\* Nothing the invariant speaks of changes in a stuttering step.
LEMMA StutterIInv == ASSUME IInv, UNCHANGED vars PROVE IInv'
  <1> USE DEF IInv, vars, entryVars, hostVars, taskVars, dispVars, hsVars
  <1>1. TypeOK' /\ PhaseInv' /\ HsInv'
    BY DEF TypeOK, DbTypes, DispatcherTypes, HostSchedulerTypes, PhaseInv, HsInv, TaskAgents,
       Pending
  <1>2. PreJobTasks' = PreJobTasks /\ TaskInv'
    BY DEF TaskInv, PreJobTasks, OpenTasks, TaskAgents, EpilogTasks
  <1>3. MetaInv'
    BY <1>2 DEF MetaInv, AgentAgrees, SeenAgrees, ContAgrees, TaskAgrees, HsAgrees, HasPreJob
  <1>4. QueuedEntryIsFree' /\ OnePreJobTask' /\ HostlessIsIdle'
    BY <1>2 DEF QueuedEntryIsFree, OnePreJobTask, HostlessIsIdle, HasPreJob, Pending
  <1> QED
    BY <1>1, <1>2, <1>3, <1>4

\* Every step of every process preserves the invariant.
LEMMA NextIInv == IInv /\ [Next]_vars => IInv'
  <1> SUFFICES ASSUME IInv, [Next]_vars PROVE IInv'
    OBVIOUS
  <1>1. CASE Frontend
    BY <1>1, AbortHqeIInv, ReverifyHostIInv DEF Frontend
  <1>2. CASE HostScheduler
    BY <1>2, HsLeaseIInv, HsAcquireIInv, HsSetHostIInv, HsActivateIInv, HsPreJobIInv, HsOnPendingIInv,
       HsRunIInv, HsFindUnusedIInv, HsUnleaseIInv DEF HostScheduler
  <1>3. CASE Dispatcher
    <2>1. CASE ScheduleRunning \/ ScheduleSpecial \/ FindAborting \/ HandleAborted \/ EndTick
      BY <2>1, ScheduleRunningIInv, ScheduleSpecialIInv, FindAbortingIInv, HandleAbortedIInv,
         EndTickIInv
    <2>2. CASE Aborting
      BY <2>2, AbortQueueTaskIInv, AbortPostJobIInv, AbortStartingIInv,
         AbortPreJobIInv DEF Aborting
    <2>3. CASE Handle
      <3>1. CASE Epilog
        BY <3>1, EpilogOnPendingIInv, EpilogReadyIInv, RepairFailedIInv, EpilogRepairIInv,
           EpilogRequeueIInv, EpilogGiveUpIInv DEF Epilog
      <3>2. CASE RunIfReady \/ GatherReset \/ \E failed \in BOOLEAN : GatherReboot(failed)
        BY <3>2, RunIfReadyIInv, GatherResetIInv, GatherRebootIInv
      <3>3. CASE \/ \E x \in todo : SkipAgent(x)
                 \/ \E t \in agentNew : StartTask(t)
                 \/ \E t \in agentRun, ok \in BOOLEAN : FinishTask(t, ok)
        BY <3>3, SkipAgentIInv, StartTaskIInv, FinishTaskIInv
      <3>4. CASE \/ \E e \in Entries : StartQueueTask(e) \/ StartGather(e) \/ FinishGather(e)
                                       \/ StartParse(e) \/ FinishParse(e)
                 \/ \E e \in Entries, code \in {"ok", "fail", "signal"} : FinishQueueTask(e, code)
        BY <3>4, StartQueueTaskIInv, StartGatherIInv, FinishGatherIInv, StartParseIInv,
           FinishParseIInv, FinishQueueTaskIInv
      <3> QED
        BY <2>3, <3>1, <3>2, <3>3, <3>4 DEF Handle
    <2>4. CASE Recovery
      BY <2>4, RecoverTasksIInv, RecoverPendingIInv, CheckUnrecoveredIInv,
         ReverifyHostsIInv DEF Recovery
    <2> QED
      BY <1>3, <2>1, <2>2, <2>3, <2>4 DEF Dispatcher
  <1>4. CASE Crash \/ HsCrash
    BY <1>4, CrashIInv, HsCrashIInv
  <1>5. CASE UNCHANGED vars
    BY <1>5, StutterIInv
  <1> QED
    BY <1>1, <1>2, <1>3, <1>4, <1>5 DEF Next

\* The invariant holds in every reachable state.
THEOREM Invariance == Spec => []IInv
  BY InitIInv, NextIInv, PTL DEF Spec

\* Rows and memory keep their types; in particular no special task is created
\* against the NULL host of an entry whose host requeue() took away.
THEOREM TypeCorrect == Spec => []TypeOK
  <1>1. IInv => TypeOK
    BY DEF IInv
  <1> QED
    BY <1>1, Invariance, PTL

\* An entry waiting for a host, or being given one, has no pre-job task: neither
\* a row nor an agent nor an epilog, through aborts, crashes and recoveries.
THEOREM QueuedFree == Spec => []QueuedEntryIsFree
  <1>1. IInv => QueuedEntryIsFree
    BY DEF IInv
  <1> QED
    BY <1>1, Invariance, PTL

\* An entry has at most one pre-job task, and that one against its own host.
THEOREM OnePreJob == Spec => []OnePreJobTask
  <1>1. IInv => OnePreJobTask
    BY DEF IInv
  <1> QED
    BY <1>1, Invariance, PTL

\* An entry without a host is left alone: nothing dereferences its NULL host.
THEOREM HostlessIdle == Spec => []HostlessIsIdle
  <1>1. IInv => HostlessIsIdle
    BY DEF IInv
  <1> QED
    BY <1>1, Invariance, PTL

\* Only StartQueueTask makes an entry Running, and the agent that did is dropped
\* only with a write of the next status; recovery comes before everything else.
LEMMA NextRunningIsWatched ==
  TypeOK /\ RunningIsWatched /\ [Next]_vars => RunningIsWatched'
  <1> SUFFICES ASSUME TypeOK, RunningIsWatched, [Next]_vars, phase' # "down",
                      NEW e \in Entries, hqeStatus'[e] = "Running"
               PROVE  hqeAgent'[e] = "queue"
    BY DEF RunningIsWatched
  <1>0. phase # "down" /\ hqeStatus[e] = "Running" => hqeAgent[e] = "queue"
    BY DEF RunningIsWatched
  <1> USE DEF TypeOK, DbTypes, DispatcherTypes, SetStatus
  <1>1. CASE Frontend \/ HsCrash
    BY <1>0, <1>1 DEF Frontend, AbortHqe, ReverifyHost, HsCrash, entryVars, dispVars
  <1>2. CASE HostScheduler
    BY <1>0, <1>2 DEF HostScheduler, HsLease, HsAcquire, HsSetHost, HsActivate, HsPreJob, HsOnPending,
       HsRun, HsFindUnused, HsUnlease, entryVars, dispVars
  <1>3. CASE ScheduleRunning
    BY <1>0, <1>3 DEF ScheduleRunning, entryVars
  <1>4. CASE ScheduleSpecial \/ FindAborting \/ HandleAborted \/ EndTick
    BY <1>0, <1>4 DEF ScheduleSpecial, FindAborting, HandleAborted, EndTick, entryVars,
       agentVars
  <1>5. CASE Aborting
    <2> SUFFICES ASSUME NEW d \in Entries,
                        AbortQueueTask(d) \/ AbortPostJob(d) \/ AbortStarting(d) \/ AbortPreJob(d)
                 PROVE  hqeAgent'[e] = "queue"
      BY <1>5 DEF Aborting
    <2>1. CASE AbortQueueTask(d)
      BY <1>0, <2>1 DEF AbortQueueTask, Seen
    <2>2. CASE AbortPostJob(d) \/ AbortStarting(d) \/ AbortPreJob(d)
      BY <1>0, <2>2 DEF AbortPostJob, AbortStarting, AbortPreJob, SetAborted, Seen
    <2> QED
      BY <2>1, <2>2
  <1>6. CASE Handle
    <2>0. phase = "handle"
      BY <1>6 DEF Handle, Epilog, SkipAgent, StartTask, FinishTask, EpilogOnPending,
         EpilogReady, RepairFailed, EpilogRepair, EpilogRequeue, EpilogGiveUp, PrejobFailed,
         InEpilog, RunIfReady, GatherReset, GatherReboot, StartQueueTask, StartGather,
         FinishGather, StartParse, FinishParse, FinishQueueTask, Handling
    <2>1. CASE Epilog
      <3>1. CASE EpilogOnPending \/ EpilogReady \/ RepairFailed
        BY <1>0, <2>0, <3>1 DEF EpilogOnPending, EpilogReady, RepairFailed, InEpilog, agentVars
      <3>2. CASE \E t \in Task : EpilogRepair(t) \/ EpilogRequeue(t) \/ EpilogGiveUp(t)
        <4>1. PICK t \in Task : EpilogRepair(t) \/ EpilogRequeue(t) \/ EpilogGiveUp(t)
          BY <3>2
        <4>2. \/ UNCHANGED hqeStatus
              \/ /\ t.hqe \in Entries
                 /\ SetStatus(t.hqe, "Queued") \/ SetStatus(t.hqe, "Parsing")
          BY <4>1 DEF EpilogRepair, EpilogRequeue, EpilogGiveUp, Task
        <4>3. UNCHANGED hqeAgent
          BY <4>1 DEF EpilogRepair, EpilogRequeue, EpilogGiveUp, PrejobFailed, InEpilog,
             agentVars
        <4> QED
          BY <1>0, <2>0, <4>2, <4>3
      <3> QED
        BY <2>1, <3>1, <3>2 DEF Epilog
    <2>2. CASE RunIfReady \/ GatherReset \/ \E failed \in BOOLEAN : GatherReboot(failed)
      BY <1>0, <2>0, <2>2 DEF RunIfReady, GatherReset, GatherReboot, entryVars, agentVars
    <2>3. CASE \/ \E x \in todo : SkipAgent(x)
               \/ \E t \in agentRun, ok \in BOOLEAN : FinishTask(t, ok)
      BY <1>0, <2>0, <2>3 DEF SkipAgent, FinishTask, entryVars, agentVars
    <2>4. CASE \E t \in agentNew : StartTask(t)
      <3>1. PICK t \in agentNew : StartTask(t)
        BY <2>4
      <3>2. StatusOf(t.kind) # "Running"
        <4>1. t.kind \in Kinds
          BY DEF Task
        <4> QED
          BY <4>1, StatusOfKind DEF HandledStatuses
      <3> QED
        BY <1>0, <2>0, <3>1, <3>2 DEF StartTask
    <2>5. CASE \E d \in Entries : StartQueueTask(d) \/ StartGather(d) \/ StartParse(d)
      BY <1>0, <2>0, <2>5 DEF StartQueueTask, StartGather, StartParse, entryVars
    <2>6. CASE \E d \in Entries : FinishGather(d) \/ FinishParse(d)
      BY <1>0, <2>0, <2>6 DEF FinishGather, FinishParse
    <2>7. CASE \E d \in Entries, code \in {"ok", "fail", "signal"} : FinishQueueTask(d, code)
      <3>1. PICK d \in Entries, code \in {"ok", "fail", "signal"} : FinishQueueTask(d, code)
        BY <2>7
      <3> QED
        BY <1>0, <2>0, <3>1 DEF FinishQueueTask
    <2> QED
      BY <1>6, <2>1, <2>2, <2>3, <2>4, <2>5, <2>6, <2>7, SMTT(30) DEF Handle
  <1>7. CASE Recovery
    <2>1. CASE \E found \in SUBSET Recoverable : RecoverTasks(found)
      BY <2>1 DEF RecoverTasks, HandledStatuses, AgentKind, entryVars
    <2>2. CASE RecoverPending
      BY <1>0, <2>2 DEF RecoverPending, agentVars
    <2>3. CASE CheckUnrecovered
      BY <1>0, <2>3 DEF CheckUnrecovered, agentVars
    <2>4. CASE ReverifyHosts
      BY <1>0, <2>4 DEF ReverifyHosts, entryVars, agentVars
    <2> QED
      BY <1>7, <2>1, <2>2, <2>3, <2>4 DEF Recovery
  <1>8. CASE Crash
    BY <1>8 DEF Crash
  <1>9. CASE UNCHANGED vars
    BY <1>0, <1>9 DEF vars, entryVars, dispVars
  <1> QED
    BY <1>1, <1>2, <1>3, <1>4, <1>5, <1>6, <1>7, <1>8, <1>9 DEF Next, Dispatcher

\* While the dispatcher is up, a Running entry has the agent that polls its
\* autoserv process: neither an abort nor a crash and recovery orphans a job.
THEOREM RunningWatched == Spec => []RunningIsWatched
  <1>1. Init => RunningIsWatched
    BY DEF Init, RunningIsWatched
  <1> QED
    BY <1>1, NextRunningIsWatched, TypeCorrect, PTL DEF Spec

=============================================================================
