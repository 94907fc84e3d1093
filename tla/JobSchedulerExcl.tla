-------------------------- MODULE JobSchedulerExcl ---------------------------
(***************************************************************************)
(* Why a host serves one job at a time when no user aborts entries: the    *)
(* inductive invariant behind exclusivity.  Either process may crash.      *)
(***************************************************************************)
EXTENDS JobSchedulerInv

PreJobStatuses == {"Queued", "Verifying", "Cleaning", "Resetting", "Provisioning"}
LateStatuses   == {"Running", "Gathering", "Parsing"} \cup CompleteStatuses
OverStatuses   == {"Parsing"} \cup CompleteStatuses

\* between the active bit and the first task of an entry
Assigning(e) == hsEntry = e /\ hsPhase = "prejob"

\* the agent, the tasks, an open handler and an assignment of an entry all know
\* how far it has come
EntryInv ==
    \A e \in Entries :
        /\ AgentAgrees(e) /\ ContAgrees(e)
        /\ HasPreJob(e) => hqeStatus[e] \in PreJobStatuses
        /\ hsJobs[e] # None \/ Assigning(e) => hqeStatus[e] = "Queued"

\* whoever will write an active status finds the active bit set
ActiveInv ==
    \A e \in Entries :
        hqeStatus[e] \in ActiveStatuses \/ HasPreJob(e) \/ Assigning(e) => e \in active

\* only _check_queue_entry_statuses aborts: entries whose job has begun
AbortInv ==
    \A e \in Entries :
        /\ e \in aborted => hqeStatus[e] \in LateStatuses
        /\ hqeStatus[e] \in CompleteStatuses => e \in complete
        /\ seen[e] # NotSeen =>
              e \in aborted /\ (hqeAgent[e] = "queue" \/ seen[e].status \in {"Gathering", "Parsing"})

\* leased, about neither to be released nor to be given away
Held(h) == h \in leased \ hsRelease /\ \A e \in Entries : hsJobs[e] # h

LeaseInv ==
    /\ \A e \in active : hqeHost[e] \in Hosts /\ Held(hqeHost[e])
    /\ OneJobPerHost
    /\ \A e \in Entries : hsJobs[e] # None => hsJobs[e] \in leased
    /\ \A d, e \in Entries : d # e /\ hsJobs[d] # None => hsJobs[d] # hsJobs[e]
    /\ hsRelease # {} => hsPhase = "unlease"
    /\ hsPhase \in {"lease", "acquire", "unlease"} => \A e \in Entries : hsJobs[e] = None

\* an entry submitted for a host keeps it
OwnHostInv ==
    \A e \in Entries \ MetaHost :
        /\ hqeHost[e] = HostOf[e]
        /\ hsJobs[e] \in {None, HostOf[e]}

\* the tasks that work on their host; recovery finds those of the table again
BusyTasks == TaskAgents \cup running \cup EpilogTasks

OneTaskInv ==
    /\ \A s, t \in BusyTasks : s.host = t.host => s = t
    /\ phase # "down" => running \subseteq TaskAgents

\* a repair whose failure would fail its entry
Decisive(t) ==
    /\ t.kind = "Repair" /\ t.hqe \in Entries \ MetaHost
    /\ hqeStatus[t.hqe] \notin OverStatuses

\* until such a repair has ended nobody, its entry included, gets the host
RepairInv ==
    \A t \in OpenTasks : Decisive(t) =>
        /\ t.host = HostOf[t.hqe]
        /\ Held(t.host) /\ ActiveOn(t.host) = {}
        /\ t \in TaskAgents => t \in queued \cup running
        /\ t \in running \cup agentRun \cup EpilogTasks => hostStatus[t.host] = "Repairing"
        /\ cont # None /\ cont.op = "reboot" => hqeHost[cont.hqe] # t.host

ExclInv == /\ EntryInv /\ ActiveInv /\ AbortInv /\ LeaseInv /\ OwnHostInv
           /\ OneTaskInv /\ RepairInv

\* all that every step preserves if nobody aborts entries
XInv == IInv /\ RunningIsWatched /\ ExclInv

\* besides, while the dispatcher does not restart, no entry and no task have
\* agents on the same host
AgentInv ==
    /\ crashes = 0 /\ phase \notin {"down", "pending", "unrecovered", "reverify"}
    /\ \A t \in TaskAgents, e \in Entries :
          hqeAgent[e] \in {"queue", "gather"} => hqeHost[e] # t.host
=============================================================================
