-------------------------- MODULE JobSchedulerInv ---------------------------
(***************************************************************************)
(* The inductive invariant of the job scheduler: what has to be true with  *)
(* TypeOK, QueuedEntryIsFree, OnePreJobTask and HostlessIsIdle for every   *)
(* step of every process to preserve them.                                 *)
(***************************************************************************)
EXTENDS JobScheduler

\* what the dispatcher holds in the middle of a handler belongs to one phase
PhaseInv ==
    /\ phase # "handle" => cont = None
    /\ phase # "aborting" => \A e \in Entries : seen[e] = NotSeen
    /\ phase \in {"pending", "unrecovered", "reverify"} => TaskAgents \subseteq running

\* the entry the host scheduler is starting is no longer waiting for a host once it is
\* active, and has the host it was given before that
HsInv ==
    /\ hsPhase \in {"activate", "prejob", "run"} => hsEntry # None
    /\ \A e \in Entries : hsEntry = e /\ hsPhase # "activate" => hsJobs[e] = None /\ ~Pending(e)
    /\ \A e \in Entries : hsEntry = e /\ hsPhase = "activate" => hsJobs[e] # None
    /\ \A e \in Entries : hsJobs[e] # None => hqeHost[e] \in {None, hsJobs[e]}
    /\ \A e \in Entries : hsJobs[e] # None /\ hsEntry = e => hqeHost[e] = hsJobs[e]
    /\ \A e \in Entries : hsJobs[e] # None \/ hsEntry = e => hqeStatus[e] # "Resetting"

\* a task has one agent, which its epilog no longer is; Resetting means Reset
TaskInv ==
    /\ agentNew \cap agentRun = {}
    /\ \A t \in EpilogTasks : t \notin TaskAgents \cup running
    /\ \A t \in PreJobTasks : hqeStatus[t.hqe] = "Resetting" => t.kind = "Reset"

\* the agent of an entry is the one its status calls for ...
AgentAgrees(e) ==
    /\ hqeAgent[e] = "queue" => hqeStatus[e] \in {"Starting", "Running"}
    /\ hqeAgent[e] = "gather" => hqeStatus[e] = "Gathering"
    /\ hqeAgent[e] = "parse" => hqeStatus[e] = "Parsing"

\* ... also in the rows _find_aborting fetched ...
SeenAgrees(e) ==
    seen[e] # NotSeen =>
        /\ hqeAgent[e] = "gather" => seen[e].status = "Gathering"
        /\ hqeAgent[e] = "parse" => seen[e].status = "Parsing"

\* ... and the rest of a handler finds the status its first write left
ContAgrees(e) ==
    cont # None /\ cont.op # "epilog" /\ cont.hqe = e =>
        /\ cont.op = "run" => hqeStatus[e] = "Pending" /\ hsEntry # e
        /\ cont.op # "run" => hqeStatus[e] = "Parsing"

\* an entry with a pre-job task has not got further than that task
TaskAgrees(e) == HasPreJob(e) => hqeStatus[e] \notin HandledStatuses \cup {"Pending"}

\* an entry the host scheduler is about to start was at most aborted meanwhile
HsAgrees(e) ==
    hsJobs[e] # None \/ (hsEntry = e /\ hsPhase = "prejob") =>
        hqeStatus[e] \in {"Queued", "Aborted"}

\* All that of a metahost entry, the kind that requeue() separates from its host.
MetaInv ==
    \A e \in MetaHost : /\ AgentAgrees(e) /\ SeenAgrees(e) /\ ContAgrees(e)
                        /\ TaskAgrees(e) /\ HsAgrees(e)

\* The conjunction is inductive: each part is preserved by every action that
\* may disturb it, given the others.
IInv == /\ TypeOK /\ PhaseInv /\ HsInv /\ TaskInv /\ MetaInv
        /\ QueuedEntryIsFree /\ OnePreJobTask /\ HostlessIsIdle
=============================================================================
