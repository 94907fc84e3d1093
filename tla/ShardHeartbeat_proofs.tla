----------------------- MODULE ShardHeartbeat_proofs -----------------------
(***************************************************************************)
(* Proofs about ShardHeartbeat: its inductive invariant, that no job with  *)
(* one entry is forgotten, and that its end on the master is final.        *)
(***************************************************************************)
EXTENDS ShardHeartbeat, TLAPS

\* The start: nothing has been sent or received.
LEMMA InitInv == Init => ShardInv
<1> SUFFICES ASSUME Init PROVE ShardInv
  OBVIOUS
<1> USE ShardAssumption
<1> PICK load \in Loads :
      /\ mHqe = [e \in Entries |-> IF JobOf[e] \in load.jobs THEN NewRow ELSE OldRow]
      /\ boardHosts = load.hosts
      /\ mStatus = [h \in Hosts |-> IF h \in load.hosts THEN InitStatus ELSE None]
      /\ failures = load.failures
  BY DEF Init
<1>1. NoRows \in Rows /\ NoHosts \in Known
  BY DEF NoRows, NoHosts, Rows, Known
<1>2. NoPacket \in Packet /\ NoAnswer \in Answer
  BY <1>1 DEF NoPacket, NoAnswer, Packet, Answer
<1>3. NewRow \in Row /\ OldRow \in Row
  BY DEF NewRow, OldRow, Row, Final
<1>4. TypeOK
  <2>1. mStatus \in Known /\ load.hosts \subseteq {h \in Hosts : mStatus[h] # None}
    BY DEF Known
  <2>2. load.failures \in 0..MaxFailures
    OBVIOUS
  <2> QED
    BY <1>1, <1>2, <1>3, <2>1, <2>2 DEF Init, TypeOK, HandlersOK
<1>5. UploadsAreFinal
  BY DEF Init, UploadsAreFinal, NoPacket, NewRow, OldRow
<1>6. AnswersAreWhole
  BY DEF Init, AnswersAreWhole, NoAnswer, At
<1> QED
  BY <1>4, <1>5, <1>6 DEF ShardInv

-----------------------------------------------------------------------------
(* Every action keeps the types.                                           *)

LEMMA RowUpdates ==
  ASSUME NEW r \in Row, NEW st \in {"Queued", "Running"} \cup Final, NEW b \in BOOLEAN
  PROVE  /\ [r EXCEPT !.status = st, !.active = b] \in Row
         /\ [r EXCEPT !.complete = TRUE] \in Row
         /\ [r EXCEPT !.aborted = b] \in Row
         /\ [r EXCEPT !.status = st, !.active = b, !.complete = TRUE] \in Row
<1>1. [r EXCEPT !.status = st] \in Row
  BY DEF Row
<1>2. \A q \in Row : [q EXCEPT !.active = b] \in Row
  BY DEF Row
<1>3. \A q \in Row : [q EXCEPT !.complete = TRUE] \in Row
  BY DEF Row
<1>4. [r EXCEPT !.aborted = b] \in Row
  BY DEF Row
<1>5. [[r EXCEPT !.status = st] EXCEPT !.active = b] \in Row
  BY <1>1, <1>2
<1>6. [[[r EXCEPT !.status = st] EXCEPT !.active = b] EXCEPT !.complete = TRUE] \in Row
  BY <1>3, <1>5
<1> QED
  BY <1>3, <1>4, <1>5, <1>6

LEMMA MasterType ==
  ASSUME TypeOK, MasterNext
  PROVE  TypeOK'
<1> USE DEF TypeOK, HandlersOK, shardVars, clientVars
<1>1. ASSUME NEW e \in Entries, Abort(e) PROVE TypeOK'
  BY <1>1 DEF Abort, Row
<1>2. ASSUME NEW e \in Entries, FetchAborted(e) PROVE TypeOK'
  BY <1>2 DEF FetchAborted
<1>3. CASE AbortOnMaster
  <2>1. mAborting.entry \in Entries
    BY <1>3 DEF AbortOnMaster
  <2>2. [mHqe[mAborting.entry] EXCEPT !.status = "Aborted", !.active = FALSE] \in Row
    BY <2>1, RowUpdates DEF Final
  <2> QED
    BY <1>3, <2>1, <2>2 DEF AbortOnMaster
<1>4. CASE UnshardOnMaster
  BY <1>4 DEF UnshardOnMaster
<1>5. CASE CompleteOnMaster
  <2>1. mAborting.entry \in Entries
    BY <1>5 DEF CompleteOnMaster
  <2>2. [mHqe[mAborting.entry] EXCEPT !.complete = TRUE] \in Row
    BY <2>1 DEF Row
  <2> QED
    BY <1>5, <2>1, <2>2 DEF CompleteOnMaster
<1>6. ASSUME NEW h \in Hosts, Lease(h) \/ Release(h) PROVE TypeOK'
  BY <1>6 DEF Lease, Release
<1>7. ASSUME NEW h \in Hosts, AddBoard(h) PROVE TypeOK'
  BY <1>7 DEF AddBoard
<1>8. ASSUME NEW h \in Hosts, RemoveBoard(h) PROVE TypeOK'
  BY <1>8 DEF RemoveBoard
<1> QED
  BY <1>1, <1>2, <1>3, <1>4, <1>5, <1>6, <1>7, <1>8 DEF MasterNext, FindAborting, AbortAnyway

LEMMA SchedulerType ==
  ASSUME TypeOK, ShardScheduler \/ \E h \in Hosts, st \in Statuses : SetHostStatus(h, st)
  PROVE  TypeOK'
<1> USE ShardAssumption DEF TypeOK, HandlersOK, masterVars, clientVars
<1>1. ASSUME NEW e \in Entries, Start(e) PROVE TypeOK'
  <2>1. [sHqe[e] EXCEPT !.status = "Running", !.active = TRUE] \in Row
    BY <1>1, RowUpdates DEF Start, Rows
  <2> QED
    BY <1>1, <2>1 DEF Start, Rows
<1>2. ASSUME NEW e \in Entries, NEW st \in Final, SetStatus(e, st) PROVE TypeOK'
  <2>1. [sHqe[e] EXCEPT !.status = st, !.active = FALSE] \in Row
    BY <1>2, RowUpdates DEF SetStatus, Rows
  <2> QED
    BY <1>2, <2>1 DEF SetStatus, Rows
<1>3. CASE OnComplete
  BY <1>3 DEF OnComplete
<1>4. CASE SetComplete
  <2>1. sEnding.entry \in Entries /\ sHqe[sEnding.entry] \in Row
    BY <1>4 DEF SetComplete, Rows
  <2>2. [sHqe[sEnding.entry] EXCEPT !.complete = TRUE] \in Row
    BY <2>1 DEF Row
  <2> QED
    BY <1>4, <2>1, <2>2 DEF SetComplete, Rows
<1>5. ASSUME NEW h \in Hosts, NEW st \in Statuses, SetHostStatus(h, st) PROVE TypeOK'
  BY <1>5 DEF SetHostStatus, Known
<1> QED
  BY <1>1, <1>2, <1>3, <1>4, <1>5 DEF ShardScheduler, Complete, AbortOnShard, Final

\* The client saves rows of the right type, and no row is lost.
LEMMA SavedRows ==
  ASSUME TypeOK, AnswersAreWhole, snap # None, NEW saved \in SUBSET EntriesOf(snap.job),
         SaveRows(saved)
  PROVE  /\ sHqe' \in Rows /\ answer' \in Answer
         /\ \A e \in Entries : sHqe[e] # None => sHqe'[e] # None
<1> USE ShardAssumption DEF TypeOK
<1>1. ASSUME NEW e \in saved PROVE e \in Entries /\ Deserialized(e) \in Row
  <2>1. e \in Entries /\ answer.rows[e] \in Row
    BY <1>1 DEF AnswersAreWhole, EntriesOf, Answer, Rows
  <2>2. CASE snap.rows[e] = None
    BY <2>1, <2>2 DEF Deserialized
  <2>3. CASE snap.rows[e] # None
    <3>1. snap.rows[e] \in Row /\ answer.rows[e].aborted \in BOOLEAN
      BY <2>1, <2>3 DEF Rows, Row
    <3>2. [snap.rows[e] EXCEPT !.aborted = answer.rows[e].aborted] \in Row
      BY <3>1 DEF Row
    <3> QED
      BY <2>1, <2>3, <3>2 DEF Deserialized
  <2> QED
    BY <2>2, <2>3
<1>2. sHqe' \in Rows /\ \A e \in Entries : sHqe[e] # None => sHqe'[e] # None
  BY <1>1 DEF SaveRows, Rows
<1>3. answer' \in Answer
  BY DEF SaveRows, Answer
<1> QED
  BY <1>2, <1>3

LEMMA ClientType ==
  ASSUME TypeOK, AnswersAreWhole, Client \/ Fail \/ SaveHostsFails \/ SaveJobFails \/ Crash
  PROVE  TypeOK'
<1> USE DEF TypeOK, HandlersOK, masterVars, shardVars, clientVars
<1>0. NoPacket \in Packet /\ NoAnswer \in Answer
  BY DEF NoPacket, NoAnswer, Packet, Answer, NoRows, NoHosts, Rows, Known
<1>1. CASE ReadKnown
  <2>1. packet' \in Packet
    BY <1>0, <1>1 DEF ReadKnown, Packet, NoPacket
  <2> QED
    BY <1>1, <2>1 DEF ReadKnown
<1>2. CASE ReadUpload
  <2>1. packet' \in Packet
    BY <1>2 DEF ReadUpload, Packet
  <2> QED
    BY <1>2, <2>1 DEF ReadUpload
<1>3. CASE ReadRows
  <2>1. [e \in Entries |-> IF JobOf[e] \in packet.jobs THEN sHqe[e] ELSE None] \in Rows
    BY DEF Rows
  <2>2. packet' \in Packet
    BY <1>3, <2>1 DEF ReadRows, Packet
  <2> QED
    BY <1>3, <2>2 DEF ReadRows
<1>4. CASE Send
  <2>1. packet.jobs \subseteq Jobs /\ KnownHosts(packet) \subseteq Hosts
    BY DEF Packet, KnownHosts
  <2>2. rpc'["awaited"] \in Rpc /\ rpc'["late"] = rpc["late"]
    BY <1>0, <1>4, <2>1 DEF Send, Rpc
  <2>3. /\ rpc'["awaited"].packet = packet /\ rpc'["awaited"].row = None
        /\ \/ rpc'["awaited"].stage = "jobs" /\ rpc'["awaited"].todo = packet.jobs
           \/ rpc'["awaited"].stage = "hosts" /\ rpc'["awaited"].todo = KnownHosts(packet)
    BY <1>4 DEF Send
  <2>4. HandlersOK'
    BY <2>1, <2>2, <2>3 DEF HandlerOK
  <2> QED
    BY <1>4, <2>2, <2>4 DEF Send
<1>5. CASE Receive
  <2>1. answer' \in Answer
    BY <1>5 DEF Receive, At, Rpc
  <2> QED
    BY <1>5, <2>1 DEF Receive
<1>6. CASE Mark
  BY <1>0, <1>6 DEF Mark
<1>7. CASE SaveHosts
  <2>1. sHosts' \in Known
    BY <1>7 DEF SaveHosts, Saved, Known, Answer
  <2> QED
    BY <1>7, <2>1 DEF SaveHosts
<1>16. CASE SaveHostsFails
  <2>1. sHosts' \in Known
    BY <1>16 DEF SaveHostsFails, Saved, Known, Answer
  <2>2. failures' \in 0..MaxFailures
    BY <1>16, ShardAssumption DEF SaveHostsFails
  <2> QED
    BY <1>16, <2>1, <2>2 DEF SaveHostsFails
<1>8. ASSUME NEW j \in Jobs, ReadJob(j) PROVE TypeOK'
  BY <1>8 DEF ReadJob
<1>9. CASE SaveJob
  <2>1. /\ sHqe' \in Rows /\ answer' \in Answer
        /\ \A e \in Entries : sHqe[e] # None => sHqe'[e] # None
    BY <1>9, SavedRows DEF SaveJob
  <2> QED
    BY <1>9, <2>1 DEF SaveJob, SaveRows
<1>10. CASE SaveJobFails
  <2>1. PICK saved \in SUBSET EntriesOf(snap.job) : SaveRows(saved)
    BY <1>10 DEF SaveJobFails
  <2>2. /\ sHqe' \in Rows /\ answer' \in Answer
        /\ \A e \in Entries : sHqe[e] # None => sHqe'[e] # None
    BY <1>10, <2>1, SavedRows DEF SaveJobFails
  <2>3. failures' \in 0..MaxFailures
    BY <1>10, ShardAssumption DEF SaveJobFails
  <2> QED
    BY <1>10, <2>1, <2>2, <2>3 DEF SaveJobFails, SaveRows
<1>11. CASE JobsSaved
  BY <1>11 DEF JobsSaved
<1>12. CASE Reset
  <2>1. sHosts' \in Known
    BY <1>12 DEF Reset, Known
  <2> QED
    BY <1>0, <1>12, <2>1 DEF Reset
<1>13. ASSUME Abandon PROVE rpc' \in [{"awaited", "late"} -> Rpc \cup {None}] /\ HandlersOK'
  BY <1>13 DEF Abandon, HandlersOK
<1>14. CASE Fail
  <2>1. failures' \in 0..MaxFailures
    BY <1>14, ShardAssumption DEF Fail
  <2> QED
    BY <1>0, <1>13, <1>14, <2>1 DEF Fail
<1>15. CASE Crash
  <2>1. failures' \in 0..MaxFailures
    BY <1>15, ShardAssumption DEF Crash
  <2> QED
    BY <1>0, <1>13, <1>15, <2>1 DEF Crash
<1> QED
  BY <1>1, <1>2, <1>3, <1>4, <1>5, <1>6, <1>7, <1>8, <1>9, <1>10, <1>11, <1>12, <1>14, <1>15,
     <1>16 DEF Client

\* What a step of a handler leaves alone: the shard, the client, the other handler and
\* the packet it works on.
Frame(x) ==
    /\ rpc[x] \in Rpc /\ rpc[x] # None
    /\ UNCHANGED <<sHqe, sJob, sHosts, sShard, sEnding, pc, packet, answer, snap, failures>>
    /\ \A y \in {"awaited", "late"} : y # x => rpc'[y] = rpc[y]
    /\ rpc'[x] # None => rpc'[x].packet = rpc[x].packet
    /\ mHqe' = mHqe \/ PersistEntries(x)
    /\ At(x, "answer")' => AssignJobs(x)

LEMMA HandlerFrame ==
  ASSUME TypeOK, NEW x \in {"awaited", "late"}, Handler(x)
  PROVE  Frame(x)
<1> USE DEF Frame, shardVars, clientVars, masterVars
<1>0. rpc \in [{"awaited", "late"} -> Rpc \cup {None}]
  BY DEF TypeOK
<1>a. ASSUME rpc[x] # None PROVE rpc[x] \in Rpc
  BY <1>0, <1>a
<1>1. ASSUME NEW j \in Jobs, GetJob(x, j) PROVE Frame(x)
  BY <1>0, <1>1 DEF GetJob, At, Rpc
<1>2. CASE PersistJob(x)
  BY <1>0, <1>2 DEF PersistJob, At, Rpc
<1>3. CASE PersistEntries(x)
  BY <1>0, <1>3 DEF PersistEntries, At, Rpc
<1>4. ASSUME NEW h \in Hosts, GetHost(x, h) PROVE Frame(x)
  BY <1>0, <1>4 DEF GetHost, At, Rpc
<1>5. CASE SaveHost(x)
  BY <1>0, <1>5 DEF SaveHost, At, Rpc
<1>6. CASE SelectHosts(x)
  BY <1>0, <1>6 DEF SelectHosts, Selecting, At, Rpc
<1>7. CASE AssignHosts(x)
  BY <1>0, <1>7 DEF AssignHosts, At, Rpc
<1>8. CASE RereadHosts(x)
  BY <1>0, <1>8 DEF RereadHosts, At, Rpc
<1>9. CASE FindIncorrect(x)
  BY <1>0, <1>9 DEF FindIncorrect, At, Rpc
<1>10. CASE SelectJobs(x)
  BY <1>0, <1>10 DEF SelectJobs, At, Rpc
<1>11. CASE AssignJobs(x)
  BY <1>0, <1>11 DEF AssignJobs, At, Rpc
<1> QED
  BY <1>1, <1>2, <1>3, <1>4, <1>5, <1>6, <1>7, <1>8, <1>9, <1>10, <1>11 DEF Handler

LEMMA HandlerType ==
  ASSUME TypeOK, NEW x \in {"awaited", "late"}, Handler(x)
  PROVE  TypeOK'
<1> USE DEF TypeOK
<1>0. /\ rpc[x] \in Rpc /\ rpc[x] # None
      /\ UNCHANGED <<sHqe, sJob, sHosts, sShard, sEnding, pc, packet, answer, snap, failures>>
  BY HandlerFrame DEF Frame
<1>h. HandlersOK /\ HandlerOK(rpc[x])
  BY <1>0 DEF HandlersOK
<1>r. ASSUME NEW r \in Rpc, HandlerOK(r), rpc' = [rpc EXCEPT ![x] = r]
      PROVE  rpc' \in [{"awaited", "late"} -> Rpc \cup {None}] /\ HandlersOK'
  BY <1>h, <1>r DEF HandlersOK
<1>1. ASSUME NEW j \in Jobs, GetJob(x, j) PROVE TypeOK'
  <2> DEFINE r == [rpc[x] EXCEPT !.todo = @ \ {j}, !.row = [job |-> j, sharded |-> j \in mJobs]]
  <2>0. [job |-> j, sharded |-> j \in mJobs] \in [job : Jobs, sharded : BOOLEAN]
    OBVIOUS
  <2>1. r \in Rpc
    BY <1>0, <2>0 DEF Rpc
  <2>2. HandlerOK(r)
    BY <1>0, <1>1, <1>h, <2>0 DEF HandlerOK, GetJob, At, Rpc
  <2>3. rpc' = [rpc EXCEPT ![x] = r]
    BY <1>1 DEF GetJob
  <2> QED
    BY <1>0, <1>1, <1>r, <2>1, <2>2, <2>3 DEF GetJob, masterVars
<1>2. CASE PersistJob(x)
  <2> DEFINE r == [rpc[x] EXCEPT !.row = None]
  <2>1. r \in Rpc
    BY <1>0 DEF Rpc
  <2>2. HandlerOK(r) /\ rpc[x].row.job \in Jobs
    BY <1>0, <1>2, <1>h DEF HandlerOK, PersistJob, At, Rpc
  <2>3. rpc' = [rpc EXCEPT ![x] = r]
    BY <1>2 DEF PersistJob
  <2> QED
    BY <1>0, <1>2, <1>r, <2>1, <2>2, <2>3 DEF PersistJob
<1>3. CASE PersistEntries(x)
  <2> DEFINE r == [rpc[x] EXCEPT !.stage = "hosts", !.todo = KnownHosts(rpc[x].packet)]
  <2>1. r \in Rpc
    BY <1>0 DEF Rpc, KnownHosts
  <2>2. HandlerOK(r)
    BY <1>0, <1>3 DEF HandlerOK, PersistEntries, Rpc
  <2>3. rpc' = [rpc EXCEPT ![x] = r]
    BY <1>3 DEF PersistEntries
  <2>4. mHqe' \in [Entries -> Row]
    BY <1>0, <1>3 DEF PersistEntries, Rpc, Packet, Rows
  <2> QED
    BY <1>0, <1>3, <1>r, <2>1, <2>2, <2>3, <2>4 DEF PersistEntries
<1>4. ASSUME NEW h \in Hosts, GetHost(x, h) PROVE TypeOK'
  <2> DEFINE row == IF mStatus[h] = rpc[x].packet.hosts[h] THEN None
                    ELSE [host |-> h, leased |-> h \in mLeased, sharded |-> h \in mHosts]
             r == [rpc[x] EXCEPT !.todo = @ \ {h}, !.row = row]
  <2>1. row = None \/ row \in [host : {h}, leased : BOOLEAN, sharded : BOOLEAN]
    OBVIOUS
  <2>2. r \in Rpc
    BY <1>0, <2>1 DEF Rpc
  <2>3. h \in KnownHosts(rpc[x].packet) /\ rpc[x].stage = "hosts"
    BY <1>4, <1>h DEF HandlerOK, GetHost, At
  <2>4. HandlerOK(r)
    BY <1>0, <1>4, <1>h, <2>1, <2>3 DEF HandlerOK, Rpc
  <2>5. rpc' = [rpc EXCEPT ![x] = r]
    BY <1>4 DEF GetHost
  <2> QED
    BY <1>0, <1>4, <1>r, <2>2, <2>4, <2>5 DEF GetHost, masterVars
<1>5. CASE SaveHost(x)
  <2> DEFINE r == [rpc[x] EXCEPT !.row = None]
  <2>1. r \in Rpc
    BY <1>0 DEF Rpc
  <2>2. HandlerOK(r) /\ rpc[x].row.host \in KnownHosts(rpc[x].packet)
    BY <1>0, <1>5, <1>h DEF HandlerOK, SaveHost, At, Rpc
  <2>3. rpc' = [rpc EXCEPT ![x] = r]
    BY <1>5 DEF SaveHost
  <2>4. PICK h \in Hosts : h = rpc[x].row.host /\ rpc[x].packet.hosts[h] # None
    BY <2>2 DEF KnownHosts
  <2>5. rpc[x].packet.hosts \in Known
    BY <1>0 DEF Rpc, Packet
  <2>6. mStatus' \in Known /\ \A g \in Hosts : mStatus'[g] # None <=> mStatus[g] # None \/ g = h
    BY <1>5, <2>4, <2>5 DEF SaveHost, Known
  <2>7. /\ mLeased' \subseteq mLeased \cup {h} /\ mHosts' \subseteq mHosts \cup {h}
        /\ UNCHANGED <<mHqe, mJobs, boardHosts, mAborting>>
    BY <1>5, <2>4 DEF SaveHost
  <2> QED
    BY <1>0, <1>r, <2>1, <2>2, <2>3, <2>6, <2>7
<1>6. CASE SelectHosts(x)
  <2> DEFINE hosts == {h \in boardHosts \ mLeased : rpc[x].packet.hosts[h] = None}
             sel == [h \in Hosts |-> IF h \in hosts THEN mStatus[h] ELSE None]
             stage == IF hosts # {} THEN "shard" ELSE IF x = "late" THEN "select" ELSE "incorrect"
             r == [[rpc[x] EXCEPT !.stage = stage] EXCEPT !.answer.hosts = sel]
  <2>1. sel \in Known
    BY DEF Known
  <2>2. r \in Rpc
    BY <1>0, <2>1 DEF Rpc, Answer
  <2>3. HandlerOK(r)
    BY <1>0, <1>6 DEF HandlerOK, SelectHosts, Selecting, Rpc
  <2>4. rpc' = [rpc EXCEPT ![x] = r]
    BY <1>0, <1>6 DEF SelectHosts, Selecting
  <2> QED
    BY <1>0, <1>6, <1>r, <2>2, <2>3, <2>4 DEF SelectHosts, Selecting, masterVars
<1>7. CASE AssignHosts(x)
  <2>1. mHosts' = mHosts \cup ((Selected(x) \cap boardHosts) \ mLeased)
        /\ UNCHANGED <<mHqe, mJobs, boardHosts, mStatus, mLeased, mAborting>>
    BY <1>7 DEF AssignHosts
  <2> DEFINE r == [rpc[x] EXCEPT !.stage = "reread"]
             l == [rpc[x] EXCEPT !.stage = "select", !.answer = NoAnswer]
  <2>2. r \in Rpc /\ l \in Rpc
    BY <1>0 DEF Rpc, NoAnswer, Answer, NoRows, NoHosts, Rows, Known
  <2>3. HandlerOK(r) /\ HandlerOK(l)
    BY <1>0, <1>7, <1>h DEF HandlerOK, AssignHosts, At, Rpc
  <2>4. rpc' = [rpc EXCEPT ![x] = r] \/ rpc' = [rpc EXCEPT ![x] = l]
    BY <1>7 DEF AssignHosts
  <2>5. rpc' \in [{"awaited", "late"} -> Rpc \cup {None}] /\ HandlersOK'
    BY <1>r, <2>2, <2>3, <2>4
  <2> QED
    BY <1>0, <2>1, <2>5
<1>8. CASE RereadHosts(x)
  <2> DEFINE hosts == [h \in Hosts |-> IF h \in Selected(x) \cap mHosts THEN mStatus[h] ELSE None]
             r == [[rpc[x] EXCEPT !.stage = "incorrect"] EXCEPT !.answer.hosts = hosts]
  <2>1. hosts \in Known
    BY DEF Known
  <2>2. r \in Rpc
    BY <1>0, <2>1 DEF Rpc, Answer
  <2>3. HandlerOK(r)
    BY <1>0, <1>8, <1>h DEF HandlerOK, RereadHosts, At, Rpc
  <2>4. rpc' = [rpc EXCEPT ![x] = r]
    BY <1>8 DEF RereadHosts
  <2> QED
    BY <1>0, <1>8, <1>r, <2>2, <2>3, <2>4 DEF RereadHosts, masterVars
<1>9. CASE FindIncorrect(x)
  <2> DEFINE incorrect == KnownHosts(rpc[x].packet) \ mHosts
             r == [[rpc[x] EXCEPT !.stage = "select"] EXCEPT !.answer.incorrect = incorrect]
  <2>1. incorrect \in SUBSET Hosts
    BY DEF KnownHosts
  <2>2. r \in Rpc
    BY <1>0, <2>1 DEF Rpc, Answer
  <2>3. HandlerOK(r)
    BY <1>0, <1>9, <1>h DEF HandlerOK, FindIncorrect, At, Rpc
  <2>4. rpc' = [rpc EXCEPT ![x] = r]
    BY <1>9 DEF FindIncorrect
  <2> QED
    BY <1>0, <1>9, <1>r, <2>2, <2>3, <2>4 DEF FindIncorrect, masterVars
<1>10. CASE SelectJobs(x)
  <2> DEFINE jobs == {j \in Jobs : Eligible(j, rpc[x].packet.known)}
             r == [[rpc[x] EXCEPT !.stage = "assign"] EXCEPT !.answer.jobs = jobs]
  <2>1. r \in Rpc
    BY <1>0 DEF Rpc, Answer
  <2>2. HandlerOK(r)
    BY <1>0, <1>10, <1>h DEF HandlerOK, SelectJobs, At, Rpc
  <2>3. rpc' = [rpc EXCEPT ![x] = r]
    BY <1>10 DEF SelectJobs
  <2> QED
    BY <1>0, <1>10, <1>r, <2>1, <2>2, <2>3 DEF SelectJobs, masterVars
<1>11. CASE AssignJobs(x)
  <2> DEFINE rows == [e \in Entries |-> IF JobOf[e] \in rpc[x].answer.jobs THEN mHqe[e] ELSE None]
             r == [[rpc[x] EXCEPT !.stage = "answer"] EXCEPT !.answer.rows = rows]
  <2>1. rows \in Rows /\ rpc[x].answer.jobs \subseteq Jobs
    BY <1>0 DEF Rows, Rpc, Answer
  <2>2. r \in Rpc
    BY <1>0, <2>1 DEF Rpc, Answer
  <2>3. HandlerOK(r)
    BY <1>0, <1>11, <1>h DEF HandlerOK, AssignJobs, At, Rpc
  <2>4. rpc' = [rpc EXCEPT ![x] = r] \/ rpc' = [rpc EXCEPT ![x] = None]
    BY <1>0, <1>11 DEF AssignJobs
  <2>5. rpc' \in [{"awaited", "late"} -> Rpc \cup {None}] /\ HandlersOK'
    BY <1>h, <1>r, <2>2, <2>3, <2>4 DEF HandlersOK
  <2> QED
    BY <1>0, <1>11, <2>1, <2>5 DEF AssignJobs
<1> QED
  BY <1>1, <1>2, <1>3, <1>4, <1>5, <1>6, <1>7, <1>8, <1>9, <1>10, <1>11 DEF Handler

LEMMA TypeStep ==
  ASSUME ShardInv, [Next]_vars
  PROVE  TypeOK'
<1>1. CASE UNCHANGED vars
  BY <1>1 DEF ShardInv, TypeOK, HandlersOK, vars, masterVars, shardVars, clientVars
<1> QED
  BY <1>1, MasterType, SchedulerType, ClientType, HandlerType DEF ShardInv, Next

-----------------------------------------------------------------------------
(* Only the end of a job is uploaded, and its entries come with a job.     *)

\* An entry that is complete on the shard stays so unless the client saves rows.
LEMMA EndedStays ==
  ASSUME ShardInv, [Next]_vars, pc # "jobs", NEW e \in Entries, Ended(e)
  PROVE  Ended(e)'
<1> USE DEF ShardInv, TypeOK, Ended
<1>1. CASE UNCHANGED sHqe
  BY <1>1
<1>2. ASSUME NEW d \in Entries, Start(d) PROVE Ended(e)'
  BY <1>2 DEF Start, Rows
<1>3. ASSUME NEW d \in Entries, NEW st, SetStatus(d, st) PROVE Ended(e)'
  BY <1>3 DEF SetStatus, Rows
<1>4. CASE SetComplete
  <2>1. sEnding.entry \in Entries /\ sHqe[sEnding.entry] \in Row
    BY <1>4 DEF SetComplete, Rows
  <2>2. /\ [sHqe[sEnding.entry] EXCEPT !.complete = TRUE] \in Row
        /\ [sHqe[sEnding.entry] EXCEPT !.complete = TRUE].complete
    BY <2>1 DEF Row
  <2> QED
    BY <1>4, <2>1, <2>2, ShardAssumption DEF SetComplete, Rows
<1>5. snap = None
  BY DEF AnswersAreWhole
<1>6. CASE UNCHANGED vars
  BY <1>1, <1>6 DEF vars, shardVars
<1>7. CASE MasterNext
  <2>1. UNCHANGED sHqe
    BY <1>7 DEF MasterNext, Abort, FindAborting, AbortAnyway, FetchAborted, AbortOnMaster, UnshardOnMaster,
                CompleteOnMaster, Release, Lease, AddBoard, RemoveBoard, shardVars
  <2> QED
    BY <1>1, <2>1
<1>8. CASE OnComplete \/ \E h \in Hosts, st \in Statuses : SetHostStatus(h, st)
  BY <1>1, <1>8 DEF OnComplete, SetHostStatus
<1>9. CASE Client \/ Fail \/ SaveHostsFails \/ SaveJobFails \/ Crash
  <2>1. UNCHANGED sHqe
    BY <1>5, <1>9 DEF Client, Fail, SaveHostsFails, SaveJobFails, Crash, ReadKnown, ReadUpload, ReadRows, Send, Receive,
                      Mark, SaveHosts, ReadJob, SaveJob, JobsSaved, Reset, shardVars
  <2> QED
    BY <1>1, <2>1
<1>10. CASE \E x \in {"awaited", "late"} : Handler(x)
  <2>1. UNCHANGED sHqe
    BY <1>10, HandlerFrame DEF Frame
  <2> QED
    BY <1>1, <2>1
<1> QED
  BY <1>2, <1>3, <1>4, <1>6, <1>7, <1>8, <1>9, <1>10 DEF Next, ShardScheduler, Complete, AbortOnShard

\* Who changes the variables of the client and the requests.
LEMMA OtherSteps ==
  ASSUME MasterNext \/ ShardScheduler \/ \E h \in Hosts, st \in Statuses : SetHostStatus(h, st)
  PROVE  UNCHANGED <<pc, packet, answer, snap, rpc>>
<1>1. CASE MasterNext
  BY <1>1 DEF MasterNext, Abort, FindAborting, AbortAnyway, FetchAborted, AbortOnMaster, UnshardOnMaster,
              CompleteOnMaster, Release, Lease, AddBoard, RemoveBoard, clientVars
<1>2. CASE ShardScheduler
  BY <1>2 DEF ShardScheduler, Start, Complete, AbortOnShard, SetStatus, OnComplete, SetComplete, clientVars
<1>3. CASE \E h \in Hosts, st \in Statuses : SetHostStatus(h, st)
  BY <1>3 DEF SetHostStatus, clientVars
<1> QED
  BY <1>1, <1>2, <1>3

LEMMA UploadStep ==
  ASSUME ShardInv, [Next]_vars
  PROVE  UploadsAreFinal'
<1> SUFFICES ASSUME NEW e \in Entries, Single(e)
             PROVE  /\ pc' = "rows" /\ JobOf[e] \in packet'.jobs => Ended(e)'
                    /\ pc' \in {"send", "wait"} /\ JobOf[e] \in packet'.jobs =>
                          packet'.rows[e] # None /\ packet'.rows[e].complete
                    /\ \A y \in {"awaited", "late"} :
                          rpc'[y] # None /\ JobOf[e] \in rpc'[y].packet.jobs =>
                              rpc'[y].packet.rows[e] # None /\ rpc'[y].packet.rows[e].complete
                    /\ mHqe'[e].active => mHqe'[e].complete
  BY DEF UploadsAreFinal, Ended
<1>0. /\ pc = "rows" /\ JobOf[e] \in packet.jobs => Ended(e)
      /\ pc \in {"send", "wait"} /\ JobOf[e] \in packet.jobs =>
            packet.rows[e] # None /\ packet.rows[e].complete
      /\ \A y \in {"awaited", "late"} :
            rpc[y] # None /\ JobOf[e] \in rpc[y].packet.jobs =>
                rpc[y].packet.rows[e] # None /\ rpc[y].packet.rows[e].complete
      /\ mHqe[e].active => mHqe[e].complete
  BY DEF ShardInv, UploadsAreFinal
<1>t. TypeOK
  BY DEF ShardInv
<1>1. CASE UNCHANGED vars
  BY <1>0, <1>1 DEF vars, masterVars, shardVars, clientVars, Ended
<1>2. CASE MasterNext
  <2>1. UNCHANGED <<pc, packet, rpc>>
    BY <1>2, OtherSteps
  <2>2. pc = "rows" /\ Ended(e) => Ended(e)'
    BY EndedStays
  <2>3. mHqe'[e].active => mHqe'[e].complete
    <3>1. CASE UNCHANGED mHqe
      BY <1>0, <3>1
    <3>2. ASSUME NEW d \in Entries, Abort(d) PROVE mHqe'[e].active => mHqe'[e].complete
      <4>1. mHqe'[e].active = mHqe[e].active /\ mHqe'[e].complete = mHqe[e].complete
        BY <1>t, <3>2 DEF Abort, TypeOK, Row
      <4> QED
        BY <1>0, <4>1
    <3>3. CASE AbortOnMaster
      <4>1. CASE mAborting.entry = e
        <5>1. ~mHqe'[e].active
          BY <1>t, <3>3, <4>1 DEF AbortOnMaster, TypeOK, Row
        <5> QED
          BY <5>1
      <4>2. CASE mAborting.entry # e
        <5>1. mHqe'[e] = mHqe[e]
          BY <1>t, <3>3, <4>2 DEF AbortOnMaster, TypeOK
        <5> QED
          BY <1>0, <5>1
      <4> QED
        BY <4>1, <4>2
    <3>4. CASE CompleteOnMaster
      <4>1. CASE mAborting.entry = e
        <5>1. mHqe'[e].complete
          BY <1>t, <3>4, <4>1 DEF CompleteOnMaster, TypeOK, Row
        <5> QED
          BY <5>1
      <4>2. CASE mAborting.entry # e
        <5>1. mHqe'[e] = mHqe[e]
          BY <1>t, <3>4, <4>2 DEF CompleteOnMaster, TypeOK
        <5> QED
          BY <1>0, <5>1
      <4> QED
        BY <4>1, <4>2
    <3> QED
      BY <1>2, <3>1, <3>2, <3>3, <3>4 DEF MasterNext, FindAborting, AbortAnyway, FetchAborted, UnshardOnMaster,
                                    Release, Lease, AddBoard, RemoveBoard
  <2> QED
    BY <1>0, <2>1, <2>2, <2>3
<1>3. CASE ShardScheduler \/ \E h \in Hosts, st \in Statuses : SetHostStatus(h, st)
  <2>1. UNCHANGED <<pc, packet, rpc>>
    BY <1>3, OtherSteps
  <2>2. UNCHANGED mHqe
    BY <1>3 DEF ShardScheduler, Start, Complete, AbortOnShard, SetStatus, OnComplete, SetComplete,
                SetHostStatus, masterVars
  <2>3. pc = "rows" /\ Ended(e) => Ended(e)'
    BY EndedStays
  <2> QED
    BY <1>0, <2>1, <2>2, <2>3
<1>4. CASE ReadUpload
  <2>1. JobOf[e] \in packet'.jobs => Ended(e)
    BY <1>t, <1>4 DEF ReadUpload, Present, Single, Ended, TypeOK, Packet
  <2> QED
    BY <1>0, <1>4, <2>1 DEF ReadUpload, masterVars, shardVars, Ended
<1>5. CASE ReadRows
  <2>1. packet'.jobs \subseteq packet.jobs /\ (JobOf[e] \in packet.jobs => packet'.rows[e] = sHqe[e])
    BY <1>t, <1>5 DEF ReadRows, TypeOK, Packet
  <2> QED
    BY <1>0, <1>5, <2>1 DEF ReadRows, masterVars, Ended
<1>6. CASE Send
  <2>1. /\ rpc'["late"] = rpc["late"] /\ rpc'["awaited"].packet = packet
        /\ pc = "send" /\ pc' = "wait" /\ packet' = packet /\ mHqe' = mHqe
    BY <1>t, <1>6 DEF Send, TypeOK, masterVars
  <2> QED
    BY <1>0, <2>1
<1>7. CASE Receive \/ Mark \/ ReadKnown \/ SaveHosts \/ SaveHostsFails \/ (\E j \in Jobs : ReadJob(j)) \/ SaveJob \/ SaveJobFails
           \/ JobsSaved \/ Reset
  <2>1. pc' \notin {"rows", "send", "wait"}
    BY <1>7 DEF ShardInv, AnswersAreWhole, Receive, Mark, ReadKnown, SaveHosts, SaveHostsFails, ReadJob, SaveJob,
                SaveJobFails, JobsSaved, Reset
  <2>2. mHqe' = mHqe /\ \A y \in {"awaited", "late"} : rpc'[y] \in {None, rpc[y]}
    BY <1>t, <1>7 DEF Receive, Mark, ReadKnown, SaveHosts, SaveHostsFails, ReadJob, SaveJob, SaveJobFails,
                      JobsSaved, Reset, TypeOK, masterVars
  <2> QED
    BY <1>0, <2>1, <2>2
<1>8. CASE Fail \/ Crash
  <2>1. \A y \in {"awaited", "late"} : rpc'[y] \in {None, rpc["awaited"], rpc["late"]}
    BY <1>t, <1>8 DEF Fail, Crash, Abandon, TypeOK
  <2>2. mHqe' = mHqe /\ (pc' = "known" \/ (pc' = "send" /\ pc = "wait" /\ packet' = packet))
    BY <1>8 DEF Fail, Crash, masterVars
  <2> QED
    BY <1>0, <2>1, <2>2
<1>9. ASSUME NEW x \in {"awaited", "late"}, Handler(x)
      PROVE  /\ UNCHANGED <<pc, packet, sHqe>>
             /\ mHqe'[e].active => mHqe'[e].complete
  <2>1. UNCHANGED <<pc, packet, sHqe>> /\ (mHqe' = mHqe \/ PersistEntries(x))
    BY <1>t, <1>9, HandlerFrame DEF Frame
  <2>2. CASE PersistEntries(x)
    BY <1>0, <1>t, <2>1, <2>2 DEF PersistEntries, At, TypeOK
  <2> QED
    BY <1>0, <2>1, <2>2
<1>10. CASE \E x \in {"awaited", "late"} : Handler(x)
  <2>1. PICK x \in {"awaited", "late"} : Handler(x)
    BY <1>10
  <2>2. rpc[x] # None
    BY <1>t, <2>1, HandlerFrame DEF Frame
  <2>3. \A y \in {"awaited", "late"} :
           rpc'[y] # None => rpc[y] # None /\ rpc'[y].packet = rpc[y].packet
    BY <1>t, <2>1, <2>2, HandlerFrame DEF Frame
  <2> QED
    BY <1>0, <1>9, <2>1, <2>3 DEF Ended
<1> QED
  BY <1>1, <1>2, <1>3, <1>4, <1>5, <1>6, <1>7, <1>8, <1>10 DEF Next, Client

LEMMA AnswerStep ==
  ASSUME ShardInv, [Next]_vars
  PROVE  AnswersAreWhole'
<1>0. /\ \A e \in Entries : JobOf[e] \in answer.jobs => answer.rows[e] # None
      /\ \A e \in Entries, y \in {"awaited", "late"} :
            At(y, "answer") /\ JobOf[e] \in rpc[y].answer.jobs => rpc[y].answer.rows[e] # None
      /\ snap # None => pc = "jobs" /\ snap.job \in answer.jobs
  BY DEF ShardInv, AnswersAreWhole
<1>t. TypeOK
  BY DEF ShardInv
<1>1. CASE UNCHANGED <<pc, answer, snap, rpc>>
  BY <1>0, <1>1 DEF AnswersAreWhole, At
<1>2. CASE MasterNext \/ ShardScheduler \/ \E h \in Hosts, st \in Statuses : SetHostStatus(h, st)
  BY <1>1, <1>2, OtherSteps
<1>3. CASE ReadKnown \/ ReadUpload \/ ReadRows \/ Mark \/ SaveHosts \/ SaveHostsFails \/ JobsSaved
  BY <1>0, <1>3 DEF AnswersAreWhole, At, ReadKnown, ReadUpload, ReadRows, Mark, SaveHosts, SaveHostsFails,
                    JobsSaved
<1>4. CASE Send
  BY <1>0, <1>t, <1>4 DEF AnswersAreWhole, At, Send, TypeOK
<1>5. CASE Receive
  <2>1. snap = None
    BY <1>0, <1>5 DEF Receive
  <2>2. \A y \in {"awaited", "late"} : rpc'[y] \in {None, rpc[y]}
    BY <1>t, <1>5 DEF Receive, TypeOK
  <2>3. answer' = rpc["awaited"].answer /\ At("awaited", "answer") /\ snap' = snap
    BY <1>5 DEF Receive
  <2> QED
    BY <1>0, <2>1, <2>2, <2>3 DEF AnswersAreWhole, At
<1>6. ASSUME NEW j \in Jobs, ReadJob(j) PROVE AnswersAreWhole'
  BY <1>0, <1>6 DEF AnswersAreWhole, At, ReadJob
<1>7. ASSUME NEW saved, SaveRows(saved), UNCHANGED rpc PROVE AnswersAreWhole'
  <2>1. answer'.jobs \subseteq answer.jobs /\ answer'.rows = answer.rows
    BY <1>t, <1>7 DEF SaveRows, TypeOK, Answer
  <2> QED
    BY <1>0, <1>7, <2>1 DEF AnswersAreWhole, At, SaveRows
<1>8. CASE SaveJob \/ SaveJobFails
  BY <1>7, <1>8 DEF SaveJob, SaveJobFails
<1>9. NoAnswer.jobs = {}
  BY DEF NoAnswer
<1>10. CASE Reset
  BY <1>0, <1>9, <1>10 DEF AnswersAreWhole, At, Reset
<1>11. CASE Fail \/ Crash
  <2>1. \A y \in {"awaited", "late"} : rpc'[y] \in {None, rpc["awaited"], rpc["late"]}
    BY <1>t, <1>11 DEF Fail, Crash, Abandon, TypeOK
  <2>2. \/ answer' = NoAnswer /\ snap' = None
        \/ answer' = answer /\ snap' = snap /\ pc = "wait"
    BY <1>11 DEF Fail, Crash
  <2> QED
    BY <1>0, <1>9, <2>1, <2>2 DEF AnswersAreWhole, At
<1>12. ASSUME NEW x \in {"awaited", "late"}, Handler(x) PROVE AnswersAreWhole'
  <2>1. UNCHANGED <<pc, answer, snap>> /\ rpc[x] \in Rpc
    BY <1>t, <1>12, HandlerFrame DEF Frame
  <2>3. ASSUME NEW y \in {"awaited", "late"}, At(y, "answer")', NEW e \in Entries,
               JobOf[e] \in rpc'[y].answer.jobs
        PROVE  rpc'[y].answer.rows[e] # None
    <3>1. CASE y # x
      <4>1. rpc'[y] = rpc[y]
        BY <1>t, <1>12, <3>1, HandlerFrame DEF Frame
      <4> QED
        BY <1>0, <2>3, <4>1 DEF At
    <3>2. CASE y = x
      <4>5. AssignJobs(x)
        BY <1>t, <1>12, <2>3, <3>2, HandlerFrame DEF Frame
      <4>6. x = "awaited"
        BY <1>t, <2>3, <3>2, <4>5 DEF AssignJobs, At, TypeOK
      <4>7. rpc'[x].answer.jobs = rpc[x].answer.jobs
        BY <1>t, <2>1, <4>5, <4>6 DEF AssignJobs, TypeOK, Rpc, Answer
      <4>8. rpc'[x].answer.rows[e] = mHqe[e]
        BY <1>t, <2>1, <2>3, <3>2, <4>5, <4>6, <4>7 DEF AssignJobs, TypeOK, Rpc, Answer
      <4> QED
        BY <1>t, <3>2, <4>8, ShardAssumption DEF TypeOK
    <3> QED
      BY <3>1, <3>2
  <2> QED
    BY <1>0, <2>1, <2>3 DEF AnswersAreWhole
<1>13. CASE UNCHANGED vars
  BY <1>1, <1>13 DEF vars, clientVars
<1> QED
  BY <1>2, <1>3, <1>4, <1>5, <1>6, <1>8, <1>10, <1>11, <1>12, <1>13 DEF Next, Client

-----------------------------------------------------------------------------

\* The inductive invariant of the heartbeat holds in every reachable state.
THEOREM ShardInvariant == Spec => []ShardInv
<1>1. ShardInv /\ [Next]_vars => ShardInv'
  BY TypeStep, UploadStep, AnswerStep DEF ShardInv
<1> QED
  BY <1>1, InitInv, PTL DEF Spec

\* The types of the two databases, the client and the requests, whatever fails
\* (shard_heartbeat, do_heartbeat).
THEOREM ShardTypes == Spec => []TypeOK
<1>1. ShardInv => TypeOK
  BY DEF ShardInv
<1> QED
  BY <1>1, ShardInvariant, PTL

\* A job with one entry that has ended on the shard is never forgotten: marked for
\* upload, or sent again by the master (_get_jobs_to_upload, Job.assign_to_shard).
THEOREM NothingIsForgotten == Spec => []NothingForgotten
<1>1. ShardInv => NothingForgotten
  BY DEF ShardInv, UploadsAreFinal, NothingForgotten, Eligible, Single
<1> QED
  BY <1>1, ShardInvariant, PTL

\* The end of a job with one entry is final on the master, whatever requests are lost,
\* repeated or handled late (persist_records_sent_from_shard).
THEOREM CompleteStays == Spec => CompleteIsFinal
<1>1. ASSUME ShardInv, [Next]_vars, NEW e \in Entries, mHqe[e].complete, Single(e)
      PROVE  mHqe'[e].complete
  <2>t. TypeOK
    BY <1>1 DEF ShardInv
  <2>1. CASE UNCHANGED mHqe
    BY <1>1, <2>1
  <2>2. ASSUME NEW d \in Entries, Abort(d) PROVE mHqe'[e].complete
    BY <1>1, <2>t, <2>2 DEF Abort, TypeOK, Row
  <2>3. CASE AbortOnMaster \/ CompleteOnMaster
    <3>1. mAborting.entry \in Entries /\ mHqe[e] \in Row
      BY <2>3, <2>t DEF AbortOnMaster, CompleteOnMaster, TypeOK
    <3>2. CASE AbortOnMaster
      BY <1>1, <2>t, <3>1, <3>2 DEF AbortOnMaster, TypeOK, Row
    <3>3. CASE CompleteOnMaster
      BY <1>1, <2>t, <3>1, <3>3 DEF CompleteOnMaster, TypeOK, Row
    <3> QED
      BY <2>3, <3>2, <3>3
  <2>4. CASE MasterNext
    BY <1>1, <2>1, <2>2, <2>3, <2>4 DEF MasterNext, FindAborting, AbortAnyway, FetchAborted,
                                   UnshardOnMaster, Release, Lease, AddBoard, RemoveBoard
  <2>5. ASSUME NEW x \in {"awaited", "late"}, Handler(x) PROVE mHqe'[e].complete
    <3>1. CASE PersistEntries(x)
      <4>1. JobOf[e] \in rpc[x].packet.jobs => rpc[x].packet.rows[e].complete
        BY <1>1, <3>1 DEF ShardInv, UploadsAreFinal, PersistEntries, At
      <4> QED
        BY <1>1, <3>1, <4>1 DEF PersistEntries
    <3> QED
      BY <2>1, <2>t, <2>5, <3>1, HandlerFrame DEF Frame
  <2>6. CASE ShardScheduler \/ \E h \in Hosts, st \in Statuses : SetHostStatus(h, st)
    BY <2>1, <2>6 DEF ShardScheduler, Start, Complete, AbortOnShard, SetStatus, OnComplete, SetComplete,
                      SetHostStatus, masterVars
  <2>7. CASE Client \/ Fail \/ SaveHostsFails \/ SaveJobFails \/ Crash
    BY <2>1, <2>7 DEF Client, Fail, SaveHostsFails, SaveJobFails, Crash, ReadKnown, ReadUpload, ReadRows, Send, Receive,
                      Mark, SaveHosts, ReadJob, SaveJob, JobsSaved, Reset, masterVars
  <2>8. CASE UNCHANGED vars
    BY <2>1, <2>8 DEF vars, masterVars
  <2> QED
    BY <1>1, <2>4, <2>5, <2>6, <2>7, <2>8 DEF Next
<1>2. ShardInv /\ [Next]_vars =>
        [\A e \in Entries : mHqe[e].complete /\ Single(e) => mHqe'[e].complete]_vars
  BY <1>1
<1> QED
  BY <1>2, ShardInvariant, PTL DEF Spec, CompleteIsFinal
=============================================================================
