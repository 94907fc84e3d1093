--------------------------- MODULE MCJobScheduler ---------------------------
(***************************************************************************)
(* Small instances of the job scheduler for TLC.                           *)
(***************************************************************************)
EXTENDS JobSchedulerInv

CONSTANTS h1, h2, e1, e2

AllOnH1 == [e \in Entries |-> h1]
AnyHost == [e \in Entries |-> None]

AllPreJobs   == [e \in Entries |-> PreJobKinds \cup {None}]
ResetOrNone  == [e \in Entries |-> {"Reset", None}]
ResetThenNone == [e \in Entries |-> IF e = e1 THEN {"Reset"} ELSE {None}]
ResetOnly == [e \in Entries |-> {"Reset"}]
ProvisionOrReset == [e \in Entries |-> {"Provision", "Reset"}]

RebootNever == [e \in Entries |-> "Never"]
RebootIfPassed == [e \in Entries |-> "IfAllTestsPassed"]
=============================================================================
