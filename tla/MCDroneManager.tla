--------------------------- MODULE MCDroneManager ---------------------------
(***************************************************************************)
(* Small instances of DroneManager.                                        *)
(***************************************************************************)
EXTENDS DroneManager

CONSTANTS j1, j2

\* a job to run with a crash, one that may be aborted without, one that may be aborted
\* and is found running, and two jobs to parse
SomeLoads == {[run |-> {j1}, left |-> {}, parse |-> {}, starts |-> 0],
              [run |-> {j2}, left |-> {}, parse |-> {}, starts |-> 1],
              [run |-> {}, left |-> {j2}, parse |-> {}, starts |-> 1],
              [run |-> {}, left |-> {}, parse |-> {j1, j2}, starts |-> 1]}
SlowAutoserv == {<<j2, "autoserv">>}

=============================================================================
