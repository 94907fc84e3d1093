------------------------------- MODULE MCRdb --------------------------------
(***************************************************************************)
(* Small instances of a batch of host requests for TLC.                    *)
(***************************************************************************)
EXTENDS Rdb

CONSTANTS h1, h2, h3, h4, h5

Ask(host, deps, preferred, priority, parent, min) ==
    [host |-> host, deps |-> deps, preferred |-> preferred, acls |-> {"all"},
     priority |-> priority, parent |-> parent, minDuts |-> min]

HostLabels == [h \in Hosts |-> IF h = h1 THEN {"board", "build"} ELSE {"board"}]

\* a one-time host is in no ACL group
HostAcls   == [h \in Hosts |-> IF h \in Invalid THEN {} ELSE {"all"}]

\* jobs for a board or for any host, of a suite that wants two hosts or of none,
\* and jobs for the first host or for the one-time host
SomeRequests ==
    {Ask(None, {"board"}, {}, 3, 1, 2), Ask(None, {}, {}, 2, 1, 2),
     Ask(None, {"board"}, {"build"}, 1, 0, 0), Ask(None, {}, {}, 2, 0, 0),
     Ask(h1, {"board"}, {}, 2, 0, 0), Ask(h1, {"build"}, {}, 1, 0, 0),
     Ask(h4, {"board"}, {}, 1, 0, 0)}
=============================================================================
