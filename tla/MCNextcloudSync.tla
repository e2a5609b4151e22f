-------------------------- MODULE MCNextcloudSync --------------------------
(* Instances of NextcloudSync for TLC. *)
EXTENDS NextcloudSync

\* Item 1 shows item 2 under it, or there is no hierarchy.
Flat == [i \in Item |-> {}]
Family == [i \in Item |-> IF i = 1 THEN {2} ELSE {}]

MergeOperations ==
    {"SYNC", "PUBLISH", "SHARE", "ADD", "SET_TEXT", "DELETE", "RESTORE",
     "REMOTE_ADD", "REMOTE_SET", "REMOTE_DELETE", "RESHARE"}
AccessOperations ==
    {"SYNC", "REFRESH", "ADD", "SET_TEXT", "RESHARE", "KEEP", "DISCARD", "LOCAL_COPY",
     "STOP", "NO_NETWORK", "DELETE", "CRASH"}
FaultOperations ==
    {"SYNC", "ADD", "SET_CHECKED", "DELETE", "REMOTE_ADD", "REMOTE_SET", "REMOTE_DELETE",
     "NO_NETWORK", "LOST_REPLY", "NO_ETAG", "CRASH"}
=============================================================================
