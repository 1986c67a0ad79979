--------------------------- MODULE MCSyncManager ----------------------------
(* Instances of SyncManager for TLC. *)
EXTENDS SyncManager

CONSTANTS groups, agents

MCPhases == {groups, agents}
MCEnvironments == {{"other_worker"}, {"clear_error"}}
OneWorker == {{}}
ClearErrors == {{"clear_error"}}
=============================================================================
