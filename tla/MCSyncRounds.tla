---------------------------- MODULE MCSyncRounds ----------------------------
(* SyncRounds on two paths with two modification times and two sizes.      *)
EXTENDS SyncRounds

MCPaths == {1, 2}
MCTimes == {1, 2}
MCSizes == {1, 2}
=============================================================================
