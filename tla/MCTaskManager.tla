--------------------------- MODULE MCTaskManager ---------------------------
(* TaskManager for TLC.  Three tasks are enough for a parent, a child it   *)
(* spawns and a bystander; two waiters stand for the shutdown handler and  *)
(* the main coroutine, which wait on the same manager concurrently.        *)
EXTENDS TaskManager
=============================================================================
