---------------------------- MODULE MCWatchService ----------------------------
(* Instances of WatchService for TLC. *)
EXTENDS WatchService
=============================================================================
