--------------------------- MODULE MCTaskWatchdog ---------------------------
(* Small instance of TaskWatchdog; the constants are given in the cfg. *)
EXTENDS TaskWatchdog
=============================================================================
