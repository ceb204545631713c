------------------------------ MODULE SyncClockMC ------------------------------
(* SyncClock on small instances. *)
EXTENDS SyncClock, TLC
=============================================================================
