-------------------------- MODULE MCHealthMonitor --------------------------
(* An instance of HealthMonitor for TLC: an interval below 100 ms, which   *)
(* never sleeps, and one of two sleeps.                                    *)
EXTENDS HealthMonitor

MCIntervals == {0, 2}
=============================================================================
