------------------------- MODULE MCResourceMonitor -------------------------
(* An instance of ResourceMonitor for TLC.                                 *)
EXTENDS ResourceMonitor

\* From nothing to beyond the limit, with 75% (6 of 8) and 90% in between.
MCMemory == {0, 6, 7, 8, 9}

\* An ordinary limit, and zeros.
MCLimits == {[memory_bytes |-> 8, cpu_percent |-> 1, pids_max |-> 1],
             [memory_bytes |-> 0, cpu_percent |-> 0, pids_max |-> 0]}
=============================================================================
