---------------------------- MODULE MCTelemetry ----------------------------
(* An instance of Telemetry for TLC.                                       *)
EXTENDS Telemetry, TLC

\* What the daemon logs, and what the jobs write.
MCWords == {"running", "PASSED", "FAILED", "pid", "disk", "full"}

\* A tag and a message, a tag with a word glued to it, no tag, a tag alone.
MCLines == {<<"ERROR", Space, "disk", Space, "full">>, <<"WARN", "disk", Space, "full">>,
            <<"disk", Space, "full">>, <<"DEBUG">>}

\* Numbers on both sides of each bound, with Port16, Restarts32 and Num64 scaled
\* down to 4, 6 and 8.
MCArgs == [flag : {"p"}, arg : {Junk, 0, 3, 4, 7, 8}] \cup [flag : {"m"}, arg : {3, 4}]
          \cup [flag : {"r"}, arg : {Junk, 0, 5, 6}] \cup [flag : {"i"}, arg : {"a", "b"}]
          \cup [flag : {"n", "H", "?"}, arg : {"none"}]

\* Bound: a second job is started only with the endpoint up and while nobody has
\* used the log and the first job has written nothing, so that all that was pushed
\* is main()'s own and the events'.  The log's users and the
\* shutdown meet one job, the metrics two.
JobUnderWay == at \in {"counting", "output", "duration", "verdict"}

MCBound ==
    Jobs > 1 \/ (Jobs = 1 /\ JobUnderWay) =>
        /\ server_fd
        /\ {max_entries, low, last} = {Largest}
        /\ Len(pushed) = SumFunction(logged) + 2 * Jobs + IF JobUnderWay THEN 1 ELSE 0

\* Threads and types of events are interchangeable.
MCSymmetry == Permutations(Threads) \cup Permutations(EventTypes)
=============================================================================
