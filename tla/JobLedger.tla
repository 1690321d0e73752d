----------------------------- MODULE JobLedger -----------------------------
(***************************************************************************)
(* What the daemon promises about a job, with no sockets, loops or         *)
(* processes: a submitted job is handed out once, executed at most once,   *)
(* and its verdict, when there is one, is the exit code of that execution. *)
(* A job may stay in any phase for ever (the queue does not redeliver).    *)
(***************************************************************************)
EXTENDS Naturals

CONSTANTS Jobs, ExitCodes, None

VARIABLES
    phase,     \* phase[j]: how far job j has come
    runs,      \* runs[j]: how often j was executed
    exit,      \* exit[j]: exit code of the execution, None before it ends
    verdict    \* verdict[j]: exit code recorded by the queue server

vars == <<phase, runs, exit, verdict>>

Init ==
    /\ phase = [j \in Jobs |-> "new"]
    /\ runs = [j \in Jobs |-> 0]
    /\ exit = [j \in Jobs |-> None]
    /\ verdict = [j \in Jobs |-> None]

Submit(j) ==
    /\ phase[j] = "new"
    /\ phase' = [phase EXCEPT ![j] = "queued"]
    /\ UNCHANGED <<runs, exit, verdict>>

Assign(j) ==
    /\ phase[j] = "queued"
    /\ phase' = [phase EXCEPT ![j] = "assigned"]
    /\ UNCHANGED <<runs, exit, verdict>>

Execute(j) ==
    /\ phase[j] = "assigned"
    /\ phase' = [phase EXCEPT ![j] = "executing"]
    /\ runs' = [runs EXCEPT ![j] = @ + 1]
    /\ UNCHANGED <<exit, verdict>>

Finish(j) ==
    /\ phase[j] = "executing"
    /\ phase' = [phase EXCEPT ![j] = "executed"]
    /\ \E c \in ExitCodes : exit' = [exit EXCEPT ![j] = c]
    /\ UNCHANGED <<runs, verdict>>

Report(j) ==
    /\ phase[j] = "executed"
    /\ phase' = [phase EXCEPT ![j] = "reported"]
    /\ verdict' = [verdict EXCEPT ![j] = exit[j]]
    /\ UNCHANGED <<runs, exit>>

Next == \E j \in Jobs :
    Submit(j) \/ Assign(j) \/ Execute(j) \/ Finish(j) \/ Report(j)

Spec == Init /\ [][Next]_vars
=============================================================================
