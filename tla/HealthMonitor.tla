--------------------------- MODULE HealthMonitor ---------------------------
(***************************************************************************)
(* HealthMonitor (src/sandbox/src/health_monitor.cpp): threads that        *)
(* register checks and ask for statuses, the thread that starts and stops  *)
(* the monitor (main() does both), and the monitor thread.                 *)
(*                                                                         *)
(* monitor_loop destroys its lock_guard by hand before it sleeps, and the  *)
(* end of the scope destroys it again: a second unlock of a mutex that     *)
(* another thread may hold by then.  That is undefined behaviour; with the *)
(* mutexes of glibc it frees the mutex, which is what the model does.      *)
(***************************************************************************)
EXTENDS Integers, FiniteSets

CONSTANTS
    Callers,     \* threads that call register_check, set_interval_ms, queries
    Controller,  \* the one thread that calls start and stop
    Monitor,     \* the monitor thread
    Ids,         \* ids of checks
    None,
    Intervals,   \* values of interval_ms_ / 100
    MaxCalls,    \* bound: calls per caller
    MaxStarts    \* bound: calls of start

Threads == Callers \cup {Controller, Monitor}

ASSUME HealthAssumption ==
    /\ Controller \notin Callers /\ Monitor \notin Callers \cup {Controller}
    /\ None \notin Threads \cup Ids
    /\ Intervals \subseteq Nat /\ Intervals # {}
    /\ {MaxCalls, MaxStarts} \subseteq Nat

VARIABLES
    pc,        \* pc[t]: where thread t stands
    arg,       \* arg[c]: the id caller c registers, None in a query
    calls,     \* calls[c]: calls so far
    starts,    \* calls of start so far
    mutex,     \* who locked mutex_ last and was not unlocked, or None
    running,   \* running_
    interval,  \* interval_ms_ / 100
    checks,    \* keys of checks_
    statuses,  \* statuses_: "absent", "pending", "ok" or "unhealthy"
    todo,      \* checks the current round has not called
    fnid,      \* the check being called
    result,    \* healthy and msg of that call
    slept,     \* i of the sleep loop
    latest,    \* history: last result of the check registered under an id
    stolen,    \* history: did the second unlock free the lock of a caller?
    late       \* history: rounds and sleeps begun since stop() cleared
               \* running_, counted up to 2

callVars == <<arg, calls>>
mapVars == <<checks, statuses, latest>>
loopVars == <<todo, fnid, result, slept>>
vars == <<pc, callVars, starts, mutex, running, interval, mapVars, loopVars,
          stolen, late>>

Init ==
    /\ pc = [t \in Threads |-> IF t = Monitor THEN "none" ELSE "idle"]
    /\ arg = [c \in Callers |-> None]
    /\ calls = [c \in Callers |-> 0]
    /\ starts = 0
    /\ mutex = None
    /\ running = FALSE
    /\ interval \in Intervals
    /\ checks = {}
    /\ statuses = [i \in Ids |-> "absent"]
    /\ todo = {}
    /\ fnid = None
    /\ result = "absent"
    /\ slept = 0
    /\ latest = [i \in Ids |-> "absent"]
    /\ stolen = FALSE
    /\ late = 0

Goto(t, where) == pc' = [pc EXCEPT ![t] = where]

-----------------------------------------------------------------------------
(* Decisions of the code.  The operators marked "faulty variant" are bugs  *)
(* this code could have had; no action uses them.                          *)

\* Faulty variant: the loop does not take the mutex.
MayEnterUnlocked == TRUE

\* Can the lock_guard of the loop be constructed?
MayEnter == mutex = None

\* Faulty variant: the loop is left only by the end of the process.
GoesOnAlways == TRUE

\* while (running_).
GoesOn == running

\* Faulty variant: the whole interval is slept.
SleepsOnAlways == slept < interval

\* The condition of the sleep loop.
SleepsOn == slept < interval /\ running

\* Faulty variant: a round repeats the checks that have a result.
RoundOfKnown == {i \in checks : statuses[i] # "pending"}

\* The checks of a round.
Round == checks

\* What register_check stores.
StatusRegistered(i) == "pending"

-----------------------------------------------------------------------------
(* Callers.                                                                *)

\* A call of register_check(i), or of get_all, is_healthy, unhealthy_count.
Enter(c) ==
    /\ pc[c] = "idle"
    /\ calls[c] < MaxCalls
    /\ \E i \in Ids \cup {None} : arg' = [arg EXCEPT ![c] = i]
    /\ calls' = [calls EXCEPT ![c] = @ + 1]
    /\ Goto(c, "lock")
    /\ UNCHANGED <<starts, mutex, running, interval, mapVars, loopVars, stolen,
                   late>>

Lock(c) ==
    /\ pc[c] = "lock"
    /\ mutex = None
    /\ mutex' = c
    /\ Goto(c, "in")
    /\ UNCHANGED <<callVars, starts, running, interval, mapVars, loopVars,
                   stolen, late>>

\* The body of register_check and the end of its lock_guard.
register_check(c) ==
    /\ pc[c] = "in"
    /\ arg[c] # None
    /\ LET i == arg[c]
       IN /\ checks' = checks \cup {i}
          /\ statuses' = [statuses EXCEPT ![i] = StatusRegistered(i)]
          /\ latest' = [latest EXCEPT ![i] = "pending"]
    /\ mutex' = None
    /\ Goto(c, "idle")
    /\ UNCHANGED <<callVars, starts, running, interval, loopVars, stolen, late>>

\* The queries change nothing but the mutex.
Query(c) ==
    /\ pc[c] = "in"
    /\ arg[c] = None
    /\ mutex' = None
    /\ Goto(c, "idle")
    /\ UNCHANGED <<callVars, starts, running, interval, mapVars, loopVars,
                   stolen, late>>

\* No lock: interval_ms_ is a plain uint32_t.
set_interval_ms(c) ==
    /\ pc[c] = "idle"
    /\ calls[c] < MaxCalls
    /\ calls' = [calls EXCEPT ![c] = @ + 1]
    /\ interval' \in Intervals
    /\ UNCHANGED <<pc, arg, starts, mutex, running, mapVars, loopVars, stolen,
                   late>>

-----------------------------------------------------------------------------
(* The controller.                                                         *)

start ==
    /\ pc[Controller] = "idle"
    /\ starts < MaxStarts
    /\ starts' = starts + 1
    /\ running' = TRUE
    /\ pc' = IF running THEN pc ELSE [pc EXCEPT ![Monitor] = "loop"]
    /\ UNCHANGED <<callVars, mutex, interval, mapVars, loopVars, stolen, late>>

\* stop(), or the destructor: clear the flag, then join if there is a thread.
stop ==
    /\ pc[Controller] = "idle"
    /\ pc[Monitor] # "none"
    /\ running' = FALSE
    /\ late' = 0
    /\ Goto(Controller, "join")
    /\ UNCHANGED <<callVars, starts, mutex, interval, mapVars, loopVars, stolen>>

Join ==
    /\ pc[Controller] = "join"
    /\ pc[Monitor] = "returned"
    /\ pc' = [pc EXCEPT ![Controller] = "idle", ![Monitor] = "none"]
    /\ UNCHANGED <<callVars, starts, mutex, running, interval, mapVars,
                   loopVars, stolen, late>>

-----------------------------------------------------------------------------
(* monitor_loop.                                                           *)

\* The thread begins a round of checks or a sleep of 100 ms.
Begins == late' = IF running \/ late = 2 THEN late ELSE late + 1

Loop ==
    /\ pc[Monitor] = "loop"
    /\ Goto(Monitor, IF GoesOn THEN "lock" ELSE "returned")
    /\ UNCHANGED <<callVars, starts, mutex, running, interval, mapVars,
                   loopVars, stolen, late>>

LockMonitor ==
    /\ pc[Monitor] = "lock"
    /\ MayEnter
    /\ mutex' = Monitor
    /\ todo' = Round
    /\ Begins
    /\ Goto(Monitor, "round")
    /\ UNCHANGED <<callVars, starts, running, interval, mapVars, fnid, result,
                   slept, stolen>>

\* fn(msg) of the next check.
CallCheck ==
    /\ pc[Monitor] = "round"
    /\ \E i \in todo :
          /\ todo' = todo \ {i}
          /\ fnid' = i
          /\ result' \in {"ok", "unhealthy"}
          /\ latest' = [latest EXCEPT ![i] = result']
    /\ Goto(Monitor, "store")
    /\ UNCHANGED <<callVars, starts, mutex, running, interval, checks,
                   statuses, slept, stolen, late>>

\* statuses_[id] = {...}.
Store ==
    /\ pc[Monitor] = "store"
    /\ statuses' = [statuses EXCEPT ![fnid] = result]
    /\ fnid' = None
    /\ result' = "absent"
    /\ Goto(Monitor, "round")
    /\ UNCHANGED <<callVars, starts, mutex, running, interval, checks, latest,
                   todo, slept, stolen, late>>

\* lock.~lock_guard(), the first unlock.
Unlock ==
    /\ pc[Monitor] = "round"
    /\ todo = {}
    /\ mutex' = None
    /\ slept' = 0
    /\ Goto(Monitor, "sleep")
    /\ UNCHANGED <<callVars, starts, running, interval, mapVars, todo, fnid,
                   result, stolen, late>>

\* The condition of the sleep loop holds.
SleepLoop ==
    /\ pc[Monitor] = "sleep"
    /\ SleepsOn
    /\ Goto(Monitor, "sleep_for")
    /\ UNCHANGED <<callVars, starts, mutex, running, interval, mapVars,
                   loopVars, stolen, late>>

\* sleep_for(100 ms) and i++, whatever has become of running_ since.
Sleep ==
    /\ pc[Monitor] = "sleep_for"
    /\ slept' = slept + 1
    /\ Begins
    /\ Goto(Monitor, "sleep")
    /\ UNCHANGED <<callVars, starts, mutex, running, interval, mapVars,
                   todo, fnid, result, stolen>>

\* The end of the scope destroys the lock_guard once more.
EndOfScope ==
    /\ pc[Monitor] = "sleep"
    /\ ~SleepsOn
    /\ mutex' = None
    /\ stolen' = (stolen \/ mutex # None)
    /\ Goto(Monitor, "loop")
    /\ UNCHANGED <<callVars, starts, running, interval, mapVars, loopVars, late>>

MonitorStep == Loop \/ LockMonitor \/ CallCheck \/ Store \/ Unlock \/ SleepLoop
               \/ Sleep \/ EndOfScope

CallStep(c) == Lock(c) \/ register_check(c) \/ Query(c)

Next ==
    \/ \E c \in Callers : Enter(c) \/ CallStep(c) \/ set_interval_ms(c)
    \/ start \/ stop \/ Join
    \/ MonitorStep

Spec == Init /\ [][Next]_vars

\* Threads are scheduled, checks return, and the mutex is handed out fairly.
FairSpec ==
    /\ Spec
    /\ SF_vars(MonitorStep)
    /\ \A c \in Callers : SF_vars(CallStep(c))
    /\ WF_vars(Join)

-----------------------------------------------------------------------------
(* Properties.                                                             *)

\* Every variable keeps its type; the sleep loop stays within an interval.
TypeOK ==
    /\ pc \in [Threads -> {"none", "idle", "lock", "in", "join", "loop",
                           "round", "store", "sleep", "sleep_for",
                           "returned"}]
    /\ arg \in [Callers -> Ids \cup {None}]
    /\ calls \in [Callers -> 0..MaxCalls]
    /\ starts \in 0..MaxStarts
    /\ mutex \in Callers \cup {Monitor, None}
    /\ {running, stolen} \subseteq BOOLEAN
    /\ interval \in Intervals
    /\ checks \subseteq Ids /\ todo \subseteq checks
    /\ {statuses, latest} \subseteq
          [Ids -> {"absent", "pending", "ok", "unhealthy"}]
    /\ fnid \in checks \cup {None}
    /\ result \in {"absent", "ok", "unhealthy"}
    /\ slept \in Nat
    /\ \E n \in Intervals : slept <= n /\ (pc[Monitor] = "sleep_for" => slept < n)
    /\ late \in 0..2

\* Threads that use checks_ or statuses_.
Inside == {c \in Callers : pc[c] = "in"}
          \cup {t \in {Monitor} : pc[t] \in {"round", "store"}}

\* Two threads are in the maps together only after the second unlock of the
\* monitor freed the lock of a caller (health_monitor.cpp:10, 56, 72-76).
Exclusion == Cardinality(Inside) <= 1 \/ stolen

\* A status is the last result of the function that is registered now, never
\* one of its predecessor, except while that result is being stored
\* (health_monitor.cpp:11-12, 60-68).
StatusIsLatest ==
    \A i \in Ids : statuses[i] = latest[i] \/ fnid = i \/ stolen

\* The monitor thread exists from a start() to the end of the next stop(), and
\* leaves its loop only after stop() has cleared the flag
\* (health_monitor.cpp:17-29, 54).
ThreadLife ==
    /\ \A c \in Callers : pc[c] \in {"idle", "lock", "in"}
    /\ pc[Controller] \in {"idle", "join"}
    /\ pc[Monitor] \notin {"idle", "in", "join"}
    /\ pc[Controller] = "idle" => (running <=> pc[Monitor] # "none")
    /\ pc[Controller] = "join" => ~running /\ pc[Monitor] # "none"
    /\ pc[Monitor] = "returned" => ~running

\* Who uses the maps is the owner of mutex_, as long as the second unlock has
\* taken it from nobody (health_monitor.cpp:10, 56, 72-76).
OwnerInside ==
    stolen \/ \A t \in Inside : mutex = t

\* A result waits to be stored exactly between the call of its check and the
\* assignment to statuses_, and is that of the function registered now
\* (health_monitor.cpp:60-68).
ResultInHand ==
    /\ fnid # None <=> pc[Monitor] = "store"
    /\ fnid # None => result = latest[fnid] \/ stolen

\* Types, Exclusion and StatusIsLatest, what mutex_ still guarantees of the maps
\* in spite of the double unlock, with the three facts that carry them from
\* step to step (health_monitor.cpp:9-77).
HealthInv ==
    /\ TypeOK /\ Exclusion /\ StatusIsLatest
    /\ ThreadLife /\ OwnerInside /\ ResultInHand

\* "Sleep in small increments to allow quick shutdown": once stop() has
\* cleared running_ the thread begins at most one more thing, a round of
\* checks or a sleep of 100 ms, and only if it had tested the flag just
\* before, so that stop() is not kept waiting for the rest of the interval
\* (health_monitor.cpp:26, 55-75).
QuickShutdown ==
    /\ late <= 1
    /\ ~running /\ pc[Monitor] \in {"lock", "sleep_for"} => late = 0

\* stop() returns, whatever callers do with the mutex, and although the
\* monitor may take the mutex once more before it sees the flag
\* (health_monitor.cpp:25-28, 55-57).
StopReturns == (pc[Controller] = "join") ~> (pc[Controller] = "idle")

\* A check that is registered while the monitor runs gets its turn
\* (health_monitor.cpp:9-13, 59-69).
EveryCheckRuns ==
    \A i \in Ids : (statuses[i] = "pending" /\ running)
                      ~> (statuses[i] # "pending" \/ ~running)
=============================================================================
