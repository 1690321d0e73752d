-------------------------- MODULE ResourceMonitor --------------------------
(***************************************************************************)
(* One ResourceMonitor (src/sandbox/src/resource_monitor.cpp:16-235): its  *)
(* thread, the threads that use it, and the process it watches.  No lock   *)
(* guards start(), stop(), limits_ or prev_cpu_time_, so the statements of *)
(* different threads interleave.                                           *)
(***************************************************************************)
EXTENDS Integers

CONSTANTS
    Users,       \* threads that call start, stop, set_limit and the reads
    Monitor,     \* the thread of the monitor
    MaxTicks,    \* bound: CPU ticks of a process
    Word,        \* 2^64: the arithmetic of uint64_t is modulo this
    HistoryMax,  \* 1000, the cap of history_
    Memory,      \* values of VmRSS
    Limits       \* values of limits_

Threads == Users \cup {Monitor}

ASSUME MonitorAssumption ==
    /\ Monitor \notin Users
    /\ MaxTicks \in Nat
    /\ Word \in Nat /\ Word > MaxTicks
    /\ HistoryMax \in Nat \ {0}
    /\ Memory \subseteq Nat /\ Memory # {}
    /\ Limits \subseteq [memory_bytes : Nat, cpu_percent : Nat, pids_max : Nat]
    /\ Limits # {}

VARIABLES
    pc,        \* pc[t]: where thread t stands; "none": no such thread
    total,     \* total[t]: total_time of the read_usage t is in
    delta,     \* delta[t]: delta of the last read_usage of t
    running,   \* running_
    prev,      \* prev_cpu_time_
    size,      \* history_.size()
    limits,    \* limits_
    ticks,     \* utime + stime of target_pid_, -1: there is no such process
    reported,  \* history: sum of the deltas of all reads
    mixed,     \* history: did reads overlap, or the pid go to a new process?
    crossed,   \* history: were two threads in start() or stop() at a time?
    aborted    \* std::terminate, or a join of a thread that was joined

locals == <<total, delta>>
object == <<running, prev, size, limits>>
past == <<reported, mixed, crossed, aborted>>
vars == <<pc, locals, object, ticks, past>>

Init ==
    /\ pc = [t \in Threads |-> IF t = Monitor THEN "none" ELSE "idle"]
    /\ total = [t \in Threads |-> 0]
    /\ delta = [t \in Threads |-> 0]
    /\ running = FALSE
    /\ prev = 0
    /\ size = 0
    /\ limits \in Limits
    /\ ticks = 0
    /\ reported = 0
    /\ mixed = FALSE
    /\ crossed = FALSE
    /\ aborted = FALSE

At(t, where) == ~aborted /\ pc[t] = where

Goto(t, where) == pc' = [pc EXCEPT ![t] = where]

-----------------------------------------------------------------------------
(* A usage against the limits.                                             *)

\* Faulty variant: only a usage short of the limit is looked at.
MemoryLevelBanded(u, l) ==
    IF 4 * u.memory_bytes > 3 * l.memory_bytes /\ u.memory_bytes <= l.memory_bytes
    THEN "WARNING" ELSE "INFO"

\* More than 90%, or 75%, of the limit; INFO stands for no alert.
MemoryLevel(u, l) ==
    IF 10 * u.memory_bytes > 9 * l.memory_bytes THEN "CRITICAL"
    ELSE IF 4 * u.memory_bytes > 3 * l.memory_bytes THEN "WARNING" ELSE "INFO"

\* The resources check_alerts raises an alert for.
check_alerts(u, l) ==
    {r \in {"memory", "cpu", "pids"} :
        CASE r = "memory" -> MemoryLevel(u, l) # "INFO"
          [] r = "cpu" -> u.cpu_percent > l.cpu_percent
          [] r = "pids" -> u.pids_current > l.pids_max}

is_over_limit(u, l) ==
    \/ u.memory_bytes > l.memory_bytes
    \/ u.cpu_percent > l.cpu_percent
    \/ u.pids_current > l.pids_max

\* The resources get_violations names: pids are not among them.
get_violations(u, l) ==
    {r \in {"memory", "cpu"} :
        CASE r = "memory" -> u.memory_bytes > l.memory_bytes
          [] r = "cpu" -> u.cpu_percent > l.cpu_percent}

\* A usage as read_usage fills it in, at 100 ticks a second, where
\* delta * 100 / _SC_CLK_TCK is delta; the cast to 32 bits is left out.  The line
\* "Threads:" is looked for in four characters, so pids_current stays 0.
Usage(memory, ticked) ==
    [memory_bytes |-> memory, cpu_percent |-> ticked, pids_current |-> 0]

-----------------------------------------------------------------------------
(* read_usage, on any thread.                                              *)

\* A thread that has read /proc/<pid>/stat and not yet written prev.
MidRead == {t \in Threads : pc[t] \in {"load", "store"}}

\* The rest of read_usage fills in what is compared with no limit.
ReadReturns(t) == Goto(t, IF t = Monitor THEN "record" ELSE "idle")

\* total_time = utime + stime; without a process the usage is zero.
ReadStat(t) ==
    /\ At(t, "stat")
    /\ \/ /\ ticks >= 0
          /\ total' = [total EXCEPT ![t] = ticks]
          /\ mixed' = (mixed \/ MidRead # {})
          /\ Goto(t, "load")
          /\ UNCHANGED delta
       \/ /\ ticks < 0
          /\ delta' = [delta EXCEPT ![t] = 0]
          /\ ReadReturns(t)
          /\ UNCHANGED <<total, mixed>>
    /\ UNCHANGED <<object, ticks, reported, crossed, aborted>>

\* delta = total_time - prev_cpu_time_.
LoadPrev(t) ==
    /\ At(t, "load")
    /\ delta' = [delta EXCEPT ![t] = (total[t] - prev) % Word]
    /\ Goto(t, "store")
    /\ UNCHANGED <<total, object, ticks, past>>

\* Faulty variant: the previous CPU time is not brought up to date.
PrevKept(t) == prev

\* What prev_cpu_time_ becomes.
PrevAfter(t) == total[t]

\* The sum is of interest only as long as no reads were mixed up.  What a
\* user makes of its usage is left to the user.
StorePrev(t) ==
    /\ At(t, "store")
    /\ prev' = PrevAfter(t)
    /\ reported' = IF mixed THEN 0 ELSE reported + delta[t]
    /\ total' = [total EXCEPT ![t] = 0]
    /\ delta' = [delta EXCEPT ![t] = IF t = Monitor THEN @ ELSE 0]
    /\ ReadReturns(t)
    /\ UNCHANGED <<running, size, limits, ticks, mixed, crossed, aborted>>

ReadStep(t) == ReadStat(t) \/ LoadPrev(t) \/ StorePrev(t)

-----------------------------------------------------------------------------
(* monitor_loop.                                                           *)

\* Faulty variant: the loop does not look at the flag.
GoesOnAlways == TRUE

\* while (running_).
GoesOn == running

Loop ==
    /\ At(Monitor, "loop")
    /\ Goto(Monitor, IF GoesOn THEN "stat" ELSE "returned")
    /\ UNCHANGED <<locals, object, ticks, past>>

\* push_back, then erase the oldest if there are too many.
SizeAfter == IF size + 1 > HistoryMax THEN size ELSE size + 1

Record ==
    /\ At(Monitor, "record")
    /\ size' = SizeAfter
    /\ Goto(Monitor, "alerts")
    /\ UNCHANGED <<locals, running, prev, limits, ticks, past>>

\* check_alerts(usage): the callback runs if there is an alert.
CheckAlerts ==
    /\ At(Monitor, "alerts")
    /\ \E b \in Memory :
          Goto(Monitor, IF check_alerts(Usage(b, delta[Monitor]), limits) = {}
                        THEN "loop" ELSE "callback")
    /\ delta' = [delta EXCEPT ![Monitor] = 0]
    /\ UNCHANGED <<total, object, ticks, past>>

\* alert_callback_ returns, and the thread sleeps for a second.
Callback ==
    /\ At(Monitor, "callback")
    /\ Goto(Monitor, "loop")
    /\ UNCHANGED <<locals, object, ticks, past>>

MonitorStep == Loop \/ ReadStep(Monitor) \/ Record \/ CheckAlerts \/ Callback

-----------------------------------------------------------------------------
(* Users.  A read is get_usage, is_over_limit or get_violations.           *)

Cross(t) ==
    crossed' = (crossed \/ \E u \in Users \ {t} : pc[u] \in {"launch", "clear", "join"})

Enter(t) ==
    /\ At(t, "idle")
    /\ \E o \in {"start", "stop", "stat"} : Goto(t, o)
    /\ UNCHANGED <<locals, object, ticks, past>>

set_limit(t) ==
    /\ At(t, "idle")
    /\ limits' \in Limits
    /\ UNCHANGED <<pc, locals, running, prev, size, ticks, past>>

\* if (running_) return false.
Refuses == running

start(t) ==
    /\ At(t, "start")
    /\ Goto(t, IF Refuses THEN "idle" ELSE "launch")
    /\ Cross(t)
    /\ UNCHANGED <<locals, object, ticks, reported, mixed, aborted>>

\* running_ = true, and a new thread; assigning over a std::thread that has
\* not been joined ends the program.
Launch(t) ==
    /\ At(t, "launch")
    /\ running' = TRUE
    /\ aborted' = (pc[Monitor] # "none")
    /\ pc' = [pc EXCEPT ![t] = "idle", ![Monitor] = "loop"]
    /\ Cross(t)
    /\ UNCHANGED <<locals, prev, size, limits, ticks, reported, mixed>>

\* stop() returns at once unless this holds.
Stops == running

stop(t) ==
    /\ At(t, "stop")
    /\ Goto(t, IF Stops THEN "clear" ELSE "idle")
    /\ Cross(t)
    /\ UNCHANGED <<locals, object, ticks, reported, mixed, aborted>>

\* Faulty variant: only a thread that has returned is joined.
JoinableReturned == pc[Monitor] = "returned"

\* monitor_thread_.joinable().
Joinable == pc[Monitor] # "none"

StopClears(t) ==
    /\ At(t, "clear")
    /\ running' = FALSE
    /\ Goto(t, IF Joinable THEN "join" ELSE "idle")
    /\ UNCHANGED <<locals, prev, size, limits, ticks, past>>

\* To join a thread that another one has joined meanwhile is undefined.
StopJoins(t) ==
    /\ At(t, "join")
    /\ pc[Monitor] \in {"returned", "none"}
    /\ aborted' = (pc[Monitor] = "none")
    /\ pc' = [pc EXCEPT ![t] = "idle", ![Monitor] = "none"]
    /\ UNCHANGED <<locals, object, ticks, reported, mixed, crossed>>

UserStep(t) == ReadStep(t) \/ start(t) \/ Launch(t) \/ stop(t) \/ StopClears(t)
               \/ StopJoins(t)

-----------------------------------------------------------------------------
\* The process burns CPU, or ends, or a new one gets its pid.
Process ==
    /\ ~aborted
    /\ \/ ticks \in 0..(MaxTicks - 1) /\ ticks' = ticks + 1 /\ UNCHANGED mixed
       \/ ticks >= 0 /\ ticks' = -1 /\ UNCHANGED mixed
       \/ ticks < 0 /\ ticks' = 0 /\ mixed' = TRUE
    /\ UNCHANGED <<pc, locals, object, reported, crossed, aborted>>

Next ==
    \/ \E t \in Users : Enter(t) \/ set_limit(t) \/ UserStep(t)
    \/ MonitorStep
    \/ Process

Spec == Init /\ [][Next]_vars

\* Threads are scheduled, and alert callbacks return.
FairSpec == Spec /\ WF_vars(MonitorStep) /\ \A t \in Users : WF_vars(UserStep(t))

-----------------------------------------------------------------------------
(* Properties.                                                             *)

\* Every variable keeps its type; history_ stays within its cap.
TypeOK ==
    /\ pc \in [Threads -> {"none", "idle", "stat", "load", "store", "loop",
                           "record", "alerts", "callback", "returned",
                           "start", "launch", "stop", "clear", "join"}]
    /\ total \in [Threads -> 0..MaxTicks]
    /\ delta \in [Threads -> 0..(Word - 1)]
    /\ {running, mixed, crossed, aborted} \subseteq BOOLEAN
    /\ prev \in 0..MaxTicks
    /\ size \in 0..HistoryMax
    /\ limits \in Limits
    /\ ticks \in -1..MaxTicks
    /\ reported \in Nat

\* Every thread that asks for a usage moves prev_cpu_time_: each tick goes to
\* exactly one of them, none is reported twice and no difference wraps, unless
\* two reads overlap or the pid goes to a new process
\* (resource_monitor.cpp:78-86).
TicksReportedOnce ==
    mixed \/ (reported = prev /\ (ticks >= 0 => prev <= ticks))

\* The verdicts agree on every usage read_usage can return: over the limit if
\* and only if there is a violation, and a violation is also an alert
\* (resource_monitor.cpp:140-160, 206-208, 215-227).
VerdictsAgree ==
    \A b \in Memory, d \in 0..(Word - 1) :
        LET u == Usage(b, d)
        IN /\ is_over_limit(u, limits) <=> get_violations(u, limits) # {}
           /\ get_violations(u, limits) \subseteq check_alerts(u, limits)

\* A join or the assignment of a thread goes wrong only if two threads are in
\* start() or stop() at a time (resource_monitor.cpp:26-29, 34-38).
OnlyCrossingAborts == aborted => crossed

\* The thread of a monitor whose last stop() has returned is gone; it outlives
\* no stop() but one that found another thread in stop()
\* (resource_monitor.cpp:33-41).
StoppedMeansJoined ==
    (~running /\ pc[Monitor] # "none") =>
        crossed \/ \E t \in Users : pc[t] = "join"

\* In the middle of starting or stopping the thread.
Switching == {t \in Users : pc[t] \in {"launch", "clear", "join"}}

\* As long as no two users were in start() or stop() at a time, running_ says
\* whether there is a thread that has not left its loop, but for the user that
\* is about to change one of the two (resource_monitor.cpp:21-41).
FlagIsThread ==
    \/ crossed
    \/ /\ \A t, u \in Switching : t = u
       /\ running => pc[Monitor] \notin {"none", "returned"}
       /\ \A t \in Users : pc[t] = "launch" => ~running /\ pc[Monitor] = "none"
       /\ \A t \in Users : pc[t] = "clear" => running
       /\ \A t \in Users : pc[t] = "join" => ~running /\ pc[Monitor] # "none"

\* The monitor's thread and the users' are in different functions.
Places ==
    /\ pc[Monitor] \in {"none", "loop", "stat", "load", "store", "record",
                        "alerts", "callback", "returned"}
    /\ \A t \in Users : pc[t] \in {"idle", "stat", "load", "store", "start",
                                    "launch", "stop", "clear", "join"}

\* As long as no two reads overlapped, the one read between its load and its
\* store of prev_cpu_time_ saw ticks that lie between prev_cpu_time_ and those
\* of the process now, and its difference does not wrap
\* (resource_monitor.cpp:78-86).
ReadsAlone ==
    \/ mixed
    \/ /\ \A t, u \in MidRead : t = u
       /\ \A t \in MidRead : /\ prev <= total[t]
                             /\ ticks >= 0 => total[t] <= ticks
                             /\ pc[t] = "store" => delta[t] = total[t] - prev

\* Types, OnlyCrossingAborts and StoppedMeansJoined, the life of the thread,
\* with what carries them and TicksReportedOnce from step to step
\* (resource_monitor.cpp:21-41, 78-86).
MonitorInv ==
    /\ TypeOK /\ OnlyCrossingAborts /\ StoppedMeansJoined
    /\ Places /\ FlagIsThread /\ ReadsAlone

\* stop() returns, since the thread sees the flag within a round, unless a
\* start() crosses it (resource_monitor.cpp:37-39, 164).
StopReturns == \A t \in Users : (pc[t] = "join") ~> (pc[t] # "join" \/ crossed)
=============================================================================
