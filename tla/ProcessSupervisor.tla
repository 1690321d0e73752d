------------------------- MODULE ProcessSupervisor -------------------------
(***************************************************************************)
(* ProcessSupervisor (src/sandbox/src/process_supervisor.cpp): threads     *)
(* that call its API, one monitor thread per process, the watchdog thread  *)
(* and the supervised children.  API calls and the watchdog's sweep hold   *)
(* processes_mutex_; the monitors read and write the same entries without  *)
(* it, so their statements interleave with everything.                     *)
(*                                                                         *)
(* A thread is named by a caller, by Watchdog, or by the process whose     *)
(* monitor it is: spawn_process joins the old monitor of an entry before   *)
(* it creates the next, so there is never more than one.                   *)
(***************************************************************************)
EXTENDS Integers, FiniteSets

CONSTANTS
    Callers,        \* threads that use the API
    Watchdog,       \* the watchdog thread
    Names,          \* process names
    None,
    Ops,            \* Ops[c]: operations caller c uses
    MaxCalls,       \* bound: calls per caller
    MaxPids,        \* processes the system lets the daemon fork
    Configs,        \* values of ProcessConfig, of which these fields count
    Statuses,       \* wait statuses a child may end with by itself
    StopTimeouts,   \* can the timeout_ms of stop() run out?
    RunTimeouts     \* can the timeout_seconds of a process run out?

AllOps == {"add", "remove", "start", "stop", "restart", "stop_all",
           "start_watchdog", "stop_watchdog", "destroy"}

Pids == 1..MaxPids
WaitStatuses == 0..65535
EndStatuses == WaitStatuses \cup {-1}
Threads == Callers \cup Names \cup {Watchdog}

ASSUME SupervisorAssumption ==
    /\ Callers \cap Names = {}
    /\ Watchdog \notin Callers \cup Names
    /\ None \notin Threads
    /\ Ops \in [Callers -> SUBSET AllOps]
    /\ MaxCalls \in Nat
    /\ MaxPids \in Nat
    /\ Configs \subseteq [restart_policy : {"NEVER", "ON_FAILURE", "ALWAYS"},
                          max_restarts : Nat]
    /\ Configs # {}
    /\ Statuses \subseteq WaitStatuses
    /\ {StopTimeouts, RunTimeouts} \subseteq BOOLEAN

VARIABLES
    pc,             \* pc[t]: where thread t stands; "none": no such thread
    op,             \* op[c]: the API call of caller c
    on,             \* on[t]: the name the thread works on
    hand,           \* hand[t]: the child the thread forked or reaped, 0: none
    calls,          \* calls[c]: calls made so far
    mutex,          \* owner of processes_mutex_, None when free
    processes,      \* names in processes_
    config,         \* ProcessEntry::config
    status,         \* ProcessState::status
    pid,            \* ProcessState::pid, 0 for -1
    exit_code,      \* ProcessState::exit_code
    restart_count,  \* ProcessState::restart_count
    running,        \* ProcessEntry::running
    watchdog_running,
    todo,           \* names the sweep of the watchdog has not visited
    child,          \* child[p]: "free", "alive", "zombie" or "reaped"
    owner,          \* owner[p]: the name pid p was forked for
    ended,          \* ended[p]: wait status of p, -1 while it runs
    reported,       \* history: thread and type of the exit event of pid p
    raced,          \* history: names for which handle_exit wrote over a start()
    aborted         \* std::terminate was called

callVars == <<op, calls>>
entryVars == <<processes, config, status, pid, exit_code, restart_count, running>>
dogVars == <<watchdog_running, todo>>
kidVars == <<child, owner, ended>>
past == <<reported, raced, aborted>>
vars == <<pc, on, hand, callVars, mutex, entryVars, dogVars, kidVars, past>>

Init ==
    /\ pc = [t \in Threads |-> IF t \in Callers THEN "idle" ELSE "none"]
    /\ op = [c \in Callers |-> None]
    /\ on = [t \in Threads |-> IF t \in Names THEN t ELSE None]
    /\ hand = [t \in Threads |-> 0]
    /\ calls = [c \in Callers |-> 0]
    /\ mutex = None
    /\ processes = {}
    /\ config = [n \in Names |-> CHOOSE f \in Configs : TRUE]
    /\ status = [n \in Names |-> "STOPPED"]
    /\ pid = [n \in Names |-> 0]
    /\ exit_code = [n \in Names |-> 0]
    /\ restart_count = [n \in Names |-> 0]
    /\ running = [n \in Names |-> FALSE]
    /\ watchdog_running = FALSE
    /\ todo = {}
    /\ child = [p \in Pids |-> "free"]
    /\ owner = [p \in Pids |-> None]
    /\ ended = [p \in Pids |-> -1]
    /\ reported = [p \in Pids |-> [by |-> None, type |-> "none"]]
    /\ raced = {}
    /\ aborted = FALSE

Exited(c) == 256 * c
Signaled(s) == s

WEXITSTATUS(s) == (s \div 256) % 256
SIGKILL == 9

\* After std::terminate no thread takes another step.
At(t, where) == ~aborted /\ pc[t] = where

Goto(t, where) == pc' = [pc EXCEPT ![t] = where]

\* kill(p, SIGTERM): what the child makes of it is up to the child.
Term(p) == UNCHANGED kidVars

\* kill(p, SIGKILL): a live child is gone, a dead one does not notice.
Kill(p) ==
    LET hit == p \in Pids /\ child[p] = "alive"
    IN /\ child' = IF hit THEN [child EXCEPT ![p] = "zombie"] ELSE child
       /\ ended' = IF hit THEN [ended EXCEPT ![p] = Signaled(SIGKILL)] ELSE ended
       /\ UNCHANGED owner

\* waitpid(p, &status, WNOHANG) > 0.
Reapable(p) == p \in Pids /\ child[p] = "zombie"

-----------------------------------------------------------------------------
(* Decisions of the code.  The operators marked "faulty variant" are bugs  *)
(* this code could have had; no action uses them.                          *)

\* Faulty variant: start() does not look at the status.
MayStartAlways(n) == TRUE

MayStart(n) == status[n] # "RUNNING"

\* Faulty variant: stop() gives up on a child without killing it.
GiveUpGently(n) == Term(pid[n])

\* Force kill when the timeout of stop() is over.
GiveUp(n) == Kill(pid[n])

\* Faulty variant: stop() waits for as long as the child is RUNNING.
NeverTimesOut(n) == FALSE

\* It may run out wherever the monitor is: nothing makes stop() wait for it.
TimesOut(n) == StopTimeouts

\* Faulty variant: the new monitor is assigned over the old one.
NoJoin(n) == TRUE

\* monitor_thread.join() of an entry that was spawned before.
Joined(n) == pc[n] \in {"none", "returned"}

\* Faulty variant: the sweep follows the running flag.
SweepsRunning(n) == running[n]

\* The sweep of the watchdog looks at this entry.
Sweeps(n) == status[n] = "RUNNING" /\ pid[n] > 0

\* What handle_exit makes of the status.
StatusAfterExit(n) == "STOPPED"

\* The condition of the restart logic.
Restarts(n) == exit_code[n] # 0 /\ config[n].restart_policy # "NEVER"

-----------------------------------------------------------------------------
(* API calls.  Each takes the mutex and releases it when it returns.       *)

Enter(c) ==
    /\ At(c, "idle")
    /\ calls[c] < MaxCalls
    /\ \A d \in Callers : op[d] # "destroy"
    /\ \E o \in Ops[c] :
          /\ o = "destroy" => \A d \in Callers : pc[d] = "idle"
          /\ op' = [op EXCEPT ![c] = o]
          /\ Goto(c, CASE o = "start_watchdog" -> "dog_check"
                       [] o = "stop_watchdog" -> "dog_stop"
                       [] OTHER -> "lock")
    /\ \E n \in Names : on' = [on EXCEPT ![c] = n]
    /\ calls' = [calls EXCEPT ![c] = @ + 1]
    /\ UNCHANGED <<hand, mutex, entryVars, dogVars, kidVars, past>>

Locking(c, o) == At(c, "lock") /\ op[c] = o /\ mutex = None

add_process(c) ==
    /\ Locking(c, "add")
    /\ Goto(c, "idle")
    /\ LET n == on[c]
       IN IF n \in processes
          THEN UNCHANGED entryVars
          ELSE /\ processes' = processes \cup {n}
               /\ \E f \in Configs : config' = [config EXCEPT ![n] = f]
               /\ status' = [status EXCEPT ![n] = "STOPPED"]
               /\ pid' = [pid EXCEPT ![n] = 0]
               /\ exit_code' = [exit_code EXCEPT ![n] = 0]
               /\ restart_count' = [restart_count EXCEPT ![n] = 0]
               /\ running' = [running EXCEPT ![n] = FALSE]
    /\ UNCHANGED <<on, hand, callVars, mutex, dogVars, kidVars, past>>

\* stop() under the mutex that remove_process holds never returns; erasing
\* an entry whose monitor_thread is joinable calls std::terminate.
remove_process(c) ==
    /\ Locking(c, "remove")
    /\ LET n == on[c]
           present == n \in processes
           stops == present /\ status[n] = "RUNNING"
       IN /\ Goto(c, IF stops THEN "relock" ELSE "idle")
          /\ mutex' = IF stops THEN c ELSE None
          /\ processes' = IF stops THEN processes ELSE processes \ {n}
          /\ aborted' = (present /\ ~stops /\ pc[n] # "none")
    /\ UNCHANGED <<on, hand, callVars, config, status, pid, exit_code,
                   restart_count, running, dogVars, kidVars, reported, raced>>

start(c) ==
    /\ Locking(c, "start")
    /\ LET go == on[c] \in processes /\ MayStart(on[c])
       IN /\ Goto(c, IF go THEN "fork" ELSE "idle")
          /\ mutex' = IF go THEN c ELSE None
    /\ UNCHANGED <<on, hand, callVars, entryVars, dogVars, kidVars, past>>

\* stop(), up to its wait loop; restart() goes on to start() either way.
stop(c) ==
    /\ Locking(c, "stop") \/ Locking(c, "restart")
    /\ LET n == on[c]
           go == n \in processes /\ status[n] = "RUNNING"
       IN IF go
          THEN /\ Goto(c, "stopping")
               /\ mutex' = c
               /\ running' = [running EXCEPT ![n] = FALSE]
               /\ Term(pid[n])
               /\ UNCHANGED op
          ELSE /\ Goto(c, IF op[c] = "restart" THEN "lock" ELSE "idle")
               /\ op' = [op EXCEPT ![c] = IF @ = "restart" THEN "start" ELSE @]
               /\ UNCHANGED <<mutex, running, kidVars>>
    /\ UNCHANGED <<on, hand, calls, processes, config, status, pid, exit_code,
                   restart_count, dogVars, past>>

\* The wait loop ends: the status changed, or the timeout ran out.
StopWaited(c) ==
    /\ At(c, "stopping")
    /\ \/ status[on[c]] # "RUNNING" /\ UNCHANGED kidVars
       \/ status[on[c]] = "RUNNING" /\ TimesOut(on[c]) /\ GiveUp(on[c])
    /\ Goto(c, "stopped")
    /\ UNCHANGED <<on, hand, callVars, mutex, entryVars, dogVars, past>>

StopReturns(c) ==
    /\ At(c, "stopped")
    /\ status' = [status EXCEPT ![on[c]] = "STOPPED"]
    /\ mutex' = None
    /\ Goto(c, IF op[c] = "restart" THEN "lock" ELSE "idle")
    /\ op' = [op EXCEPT ![c] = IF @ = "restart" THEN "start" ELSE @]
    /\ UNCHANGED <<on, hand, calls, processes, config, pid, exit_code, restart_count,
                   running, dogVars, kidVars, past>>

\* stop_all(); the destructor goes on to stop_watchdog().
stop_all(c) ==
    /\ Locking(c, "stop_all") \/ Locking(c, "destroy")
    /\ running' = [n \in Names |-> running[n] /\ ~(n \in processes
                                                   /\ status[n] = "RUNNING")]
    /\ Goto(c, IF op[c] = "destroy" THEN "dog_stop" ELSE "idle")
    /\ UNCHANGED <<on, hand, callVars, mutex, processes, config, status, pid, exit_code,
                   restart_count, dogVars, kidVars, past>>

-----------------------------------------------------------------------------
(* spawn_process, on the thread of start() or of handle_exit().            *)

Spawners == Callers \cup Names

\* Back from spawn_process: start() releases the mutex.
SpawnReturns(t) ==
    /\ Goto(t, IF t \in Callers THEN "idle" ELSE "returned")
    /\ mutex' = IF t \in Callers THEN None ELSE mutex

\* Another thread is in spawn_process for the same process.
Overlaps(t) ==
    \E u \in Threads \ {t} :
        on[u] = on[t] /\ pc[u] \in {"fork", "forked", "spawn_flag", "join"}

\* STARTING, the counter reset and fork(), which may fail.
Fork(t) ==
    /\ At(t, "fork")
    /\ raced' = IF Overlaps(t) THEN raced \cup {on[t]} ELSE raced
    /\ LET n == on[t]
           free == {p \in Pids : child[p] = "free"}
       IN /\ restart_count' = [restart_count EXCEPT ![n] = 0]
          /\ IF free = {}
             THEN /\ status' = [status EXCEPT ![n] = "FAILED"]
                  /\ SpawnReturns(t)
                  /\ UNCHANGED <<hand, child, owner>>
             ELSE \E p \in free :
                     /\ \A q \in free : p <= q
                     /\ status' = [status EXCEPT ![n] = "STARTING"]
                     /\ child' = [child EXCEPT ![p] = "alive"]
                     /\ owner' = [owner EXCEPT ![p] = n]
                     /\ hand' = [hand EXCEPT ![t] = p]
                     /\ Goto(t, "forked")
                     /\ UNCHANGED mutex
    /\ UNCHANGED <<on, callVars, processes, config, pid, exit_code, running, dogVars,
                   ended, reported, aborted>>

\* The parent records the child.
Forked(t) ==
    /\ At(t, "forked")
    /\ pid' = [pid EXCEPT ![on[t]] = hand[t]]
    /\ status' = [status EXCEPT ![on[t]] = "RUNNING"]
    /\ Goto(t, "spawn_flag")
    /\ UNCHANGED <<on, hand, callVars, mutex, processes, config, exit_code,
                   restart_count, running, dogVars, kidVars, past>>

SpawnFlag(t) ==
    /\ At(t, "spawn_flag")
    /\ running' = [running EXCEPT ![on[t]] = TRUE]
    /\ Goto(t, "join")
    /\ UNCHANGED <<on, hand, callVars, mutex, processes, config, status, pid, exit_code,
                   restart_count, dogVars, kidVars, past>>

\* Join the old monitor and start the next one.  A monitor that joins
\* itself gets std::system_error and ends the program, as does assigning
\* to a std::thread that is still joinable.
Join(t) ==
    /\ At(t, "join")
    /\ hand' = [hand EXCEPT ![t] = 0]
    /\ LET n == on[t]
       IN \/ /\ t = n
             /\ aborted' = TRUE
             /\ UNCHANGED <<pc, mutex>>
          \/ /\ t # n
             /\ Joined(n)
             /\ aborted' = (pc[n] \notin {"none", "returned"})
             /\ pc' = [pc EXCEPT ![n] = "loop", ![t] = "idle"]
             /\ mutex' = None
    /\ UNCHANGED <<on, callVars, entryVars, dogVars, kidVars, reported, raced>>

-----------------------------------------------------------------------------
(* monitor_process of n, with no mutex.                                    *)

MonitorLoop(n) ==
    /\ At(n, "loop")
    /\ Goto(n, IF running[n] THEN "waitpid" ELSE "returned")
    /\ UNCHANGED <<on, hand, callVars, mutex, entryVars, dogVars, kidVars,
                   past>>

\* One iteration after the test of the flag: reap the child, or kill it
\* because its time is over, or sleep.
MonitorWait(n) ==
    /\ At(n, "waitpid")
    /\ \/ /\ Reapable(pid[n])
          /\ child' = [child EXCEPT ![pid[n]] = "reaped"]
          /\ hand' = [hand EXCEPT ![n] = pid[n]]
          /\ Goto(n, "exit_flag")
          /\ UNCHANGED <<owner, ended>>
       \/ /\ ~Reapable(pid[n])
          /\ RunTimeouts
          /\ Kill(pid[n])
          /\ Goto(n, "returned")
          /\ UNCHANGED hand
       \/ /\ ~Reapable(pid[n])
          /\ Goto(n, "loop")
          /\ UNCHANGED <<hand, kidVars>>
    /\ UNCHANGED <<on, callVars, mutex, entryVars, dogVars, past>>

-----------------------------------------------------------------------------
(* handle_exit, on the monitor thread or on the watchdog's.                *)

Handlers == Names \cup {Watchdog}

\* Faulty variant: the monitor passes the exit code, too.
DecodedTwice(t) == WEXITSTATUS(ended[hand[t]])

\* The int status handle_exit is given: from the watchdog it is
\* WEXITSTATUS(status), which handle_exit decodes once more.
StatusFor(t) ==
    LET s == ended[hand[t]] IN IF t = Watchdog THEN WEXITSTATUS(s) ELSE s

ExitFlag(t) ==
    /\ At(t, "exit_flag")
    /\ running' = [running EXCEPT ![on[t]] = FALSE]
    /\ exit_code' = [exit_code EXCEPT ![on[t]] = WEXITSTATUS(StatusFor(t))]
    /\ Goto(t, "exit_status")
    /\ UNCHANGED <<on, hand, callVars, mutex, processes, config, status, pid,
                   restart_count, dogVars, kidVars, past>>

ExitStatus(t) ==
    /\ At(t, "exit_status")
    /\ status' = [status EXCEPT ![on[t]] = StatusAfterExit(on[t])]
    /\ raced' = IF pid[on[t]] # hand[t] THEN raced \cup {on[t]} ELSE raced
    /\ Goto(t, "exit_event")
    /\ UNCHANGED <<on, hand, callVars, mutex, processes, config, pid, exit_code,
                   restart_count, running, dogVars, kidVars, reported, aborted>>

HandlerReturns(t) == Goto(t, IF t = Watchdog THEN "sweep" ELSE "returned")

\* The exit event of the child t has in hand, with the pid the entry of n has.
emit_event(t, n, type) ==
    reported' = [reported EXCEPT ![hand[t]] =
                    [by |-> t, type |-> IF pid[n] = hand[t] THEN type ELSE "misnamed"]]

\* The event, with the pid the entry has by now, and the restart logic.
ExitEvent(t) ==
    /\ At(t, "exit_event")
    /\ raced' = IF Restarts(on[t]) /\ (Overlaps(t) \/ pid[on[t]] # hand[t])
                THEN raced \cup {on[t]} ELSE raced
    /\ hand' = [hand EXCEPT ![t] = 0]
    /\ LET n == on[t]
           type == IF exit_code[n] = 0 THEN "STOPPED" ELSE "CRASHED"
           again == Restarts(n) /\ restart_count[n] < config[n].max_restarts
       IN /\ emit_event(t, n, type)
          /\ restart_count' = [restart_count EXCEPT ![n] =
                                  IF again THEN @ + 1 ELSE @]
          /\ status' = [status EXCEPT ![n] =
                           IF again THEN "RESTARTING"
                           ELSE IF Restarts(n) THEN "FAILED" ELSE @]
          /\ IF again THEN Goto(t, "fork") ELSE HandlerReturns(t)
    /\ UNCHANGED <<on, callVars, mutex, processes, config, pid, exit_code, running,
                   dogVars, kidVars, aborted>>

-----------------------------------------------------------------------------
(* The watchdog.                                                           *)

start_watchdog_check(c) ==
    /\ At(c, "dog_check")
    /\ Goto(c, IF watchdog_running THEN "idle" ELSE "dog_start")
    /\ UNCHANGED <<on, hand, callVars, mutex, entryVars, dogVars, kidVars,
                   past>>

start_watchdog(c) ==
    /\ At(c, "dog_start")
    /\ watchdog_running' = TRUE
    /\ aborted' = (pc[Watchdog] # "none")
    /\ pc' = [pc EXCEPT ![c] = "idle", ![Watchdog] = IF @ = "none" THEN "sleep" ELSE @]
    /\ UNCHANGED <<on, hand, callVars, mutex, entryVars, todo, kidVars, reported, raced>>

stop_watchdog(c) ==
    /\ At(c, "dog_stop")
    /\ watchdog_running' = FALSE
    /\ Goto(c, "dog_join")
    /\ UNCHANGED <<on, hand, callVars, mutex, entryVars, todo, kidVars, past>>

\* The destructor then destroys the entries: a joinable monitor_thread,
\* which every process ever started has, calls std::terminate.
JoinWatchdog(c) ==
    /\ At(c, "dog_join")
    /\ pc[Watchdog] \in {"none", "returned"}
    /\ pc' = [pc EXCEPT ![c] = "idle", ![Watchdog] = "none"]
    /\ aborted' = (op[c] = "destroy" /\ \E n \in processes : pc[n] # "none")
    /\ UNCHANGED <<on, hand, callVars, mutex, entryVars, dogVars, kidVars,
                   reported, raced>>

\* The thread wakes up and takes the mutex for one sweep.
WatchdogWakes ==
    /\ At(Watchdog, "sleep")
    /\ mutex = None
    /\ mutex' = Watchdog
    /\ todo' = processes
    /\ Goto(Watchdog, "sweep")
    /\ UNCHANGED <<on, hand, callVars, entryVars, watchdog_running, kidVars,
                   past>>

\* One entry of the sweep.
WatchdogLooks ==
    /\ At(Watchdog, "sweep")
    /\ \E n \in todo :
          /\ todo' = todo \ {n}
          /\ IF Sweeps(n) /\ Reapable(pid[n])
             THEN /\ child' = [child EXCEPT ![pid[n]] = "reaped"]
                  /\ hand' = [hand EXCEPT ![Watchdog] = pid[n]]
                  /\ on' = [on EXCEPT ![Watchdog] = n]
                  /\ Goto(Watchdog, "exit_flag")
             ELSE UNCHANGED <<pc, on, hand, child>>
    /\ UNCHANGED <<callVars, mutex, entryVars, watchdog_running, owner, ended,
                   past>>

WatchdogSleeps ==
    /\ At(Watchdog, "sweep")
    /\ todo = {}
    /\ mutex' = None
    /\ Goto(Watchdog, IF watchdog_running THEN "sleep" ELSE "returned")
    /\ UNCHANGED <<on, hand, callVars, entryVars, dogVars, kidVars, past>>

-----------------------------------------------------------------------------
\* A child ends by itself, or on the SIGTERM it was sent.
ChildEnds(p) ==
    /\ ~aborted
    /\ child[p] = "alive"
    /\ \E s \in Statuses : ended' = [ended EXCEPT ![p] = s]
    /\ child' = [child EXCEPT ![p] = "zombie"]
    /\ UNCHANGED <<pc, on, hand, callVars, mutex, entryVars, dogVars, owner,
                   past>>

SpawnStep(t) == Fork(t) \/ Forked(t) \/ SpawnFlag(t) \/ Join(t)

CallStep(c) ==
    \/ add_process(c) \/ remove_process(c) \/ start(c) \/ stop(c)
    \/ StopWaited(c) \/ StopReturns(c) \/ stop_all(c)
    \/ start_watchdog_check(c) \/ start_watchdog(c) \/ stop_watchdog(c)
    \/ JoinWatchdog(c) \/ SpawnStep(c)

ExitStep(t) == ExitFlag(t) \/ ExitStatus(t) \/ ExitEvent(t)

MonitorStep(n) ==
    MonitorLoop(n) \/ MonitorWait(n) \/ ExitStep(n) \/ SpawnStep(n)

WatchdogStep ==
    WatchdogWakes \/ WatchdogLooks \/ WatchdogSleeps \/ ExitStep(Watchdog)

Next ==
    \/ \E c \in Callers : Enter(c) \/ CallStep(c)
    \/ \E n \in Names : MonitorStep(n)
    \/ WatchdogStep
    \/ \E p \in Pids : ChildEnds(p)

Spec == Init /\ [][Next]_vars

\* Every thread is scheduled (the mutex is handed out fairly: its holders
\* sleep for 500 ms or more between two sections), and children end.
FairSpec ==
    /\ Spec
    /\ \A c \in Callers : SF_vars(CallStep(c))
    /\ \A n \in Names : WF_vars(MonitorStep(n))
    /\ SF_vars(WatchdogStep)
    /\ \A p \in Pids : WF_vars(ChildEnds(p))

-----------------------------------------------------------------------------
(* Properties.                                                             *)

\* Every variable keeps its type.
TypeOK ==
    /\ pc \in [Threads ->
                {"idle", "none", "lock", "relock", "fork", "forked",
                 "spawn_flag", "join", "stopping", "stopped", "loop",
                 "waitpid", "returned", "exit_flag", "exit_status",
                 "exit_event", "sleep", "sweep", "dog_check", "dog_start",
                 "dog_stop", "dog_join"}]
    /\ op \in [Callers -> AllOps \cup {None}]
    /\ on \in [Threads -> Names \cup {None}]
    /\ hand \in [Threads -> 0..MaxPids]
    /\ calls \in [Callers -> 0..MaxCalls]
    /\ mutex \in Callers \cup {Watchdog, None}
    /\ processes \subseteq Names
    /\ config \in [Names -> Configs]
    /\ status \in [Names -> {"STOPPED", "STARTING", "RUNNING", "RESTARTING",
                             "FAILED"}]
    /\ pid \in [Names -> 0..MaxPids]
    /\ exit_code \in [Names -> 0..255]
    /\ restart_count \in [Names -> Nat]
    /\ running \in [Names -> BOOLEAN]
    /\ watchdog_running \in BOOLEAN
    /\ todo \subseteq Names
    /\ child \in [Pids -> {"free", "alive", "zombie", "reaped"}]
    /\ owner \in [Pids -> Names \cup {None}]
    /\ ended \in [Pids -> EndStatuses]
    /\ reported \in [Pids -> [by : Threads \cup {None},
                             type : {"none", "STOPPED", "CRASHED", "misnamed"}]]
    /\ raced \subseteq Names
    /\ aborted \in BOOLEAN

\* handle_exit is restarting n by itself, without the mutex.
SelfRestart(n) == pc[n] \in {"fork", "forked", "spawn_flag", "join"}

\* The restart logic of n is at work, or handle_exit has written over a start().
Raced(n) == SelfRestart(n) \/ n \in raced

\* No two live children of one process, although start, stop, the monitor
\* and the watchdog race for the entry.  A second one gets in only after
\* handle_exit, which runs without the mutex, has written over a start():
\* with the fork of the restart logic or its FAILED, or, whatever the
\* policy, with the STOPPED for a child that stop() had given up before its
\* monitor did, so that the next start() was not told of the new child
\* (process_supervisor.cpp:50-131, 169-211, 236-247).
OneChild ==
    \A p, q \in Pids : p # q /\ child[p] = "alive" /\ child[q] = "alive"
        => owner[p] # owner[q] \/ Raced(owner[p])

\* A live child is always the pid of a RUNNING entry, so that stop() and
\* stop_all() can reach it, but for the instant between fork() and the
\* parent's assignments, and after the same races of handle_exit with a
\* start() (process_supervisor.cpp:70-119, 169-211, 219-250).
Tracked ==
    \A p \in Pids : child[p] = "alive" =>
        \/ pid[owner[p]] = p /\ status[owner[p]] = "RUNNING"
        \/ \E t \in Spawners : pc[t] = "forked" /\ hand[t] = p
        \/ Raced(owner[p])

\* A RUNNING entry names a child that is still there, unless the thread
\* that reaped it has yet to write the status.
RunningIsReal ==
    \A n \in Names : status[n] = "RUNNING" =>
        \/ child[pid[n]] \in {"alive", "zombie"}
        \/ \E t \in Handlers : on[t] = n /\ pc[t] \in {"exit_flag", "exit_status"}

\* Statements of spawn_process, and of handle_exit.
Spawning == {"fork", "forked", "spawn_flag", "join"}
Exiting == {"exit_flag", "exit_status", "exit_event"}

\* Where each kind of thread can be, and on whose behalf.
Placed ==
    /\ \A c \in Callers :
          /\ pc[c] \in Spawning \cup {"idle", "lock", "relock", "stopping", "stopped",
                                      "dog_check", "dog_start", "dog_stop", "dog_join"}
          /\ pc[c] # "idle" => on[c] \in Names
    /\ \A n \in Names :
          /\ pc[n] \in Spawning \cup Exiting \cup {"none", "loop", "waitpid", "returned"}
          /\ on[n] = n
    /\ pc[Watchdog] \in Exiting \cup {"none", "sleep", "sweep", "returned"}
    /\ pc[Watchdog] \in Exiting => on[Watchdog] \in Names

\* Who holds processes_mutex_, and that no one else can erase its entry.
MutexHeld ==
    /\ \A c \in Callers :
          /\ mutex = c <=> pc[c] \in Spawning \cup {"relock", "stopping", "stopped"}
          /\ mutex = c => on[c] \in processes
    /\ mutex = Watchdog <=> pc[Watchdog] \in Exiting \cup {"sweep"}

\* A start() of n has forked and holds the mutex.
StartedBy(n, where) == \E c \in Callers : on[c] = n /\ pc[c] \in where

\* A pid belongs to one name, and to an entry or to the thread that forked it.
PidsOwned ==
    /\ \A n \in Names : pid[n] # 0 => owner[pid[n]] = n /\ child[pid[n]] # "free"
    /\ \A n \in Names : status[n] = "RUNNING" => pid[n] # 0
    /\ \A p \in Pids : child[p] # "free" => owner[p] \in Names
    /\ \A p \in Pids : child[p] = "free" => owner[p] = None
    /\ \A t \in Spawners : pc[t] = "forked" =>
          /\ hand[t] \in Pids
          /\ owner[hand[t]] = on[t]
          /\ child[hand[t]] \in {"alive", "zombie"}
          /\ \A n \in Names : pid[n] # hand[t]
          /\ \A u \in Spawners : pc[u] = "forked" /\ hand[u] = hand[t] => u = t

\* Only a name that was started has children, and it keeps its entry.
EntryKept ==
    \A n \in Names :
        /\ n \notin processes => pc[n] = "none" \/ aborted
        /\ pc[n] = "none" => \/ StartedBy(n, {"forked", "spawn_flag", "join"})
                             \/ \A p \in Pids : owner[p] # n

\* handle_exit has a child that is reaped and knows its exit code; the watchdog
\* and the monitor of a process are never both in handle_exit.
Handled(t) ==
    /\ hand[t] \in Pids
    /\ child[hand[t]] = "reaped"
    /\ owner[hand[t]] = on[t]
    /\ pc[t] # "exit_flag" => exit_code[on[t]] = WEXITSTATUS(StatusFor(t))
    /\ t = Watchdog => /\ pid[on[t]] = hand[t]
                       /\ pc[on[t]] \notin Exiting \cup {"fork", "forked"}
    /\ t # Watchdog => \/ pid[t] = hand[t]
                       \/ pid[t] # 0 /\ StartedBy(t, {"spawn_flag", "join"})

Handling == \A t \in Handlers : pc[t] \in Exiting => Handled(t)

\* While a monitor restarts its process only a start() writes RUNNING.
Restarting ==
    \A n \in Names : pc[n] \in {"fork", "forked"} =>
        status[n] # "RUNNING" \/ StartedBy(n, {"spawn_flag", "join"})

\* The restart logic of n has forked, or handle_exit has written over a start().
Hidden(n) == n \in raced \/ pc[n] \in {"forked", "spawn_flag", "join"}

\* What a caller relies on while it holds the mutex and the monitor does not.
CallerRelies(c, n) ==
    /\ pc[c] \in {"fork", "forked"} => status[n] # "RUNNING" \/ Hidden(n)
    /\ pc[c] \in {"stopping", "stopped"} => ~running[n] \/ Hidden(n)
    /\ pc[c] = "stopped" =>
          status[n] # "RUNNING" \/ child[pid[n]] # "alive" \/ Hidden(n)

\* Tracked, but for the moment in which a restart has not forked yet.
TrackedYet(n) ==
    \A p \in Pids : child[p] = "alive" /\ owner[p] = n =>
        \/ pid[n] = p /\ status[n] = "RUNNING"
        \/ \E t \in Spawners : pc[t] = "forked" /\ hand[t] = p
        \/ Hidden(n)

\* The threads that work on n without a common lock agree on its entry.
Agreed(n) ==
    /\ \A c \in Callers : on[c] = n => CallerRelies(c, n)
    /\ TrackedYet(n)

\* Types, Tracked and RunningIsReal: the entries and the children agree, seen
\* from either side (process_supervisor.cpp:50-250); with what carries them from
\* step to step.
SupervisorInv ==
    /\ TypeOK /\ Tracked /\ RunningIsReal
    /\ Placed /\ MutexHeld /\ PidsOwned /\ EntryKept /\ Handling /\ Restarting
    /\ \A n \in Names : Agreed(n)

\* The supervisor never ends the program it runs in.
Survives == ~aborted

\* Whatever the calls, policies and exits, only three things end the program: a
\* monitor that restarts its process and joins itself, and the erasure of an
\* entry with a joinable monitor by remove_process or by the destructor
\* (process_supervisor.cpp:17-20, 46, 122-125, 324-346).
OnlyKnownAborts ==
    aborted =>
        \/ \E n \in Names : pc[n] = "join"
        \/ \E c \in Callers :
              /\ pc[c] = "idle"
              /\ \/ op[c] = "remove" /\ on[c] \notin processes /\ pc[on[c]] # "none"
                 \/ op[c] = "destroy" /\ \E n \in processes : pc[n] # "none"

\* A monitor spawns a replacement only for a child that crashed, and only
\* if the policy of the process asks for it (process_supervisor.cpp:192).
RestartOnlyOnFailure ==
    \A n \in Names : SelfRestart(n) =>
        /\ config[n].restart_policy # "NEVER"
        /\ \E p \in Pids : owner[p] = n /\ child[p] = "reaped"
                           /\ WEXITSTATUS(ended[p]) # 0

\* Every call returns: stop() gives up after its timeout, start() joins a
\* monitor that ends with its child (process_supervisor.cpp:122, 236-245).
CallsReturn == \A c \in Callers : (pc[c] # "idle") ~> (pc[c] = "idle")

\* With the watchdog on, the dead child of a RUNNING entry is reaped, also
\* when stop_all() or the run timeout left it without a monitor, unless a
\* stop() that timed out gives the entry up first
\* (process_supervisor.cpp:150-156, 239-246, 257-266, 331-339).
ZombieReaped ==
    \A p \in Pids :
        LET tracked == \E n \in Names : status[n] = "RUNNING" /\ pid[n] = p
        IN (child[p] = "zombie" /\ tracked /\ watchdog_running)
              ~> (child[p] = "reaped" \/ ~tracked \/ ~watchdog_running)

\* What an exit event says: CRASHED is a child with a non-zero exit code, a
\* STOPPED from a monitor is none, so only the watchdog, which decodes the
\* status twice, reports a crash as STOPPED; and the event of the watchdog,
\* which holds the mutex, carries the pid of the child it is about: only a
\* monitor's may name another child, one that a start() forked for the same
\* process meanwhile
\* (process_supervisor.cpp:176-187, 336; process_supervisor.hpp:53).
ExitReported ==
    \A p \in Pids :
        LET r == reported[p]
            crashed == WEXITSTATUS(ended[p]) # 0
        IN /\ r.type = "CRASHED" => crashed
           /\ r.type = "STOPPED" /\ crashed => r.by = Watchdog
           /\ r.type = "misnamed" =>
                 /\ r.by # Watchdog
                 /\ \E q \in Pids \ {p} : owner[q] = owner[p]

\* RestartOnlyOnFailure and ExitReported: what handle_exit reports and does
\* about an exit follows from that exit (process_supervisor.cpp:176-217).
ExitHandled == RestartOnlyOnFailure /\ ExitReported
=============================================================================
