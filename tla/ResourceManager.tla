-------------------------- MODULE ResourceManager --------------------------
(***************************************************************************)
(* ResourceManager (src/sandbox/src/resource_monitor.cpp:237-304): threads *)
(* that use it, the health thread, whose "resources" check calls           *)
(* get_global_stats, the threads of the monitors, and the end of main(),   *)
(* where the manager is destroyed.                                         *)
(*                                                                         *)
(* A monitor is a number, given out in the order of construction, and also *)
(* the name of its thread.  It is owned by an entry of monitors_ and by    *)
(* the callers that have it from get_monitor; the destructor runs on the   *)
(* thread that drops the last shared_ptr (the one add_monitor has until it *)
(* returns is left out).  What a monitor does inside a round is the        *)
(* subject of ResourceMonitor; here a round is one step.                   *)
(***************************************************************************)
EXTENDS Integers, FiniteSets

CONSTANTS
    Users,        \* threads that use the manager
    Health,       \* the thread of the health monitor
    Ids,          \* sandbox ids
    None,
    MaxMonitors   \* bound: monitors constructed

Mons == 1..MaxMonitors
Callers == Users \cup {Health}
Threads == Callers \cup Mons

\* What a call is doing.
Operations == {"add", "remove", "erase", "get_monitor", "release", "stats",
               "destroy"}

ASSUME ManagerAssumption ==
    /\ MaxMonitors \in Nat
    /\ Callers \cap Mons = {}
    /\ Health \notin Users
    /\ None \notin Threads \cup Ids /\ None \notin Operations

VARIABLES
    pc,        \* pc[t]: where thread t stands; "none": no such thread
    call,      \* call[c]: the call of c: operation, id, the monitor in hand
    mutex,     \* owner of monitors_mutex_, None when free
    monitors,  \* monitors_, 0 where there is no entry
    held,      \* held[c]: the monitor c has a shared_ptr to, 0: none
    running,   \* running[m]: running_ of the monitor
    dead,      \* monitors whose destructor has run
    created,   \* monitors constructed so far
    todo,      \* monitors get_global_stats has yet to read
    phase,     \* of main(): "up", "health_stopped", "destroyed", or "torn":
               \* destroyed with the health thread still running
    tidy       \* history: was nothing left to do when the manager died?

map == <<monitors, held>>
vars == <<pc, call, mutex, map, running, dead, created, todo, phase, tidy>>

NoCall == [op |-> None, id |-> None, m |-> 0]

Init ==
    /\ pc = [t \in Threads |-> IF t \in Callers THEN "idle" ELSE "none"]
    /\ call = [c \in Callers |-> NoCall]
    /\ mutex = None
    /\ monitors = [i \in Ids |-> 0]
    /\ held = [c \in Callers |-> 0]
    /\ running = [m \in Mons |-> FALSE]
    /\ dead = {}
    /\ created = 0
    /\ todo = {}
    /\ phase = "up"
    /\ tidy = FALSE

Goto(t, where) == pc' = [pc EXCEPT ![t] = where]

Return(c) == Goto(c, "idle") /\ call' = [call EXCEPT ![c] = NoCall]

Continue(c, where, op, m) ==
    /\ Goto(c, where)
    /\ call' = [call EXCEPT ![c].op = op, ![c].m = m]

\* The manager exists.
Up == phase \in {"up", "health_stopped"}

\* The ids with an entry in monitors_.
Present == {i \in Ids : monitors[i] # 0}

\* Faulty variant: a shared_ptr that get_monitor returned does not count.
ShareIgnored(m) == FALSE

\* A caller has a shared_ptr to m.
Shared(m) == \E c \in Callers : held[c] = m

-----------------------------------------------------------------------------
(* Calls on the manager, under monitors_mutex_.                            *)

Adding == {c \in Callers : pc[c] = "lock" /\ call[c].op = "add"}

Enter(c, op, i) ==
    /\ pc[c] = "idle"
    /\ op = "add" => created + Cardinality(Adding) < MaxMonitors
    /\ op = "get_monitor" => held[c] = 0
    /\ call' = [call EXCEPT ![c] = [op |-> op, id |-> i, m |-> 0]]
    /\ Goto(c, "lock")
    /\ UNCHANGED <<mutex, map, running, dead, created, todo, phase, tidy>>

\* The "resources" check of the health thread.
HealthCheck == phase \in {"up", "torn"} /\ Enter(Health, "stats", None)

Locking(c, op) == pc[c] = "lock" /\ call[c].op = op /\ mutex = None

\* The new monitor takes the entry, and the one it replaces is destroyed
\* under the mutex, unless a caller shares it.  The shared_ptr of add_monitor
\* itself ends with the call and never is the last owner.
add_monitor(c) ==
    /\ Locking(c, "add")
    /\ LET i == call[c].id
           old == monitors[i]
       IN /\ monitors' = [monitors EXCEPT ![i] = created + 1]
          /\ IF old = 0 \/ Shared(old) THEN Continue(c, "start", "add", 0)
                                       ELSE Continue(c, "stop", "add", old)
    /\ created' = created + 1
    /\ mutex' = c
    /\ UNCHANGED <<held, running, dead, todo, phase, tidy>>

\* monitor->start() of the new monitor.
Start(c) ==
    /\ pc[c] = "start"
    /\ LET m == monitors[call[c].id]
       IN /\ running' = [running EXCEPT ![m] = TRUE]
          /\ pc' = [pc EXCEPT ![m] = "loop", ![c] = "idle"]
    /\ call' = [call EXCEPT ![c] = NoCall]
    /\ mutex' = None
    /\ UNCHANGED <<map, dead, created, todo, phase, tidy>>

remove_monitor(c) ==
    /\ Locking(c, "remove")
    /\ LET m == monitors[call[c].id]
       IN \/ m = 0 /\ Return(c) /\ UNCHANGED mutex
          \/ m # 0 /\ Continue(c, "stop", "remove", m) /\ mutex' = c
    /\ UNCHANGED <<map, running, dead, created, todo, phase, tidy>>

get_monitor(c) ==
    /\ Locking(c, "get_monitor")
    /\ held' = [held EXCEPT ![c] = monitors[call[c].id]]
    /\ Return(c)
    /\ UNCHANGED <<mutex, monitors, running, dead, created, todo, phase, tidy>>

\* get_global_stats, and get_all_usage: two reads of every monitor.
get_global_stats(c) ==
    /\ Locking(c, "stats")
    /\ mutex' = c
    /\ todo' = {monitors[i] : i \in Present}
    /\ Goto(c, "reading")
    /\ UNCHANGED <<call, map, running, dead, created, phase, tidy>>

StatsRead(c) ==
    /\ pc[c] = "reading"
    /\ \/ /\ todo # {}
          /\ \E m \in todo : todo' = todo \ {m}
          /\ UNCHANGED <<pc, call, mutex>>
       \/ /\ todo = {}
          /\ mutex' = None
          /\ Return(c)
          /\ UNCHANGED todo
    /\ UNCHANGED <<map, running, dead, created, phase, tidy>>

\* The shared_ptr of a caller goes out of scope, with no mutex.
release(c) ==
    /\ pc[c] = "idle"
    /\ LET m == held[c]
       IN /\ m # 0
          /\ held' = [held EXCEPT ![c] = 0]
          /\ IF \/ \E d \in Callers \ {c} : held[d] = m
                \/ \E i \in Ids : monitors[i] = m
             THEN UNCHANGED <<pc, call>>
             ELSE Continue(c, "stop", "release", m)
    /\ UNCHANGED <<mutex, monitors, running, dead, created, todo, phase, tidy>>

-----------------------------------------------------------------------------
(* stop() and ~ResourceMonitor.                                            *)

\* Faulty variant: stop() leaves the flag alone.
FlagKept(m) == running[m]

\* What stop() makes of running_.
FlagAfterStop(m) == FALSE

\* Faulty variant: stop() does not wait.
JoinsNever(m) == FALSE

\* There is a thread to wait for.
Joins(m) == running[m]

\* stop() of the monitor in hand: nothing to do unless it runs.
stop(c) ==
    /\ pc[c] = "stop"
    /\ LET m == call[c].m
       IN /\ running' = [running EXCEPT ![m] = FlagAfterStop(m)]
          /\ Goto(c, IF Joins(m) THEN "join" ELSE "stopped")
    /\ UNCHANGED <<call, mutex, map, dead, created, todo, phase, tidy>>

StopJoins(c) ==
    /\ pc[c] = "join"
    /\ pc[call[c].m] = "returned"
    /\ pc' = [pc EXCEPT ![call[c].m] = "none", ![c] = "stopped"]
    /\ UNCHANGED <<call, mutex, map, running, dead, created, todo, phase, tidy>>

\* Back from stop(): a destructor is done; remove_monitor erases the entry,
\* which may destroy the monitor.
Stopped(c) ==
    /\ pc[c] = "stopped"
    /\ LET op == call[c].op
           m == call[c].m
           last == op = "remove" /\ ~Shared(m)
       IN /\ CASE op = "add" -> Continue(c, "start", op, 0)
               [] op = "destroy" -> Continue(c, "dropping", op, 0)
               [] last -> Continue(c, "stop", "erase", m)
               [] OTHER -> Return(c)
          /\ dead' = IF op = "remove" THEN dead ELSE dead \cup {m}
          /\ monitors' = IF op = "remove"
                         THEN [monitors EXCEPT ![call[c].id] = 0] ELSE monitors
          /\ mutex' = IF op = "erase" \/ (op = "remove" /\ ~last)
                      THEN None ELSE mutex
    /\ UNCHANGED <<held, running, created, todo, phase, tidy>>

-----------------------------------------------------------------------------
(* The thread of a monitor: rounds until running_ is false.                *)

Loop(m) ==
    /\ pc[m] = "loop"
    /\ Goto(m, IF running[m] THEN "round" ELSE "returned")
    /\ UNCHANGED <<call, mutex, map, running, dead, created, todo, phase, tidy>>

\* read_usage, history_, and the alert callback, which goes through the
\* manager; the callback does not call back into the manager.
Round(m) ==
    /\ pc[m] = "round"
    /\ Goto(m, "loop")
    /\ UNCHANGED <<call, mutex, map, running, dead, created, todo, phase, tidy>>

-----------------------------------------------------------------------------
(* The end of main().                                                      *)

\* health_monitor.stop() has joined the thread.
HealthGone == pc[Health] = "idle"

\* The return at the end of main() comes after this; the ones for a failed
\* connect or registration do not.
HealthStops ==
    /\ phase = "up"
    /\ HealthGone
    /\ phase' = "health_stopped"
    /\ UNCHANGED <<pc, call, mutex, map, running, dead, created, todo, tidy>>

\* ~ResourceManager, when no user is in a call: the callback goes first, then
\* the monitors.
DestroyManager(c) ==
    /\ Up
    /\ \A u \in Users : pc[u] = "idle"
    /\ phase' = IF phase = "up" THEN "torn" ELSE "destroyed"
    /\ tidy' = (phase = "health_stopped" /\ Present = {} /\ \A d \in Callers : held[d] = 0)
    /\ call' = [call EXCEPT ![c] = [NoCall EXCEPT !.op = "destroy"]]
    /\ Goto(c, "dropping")
    /\ UNCHANGED <<mutex, map, running, dead, created, todo>>

DropMonitor(c) ==
    /\ pc[c] = "dropping"
    /\ \/ Present = {} /\ Return(c) /\ UNCHANGED monitors
       \/ \E i \in Present :
             /\ monitors' = [monitors EXCEPT ![i] = 0]
             /\ IF Shared(monitors[i])
                THEN UNCHANGED <<pc, call>>
                ELSE Continue(c, "stop", "destroy", monitors[i])
    /\ UNCHANGED <<mutex, held, running, dead, created, todo, phase, tidy>>

CallStep(c) ==
    \/ add_monitor(c) \/ Start(c) \/ remove_monitor(c) \/ get_monitor(c)
    \/ get_global_stats(c) \/ StatsRead(c) \/ stop(c) \/ StopJoins(c)
    \/ Stopped(c) \/ DropMonitor(c)

Next ==
    \/ \E c \in Users, op \in {"add", "remove", "get_monitor"}, i \in Ids :
          Up /\ Enter(c, op, i)
    \/ HealthCheck
    \/ \E c \in Users : release(c) \/ DestroyManager(c)
    \/ \E c \in Callers : CallStep(c)
    \/ \E m \in Mons : Loop(m) \/ Round(m)
    \/ HealthStops

Spec == Init /\ [][Next]_vars

\* Threads are scheduled, callbacks return, and the mutex is handed out
\* fairly: the health thread asks for it every five seconds.
FairSpec ==
    /\ Spec
    /\ \A c \in Callers : SF_vars(CallStep(c))
    /\ \A m \in Mons : WF_vars(Loop(m) \/ Round(m))

-----------------------------------------------------------------------------
(* Properties.                                                             *)

\* Every variable keeps its type.
TypeOK ==
    /\ pc \in [Threads -> {"none", "idle", "lock", "start", "reading", "stop",
                           "join", "stopped", "dropping", "loop", "round",
                           "returned"}]
    /\ call \in [Callers -> [op : Operations \cup {None}, id : Ids \cup {None},
                             m : 0..MaxMonitors]]
    /\ mutex \in Callers \cup {None}
    /\ monitors \in [Ids -> 0..created]
    /\ held \in [Callers -> 0..created]
    /\ running \in [Mons -> BOOLEAN]
    /\ dead \subseteq Mons /\ todo \subseteq Mons
    /\ created \in 0..MaxMonitors
    /\ phase \in {"up", "health_stopped", "destroyed", "torn"}
    /\ tidy \in BOOLEAN

\* The thread of a monitor runs only while the manager, a caller, or the call
\* that is about to join it has the monitor: replacing, removing and releasing
\* leave no thread behind (resource_monitor.cpp:21-41, 252-264).
NoLostMonitor ==
    \A m \in Mons : pc[m] # "none" =>
        \/ Shared(m)
        \/ \E i \in Ids : monitors[i] = m
        \/ \E c \in Callers : call[c].m = m

\* No sequence of calls on the manager brings two threads into start() or
\* stop() of one monitor, which neither can stand (resource_monitor.cpp:26-38,
\* 253-254, 262).
OneStopper ==
    \A c, d \in Callers : c # d /\ call[c].m # 0 => call[c].m # call[d].m

\* c is in stop() of a monitor, on whosever behalf.
Ending(c) == pc[c] \in {"stop", "join", "stopped"}

\* What a call looks like where it is.
CallShape ==
    \A c \in Callers :
        /\ pc[c] \in {"idle", "lock", "start", "reading", "stop", "join", "stopped",
                      "dropping"}
        /\ pc[c] = "idle" => call[c] = NoCall
        /\ pc[c] = "lock" =>
              call[c].op \in {"add", "remove", "get_monitor", "stats"}
        /\ pc[c] = "start" => call[c].op = "add"
        /\ pc[c] = "reading" => call[c].op = "stats"
        /\ pc[c] = "dropping" => call[c].op = "destroy"
        /\ Ending(c) => call[c].op \in {"add", "remove", "erase", "release", "destroy"}
        /\ Ending(c) <=> call[c].m # 0
        /\ call[c].op \in {"add", "remove", "erase", "get_monitor"} =>
              call[c].id \in Ids
        /\ call[c].op = "stats" <=> c = Health /\ pc[c] # "idle"
        /\ call[c].op = "get_monitor" => held[c] = 0

\* c is between taking monitors_mutex_ and releasing it.
Holds(c) ==
    \/ pc[c] \in {"start", "reading"}
    \/ Ending(c) /\ call[c].op \in {"add", "remove", "erase"}

\* What main() has ended tells which calls there can be, and who waits in
\* monitors_mutex_ or reads (resource_monitor.cpp:237-304, main.cpp:283).
CallsFitPhase ==
    /\ \A c \in Callers : Holds(c) => mutex = c
    /\ \A c \in Callers :
          IF Up THEN call[c].op # "destroy"
                ELSE call[c].op \in {None, "stats", "release", "destroy"}
    /\ phase \in {"health_stopped", "destroyed"} => pc[Health] = "idle"
    /\ tidy => phase = "destroyed"
    /\ todo # {} => pc[Health] = "reading"
    /\ Up => todo \subseteq {monitors[i] : i \in Ids}

\* A monitor has one entry, and who ends it is its last owner, but for
\* remove_monitor, which still has the entry
\* (resource_monitor.cpp:252-264).
LastOwner ==
    /\ \A i, j \in Ids : monitors[i] = monitors[j] /\ monitors[i] # 0 => i = j
    /\ \A c \in Callers : Ending(c) =>
          IF call[c].op = "remove"
          THEN monitors[call[c].id] = call[c].m
          ELSE ~Shared(call[c].m) /\ \A i \in Ids : monitors[i] # call[c].m
    /\ \A c \in Callers : Holds(c) /\ call[c].op = "add" =>
          monitors[call[c].id] # 0

\* running_ says whether the thread of a monitor goes on, and one that does not
\* has a call in its join (resource_monitor.cpp:21-41, 162-176).
FlagIsThread ==
    /\ \A m \in Mons :
          /\ pc[m] \in {"none", "loop", "round", "returned"}
          /\ running[m] => pc[m] \in {"loop", "round"}
          /\ ~running[m] /\ pc[m] # "none" =>
                \E c \in Callers : pc[c] = "join" /\ call[c].m = m
    /\ \A c \in Callers :
          /\ pc[c] \in {"join", "stopped"} => ~running[call[c].m]
          /\ pc[c] = "stopped" => pc[call[c].m] = "none"

\* A destroyed monitor has neither an owner nor a thread.
DeadIsGone ==
    \A m \in dead :
        /\ pc[m] = "none" /\ ~running[m] /\ ~Shared(m)
        /\ \A i \in Ids : monitors[i] # m
        /\ \A c \in Callers : call[c].m # m

\* Monitors are numbered in the order of construction, within the bound.
Numbered ==
    /\ IsFiniteSet(Adding) /\ created + Cardinality(Adding) <= MaxMonitors
    /\ dead \subseteq 1..created
    /\ \A c \in Callers : call[c].m <= created

\* Types, NoLostMonitor and OneStopper, who owns a monitor and who may end it,
\* with what carries them and NothingDangles from step to step
\* (resource_monitor.cpp:21-41, 252-271).
ManagerInv ==
    /\ TypeOK /\ NoLostMonitor /\ OneStopper
    /\ CallShape /\ CallsFitPhase /\ LastOwner /\ FlagIsThread /\ DeadIsGone
    /\ Numbered

\* Nobody uses a monitor that has been destroyed: not its own thread, not the
\* health thread and not the owner of a shared_ptr, as long as the manager lives
\* and after an end that found the health thread stopped and every monitor
\* removed and released.  Nothing is said after any other end of main(): the
\* early returns, and an end with a monitor left (resource_monitor.cpp:252-299,
\* main.cpp:159, 193, 201).
UsesLive ==
    Up \/ tidy =>
        \A m \in dead : pc[m] = "none" /\ m \notin todo /\ ~Shared(m)

\* After the normal end of main() no thread uses the destroyed manager or its
\* alert callback, if all monitors were removed and released before
\* (main.cpp:283, resource_monitor.cpp:240, 246-250, 257-265).
SafeTeardown ==
    tidy =>
        pc[Health] = "idle" /\ \A m \in Mons : pc[m] = "none"

\* UsesLive and SafeTeardown: nothing is used after its end
\* (resource_monitor.cpp:240-300, main.cpp:159, 193, 201, 283).
NothingDangles == UsesLive /\ SafeTeardown

\* Every call returns, the ones that join a monitor thread while they hold
\* monitors_mutex_ included (resource_monitor.cpp:37-39, 258-262).
CallsReturn == \A c \in Callers : (pc[c] # "idle") ~> (pc[c] = "idle")
=============================================================================
