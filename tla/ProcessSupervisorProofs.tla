---------------------- MODULE ProcessSupervisorProofs ----------------------
(***************************************************************************)
(* Proofs about ProcessSupervisor, for any number of callers, processes,   *)
(* children and calls, every restart policy and every exit status.         *)
(***************************************************************************)
EXTENDS ProcessSupervisor, TLAPS

LEMMA ThreadFacts ==
    /\ Callers \subseteq Threads /\ Names \subseteq Threads /\ Watchdog \in Threads
    /\ Callers \cap Names = {} /\ Watchdog \notin Callers /\ Watchdog \notin Names
    /\ None \notin Threads /\ Spawners \subseteq Threads /\ Handlers \subseteq Threads
    /\ \A t : t \in Threads <=> t \in Callers \/ t \in Names \/ t = Watchdog
    /\ \A t : t \in Spawners <=> t \in Callers \/ t \in Names
    /\ \A t : t \in Handlers <=> t \in Names \/ t = Watchdog
  <1>1. Callers \cap Names = {} /\ Watchdog \notin Callers \cup Names /\ None \notin Threads
    BY SupervisorAssumption
  <1>2. \A t : t \in Threads <=> t \in Callers \/ t \in Names \/ t = Watchdog
    BY Zenon DEF Threads
  <1>3. \A t : t \in Spawners <=> t \in Callers \/ t \in Names
    BY Zenon DEF Spawners
  <1>4. \A t : t \in Handlers <=> t \in Names \/ t = Watchdog
    BY Zenon DEF Handlers
  <1> QED
    BY <1>1, <1>2, <1>3, <1>4, Zenon

LEMMA PidFacts == 0 \notin Pids /\ \A p : p \in Pids <=> p \in 0..MaxPids /\ p # 0
  <1>1. MaxPids \in Nat
    BY SupervisorAssumption
  <1>2. \A p \in Int : p \in 1..MaxPids <=> p \in 0..MaxPids /\ p # 0
    BY <1>1
  <1>3. \A p : (p \in 1..MaxPids => p \in Int) /\ (p \in 0..MaxPids => p \in Int)
    BY <1>1
  <1> QED
    BY <1>1, <1>2, <1>3 DEF Pids

LEMMA EndFacts ==
    /\ EndStatuses \subseteq Int
    /\ -1 \in EndStatuses
    /\ Statuses \subseteq EndStatuses
    /\ Signaled(SIGKILL) \in EndStatuses
  <1>1. WaitStatuses \subseteq Int /\ Signaled(SIGKILL) \in WaitStatuses
    BY DEF WaitStatuses, Signaled, SIGKILL
  <1>2. -1 \in Int
    OBVIOUS
  <1>3. EndStatuses \subseteq Int
    BY <1>1, <1>2, Zenon DEF EndStatuses
  <1> QED
    BY <1>1, <1>3, SupervisorAssumption, Zenon DEF EndStatuses

-----------------------------------------------------------------------------
(* The part of the invariant that holds whatever races.                    *)

\* What was reported stays true: the child is reaped.
ReportedIsReaped == \A p \in Pids : reported[p].type # "none" => child[p] = "reaped"

Base ==
    /\ TypeOK /\ Placed /\ MutexHeld /\ PidsOwned /\ EntryKept /\ Handling /\ Restarting
    /\ RunningIsReal /\ RestartOnlyOnFailure /\ ExitReported /\ ReportedIsReaped

\* Thread t stays where it is, or moves between statements that no other thread
\* looks for.
Quiet(t) ==
    \/ pc'[t] = pc[t] /\ on'[t] = on[t]
    \/ /\ {pc[t], pc'[t]} \cap (Exiting \cup {"forked", "spawn_flag", "join"}) = {}
       /\ t \in Names => on'[t] = on[t] /\ pc[t] # "none" /\ pc'[t] \notin {"none", "fork"}

\* Child p stays as it is, or dies.
Ages(p) ==
    \/ child'[p] = child[p] /\ ended'[p] = ended[p]
    \/ child[p] = "alive" /\ child'[p] = "zombie"

\* A step in which no thread forks, reaps or handles an exit.
QuietStep ==
    /\ \A t \in Threads : Quiet(t)
    /\ \A p \in Pids : Ages(p)
    /\ UNCHANGED <<hand, pid, owner, reported>>
    /\ raced \subseteq raced'
    /\ \A n \in Names : \/ config'[n] = config[n] /\ exit_code'[n] = exit_code[n]
                       \/ \A p \in Pids : owner[p] # n
    /\ \A n \in Names : status'[n] = "RUNNING" => status[n] = "RUNNING"
    /\ aborted => aborted'
    /\ \A n \in Names : n \in processes => n \in processes' \/ pc[n] = "none" \/ aborted'

\* The handler u keeps what it relies on in a step of another thread.
LEMMA HandledKept ==
    ASSUME Base, NEW u \in Handlers, pc[u] \in Exiting,
           pc'[u] = pc[u], on'[u] = on[u], hand'[u] = hand[u],
           child'[hand[u]] = child[hand[u]], owner'[hand[u]] = owner[hand[u]],
           ended'[hand[u]] = ended[hand[u]], exit_code'[on[u]] = exit_code[on[u]],
           \/ pid'[on[u]] = pid[on[u]]
           \/ u # Watchdog /\ pid'[u] # 0 /\ StartedBy(u, {"spawn_flag", "join"})',
           u = Watchdog => pc'[on[u]] \notin Exiting \cup {"fork", "forked"},
           u # Watchdog /\ StartedBy(u, {"spawn_flag", "join"}) =>
              StartedBy(u, {"spawn_flag", "join"})'
    PROVE  Handled(u)'
  <1>1. Handled(u)
    BY DEF Base, Handling
  <1>2. StatusFor(u)' = StatusFor(u)
    BY DEF StatusFor
  <1>3. pc'[u] # "exit_flag" => exit_code'[on'[u]] = WEXITSTATUS(StatusFor(u)')
    BY <1>1, <1>2 DEF Handled
  <1>4. u # Watchdog => on[u] = u
    BY ThreadFacts DEF Base, Placed
  <1>5. u # Watchdog => \/ pid'[u] = hand'[u]
                        \/ pid'[u] # 0 /\ StartedBy(u, {"spawn_flag", "join"})'
    BY <1>1, <1>4 DEF Handled
  <1>6. u = Watchdog => pid'[on'[u]] = hand'[u]
    BY <1>1 DEF Handled
  <1> QED
    BY <1>1, <1>3, <1>5, <1>6 DEF Handled, WEXITSTATUS

\* Two threads in handle_exit are there for two processes.
LEMMA HandlersApart ==
    ASSUME Base, NEW t \in Handlers, NEW u \in Handlers, t # u,
           pc[t] \in Exiting, pc[u] \in Exiting
    PROVE  on[t] # on[u]
  <1>1. \A v \in Handlers : v # Watchdog => on[v] = v
    BY ThreadFacts DEF Base, Placed
  <1>2. Handled(t) /\ Handled(u)
    BY DEF Base, Handling
  <1> QED
    BY <1>1, <1>2 DEF Handled

LEMMA QuietSets ==
    ASSUME QuietStep, NEW t \in Threads
    PROVE  /\ \A w \in Exiting \cup {"forked", "spawn_flag", "join"} :
                 (pc'[t] = w) <=> (pc[t] = w)
           /\ pc[t] \in Exiting \cup {"forked", "spawn_flag", "join"} => on'[t] = on[t]
           /\ pc'[t] \in Exiting \cup {"forked", "spawn_flag", "join"} => on'[t] = on[t]
           /\ t \in Names => /\ (pc'[t] = "none") <=> (pc[t] = "none")
                             /\ (pc'[t] = "fork") => (pc[t] = "fork")
                             /\ on'[t] = on[t]
  BY DEF QuietStep, Quiet, Exiting

LEMMA QuietStarted ==
    ASSUME QuietStep, NEW n \in Names
    PROVE  /\ StartedBy(n, {"spawn_flag", "join"})' <=> StartedBy(n, {"spawn_flag", "join"})
           /\ StartedBy(n, {"forked", "spawn_flag", "join"})'
                 <=> StartedBy(n, {"forked", "spawn_flag", "join"})
  <1>1. \A c \in Callers :
           /\ \A w \in {"forked", "spawn_flag", "join"} : (pc'[c] = w) <=> (pc[c] = w)
           /\ pc[c] \in {"forked", "spawn_flag", "join"} => on'[c] = on[c]
    BY QuietSets, ThreadFacts
  <1> QED
    BY <1>1 DEF StartedBy

LEMMA QuietBase ==
    ASSUME Base, QuietStep
    PROVE  /\ PidsOwned' /\ EntryKept' /\ Handling' /\ Restarting' /\ RunningIsReal'
           /\ RestartOnlyOnFailure' /\ ExitReported' /\ ReportedIsReaped'
  <1>1. UNCHANGED <<hand, pid, owner, reported>> /\ raced \subseteq raced'
    BY DEF QuietStep
  <1>2. \A p \in Pids :
           /\ (child'[p] = "free") <=> (child[p] = "free")
           /\ (child'[p] = "reaped") <=> (child[p] = "reaped")
           /\ (child'[p] \in {"alive", "zombie"}) <=> (child[p] \in {"alive", "zombie"})
           /\ child[p] = "reaped" => ended'[p] = ended[p]
    <2> SUFFICES ASSUME NEW p \in Pids
                 PROVE  /\ (child'[p] = "free") <=> (child[p] = "free")
                        /\ (child'[p] = "reaped") <=> (child[p] = "reaped")
                        /\ (child'[p] \in {"alive", "zombie"})
                              <=> (child[p] \in {"alive", "zombie"})
                        /\ child[p] = "reaped" => ended'[p] = ended[p]
      OBVIOUS
    <2> Ages(p)
      BY DEF QuietStep
    <2>1. CASE child'[p] = child[p] /\ ended'[p] = ended[p]
      BY <2>1
    <2>2. CASE child[p] = "alive" /\ child'[p] = "zombie"
      BY <2>2
    <2> QED
      BY <2>1, <2>2 DEF Ages
  <1>3. \A n \in Names : pid[n] \in Pids \cup {0}
    <2>1. pid \in [Names -> 0..MaxPids]
      BY DEF Base, TypeOK
    <2> QED
      BY <2>1, PidFacts
  <1>4. \A n \in Names : status'[n] = "RUNNING" => status[n] = "RUNNING"
    BY DEF QuietStep
  <1>5. \A t \in Threads :
           /\ \A w \in Exiting \cup {"forked", "spawn_flag", "join"} :
                 (pc'[t] = w) <=> (pc[t] = w)
           /\ pc[t] \in Exiting \cup {"forked", "spawn_flag", "join"} => on'[t] = on[t]
    BY QuietSets
  <1>6. \A n \in Names : /\ (pc'[n] = "none") <=> (pc[n] = "none")
                         /\ (pc'[n] = "fork") => (pc[n] = "fork")
    BY ThreadFacts, QuietSets
  <1>7. PidsOwned'
    <2>0. PidsOwned /\ Spawners \subseteq Threads
      BY ThreadFacts DEF Base
    <2>1. /\ \A n \in Names : pid'[n] # 0 =>
                owner'[pid'[n]] = n /\ child'[pid'[n]] # "free"
          /\ \A n \in Names : status'[n] = "RUNNING" => pid'[n] # 0
      BY <1>1, <1>2, <1>3, <1>4, <2>0 DEF PidsOwned
    <2>2. /\ \A p \in Pids : child'[p] # "free" => owner'[p] \in Names
          /\ \A p \in Pids : child'[p] = "free" => owner'[p] = None
      BY <1>1, <1>2, <2>0 DEF PidsOwned
    <2>3. \A t \in Spawners : /\ (pc'[t] = "forked") <=> (pc[t] = "forked")
                              /\ pc[t] = "forked" => on'[t] = on[t]
      BY <1>5, <2>0
    <2>4. \A t \in Spawners : pc'[t] = "forked" =>
             /\ hand'[t] \in Pids
             /\ owner'[hand'[t]] = on'[t]
             /\ child'[hand'[t]] \in {"alive", "zombie"}
             /\ \A n \in Names : pid'[n] # hand'[t]
             /\ \A u \in Spawners : pc'[u] = "forked" /\ hand'[u] = hand'[t] => u = t
      BY <1>1, <1>2, <2>0, <2>3 DEF PidsOwned
    <2> QED
      BY <2>1, <2>2, <2>4 DEF PidsOwned
  <1>8. EntryKept'
    <2> SUFFICES ASSUME NEW n \in Names
                 PROVE  /\ n \notin processes' => pc'[n] = "none" \/ aborted'
                        /\ pc'[n] = "none" =>
                              \/ StartedBy(n, {"forked", "spawn_flag", "join"})'
                              \/ \A p \in Pids : owner'[p] # n
      BY DEF EntryKept
    <2>1. n \notin processes' => pc'[n] = "none" \/ aborted'
      BY <1>6 DEF Base, EntryKept, QuietStep
    <2> QED
      BY <1>1, <1>6, <2>1, QuietStarted DEF Base, EntryKept
  <1>9. Handling'
    <2> SUFFICES ASSUME NEW t \in Handlers, pc'[t] \in Exiting
                 PROVE  Handled(t)'
      BY DEF Handling
    <2>1. pc'[t] = pc[t] /\ on'[t] = on[t] /\ pc[t] \in Exiting
      BY ThreadFacts, <1>5
    <2>2. Handled(t)
      BY <2>1 DEF Base, Handling
    <2>3. child'[hand[t]] = child[hand[t]] /\ ended'[hand[t]] = ended[hand[t]]
      BY <1>2, <2>2 DEF Handled
    <2>4. on[t] \in Names
      BY <2>1, ThreadFacts DEF Base, Placed
    <2>5. exit_code'[on[t]] = exit_code[on[t]]
      BY <2>2, <2>4 DEF Handled, QuietStep
    <2>6. t = Watchdog => pc'[on[t]] \notin Exiting \cup {"fork", "forked"}
      BY <1>5, <1>6, <2>2, <2>4, ThreadFacts DEF Handled
    <2>7. t # Watchdog => t \in Names
      BY ThreadFacts
    <2> QED
      BY <1>1, <2>1, <2>3, <2>5, <2>6, <2>7, HandledKept, QuietStarted
  <1>10. Restarting'
    BY ThreadFacts, <1>4, <1>5, <1>6, QuietStarted DEF Base, Restarting
  <1>11. RunningIsReal'
    <2> SUFFICES ASSUME NEW n \in Names, status'[n] = "RUNNING"
                 PROVE  (\/ child[pid[n]] \in {"alive", "zombie"}
                         \/ \E t \in Handlers :
                               on[t] = n /\ pc[t] \in {"exit_flag", "exit_status"})'
      BY DEF RunningIsReal
    <2>1. status[n] = "RUNNING" /\ pid[n] \in Pids
      BY <1>3, <1>4 DEF Base, PidsOwned
    <2>2. CASE child[pid[n]] \in {"alive", "zombie"}
      BY <1>1, <1>2, <2>1, <2>2
    <2>3. CASE \E t \in Handlers : on[t] = n /\ pc[t] \in {"exit_flag", "exit_status"}
      BY ThreadFacts, <1>5, <2>3 DEF Exiting
    <2> QED
      BY <2>1, <2>2, <2>3 DEF Base, RunningIsReal
  <1>12. RestartOnlyOnFailure'
    <2> SUFFICES ASSUME NEW n \in Names, SelfRestart(n)'
                 PROVE  (/\ config[n].restart_policy # "NEVER"
                         /\ \E p \in Pids : owner[p] = n /\ child[p] = "reaped"
                                            /\ WEXITSTATUS(ended[p]) # 0)'
      BY DEF RestartOnlyOnFailure
    <2>1. SelfRestart(n)
      BY ThreadFacts, <1>5, <1>6 DEF SelfRestart
    <2>2. PICK p \in Pids : /\ owner[p] = n /\ child[p] = "reaped"
                            /\ WEXITSTATUS(ended[p]) # 0
      BY <2>1 DEF Base, RestartOnlyOnFailure
    <2>3. owner'[p] = n /\ child'[p] = "reaped" /\ ended'[p] = ended[p]
      BY <1>1, <1>2, <2>2
    <2>4. WEXITSTATUS(ended[p])' # 0
      BY <2>2, <2>3 DEF WEXITSTATUS
    <2>5. config'[n] = config[n]
      BY <2>2 DEF QuietStep
    <2> QED
      BY <2>1, <2>3, <2>4, <2>5 DEF Base, RestartOnlyOnFailure
  <1>13. ReportedIsReaped'
    BY <1>1, <1>2 DEF Base, ReportedIsReaped
  <1>14. ExitReported'
    <2> SUFFICES ASSUME NEW p \in Pids
                 PROVE  (/\ reported[p].type = "CRASHED" => WEXITSTATUS(ended[p]) # 0
                         /\ reported[p].type = "STOPPED" /\ WEXITSTATUS(ended[p]) # 0 =>
                               reported[p].by = Watchdog
                         /\ reported[p].type = "misnamed" =>
                               /\ reported[p].by # Watchdog
                               /\ \E q \in Pids \ {p} : owner[q] = owner[p])'
      BY DEF ExitReported
    <2>1. reported[p].type # "none" => ended'[p] = ended[p]
      BY <1>2 DEF Base, ReportedIsReaped
    <2>2. reported[p].type # "none" => WEXITSTATUS(ended[p])' = WEXITSTATUS(ended[p])
      BY <2>1 DEF WEXITSTATUS
    <2> QED
      BY <1>1, <2>2 DEF Base, ExitReported
  <1> QED
    BY <1>7, <1>8, <1>9, <1>10, <1>11, <1>12, <1>13, <1>14

LEMMA EnterBase ==
    ASSUME Base, NEW c \in Callers, Enter(c)
    PROVE  Base'
  <1>0. TypeOK /\ Placed /\ MutexHeld
    BY DEF Base
  <1>1. TypeOK'
    BY <1>0, SupervisorAssumption, ThreadFacts
       DEF TypeOK, Enter, At, Goto, Placed, callVars, entryVars, dogVars, kidVars, past
  <1>2. Placed'
    BY <1>0, ThreadFacts
       DEF TypeOK, Enter, At, Goto, Placed, Spawning, Exiting, callVars, entryVars
  <1>3. MutexHeld'
    BY <1>0, ThreadFacts
       DEF TypeOK, Enter, At, Goto, Placed, MutexHeld, Spawning, Exiting, callVars,
           entryVars
  <1>4. QuietStep
    BY <1>0, ThreadFacts
       DEF TypeOK, Enter, At, Goto, Placed, QuietStep, Quiet, Ages, Exiting,
           callVars, entryVars, kidVars, past
  <1> QED
    BY <1>1, <1>2, <1>3, <1>4, QuietBase DEF Base

LEMMA RemoveProcessBase ==
    ASSUME Base, NEW c \in Callers, remove_process(c)
    PROVE  Base'
  <1>0. TypeOK /\ Placed /\ MutexHeld
    BY DEF Base
  <1>1. TypeOK'
    BY <1>0, SupervisorAssumption, ThreadFacts
       DEF TypeOK, remove_process, At, Goto, Locking, Placed, callVars, entryVars, dogVars, kidVars, past
  <1>2. Placed'
    BY <1>0, ThreadFacts
       DEF TypeOK, remove_process, At, Goto, Locking, Placed, Spawning, Exiting, callVars, entryVars
  <1>3. MutexHeld'
    BY <1>0, ThreadFacts
       DEF TypeOK, remove_process, At, Goto, Locking, Placed, MutexHeld, Spawning, Exiting, callVars,
           entryVars
  <1>4. QuietStep
    <2>1. \A m \in Names : m \in processes =>
             m \in processes' \/ pc[m] = "none" \/ aborted'
      <3> SUFFICES ASSUME NEW m \in Names, m \in processes, m \notin processes'
                   PROVE  pc[m] = "none" \/ aborted'
        OBVIOUS
      <3>1. /\ m = on[c] /\ status[m] # "RUNNING"
            /\ aborted' = (m \in processes /\ ~(m \in processes /\ status[m] = "RUNNING")
                           /\ pc[m] # "none")
        BY DEF remove_process
      <3> QED
        BY <3>1
    <2> QED
      BY <1>0, <2>1, ThreadFacts
         DEF TypeOK, remove_process, At, Goto, Locking, QuietStep, Quiet, Ages, Exiting,
             kidVars
  <1> QED
    BY <1>1, <1>2, <1>3, <1>4, QuietBase DEF Base

LEMMA StartBase ==
    ASSUME Base, NEW c \in Callers, start(c)
    PROVE  Base'
  <1>0. TypeOK /\ Placed /\ MutexHeld
    BY DEF Base
  <1>1. TypeOK'
    BY <1>0, SupervisorAssumption, ThreadFacts
       DEF TypeOK, start, At, Goto, Locking, MayStart, Placed, callVars, entryVars, dogVars, kidVars, past
  <1>2. Placed'
    BY <1>0, ThreadFacts
       DEF TypeOK, start, At, Goto, Locking, MayStart, Placed, Spawning, Exiting, callVars, entryVars
  <1>3. MutexHeld'
    BY <1>0, ThreadFacts
       DEF TypeOK, start, At, Goto, Locking, MayStart, Placed, MutexHeld, Spawning, Exiting, callVars,
           entryVars
  <1>4. QuietStep
    BY <1>0, ThreadFacts
       DEF TypeOK, start, At, Goto, Locking, MayStart, Placed, QuietStep, Quiet, Ages, Exiting,
           callVars, entryVars, kidVars, past
  <1> QED
    BY <1>1, <1>2, <1>3, <1>4, QuietBase DEF Base

LEMMA StopBase ==
    ASSUME Base, NEW c \in Callers, stop(c)
    PROVE  Base'
  <1>0. TypeOK /\ Placed /\ MutexHeld
    BY DEF Base
  <1>1. TypeOK'
    <2>1. \E w \in {"stopping", "lock", "idle"} : Goto(c, w)
      BY DEF stop
    <2>2. op' = op \/ \E o \in AllOps \cup {None} : op' = [op EXCEPT ![c] = o]
      BY <1>0 DEF TypeOK, stop, AllOps
    <2>3. mutex' \in {mutex, c}
      BY DEF stop
    <2>4. running' = running \/ running' = [running EXCEPT ![on[c]] = FALSE]
      BY DEF stop
    <2>5. UNCHANGED kidVars
      BY DEF stop, Term
    <2>6. UNCHANGED <<on, hand, calls, processes, config, status, pid, exit_code,
                      restart_count, dogVars, past>>
      BY DEF stop
    <2>7. op' \in [Callers -> AllOps \cup {None}]
      BY <1>0, <2>2 DEF TypeOK
    <2>8. running' \in [Names -> BOOLEAN]
      BY <1>0, <2>4 DEF TypeOK
    <2> QED
      BY <1>0, <2>1, <2>3, <2>5, <2>6, <2>7, <2>8, ThreadFacts
         DEF TypeOK, Goto, dogVars, kidVars, past
  <1>2. Placed'
    <2>1. PICK w \in {"stopping", "lock", "idle"} : Goto(c, w) /\ UNCHANGED on
      BY DEF stop
    <2>2. pc[c] = "lock"
      BY DEF stop, Locking, At
    <2> QED
      BY <1>0, <2>1, <2>2, ThreadFacts DEF TypeOK, Goto, Placed, Spawning, Exiting
  <1>3. MutexHeld'
    BY <1>0, ThreadFacts
       DEF TypeOK, stop, At, Goto, Locking, Term, Placed, MutexHeld, Spawning, Exiting, callVars,
           entryVars
  <1>4. QuietStep
    BY <1>0, ThreadFacts
       DEF TypeOK, stop, At, Goto, Locking, Term, Placed, QuietStep, Quiet, Ages, Exiting,
           callVars, entryVars, kidVars, past
  <1> QED
    BY <1>1, <1>2, <1>3, <1>4, QuietBase DEF Base

LEMMA StopWaitedBase ==
    ASSUME Base, NEW c \in Callers, StopWaited(c)
    PROVE  Base'
  <1>0. TypeOK /\ Placed /\ MutexHeld
    BY DEF Base
  <1>1. TypeOK'
    <2>0. /\ child' = child \/ \E p \in Pids : child' = [child EXCEPT ![p] = "zombie"]
          /\ \/ ended' = ended
             \/ \E p \in Pids : ended' = [ended EXCEPT ![p] = Signaled(SIGKILL)]
      BY DEF StopWaited, GiveUp, Kill, kidVars
    <2>1. child' \in [Pids -> {"free", "alive", "zombie", "reaped"}]
      BY <1>0, <2>0 DEF TypeOK
    <2>2. ended' \in [Pids -> EndStatuses]
      BY <1>0, <2>0, EndFacts DEF TypeOK
    <2>3. UNCHANGED owner
      BY DEF StopWaited, GiveUp, Kill, kidVars
    <2> QED
      BY <1>0, <2>1, <2>2, <2>3, ThreadFacts
         DEF TypeOK, StopWaited, At, Goto, callVars, entryVars, dogVars, past
  <1>2. Placed'
    BY <1>0, ThreadFacts
       DEF TypeOK, StopWaited, At, Goto, GiveUp, Kill, TimesOut, Placed, Spawning, Exiting, callVars, entryVars
  <1>3. MutexHeld'
    BY <1>0, ThreadFacts
       DEF TypeOK, StopWaited, At, Goto, GiveUp, Kill, TimesOut, Placed, MutexHeld, Spawning, Exiting, callVars,
           entryVars
  <1>4. QuietStep
    BY <1>0, ThreadFacts
       DEF TypeOK, StopWaited, At, Goto, GiveUp, Kill, TimesOut, Placed, QuietStep, Quiet, Ages, Exiting,
           callVars, entryVars, kidVars, past
  <1> QED
    BY <1>1, <1>2, <1>3, <1>4, QuietBase DEF Base

LEMMA StopReturnsBase ==
    ASSUME Base, NEW c \in Callers, StopReturns(c)
    PROVE  Base'
  <1>0. TypeOK /\ Placed /\ MutexHeld
    BY DEF Base
  <1>1. TypeOK'
    BY <1>0, SupervisorAssumption, ThreadFacts
       DEF TypeOK, StopReturns, At, Goto, AllOps, Placed, callVars, entryVars, dogVars, kidVars, past
  <1>2. Placed'
    BY <1>0, ThreadFacts
       DEF TypeOK, StopReturns, At, Goto, Placed, Spawning, Exiting, callVars, entryVars
  <1>3. MutexHeld'
    BY <1>0, ThreadFacts
       DEF TypeOK, StopReturns, At, Goto, Placed, MutexHeld, Spawning, Exiting, callVars,
           entryVars
  <1>4. QuietStep
    BY <1>0, ThreadFacts
       DEF TypeOK, StopReturns, At, Goto, Placed, QuietStep, Quiet, Ages, Exiting,
           callVars, entryVars, kidVars, past
  <1> QED
    BY <1>1, <1>2, <1>3, <1>4, QuietBase DEF Base

LEMMA StopAllBase ==
    ASSUME Base, NEW c \in Callers, stop_all(c)
    PROVE  Base'
  <1>0. TypeOK /\ Placed /\ MutexHeld
    BY DEF Base
  <1>1. TypeOK'
    BY <1>0, SupervisorAssumption, ThreadFacts
       DEF TypeOK, stop_all, At, Goto, Locking, Placed, callVars, entryVars, dogVars, kidVars, past
  <1>2. Placed'
    BY <1>0, ThreadFacts
       DEF TypeOK, stop_all, At, Goto, Locking, Placed, Spawning, Exiting, callVars, entryVars
  <1>3. MutexHeld'
    BY <1>0, ThreadFacts
       DEF TypeOK, stop_all, At, Goto, Locking, Placed, MutexHeld, Spawning, Exiting, callVars,
           entryVars
  <1>4. QuietStep
    BY <1>0, ThreadFacts
       DEF TypeOK, stop_all, At, Goto, Locking, Placed, QuietStep, Quiet, Ages, Exiting,
           callVars, entryVars, kidVars, past
  <1> QED
    BY <1>1, <1>2, <1>3, <1>4, QuietBase DEF Base

LEMMA StartWatchdogCheckBase ==
    ASSUME Base, NEW c \in Callers, start_watchdog_check(c)
    PROVE  Base'
  <1>0. TypeOK /\ Placed /\ MutexHeld
    BY DEF Base
  <1>1. TypeOK'
    BY <1>0, SupervisorAssumption, ThreadFacts
       DEF TypeOK, start_watchdog_check, At, Goto, Placed, callVars, entryVars, dogVars, kidVars, past
  <1>2. Placed'
    BY <1>0, ThreadFacts
       DEF TypeOK, start_watchdog_check, At, Goto, Placed, Spawning, Exiting, callVars, entryVars
  <1>3. MutexHeld'
    BY <1>0, ThreadFacts
       DEF TypeOK, start_watchdog_check, At, Goto, Placed, MutexHeld, Spawning, Exiting, callVars,
           entryVars
  <1>4. QuietStep
    BY <1>0, ThreadFacts
       DEF TypeOK, start_watchdog_check, At, Goto, Placed, QuietStep, Quiet, Ages, Exiting,
           callVars, entryVars, kidVars, past
  <1> QED
    BY <1>1, <1>2, <1>3, <1>4, QuietBase DEF Base

LEMMA StartWatchdogBase ==
    ASSUME Base, NEW c \in Callers, start_watchdog(c)
    PROVE  Base'
  <1>0. TypeOK /\ Placed /\ MutexHeld
    BY DEF Base
  <1>1. TypeOK'
    <2>1. UNCHANGED <<on, hand, callVars, mutex, entryVars, todo, kidVars, reported, raced>>
      BY DEF start_watchdog
    <2>2. watchdog_running' \in BOOLEAN /\ aborted' \in BOOLEAN
      BY DEF start_watchdog
    <2>3. /\ c \in Threads /\ Watchdog \in Threads
          /\ \E w \in {"sleep", pc[Watchdog]} :
                pc' = [pc EXCEPT ![c] = "idle", ![Watchdog] = w]
      BY <1>0, ThreadFacts DEF TypeOK, start_watchdog
    <2>4. pc' \in [Threads -> {"idle", "sleep"} \cup {pc[t] : t \in Threads}]
      BY <1>0, <2>3 DEF TypeOK
    <2> QED
      BY <1>0, <2>1, <2>2, <2>4 DEF TypeOK, callVars, entryVars, kidVars
  <1>2. Placed'
    BY <1>0, ThreadFacts
       DEF TypeOK, start_watchdog, At, Placed, Spawning, Exiting, callVars, entryVars
  <1>3. MutexHeld'
    BY <1>0, ThreadFacts
       DEF TypeOK, start_watchdog, At, Placed, MutexHeld, Spawning, Exiting, callVars,
           entryVars
  <1>4. QuietStep
    BY <1>0, ThreadFacts
       DEF TypeOK, start_watchdog, At, Placed, QuietStep, Quiet, Ages, Exiting,
           callVars, entryVars, kidVars, past
  <1> QED
    BY <1>1, <1>2, <1>3, <1>4, QuietBase DEF Base

LEMMA StopWatchdogBase ==
    ASSUME Base, NEW c \in Callers, stop_watchdog(c)
    PROVE  Base'
  <1>0. TypeOK /\ Placed /\ MutexHeld
    BY DEF Base
  <1>1. TypeOK'
    BY <1>0, SupervisorAssumption, ThreadFacts
       DEF TypeOK, stop_watchdog, At, Goto, Placed, callVars, entryVars, dogVars, kidVars, past
  <1>2. Placed'
    BY <1>0, ThreadFacts
       DEF TypeOK, stop_watchdog, At, Goto, Placed, Spawning, Exiting, callVars, entryVars
  <1>3. MutexHeld'
    BY <1>0, ThreadFacts
       DEF TypeOK, stop_watchdog, At, Goto, Placed, MutexHeld, Spawning, Exiting, callVars,
           entryVars
  <1>4. QuietStep
    BY <1>0, ThreadFacts
       DEF TypeOK, stop_watchdog, At, Goto, Placed, QuietStep, Quiet, Ages, Exiting,
           callVars, entryVars, kidVars, past
  <1> QED
    BY <1>1, <1>2, <1>3, <1>4, QuietBase DEF Base

LEMMA JoinWatchdogBase ==
    ASSUME Base, NEW c \in Callers, JoinWatchdog(c)
    PROVE  Base'
  <1>0. TypeOK /\ Placed /\ MutexHeld
    BY DEF Base
  <1>1. TypeOK'
    BY <1>0, SupervisorAssumption, ThreadFacts
       DEF TypeOK, JoinWatchdog, At, Placed, callVars, entryVars, dogVars, kidVars, past
  <1>2. Placed'
    BY <1>0, ThreadFacts
       DEF TypeOK, JoinWatchdog, At, Placed, Spawning, Exiting, callVars, entryVars
  <1>3. MutexHeld'
    BY <1>0, ThreadFacts
       DEF TypeOK, JoinWatchdog, At, Placed, MutexHeld, Spawning, Exiting, callVars,
           entryVars
  <1>4. QuietStep
    BY <1>0, ThreadFacts
       DEF TypeOK, JoinWatchdog, At, Placed, QuietStep, Quiet, Ages, Exiting,
           callVars, entryVars, kidVars, past
  <1> QED
    BY <1>1, <1>2, <1>3, <1>4, QuietBase DEF Base

LEMMA MonitorLoopBase ==
    ASSUME Base, NEW n \in Names, MonitorLoop(n)
    PROVE  Base'
  <1>0. TypeOK /\ Placed /\ MutexHeld
    BY DEF Base
  <1>1. TypeOK'
    BY <1>0, SupervisorAssumption, ThreadFacts
       DEF TypeOK, MonitorLoop, At, Goto, Placed, callVars, entryVars, dogVars, kidVars, past
  <1>2. Placed'
    BY <1>0, ThreadFacts
       DEF TypeOK, MonitorLoop, At, Goto, Placed, Spawning, Exiting, callVars, entryVars
  <1>3. MutexHeld'
    BY <1>0, ThreadFacts
       DEF TypeOK, MonitorLoop, At, Goto, Placed, MutexHeld, Spawning, Exiting, callVars,
           entryVars
  <1>4. QuietStep
    BY <1>0, ThreadFacts
       DEF TypeOK, MonitorLoop, At, Goto, Placed, QuietStep, Quiet, Ages, Exiting,
           callVars, entryVars, kidVars, past
  <1> QED
    BY <1>1, <1>2, <1>3, <1>4, QuietBase DEF Base

LEMMA WatchdogWakesBase ==
    ASSUME Base, WatchdogWakes
    PROVE  Base'
  <1>0. TypeOK /\ Placed /\ MutexHeld
    BY DEF Base
  <1>1. TypeOK'
    BY <1>0, SupervisorAssumption, ThreadFacts
       DEF TypeOK, WatchdogWakes, At, Goto, Placed, callVars, entryVars, dogVars, kidVars, past
  <1>2. Placed'
    BY <1>0, ThreadFacts
       DEF TypeOK, WatchdogWakes, At, Goto, Placed, Spawning, Exiting, callVars, entryVars
  <1>3. MutexHeld'
    BY <1>0, ThreadFacts
       DEF TypeOK, WatchdogWakes, At, Goto, Placed, MutexHeld, Spawning, Exiting, callVars,
           entryVars
  <1>4. QuietStep
    BY <1>0, ThreadFacts
       DEF TypeOK, WatchdogWakes, At, Goto, Placed, QuietStep, Quiet, Ages, Exiting,
           callVars, entryVars, kidVars, past
  <1> QED
    BY <1>1, <1>2, <1>3, <1>4, QuietBase DEF Base

LEMMA WatchdogSleepsBase ==
    ASSUME Base, WatchdogSleeps
    PROVE  Base'
  <1>0. TypeOK /\ Placed /\ MutexHeld
    BY DEF Base
  <1>1. TypeOK'
    BY <1>0, SupervisorAssumption, ThreadFacts
       DEF TypeOK, WatchdogSleeps, At, Goto, Placed, callVars, entryVars, dogVars, kidVars, past
  <1>2. Placed'
    BY <1>0, ThreadFacts
       DEF TypeOK, WatchdogSleeps, At, Goto, Placed, Spawning, Exiting, callVars, entryVars
  <1>3. MutexHeld'
    BY <1>0, ThreadFacts
       DEF TypeOK, WatchdogSleeps, At, Goto, Placed, MutexHeld, Spawning, Exiting, callVars,
           entryVars
  <1>4. QuietStep
    BY <1>0, ThreadFacts
       DEF TypeOK, WatchdogSleeps, At, Goto, Placed, QuietStep, Quiet, Ages, Exiting,
           callVars, entryVars, kidVars, past
  <1> QED
    BY <1>1, <1>2, <1>3, <1>4, QuietBase DEF Base

LEMMA ChildEndsBase ==
    ASSUME Base, NEW p \in Pids, ChildEnds(p)
    PROVE  Base'
  <1>0. TypeOK /\ Placed /\ MutexHeld
    BY DEF Base
  <1>1. TypeOK'
    BY <1>0, SupervisorAssumption, EndFacts, ThreadFacts
       DEF TypeOK, ChildEnds, Placed, callVars, entryVars, dogVars, kidVars, past
  <1>2. Placed'
    BY <1>0, ThreadFacts
       DEF TypeOK, ChildEnds, Placed, Spawning, Exiting, callVars, entryVars
  <1>3. MutexHeld'
    BY <1>0, ThreadFacts
       DEF TypeOK, ChildEnds, Placed, MutexHeld, Spawning, Exiting, callVars,
           entryVars
  <1>4. QuietStep
    BY <1>0, ThreadFacts
       DEF TypeOK, ChildEnds, Placed, QuietStep, Quiet, Ages, Exiting,
           callVars, entryVars, kidVars, past
  <1> QED
    BY <1>1, <1>2, <1>3, <1>4, QuietBase DEF Base

\* add_process resets the entry of a name that was never started.
LEMMA AddProcessBase ==
    ASSUME Base, NEW c \in Callers, add_process(c)
    PROVE  Base'
  <1>0. TypeOK /\ Placed /\ MutexHeld
    BY DEF Base
  <1>1. TypeOK'
    <2>1. CASE on[c] \in processes
      BY <1>0, <2>1, ThreadFacts
         DEF TypeOK, add_process, Goto, callVars, entryVars, dogVars, kidVars, past
    <2>2. CASE on[c] \notin processes
      <3>0. on[c] \in Names
        BY <1>0 DEF add_process, Locking, At, Placed
      <3>1. config' \in [Names -> Configs]
        BY <1>0, <2>2 DEF TypeOK, add_process
      <3>2. /\ pid' \in [Names -> 0..MaxPids]
            /\ exit_code' \in [Names -> 0..255]
            /\ restart_count' \in [Names -> Nat]
        <4>1. /\ pid' = [pid EXCEPT ![on[c]] = 0]
              /\ exit_code' = [exit_code EXCEPT ![on[c]] = 0]
              /\ restart_count' = [restart_count EXCEPT ![on[c]] = 0]
          BY <2>2 DEF add_process
        <4>2. 0 \in 0..MaxPids /\ 0 \in 0..255 /\ 0 \in Nat
          BY SupervisorAssumption
        <4> QED
          BY <1>0, <4>1, <4>2 DEF TypeOK
      <3>4. running' \in [Names -> BOOLEAN]
        BY <1>0, <2>2 DEF TypeOK, add_process
      <3>3. /\ processes' \subseteq Names
            /\ status' \in [Names -> {"STOPPED", "STARTING", "RUNNING", "RESTARTING",
                                      "FAILED"}]
        BY <1>0, <2>2, <3>0 DEF TypeOK, add_process
      <3> QED
        BY <1>0, <3>1, <3>2, <3>3, <3>4, ThreadFacts
           DEF TypeOK, add_process, Goto, callVars, dogVars, kidVars, past
    <2> QED
      BY <2>1, <2>2
  <1>2. Placed'
    BY <1>0, ThreadFacts
       DEF TypeOK, add_process, At, Goto, Locking, Placed, Spawning, Exiting
  <1>3. MutexHeld'
    BY <1>0, ThreadFacts
       DEF TypeOK, add_process, At, Goto, Locking, Placed, MutexHeld, Spawning, Exiting,
           entryVars
  <1>4. QuietStep
    <2> DEFINE n == on[c]
    <2>0. n \in Names /\ pc[c] = "lock" /\ ~aborted /\ mutex = None
      BY <1>0 DEF add_process, Locking, At, Placed
    <2>1. CASE n \in processes
      BY <1>0, <2>1, ThreadFacts
         DEF TypeOK, add_process, At, Goto, Locking, QuietStep, Quiet, Ages, Exiting,
             entryVars, kidVars, past
    <2>2. CASE n \notin processes
      <3>1. pc[n] = "none"
        BY <2>0, <2>2 DEF Base, EntryKept
      <3>2. ~StartedBy(n, {"forked", "spawn_flag", "join"})
        <4>1. \A d \in Callers : mutex # d
          BY <2>0, ThreadFacts
        <4> QED
          BY <1>0, <4>1 DEF StartedBy, MutexHeld, Spawning
      <3>3. \A p \in Pids : owner[p] # n
        BY <2>0, <3>1, <3>2 DEF Base, EntryKept
      <3>4. pid[n] = 0
        <4>1. pid[n] \in 0..MaxPids
          BY <1>0, <2>0 DEF TypeOK
        <4> QED
          BY <2>0, <3>3, <4>1, PidFacts DEF Base, PidsOwned
      <3>5. pid' = pid
        BY <1>0, <2>0, <2>2, <3>4 DEF TypeOK, add_process
      <3>6. \A m \in Names :
               /\ m # n => config'[m] = config[m] /\ exit_code'[m] = exit_code[m]
               /\ status'[m] = "RUNNING" => status[m] = "RUNNING"
        BY <1>0, <2>0, <2>2 DEF TypeOK, add_process
      <3>7. \A t \in Threads : Quiet(t)
        BY <1>0, <2>0, ThreadFacts DEF TypeOK, add_process, Goto, Quiet, Exiting
      <3>8. \A p \in Pids : Ages(p)
        BY DEF add_process, Ages, kidVars
      <3>9. UNCHANGED <<hand, owner, reported>> /\ raced' = raced /\ aborted' = aborted
            /\ processes \subseteq processes'
        BY <2>2 DEF add_process, kidVars, past
      <3> QED
        BY <3>3, <3>5, <3>6, <3>7, <3>8, <3>9 DEF QuietStep
    <2> QED
      BY <2>1, <2>2
  <1> QED
    BY <1>1, <1>2, <1>3, <1>4, QuietBase DEF Base

-----------------------------------------------------------------------------
(* The steps that reap a child.                                            *)

\* Handler t took the child of n out of the process table.
Reaps(t, n) ==
    /\ Reapable(pid[n])
    /\ child' = [child EXCEPT ![pid[n]] = "reaped"]
    /\ hand' = [hand EXCEPT ![t] = pid[n]]
    /\ on' = [on EXCEPT ![t] = n]
    /\ Goto(t, "exit_flag")
    /\ UNCHANGED <<mutex, entryVars, owner, ended, past>>

LEMMA ReapBase ==
    ASSUME Base, NEW t \in Handlers, NEW n \in Names, Reaps(t, n),
           TypeOK', Placed', MutexHeld',
           pc[t] \notin Exiting \cup Spawning \cup {"none"},
           t = Watchdog \/ t = n,
           t = Watchdog => pc[n] \notin Exiting \cup {"fork", "forked"}
    PROVE  Base'
  <1> DEFINE p == pid[n]
  <1>0. /\ TypeOK /\ Placed /\ PidsOwned /\ EntryKept /\ Handling /\ Restarting
        /\ RunningIsReal /\ RestartOnlyOnFailure /\ ExitReported /\ ReportedIsReaped
    BY DEF Base
  <1>1. p \in Pids /\ child[p] = "zombie" /\ owner[p] = n
    BY <1>0, PidFacts DEF Reaps, Reapable, PidsOwned
  <1>2. \A q \in Pids : child'[q] = IF q = p THEN "reaped" ELSE child[q]
    BY <1>0, <1>1 DEF Reaps, TypeOK
  <1>3. \A u \in Threads : u # t => pc'[u] = pc[u] /\ on'[u] = on[u] /\ hand'[u] = hand[u]
    BY <1>0 DEF Reaps, Goto, TypeOK
  <1>4. t \in Threads /\ pc'[t] = "exit_flag" /\ on'[t] = n /\ hand'[t] = p
    BY <1>0, ThreadFacts DEF Reaps, Goto, TypeOK
  <1>5. UNCHANGED <<mutex, processes, config, status, pid, exit_code, owner, ended, reported,
                    raced, aborted>>
    BY DEF Reaps, entryVars, past
  <1>6. \A m \in Names : pid[m] \in Pids \cup {0}
    <2>1. pid \in [Names -> 0..MaxPids]
      BY <1>0 DEF TypeOK
    <2> QED
      BY <2>1, PidFacts
  <1>7. \A c \in Callers : pc'[c] = pc[c] /\ on'[c] = on[c]
    BY <1>3, ThreadFacts
  <1>8. \A m \in Names : m # n => pid[m] # p
    BY <1>0, <1>1, PidFacts DEF PidsOwned
  <1>9. \A u \in Spawners : pc'[u] = "forked" =>
           pc[u] = "forked" /\ on'[u] = on[u] /\ hand'[u] = hand[u] /\ u # t
    BY <1>3, <1>4, ThreadFacts
  <1>10. PidsOwned'
    <2>1. \A u \in Spawners : pc[u] = "forked" => hand[u] # p
      BY <1>0 DEF PidsOwned
    <2> QED
      BY <1>0, <1>1, <1>2, <1>5, <1>6, <1>9, <2>1 DEF PidsOwned
  <1>11. EntryKept'
    BY <1>0, <1>3, <1>4, <1>5, <1>7, ThreadFacts DEF EntryKept, StartedBy
  <1>12. Handling'
    <2> SUFFICES ASSUME NEW u \in Handlers, pc'[u] \in Exiting
                 PROVE  Handled(u)'
      BY DEF Handling
    <2>1. CASE u = t
      <3>1. hand'[u] \in Pids /\ child'[hand'[u]] = "reaped" /\ owner'[hand'[u]] = on'[u]
            /\ pc'[u] = "exit_flag"
        BY <1>1, <1>2, <1>4, <1>5, <2>1
      <3>2. u = Watchdog => /\ pid'[on'[u]] = hand'[u]
                            /\ pc'[on'[u]] \notin Exiting \cup {"fork", "forked"}
        BY <1>3, <1>4, <1>5, <2>1, ThreadFacts
      <3>3. u # Watchdog => pid'[u] = hand'[u]
        BY <1>4, <1>5, <2>1
      <3> QED
        BY <3>1, <3>2, <3>3 DEF Handled
    <2>2. CASE u # t
      <3>1. pc'[u] = pc[u] /\ on'[u] = on[u] /\ hand'[u] = hand[u]
        BY <1>3, <2>2, ThreadFacts
      <3>2. Handled(u)
        BY <1>0, <3>1 DEF Handling
      <3>3. child'[hand[u]] = child[hand[u]]
        BY <1>1, <1>2, <3>2 DEF Handled
      <3>4. u = Watchdog => pc'[on[u]] \notin Exiting \cup {"fork", "forked"}
        <4> SUFFICES ASSUME u = Watchdog
                     PROVE  pc'[on[u]] \notin Exiting \cup {"fork", "forked"}
          OBVIOUS
        <4>1. on[u] \in Names
          BY <1>0, <3>1 DEF Placed
        <4>2. on[u] # n
          BY <1>1, <3>2 DEF Handled
        <4> QED
          BY <1>3, <2>2, <3>2, <4>1, <4>2, ThreadFacts DEF Handled
      <3>5. StartedBy(u, {"spawn_flag", "join"}) => StartedBy(u, {"spawn_flag", "join"})'
        BY <1>7 DEF StartedBy
      <3> QED
        BY <1>5, <3>1, <3>3, <3>4, <3>5, HandledKept
    <2> QED
      BY <2>1, <2>2
  <1>13. Restarting'
    BY <1>0, <1>3, <1>4, <1>5, <1>7, ThreadFacts DEF Restarting, StartedBy
  <1>14. RunningIsReal'
    <2> SUFFICES ASSUME NEW m \in Names, status'[m] = "RUNNING"
                 PROVE  (\/ child[pid[m]] \in {"alive", "zombie"}
                         \/ \E u \in Handlers :
                               on[u] = m /\ pc[u] \in {"exit_flag", "exit_status"})'
      BY DEF RunningIsReal
    <2>1. CASE m = n
      BY <1>4, <2>1
    <2>2. CASE m # n
      <3>1. pid'[m] = pid[m] /\ pid[m] \in Pids /\ pid[m] # p /\ status[m] = "RUNNING"
        BY <1>0, <1>5, <1>6, <1>8, <2>2 DEF PidsOwned
      <3>2. CASE child[pid[m]] \in {"alive", "zombie"}
        BY <1>2, <3>1, <3>2
      <3>3. CASE \E u \in Handlers : on[u] = m /\ pc[u] \in {"exit_flag", "exit_status"}
        BY <1>3, <3>3, ThreadFacts DEF Exiting
      <3> QED
        BY <1>0, <3>1, <3>2, <3>3 DEF RunningIsReal
    <2> QED
      BY <2>1, <2>2
  <1>15. RestartOnlyOnFailure'
    <2> SUFFICES ASSUME NEW m \in Names, SelfRestart(m)'
                 PROVE  (/\ config[m].restart_policy # "NEVER"
                         /\ \E q \in Pids : owner[q] = m /\ child[q] = "reaped"
                                            /\ WEXITSTATUS(ended[q]) # 0)'
      BY DEF RestartOnlyOnFailure
    <2>1. SelfRestart(m)
      BY <1>3, <1>4, ThreadFacts DEF SelfRestart
    <2>2. PICK q \in Pids : /\ owner[q] = m /\ child[q] = "reaped"
                            /\ WEXITSTATUS(ended[q]) # 0
      BY <1>0, <2>1 DEF RestartOnlyOnFailure
    <2>3. WEXITSTATUS(ended[q])' # 0
      BY <1>5, <2>2 DEF WEXITSTATUS
    <2> QED
      BY <1>0, <1>2, <1>5, <2>1, <2>2, <2>3 DEF RestartOnlyOnFailure
  <1>16. ReportedIsReaped'
    BY <1>0, <1>2, <1>5 DEF ReportedIsReaped
  <1>17. ExitReported'
    BY <1>0, <1>5 DEF ExitReported, WEXITSTATUS
  <1> QED
    BY <1>10, <1>11, <1>12, <1>13, <1>14, <1>15, <1>16, <1>17 DEF Base

LEMMA MonitorWaitBase ==
    ASSUME Base, NEW n \in Names, MonitorWait(n)
    PROVE  Base'
  <1>0. TypeOK /\ Placed /\ MutexHeld
    BY DEF Base
  <1>1. TypeOK'
    <2>1. /\ child' \in [Pids -> {"free", "alive", "zombie", "reaped"}]
          /\ UNCHANGED owner
      BY <1>0 DEF TypeOK, MonitorWait, Kill, kidVars
    <2>2. ended' \in [Pids -> EndStatuses]
      BY <1>0, EndFacts DEF TypeOK, MonitorWait, Kill, kidVars
    <2>3. hand' \in [Threads -> 0..MaxPids]
      BY <1>0 DEF TypeOK, MonitorWait
    <2>4. \E w \in {"exit_flag", "returned", "loop"} : Goto(n, w)
      BY DEF MonitorWait
    <2> QED
      BY <1>0, <2>1, <2>2, <2>3, <2>4
         DEF TypeOK, MonitorWait, Goto, callVars, entryVars, dogVars, past
  <1>2. Placed'
    <2>1. PICK w \in {"exit_flag", "returned", "loop"} : Goto(n, w)
      BY DEF MonitorWait
    <2>2. UNCHANGED on
      BY DEF MonitorWait
    <2> QED
      BY <1>0, <2>1, <2>2, ThreadFacts DEF TypeOK, Goto, Placed, Spawning, Exiting
  <1>3. MutexHeld'
    BY <1>0, ThreadFacts
       DEF TypeOK, MonitorWait, At, Goto, Placed, MutexHeld, Spawning, Exiting, entryVars
  <1>4. CASE Reapable(pid[n])
    <2>1. n \in Handlers /\ on[n] = n /\ pc[n] = "waitpid"
      BY <1>0, ThreadFacts DEF MonitorWait, At, Placed
    <2>2. on' = [on EXCEPT ![n] = n]
      BY <1>0, <2>1 DEF TypeOK, MonitorWait
    <2>3. Reaps(n, n)
      BY <1>4, <2>2 DEF MonitorWait, Reaps
    <2>4. n # Watchdog /\ pc[n] \notin Exiting \cup Spawning \cup {"none"}
      BY <2>1, ThreadFacts DEF Exiting, Spawning
    <2> QED
      BY <1>1, <1>2, <1>3, <2>1, <2>3, <2>4, ReapBase
  <1>5. CASE ~Reapable(pid[n])
    <2>1. QuietStep
      BY <1>0, <1>5, ThreadFacts
         DEF TypeOK, MonitorWait, At, Goto, Kill, QuietStep, Quiet, Ages, Exiting, entryVars,
             kidVars, past
    <2> QED
      BY <1>1, <1>2, <1>3, <2>1, QuietBase DEF Base
  <1> QED
    BY <1>4, <1>5

LEMMA WatchdogLooksBase ==
    ASSUME Base, WatchdogLooks
    PROVE  Base'
  <1>0. TypeOK /\ Placed /\ MutexHeld
    BY DEF Base
  <1>1. PICK n \in todo :
           /\ todo' = todo \ {n}
           /\ IF Sweeps(n) /\ Reapable(pid[n])
              THEN /\ child' = [child EXCEPT ![pid[n]] = "reaped"]
                   /\ hand' = [hand EXCEPT ![Watchdog] = pid[n]]
                   /\ on' = [on EXCEPT ![Watchdog] = n]
                   /\ Goto(Watchdog, "exit_flag")
              ELSE UNCHANGED <<pc, on, hand, child>>
    BY DEF WatchdogLooks
  <1>2. n \in Names /\ pc[Watchdog] = "sweep" /\ ~aborted
    BY <1>0 DEF TypeOK, WatchdogLooks, At
  <1>3. UNCHANGED <<callVars, mutex, entryVars, watchdog_running, owner, ended, past>>
    BY DEF WatchdogLooks
  <1>4. TypeOK'
    <2>1. UNCHANGED <<op, calls, mutex, processes, config, status, pid, exit_code, restart_count,
                      running, watchdog_running, owner, ended, reported, raced, aborted>>
      BY <1>3 DEF callVars, entryVars, past
    <2>2. todo' \subseteq Names
      BY <1>0, <1>1 DEF TypeOK
    <2>3. CASE Sweeps(n) /\ Reapable(pid[n])
      <3>1. /\ pc' = [pc EXCEPT ![Watchdog] = "exit_flag"]
            /\ on' = [on EXCEPT ![Watchdog] = n]
            /\ hand' = [hand EXCEPT ![Watchdog] = pid[n]]
            /\ child' = [child EXCEPT ![pid[n]] = "reaped"]
        BY <1>1, <2>3 DEF Goto
      <3> QED
        BY <1>0, <1>2, <2>1, <2>2, <3>1 DEF TypeOK
    <2>4. CASE ~(Sweeps(n) /\ Reapable(pid[n]))
      BY <1>0, <1>1, <2>1, <2>2, <2>4 DEF TypeOK
    <2> QED
      BY <2>3, <2>4
  <1>5. CASE Sweeps(n) /\ Reapable(pid[n])
    <2>1. Reaps(Watchdog, n)
      BY <1>1, <1>3, <1>5 DEF Reaps
    <2>2. Placed'
      BY <1>0, <1>2, <2>1, ThreadFacts DEF TypeOK, Reaps, Goto, Placed, Spawning, Exiting
    <2>3. MutexHeld'
      BY <1>0, <1>2, <2>1, ThreadFacts
         DEF TypeOK, Reaps, Goto, MutexHeld, Spawning, Exiting, entryVars
    <2>4. \A c \in Callers : pc[c] \notin {"spawn_flag", "join"}
      BY <1>0, <1>2, ThreadFacts DEF MutexHeld, Spawning
    <2>5. ~StartedBy(n, {"spawn_flag", "join"})
      BY <2>4 DEF StartedBy
    <2>6. pc[n] \notin Exiting
      <3>1. child[pid[n]] = "zombie"
        BY <1>5 DEF Reapable
      <3> QED
        BY <1>2, <2>5, <3>1, ThreadFacts DEF Base, Handling, Handled
    <2>7. pc[n] \notin {"fork", "forked"}
      BY <1>2, <1>5, <2>5 DEF Base, Restarting, Sweeps
    <2> QED
      BY <1>2, <1>4, <2>1, <2>2, <2>3, <2>6, <2>7, ReapBase, ThreadFacts
         DEF Exiting, Spawning
  <1>6. CASE ~(Sweeps(n) /\ Reapable(pid[n]))
    <2>1. UNCHANGED <<pc, on, hand, child, mutex, processes, config, status, pid, exit_code,
                      owner, ended, reported, raced, aborted>>
      BY <1>1, <1>3, <1>6 DEF entryVars, past
    <2>2. Placed' /\ MutexHeld'
      BY <1>0, <2>1 DEF Placed, MutexHeld
    <2>3. QuietStep
      BY <2>1 DEF QuietStep, Quiet, Ages
    <2> QED
      BY <1>4, <2>2, <2>3, QuietBase DEF Base
  <1> QED
    BY <1>5, <1>6

-----------------------------------------------------------------------------
(* handle_exit.                                                            *)

LEMMA ExitStatusType == \A s \in Int : WEXITSTATUS(s) \in 0..255
  BY DEF WEXITSTATUS

\* A status that is decoded twice is a success.
LEMMA TwiceDecoded == \A s \in Int : WEXITSTATUS(WEXITSTATUS(s)) = 0
  <1>1. \A x \in 0..255 : x \div 256 = 0
    OBVIOUS
  <1>2. 0 % 256 = 0
    OBVIOUS
  <1>3. \A x \in 0..255 : WEXITSTATUS(x) = 0
    BY <1>1, <1>2 DEF WEXITSTATUS
  <1> QED
    BY <1>3, ExitStatusType

LEMMA HandlerType ==
    ASSUME Base, NEW t \in Handlers, pc[t] \in Exiting
    PROVE  /\ t \in Threads /\ on[t] \in Names /\ Handled(t) /\ ended[hand[t]] \in Int
           /\ StatusFor(t) \in Int
  <1>1. t \in Threads /\ on[t] \in Names
    BY ThreadFacts DEF Base, Placed
  <1>2. Handled(t)
    BY DEF Base, Handling
  <1>3. ended[hand[t]] \in Int
    <2>1. ended \in [Pids -> EndStatuses]
      BY DEF Base, TypeOK
    <2>2. hand[t] \in Pids
      BY <1>2 DEF Handled
    <2> QED
      BY <2>1, <2>2, EndFacts
  <1>4. WEXITSTATUS(ended[hand[t]]) \in Int
    BY <1>3, ExitStatusType
  <1> QED
    BY <1>1, <1>2, <1>3, <1>4 DEF StatusFor

LEMMA ExitFlagBase ==
    ASSUME Base, NEW t \in Handlers, ExitFlag(t)
    PROVE  Base'
  <1> DEFINE n == on[t]
  <1>0. /\ TypeOK /\ Placed /\ MutexHeld /\ PidsOwned /\ EntryKept /\ Handling /\ Restarting
        /\ RunningIsReal /\ RestartOnlyOnFailure /\ ExitReported /\ ReportedIsReaped
    BY DEF Base
  <1>1. pc[t] = "exit_flag" /\ pc[t] \in Exiting /\ ~aborted
    BY DEF ExitFlag, At, Exiting
  <1>2. t \in Threads /\ n \in Names /\ Handled(t) /\ StatusFor(t) \in Int
    BY <1>1, HandlerType
  <1>3. /\ pc' = [pc EXCEPT ![t] = "exit_status"]
        /\ running' = [running EXCEPT ![n] = FALSE]
        /\ exit_code' = [exit_code EXCEPT ![n] = WEXITSTATUS(StatusFor(t))]
        /\ UNCHANGED <<on, hand, op, calls, mutex, processes, config, status, pid,
                       restart_count, watchdog_running, todo, child, owner, ended, reported,
                       raced, aborted>>
    BY DEF ExitFlag, Goto, callVars, dogVars, kidVars, past
  <1>4. TypeOK'
    <2>1. exit_code' \in [Names -> 0..255]
      <3>1. WEXITSTATUS(StatusFor(t)) \in 0..255
        BY <1>2, ExitStatusType
      <3> QED
        BY <1>0, <1>2, <1>3, <3>1 DEF TypeOK
    <2>2. running' \in [Names -> BOOLEAN]
      BY <1>0, <1>3 DEF TypeOK
    <2> QED
      BY <1>0, <1>2, <1>3, <2>1, <2>2 DEF TypeOK
  <1>5. \A u \in Threads : pc'[u] = IF u = t THEN "exit_status" ELSE pc[u]
    BY <1>0, <1>3 DEF TypeOK
  <1>6. \A m \in Names : m # n => exit_code'[m] = exit_code[m]
    BY <1>0, <1>3 DEF TypeOK
  <1>7. Placed'
    BY <1>0, <1>1, <1>2, <1>3, <1>5, ThreadFacts DEF Placed, Spawning, Exiting
  <1>8. MutexHeld'
    BY <1>0, <1>1, <1>3, <1>5, ThreadFacts DEF MutexHeld, Spawning, Exiting
  <1>9. \A m \in Names, W \in SUBSET Spawning : StartedBy(m, W)' <=> StartedBy(m, W)
    BY <1>1, <1>3, <1>5, ThreadFacts DEF StartedBy, Exiting, Spawning
  <1>10. PidsOwned'
    BY <1>0, <1>1, <1>3, <1>5, ThreadFacts DEF PidsOwned
  <1>11. EntryKept'
    BY <1>0, <1>1, <1>3, <1>5, <1>9, ThreadFacts DEF EntryKept, Spawning
  <1>12. Handling'
    <2> SUFFICES ASSUME NEW u \in Handlers, pc'[u] \in Exiting
                 PROVE  Handled(u)'
      BY DEF Handling
    <2>1. CASE u = t
      <3>1. exit_code'[n] = WEXITSTATUS(StatusFor(t))
        BY <1>0, <1>2, <1>3 DEF TypeOK
      <3>2. StatusFor(t)' = StatusFor(t)
        BY <1>3 DEF StatusFor
      <3>3. t = Watchdog => pc'[n] \notin Exiting \cup {"fork", "forked"}
        BY <1>2, <1>5, ThreadFacts DEF Handled
      <3>4. t # Watchdog => (StartedBy(t, {"spawn_flag", "join"})'
                                <=> StartedBy(t, {"spawn_flag", "join"}))
        BY <1>9, ThreadFacts DEF Spawning
      <3>5. exit_code'[on'[t]] = WEXITSTATUS(StatusFor(t)')
        BY <1>3, <3>1, <3>2
      <3> QED
        BY <1>2, <1>3, <2>1, <3>3, <3>4, <3>5 DEF Handled, WEXITSTATUS
    <2>2. CASE u # t
      <3>1. pc'[u] = pc[u] /\ on[u] \in Names /\ on[u] # n
        <4>1. pc'[u] = pc[u]
          BY <1>5, <2>2, ThreadFacts
        <4> QED
          BY <1>1, <2>2, <4>1, HandlerType, HandlersApart
      <3>2. u = Watchdog => pc'[on[u]] \notin Exiting \cup {"fork", "forked"}
        <4>1. Handled(u) /\ on[u] \in Threads /\ (u = Watchdog => t \in Names)
          BY <1>0, <2>2, <3>1, ThreadFacts DEF Handling
        <4>2. u = Watchdog => on[u] # t
          BY <1>0, <3>1, <4>1 DEF Placed
        <4> QED
          BY <1>5, <4>1, <4>2 DEF Handled
      <3>3. u # Watchdog => (StartedBy(u, {"spawn_flag", "join"})'
                                <=> StartedBy(u, {"spawn_flag", "join"}))
        BY <1>9, ThreadFacts DEF Spawning
      <3> QED
        BY <1>3, <1>6, <3>1, <3>2, <3>3, HandledKept
    <2> QED
      BY <2>1, <2>2
  <1>13. Restarting'
    BY <1>0, <1>1, <1>3, <1>5, <1>9, ThreadFacts DEF Restarting, Spawning
  <1>14. RunningIsReal'
    BY <1>0, <1>1, <1>3, <1>5, ThreadFacts DEF RunningIsReal
  <1>15. RestartOnlyOnFailure'
    <2>1. \A m \in Names : SelfRestart(m)' => SelfRestart(m)
      BY <1>5, ThreadFacts DEF SelfRestart
    <2> QED
      BY <1>0, <1>3, <2>1 DEF RestartOnlyOnFailure, WEXITSTATUS
  <1>16. ReportedIsReaped' /\ ExitReported'
    BY <1>0, <1>3 DEF ReportedIsReaped, ExitReported, WEXITSTATUS
  <1> QED
    BY <1>4, <1>7, <1>8, <1>10, <1>11, <1>12, <1>13, <1>14, <1>15, <1>16 DEF Base

LEMMA ExitStatusBase ==
    ASSUME Base, NEW t \in Handlers, ExitStatus(t)
    PROVE  Base'
  <1> DEFINE n == on[t]
  <1>0. /\ TypeOK /\ Placed /\ MutexHeld /\ PidsOwned /\ EntryKept /\ Handling /\ Restarting
        /\ RunningIsReal /\ RestartOnlyOnFailure /\ ExitReported /\ ReportedIsReaped
    BY DEF Base
  <1>1. pc[t] = "exit_status" /\ pc[t] \in Exiting /\ ~aborted
    BY DEF ExitStatus, At, Exiting
  <1>2. t \in Threads /\ n \in Names /\ Handled(t)
    BY <1>1, HandlerType
  <1>3. /\ pc' = [pc EXCEPT ![t] = "exit_event"]
        /\ status' = [status EXCEPT ![n] = "STOPPED"]
        /\ UNCHANGED <<on, hand, op, calls, mutex, processes, config, running, pid, exit_code,
                       restart_count, watchdog_running, todo, child, owner, ended, reported,
                       aborted>>
        /\ raced' \subseteq raced \cup {n}
    BY DEF ExitStatus, StatusAfterExit, Goto, callVars, dogVars, kidVars, past
  <1>4. TypeOK'
    <2>1. raced' \subseteq Names
      BY <1>0, <1>2, <1>3 DEF TypeOK
    <2> QED
      BY <1>0, <1>2, <1>3, <2>1 DEF TypeOK
  <1>5. \A u \in Threads : pc'[u] = IF u = t THEN "exit_event" ELSE pc[u]
    BY <1>0, <1>3 DEF TypeOK
  <1>6. \A m \in Names : status'[m] = IF m = n THEN "STOPPED" ELSE status[m]
    BY <1>0, <1>3 DEF TypeOK
  <1>7. Placed'
    BY <1>0, <1>1, <1>2, <1>3, <1>5, ThreadFacts DEF Placed, Spawning, Exiting
  <1>8. MutexHeld'
    BY <1>0, <1>1, <1>3, <1>5, ThreadFacts DEF MutexHeld, Spawning, Exiting
  <1>9. \A m \in Names, W \in SUBSET Spawning : StartedBy(m, W)' <=> StartedBy(m, W)
    BY <1>1, <1>3, <1>5, ThreadFacts DEF StartedBy, Exiting, Spawning
  <1>10. PidsOwned'
    BY <1>0, <1>1, <1>3, <1>5, <1>6, ThreadFacts DEF PidsOwned
  <1>11. EntryKept'
    BY <1>0, <1>1, <1>3, <1>5, <1>9, ThreadFacts DEF EntryKept, Spawning
  <1>12. Handling'
    <2> SUFFICES ASSUME NEW u \in Handlers, pc'[u] \in Exiting
                 PROVE  Handled(u)'
      BY DEF Handling
    <2>1. u # Watchdog => (StartedBy(u, {"spawn_flag", "join"})'
                              <=> StartedBy(u, {"spawn_flag", "join"}))
      BY <1>9, ThreadFacts DEF Spawning
    <2>2. CASE u = t
      <3>1. StatusFor(t)' = StatusFor(t)
        BY <1>3 DEF StatusFor
      <3>2. exit_code'[on'[t]] = WEXITSTATUS(StatusFor(t)')
        BY <1>1, <1>2, <1>3, <3>1 DEF Handled
      <3>3. t = Watchdog => pc'[n] \notin Exiting \cup {"fork", "forked"}
        BY <1>2, <1>5, ThreadFacts DEF Handled
      <3> QED
        BY <1>2, <1>3, <2>1, <2>2, <3>2, <3>3 DEF Handled, WEXITSTATUS
    <2>3. CASE u # t
      <3>1. pc'[u] = pc[u] /\ on[u] \in Names
        BY <1>5, <2>3, ThreadFacts, HandlerType
      <3>2. u = Watchdog => pc'[on[u]] \notin Exiting \cup {"fork", "forked"}
        <4>1. Handled(u) /\ on[u] \in Threads /\ (u = Watchdog => t \in Names)
          BY <1>0, <2>3, <3>1, ThreadFacts DEF Handling
        <4>2. u = Watchdog => on[u] # t
          BY <1>1, <4>1 DEF Handled
        <4> QED
          BY <1>5, <4>1, <4>2 DEF Handled
      <3> QED
        BY <1>3, <2>1, <3>1, <3>2, HandledKept
    <2> QED
      BY <2>2, <2>3
  <1>13. Restarting'
    BY <1>0, <1>1, <1>3, <1>5, <1>6, <1>9, ThreadFacts DEF Restarting, Spawning
  <1>14. RunningIsReal'
    BY <1>0, <1>1, <1>3, <1>5, <1>6, ThreadFacts DEF RunningIsReal
  <1>15. RestartOnlyOnFailure'
    <2>1. \A m \in Names : SelfRestart(m)' => SelfRestart(m)
      BY <1>5, ThreadFacts DEF SelfRestart
    <2> QED
      BY <1>0, <1>3, <2>1 DEF RestartOnlyOnFailure, WEXITSTATUS
  <1>16. ReportedIsReaped' /\ ExitReported'
    BY <1>0, <1>3 DEF ReportedIsReaped, ExitReported, WEXITSTATUS
  <1> QED
    BY <1>4, <1>7, <1>8, <1>10, <1>11, <1>12, <1>13, <1>14, <1>15, <1>16 DEF Base

LEMMA ExitEventBase ==
    ASSUME Base, NEW t \in Handlers, ExitEvent(t)
    PROVE  Base'
  <1> DEFINE n == on[t]
             p == hand[t]
             again == Restarts(n) /\ restart_count[n] < config[n].max_restarts
             next == IF again THEN "fork" ELSE IF t = Watchdog THEN "sweep" ELSE "returned"
             event == [by |-> t, type |-> IF pid[n] = p
                                          THEN IF exit_code[n] = 0 THEN "STOPPED" ELSE "CRASHED"
                                          ELSE "misnamed"]
  <1>0. /\ TypeOK /\ Placed /\ MutexHeld /\ PidsOwned /\ EntryKept /\ Handling /\ Restarting
        /\ RunningIsReal /\ RestartOnlyOnFailure /\ ExitReported /\ ReportedIsReaped
    BY DEF Base
  <1>1. pc[t] = "exit_event" /\ pc[t] \in Exiting /\ ~aborted
    BY DEF ExitEvent, At, Exiting
  <1>2. t \in Threads /\ n \in Names /\ Handled(t) /\ ended[p] \in Int
    BY <1>1, HandlerType
  <1>3. p \in Pids /\ child[p] = "reaped" /\ owner[p] = n
    BY <1>2 DEF Handled
  <1>4. exit_code[n] = IF t = Watchdog THEN 0 ELSE WEXITSTATUS(ended[p])
    <2>1. exit_code[n] = WEXITSTATUS(StatusFor(t))
      BY <1>1, <1>2 DEF Handled
    <2> QED
      BY <1>2, <2>1, TwiceDecoded DEF StatusFor
  <1>5. again => t # Watchdog /\ t = n /\ t \in Names
    BY <1>0, <1>4, ThreadFacts DEF Restarts, Placed
  <1>6. /\ pc' = [pc EXCEPT ![t] = next]
        /\ hand' = [hand EXCEPT ![t] = 0]
        /\ raced' \subseteq raced \cup {n}
        /\ reported' = [reported EXCEPT ![p] = event]
        /\ restart_count' = [restart_count EXCEPT ![n] = IF again THEN @ + 1 ELSE @]
        /\ status' = [status EXCEPT ![n] = IF again THEN "RESTARTING"
                                           ELSE IF Restarts(n) THEN "FAILED" ELSE @]
        /\ UNCHANGED <<on, op, calls, mutex, processes, config, pid, exit_code, running,
                       watchdog_running, todo, child, owner, ended, aborted>>
    BY DEF ExitEvent, emit_event, HandlerReturns, Goto, callVars, dogVars, kidVars
  <1>7. TypeOK'
    <2>1. reported' \in [Pids -> [by : Threads \cup {None},
                                  type : {"none", "STOPPED", "CRASHED", "misnamed"}]]
      BY <1>0, <1>2, <1>3, <1>6 DEF TypeOK
    <2>2. restart_count' \in [Names -> Nat]
      <3>1. restart_count \in [Names -> Nat]
        BY <1>0 DEF TypeOK
      <3>2. restart_count[n] \in Nat /\ restart_count[n] + 1 \in Nat
        BY <1>2, <3>1
      <3>3. \E k \in {restart_count[n], restart_count[n] + 1} :
               restart_count' = [restart_count EXCEPT ![n] = k]
        BY <1>6, Zenon
      <3> QED
        BY <3>1, <3>2, <3>3
    <2>3. status' \in [Names -> {"STOPPED", "STARTING", "RUNNING", "RESTARTING", "FAILED"}]
      BY <1>0, <1>6 DEF TypeOK
    <2>4. pc' \in [Threads ->
                    {"idle", "none", "lock", "relock", "fork", "forked", "spawn_flag", "join",
                     "stopping", "stopped", "loop", "waitpid", "returned", "exit_flag",
                     "exit_status", "exit_event", "sleep", "sweep", "dog_check", "dog_start",
                     "dog_stop", "dog_join"}]
      BY <1>0, <1>6 DEF TypeOK
    <2>5. hand' \in [Threads -> 0..MaxPids]
      <3>1. 0 \in 0..MaxPids
        BY SupervisorAssumption
      <3> QED
        BY <1>0, <1>6, <3>1 DEF TypeOK
    <2>6. raced' \subseteq Names
      BY <1>0, <1>2, <1>6 DEF TypeOK
    <2> QED
      BY <1>0, <1>6, <2>1, <2>2, <2>3, <2>4, <2>5, <2>6 DEF TypeOK
  <1>8. \A u \in Threads : /\ pc'[u] = IF u = t THEN next ELSE pc[u]
                           /\ u # t => hand'[u] = hand[u]
    BY <1>0, <1>6 DEF TypeOK
  <1>9. \A m \in Names : /\ m # n => status'[m] = status[m]
                         /\ status'[m] = "RUNNING" => status[m] = "RUNNING"
                         /\ m = n /\ again => status'[m] # "RUNNING"
    BY <1>0, <1>6 DEF TypeOK
  <1>10. Placed'
    BY <1>0, <1>1, <1>2, <1>5, <1>6, <1>8, ThreadFacts DEF Placed, Spawning, Exiting
  <1>11. MutexHeld'
    BY <1>0, <1>1, <1>5, <1>6, <1>8, ThreadFacts DEF MutexHeld, Spawning, Exiting
  <1>12. \A c \in Callers : pc'[c] = pc[c]
    BY <1>8, ThreadFacts
  <1>13. \A m \in Names, W \in SUBSET Spawning : StartedBy(m, W)' <=> StartedBy(m, W)
    BY <1>6, <1>12 DEF StartedBy
  <1>14. PidsOwned'
    <2>1. \A u \in Spawners : pc'[u] = "forked" =>
             pc[u] = "forked" /\ hand'[u] = hand[u] /\ on'[u] = on[u]
      BY <1>6, <1>8, ThreadFacts
    <2> QED
      BY <1>0, <1>6, <1>9, <2>1 DEF PidsOwned
  <1>15. EntryKept'
    BY <1>0, <1>1, <1>6, <1>8, <1>13, ThreadFacts DEF EntryKept, Spawning
  <1>16. Handling'
    <2> SUFFICES ASSUME NEW u \in Handlers, pc'[u] \in Exiting
                 PROVE  Handled(u)'
      BY DEF Handling
    <2>1. u # t /\ u \in Threads
      BY <1>2, <1>8, ThreadFacts DEF Exiting
    <2>2. pc'[u] = pc[u] /\ hand'[u] = hand[u] /\ on[u] \in Names
      BY <1>8, <2>1, HandlerType
    <2>3. u = Watchdog => pc'[on[u]] \notin Exiting \cup {"fork", "forked"}
      <3>1. Handled(u) /\ on[u] \in Threads /\ (u = Watchdog => t \in Names)
        BY <1>0, <2>1, <2>2, ThreadFacts DEF Handling
      <3>2. u = Watchdog => on[u] # t
        BY <1>1, <3>1 DEF Handled
      <3> QED
        BY <1>8, <3>1, <3>2 DEF Handled
    <2>4. u # Watchdog => (StartedBy(u, {"spawn_flag", "join"})'
                              <=> StartedBy(u, {"spawn_flag", "join"}))
      BY <1>13, ThreadFacts DEF Spawning
    <2> QED
      BY <1>6, <2>2, <2>3, <2>4, HandledKept
  <1>17. Restarting'
    <2> SUFFICES ASSUME NEW m \in Names, pc'[m] \in {"fork", "forked"}
                 PROVE  status'[m] # "RUNNING" \/ StartedBy(m, {"spawn_flag", "join"})'
      BY DEF Restarting
    <2>1. CASE m = t
      BY <1>5, <1>8, <1>9, <2>1, ThreadFacts
    <2>2. CASE m # t
      BY <1>0, <1>8, <1>9, <1>13, <2>2, ThreadFacts DEF Restarting, Spawning
    <2> QED
      BY <2>1, <2>2
  <1>18. RunningIsReal'
    BY <1>0, <1>1, <1>6, <1>8, <1>9, ThreadFacts DEF RunningIsReal
  <1>19. RestartOnlyOnFailure'
    <2> SUFFICES ASSUME NEW m \in Names, SelfRestart(m)'
                 PROVE  (/\ config[m].restart_policy # "NEVER"
                         /\ \E q \in Pids : owner[q] = m /\ child[q] = "reaped"
                                            /\ WEXITSTATUS(ended[q]) # 0)'
      BY DEF RestartOnlyOnFailure
    <2>1. /\ config[m].restart_policy # "NEVER"
          /\ \E q \in Pids : owner[q] = m /\ child[q] = "reaped" /\ WEXITSTATUS(ended[q]) # 0
      <3>1. CASE m = t
        <4>1. again
          BY <1>8, <3>1, ThreadFacts DEF SelfRestart
        <4> QED
          BY <1>3, <1>4, <1>5, <3>1, <4>1 DEF Restarts
      <3>2. CASE m # t
        <4>1. SelfRestart(m)
          BY <1>8, <3>2, ThreadFacts DEF SelfRestart
        <4> QED
          BY <1>0, <4>1 DEF RestartOnlyOnFailure
      <3> QED
        BY <3>1, <3>2
    <2> QED
      BY <1>6, <2>1 DEF WEXITSTATUS
  <1>20. \A q \in Pids : reported'[q] = IF q = p THEN event ELSE reported[q]
    BY <1>0, <1>6 DEF TypeOK
  <1>21. ReportedIsReaped'
    BY <1>0, <1>3, <1>6, <1>20 DEF ReportedIsReaped
  <1>22. ExitReported'
    <2> SUFFICES ASSUME NEW q \in Pids
                 PROVE  /\ reported'[q].type = "CRASHED" => WEXITSTATUS(ended[q]) # 0
                        /\ reported'[q].type = "STOPPED" /\ WEXITSTATUS(ended[q]) # 0 =>
                              reported'[q].by = Watchdog
                        /\ reported'[q].type = "misnamed" =>
                              /\ reported'[q].by # Watchdog
                              /\ \E r \in Pids \ {q} : owner[r] = owner[q]
      BY <1>6 DEF ExitReported, WEXITSTATUS
    <2>1. CASE q = p
      <3>1. pid[n] # p => t # Watchdog /\ t = n /\ pid[n] # 0
        BY <1>0, <1>2, ThreadFacts DEF Handled, Placed
      <3>2. pid[n] \in 0..MaxPids
        BY <1>0, <1>2 DEF TypeOK
      <3>3. pid[n] # p => pid[n] \in Pids \ {p} /\ owner[pid[n]] = owner[p]
        BY <1>0, <1>2, <1>3, <3>1, <3>2, PidFacts DEF PidsOwned
      <3>4. \/ event.type = "misnamed" /\ pid[n] # p
            \/ event.type = "CRASHED" /\ exit_code[n] # 0
            \/ event.type = "STOPPED" /\ exit_code[n] = 0
        OBVIOUS
      <3> QED
        BY <1>4, <1>20, <2>1, <3>1, <3>3, <3>4
    <2>2. CASE q # p
      BY <1>0, <1>6, <1>20, <2>2 DEF ExitReported
    <2> QED
      BY <2>1, <2>2
  <1> QED
    BY <1>7, <1>10, <1>11, <1>14, <1>15, <1>16, <1>17, <1>18, <1>19, <1>21, <1>22 DEF Base

-----------------------------------------------------------------------------
(* spawn_process, by a caller in start() or by a monitor.                  *)

LEMMA SpawnerType ==
    ASSUME Base, NEW t \in Spawners, pc[t] \in Spawning
    PROVE  /\ t \in Threads /\ t # Watchdog /\ on[t] \in Names
           /\ t \in Names => on[t] = t
           /\ t \in Callers <=> t \notin Names
           /\ t \in Callers => mutex = t /\ on[t] \in processes
           /\ pc[Watchdog] \in Exiting => t \notin Callers
  <1>1. t \in Callers => pc[t] # "idle" /\ mutex = t /\ on[t] \in processes
    BY DEF Base, MutexHeld, Spawning
  <1>2. t \in Callers => on[t] \in Names
    BY <1>1 DEF Base, Placed
  <1>3. t \in Names => on[t] = t
    BY DEF Base, Placed
  <1>4. pc[Watchdog] \in Exiting => t \notin Callers
    BY <1>1, ThreadFacts DEF Base, MutexHeld
  <1> QED
    BY <1>1, <1>2, <1>3, <1>4, ThreadFacts

LEMMA ForkBase ==
    ASSUME Base, NEW t \in Spawners, Fork(t)
    PROVE  Base'
  <1> DEFINE n == on[t]
             free == {q \in Pids : child[q] = "free"}
  <1>0. /\ TypeOK /\ Placed /\ MutexHeld /\ PidsOwned /\ EntryKept /\ Handling /\ Restarting
        /\ RunningIsReal /\ RestartOnlyOnFailure /\ ExitReported /\ ReportedIsReaped
    BY DEF Base
  <1>1. pc[t] = "fork" /\ pc[t] \in Spawning /\ ~aborted
    BY DEF Fork, At, Spawning
  <1>2. /\ t \in Threads /\ t # Watchdog /\ n \in Names
        /\ t \in Names => n = t
        /\ t \in Callers <=> t \notin Names
        /\ t \in Callers => mutex = t /\ n \in processes
        /\ pc[Watchdog] \in Exiting => t \notin Callers
    BY <1>1, SpawnerType
  <1>3. /\ raced' \in {raced, raced \cup {n}}
        /\ restart_count' = [restart_count EXCEPT ![n] = 0]
        /\ UNCHANGED <<on, op, calls, processes, config, pid, exit_code, running,
                       watchdog_running, todo, ended, reported, aborted>>
    BY DEF Fork, callVars, dogVars
  <1>4. raced \subseteq raced' /\ raced' \subseteq Names
    BY <1>0, <1>2, <1>3 DEF TypeOK
  <1>5. restart_count' \in [Names -> Nat]
    BY <1>0, <1>3 DEF TypeOK
  <1>6. CASE free = {}
    <2>1. /\ pc' = [pc EXCEPT ![t] = IF t \in Callers THEN "idle" ELSE "returned"]
          /\ mutex' = IF t \in Callers THEN None ELSE mutex
          /\ status' = [status EXCEPT ![n] = "FAILED"]
          /\ UNCHANGED <<hand, child, owner>>
      BY <1>6 DEF Fork, SpawnReturns, Goto
    <2>2. TypeOK'
      BY <1>0, <1>2, <1>3, <1>4, <1>5, <2>1 DEF TypeOK
    <2>3. \A u \in Threads :
             pc'[u] = IF u # t THEN pc[u] ELSE IF t \in Callers THEN "idle" ELSE "returned"
      BY <1>0, <2>1 DEF TypeOK
    <2>4. Placed'
      BY <1>0, <1>2, <1>3, <2>3, ThreadFacts DEF Placed, Spawning, Exiting
    <2>5. MutexHeld'
      BY <1>0, <1>2, <1>3, <2>1, <2>3, ThreadFacts DEF MutexHeld, Spawning, Exiting
    <2>6. QuietStep
      <3>1. \A u \in Threads : Quiet(u)
        BY <1>1, <1>2, <1>3, <2>3 DEF Quiet, Exiting
      <3>2. \A m \in Names : status'[m] = "RUNNING" => status[m] = "RUNNING"
        BY <1>0, <2>1 DEF TypeOK
      <3> QED
        BY <1>1, <1>3, <1>4, <2>1, <3>1, <3>2 DEF QuietStep, Ages
    <2> QED
      BY <2>2, <2>4, <2>5, <2>6, QuietBase DEF Base
  <1>7. CASE free # {}
    <2>1. PICK p \in free :
             /\ status' = [status EXCEPT ![n] = "STARTING"]
             /\ child' = [child EXCEPT ![p] = "alive"]
             /\ owner' = [owner EXCEPT ![p] = n]
             /\ hand' = [hand EXCEPT ![t] = p]
             /\ pc' = [pc EXCEPT ![t] = "forked"]
             /\ UNCHANGED mutex
      BY <1>7 DEF Fork, Goto
    <2>2. p \in Pids /\ child[p] = "free" /\ p \in 0..MaxPids
      BY PidFacts
    <2>3. TypeOK'
      BY <1>0, <1>2, <1>3, <1>4, <1>5, <2>1, <2>2 DEF TypeOK
    <2>4. \A u \in Threads : /\ pc'[u] = IF u = t THEN "forked" ELSE pc[u]
                             /\ hand'[u] = IF u = t THEN p ELSE hand[u]
      BY <1>0, <2>1 DEF TypeOK
    <2>5. \A q \in Pids : /\ child'[q] = IF q = p THEN "alive" ELSE child[q]
                          /\ owner'[q] = IF q = p THEN n ELSE owner[q]
      BY <1>0, <2>1 DEF TypeOK
    <2>6. \A m \in Names : status'[m] = IF m = n THEN "STARTING" ELSE status[m]
      BY <1>0, <2>1 DEF TypeOK
    <2>7. Placed'
      BY <1>0, <1>1, <1>2, <1>3, <2>4, ThreadFacts DEF Placed, Spawning, Exiting
    <2>8. MutexHeld'
      BY <1>0, <1>1, <1>2, <1>3, <2>1, <2>4, ThreadFacts DEF MutexHeld, Spawning, Exiting
    <2>9. \A m \in Names : pid[m] # p /\ pid[m] \in Pids \cup {0}
      <3>1. pid \in [Names -> 0..MaxPids]
        BY <1>0 DEF TypeOK
      <3> QED
        BY <1>0, <2>2, <3>1, PidFacts DEF PidsOwned
    <2>10. \A u \in Spawners : pc[u] = "forked" => hand[u] # p
      BY <1>0, <2>2 DEF PidsOwned
    <2>11. \A m \in Names : StartedBy(m, {"spawn_flag", "join"})'
                               <=> StartedBy(m, {"spawn_flag", "join"})
      BY <1>1, <1>3, <2>4, ThreadFacts DEF StartedBy
    <2>12. PidsOwned'
      <3>1. \A u \in Spawners : pc'[u] = "forked" =>
               /\ hand'[u] \in Pids
               /\ owner'[hand'[u]] = on'[u]
               /\ child'[hand'[u]] \in {"alive", "zombie"}
               /\ \A m \in Names : pid'[m] # hand'[u]
               /\ \A v \in Spawners : pc'[v] = "forked" /\ hand'[v] = hand'[u] => v = u
        <4>1. \A u \in Spawners : u # t /\ pc'[u] = "forked" =>
                 pc[u] = "forked" /\ hand'[u] = hand[u] /\ hand[u] \in Pids /\ hand[u] # p
          BY <1>0, <2>4, <2>10, ThreadFacts DEF PidsOwned
        <4>2. hand'[t] = p
          BY <1>2, <2>4
        <4>3. \A u \in Spawners : pc'[u] = "forked" =>
                 /\ \A m \in Names : pid'[m] # hand'[u]
                 /\ \A v \in Spawners : pc'[v] = "forked" /\ hand'[v] = hand'[u] => v = u
          BY <1>0, <1>3, <2>9, <4>1, <4>2 DEF PidsOwned
        <4>4. \A u \in Spawners : pc'[u] = "forked" =>
                 /\ hand'[u] \in Pids
                 /\ owner'[hand'[u]] = on'[u]
                 /\ child'[hand'[u]] \in {"alive", "zombie"}
          <5>1. owner'[p] = n /\ child'[p] = "alive" /\ on'[t] = n
            BY <1>3, <2>2, <2>5
          <5>2. \A u \in Spawners : u # t /\ pc'[u] = "forked" =>
                   /\ hand'[u] \in Pids
                   /\ owner'[hand'[u]] = on'[u]
                   /\ child'[hand'[u]] \in {"alive", "zombie"}
            BY <1>0, <1>3, <2>5, <4>1 DEF PidsOwned
          <5> QED
            BY <2>2, <4>2, <5>1, <5>2
        <4> QED
          BY <4>3, <4>4
      <3>2. \A m \in Names : pid'[m] # 0 => owner'[pid'[m]] = m /\ child'[pid'[m]] # "free"
        BY <1>0, <1>3, <2>5, <2>9 DEF PidsOwned
      <3>3. /\ \A m \in Names : status'[m] = "RUNNING" => pid'[m] # 0
            /\ \A q \in Pids : child'[q] # "free" => owner'[q] \in Names
            /\ \A q \in Pids : child'[q] = "free" => owner'[q] = None
        BY <1>0, <1>2, <1>3, <2>5, <2>6 DEF PidsOwned
      <3> QED
        BY <3>1, <3>2, <3>3 DEF PidsOwned
    <2>13. EntryKept'
      <3> SUFFICES ASSUME NEW m \in Names
                   PROVE  /\ m \notin processes' => pc'[m] = "none" \/ aborted'
                          /\ pc'[m] = "none" =>
                                \/ StartedBy(m, {"forked", "spawn_flag", "join"})'
                                \/ \A q \in Pids : owner'[q] # m
        BY DEF EntryKept
      <3>1. m \notin processes' => pc'[m] = "none" \/ aborted'
        BY <1>0, <1>1, <1>3, <2>4, ThreadFacts DEF EntryKept
      <3>2. pc'[m] = "none" /\ m = n => StartedBy(m, {"forked", "spawn_flag", "join"})'
        BY <1>2, <1>3, <2>4, ThreadFacts DEF StartedBy
      <3>3. StartedBy(m, {"forked", "spawn_flag", "join"}) =>
               StartedBy(m, {"forked", "spawn_flag", "join"})'
        BY <1>3, <2>4, ThreadFacts DEF StartedBy
      <3>4. pc'[m] = "none" => pc[m] = "none"
        BY <2>4, ThreadFacts
      <3> QED
        BY <1>0, <2>5, <3>1, <3>2, <3>3, <3>4 DEF EntryKept
    <2>14. Handling'
      <3> SUFFICES ASSUME NEW u \in Handlers, pc'[u] \in Exiting
                   PROVE  Handled(u)'
        BY DEF Handling
      <3>1. u # t /\ u \in Threads
        BY <1>2, <2>4, ThreadFacts DEF Exiting
      <3>2. pc'[u] = pc[u] /\ hand'[u] = hand[u] /\ on[u] \in Names /\ Handled(u)
        BY <2>4, <3>1, HandlerType
      <3>3. hand[u] \in Pids /\ hand[u] # p
        BY <2>2, <3>2 DEF Handled
      <3>4. u = Watchdog => pc'[on[u]] \notin Exiting \cup {"fork", "forked"}
        BY <1>1, <2>4, <3>2, ThreadFacts DEF Handled
      <3>5. u # Watchdog => u \in Names
        BY ThreadFacts
      <3> QED
        BY <1>3, <2>5, <2>11, <3>2, <3>3, <3>4, <3>5, HandledKept
    <2>15. Restarting'
      BY <1>0, <1>1, <1>2, <2>4, <2>6, <2>11, ThreadFacts DEF Restarting
    <2>16. RunningIsReal'
      BY <1>0, <1>1, <1>3, <2>4, <2>5, <2>6, <2>9, ThreadFacts DEF RunningIsReal, PidsOwned
    <2>17. RestartOnlyOnFailure'
      <3>1. \A m \in Names : SelfRestart(m)' => SelfRestart(m)
        BY <1>1, <2>4, ThreadFacts DEF SelfRestart
      <3>2. \A q \in Pids : child[q] = "reaped" =>
               /\ child'[q] = "reaped" /\ owner'[q] = owner[q]
               /\ WEXITSTATUS(ended[q])' = WEXITSTATUS(ended[q])
        BY <1>3, <2>2, <2>5 DEF WEXITSTATUS
      <3> QED
        BY <1>0, <1>3, <3>1, <3>2 DEF RestartOnlyOnFailure
    <2>18. ReportedIsReaped'
      BY <1>0, <1>3, <2>2, <2>5 DEF ReportedIsReaped
    <2>19. ExitReported'
      <3>1. reported[p].type = "none"
        BY <1>0, <2>2 DEF ReportedIsReaped
      <3> SUFFICES ASSUME NEW q \in Pids
                   PROVE  (/\ reported[q].type = "CRASHED" => WEXITSTATUS(ended[q]) # 0
                           /\ reported[q].type = "STOPPED" /\ WEXITSTATUS(ended[q]) # 0 =>
                                 reported[q].by = Watchdog
                           /\ reported[q].type = "misnamed" =>
                                 /\ reported[q].by # Watchdog
                                 /\ \E r \in Pids \ {q} : owner[r] = owner[q])'
        BY DEF ExitReported
      <3>2. reported'[q] = reported[q] /\ WEXITSTATUS(ended[q])' = WEXITSTATUS(ended[q])
        BY <1>3 DEF WEXITSTATUS
      <3>3. CASE reported[q].type = "misnamed"
        <4>1. PICK r \in Pids \ {q} : owner[r] = owner[q]
          BY <1>0, <3>3 DEF ExitReported
        <4>2. q # p /\ child[q] = "reaped"
          BY <1>0, <3>1, <3>3 DEF ReportedIsReaped
        <4>3. owner[q] \in Names
          BY <1>0, <4>2 DEF PidsOwned
        <4>4. r # p
          BY <1>0, <2>2, <4>1, <4>3, ThreadFacts DEF PidsOwned
        <4>5. owner'[r] = owner'[q]
          BY <2>5, <4>1, <4>2, <4>4
        <4> QED
          BY <1>0, <3>2, <3>3, <4>1, <4>5 DEF ExitReported
      <3>4. CASE reported[q].type # "misnamed"
        BY <1>0, <3>2, <3>4 DEF ExitReported
      <3> QED
        BY <3>3, <3>4
    <2> QED
      BY <2>3, <2>7, <2>8, <2>12, <2>13, <2>14, <2>15, <2>16, <2>17, <2>18, <2>19 DEF Base
  <1> QED
    BY <1>6, <1>7

LEMMA ForkedBase ==
    ASSUME Base, NEW t \in Spawners, Forked(t)
    PROVE  Base'
  <1> DEFINE n == on[t]
  <1>0. /\ TypeOK /\ Placed /\ MutexHeld /\ PidsOwned /\ EntryKept /\ Handling /\ Restarting
        /\ RunningIsReal /\ RestartOnlyOnFailure /\ ExitReported /\ ReportedIsReaped
    BY DEF Base
  <1>1. pc[t] = "forked" /\ pc[t] \in Spawning
    BY DEF Forked, At, Spawning
  <1>2. /\ t \in Threads /\ t # Watchdog /\ n \in Names
        /\ t \in Names => n = t
        /\ t \in Callers <=> t \notin Names
        /\ t \in Callers => mutex = t /\ n \in processes
        /\ pc[Watchdog] \in Exiting => t \notin Callers
    BY <1>1, SpawnerType
  <1>3. /\ hand[t] \in Pids /\ owner[hand[t]] = n /\ child[hand[t]] \in {"alive", "zombie"}
        /\ \A u \in Spawners : pc[u] = "forked" /\ hand[u] = hand[t] => u = t
    BY <1>0, <1>1 DEF PidsOwned
  <1>4. /\ pc' = [pc EXCEPT ![t] = "spawn_flag"]
        /\ pid' = [pid EXCEPT ![n] = hand[t]]
        /\ status' = [status EXCEPT ![n] = "RUNNING"]
        /\ UNCHANGED <<on, hand, op, calls, mutex, processes, config, exit_code, restart_count,
                       running, watchdog_running, todo, child, owner, ended, reported, raced,
                       aborted>>
    BY DEF Forked, Goto, callVars, dogVars, kidVars, past
  <1>5. TypeOK'
    BY <1>0, <1>2, <1>4 DEF TypeOK
  <1>6. \A u \in Threads : pc'[u] = IF u = t THEN "spawn_flag" ELSE pc[u]
    BY <1>0, <1>4 DEF TypeOK
  <1>7. \A m \in Names : /\ pid'[m] = IF m = n THEN hand[t] ELSE pid[m]
                         /\ status'[m] = IF m = n THEN "RUNNING" ELSE status[m]
    BY <1>0, <1>4 DEF TypeOK
  <1>8. Placed'
    BY <1>0, <1>1, <1>2, <1>4, <1>6, ThreadFacts DEF Placed, Spawning, Exiting
  <1>9. MutexHeld'
    BY <1>0, <1>1, <1>2, <1>4, <1>6, ThreadFacts DEF MutexHeld, Spawning, Exiting
  <1>10. /\ \A m \in Names : StartedBy(m, {"spawn_flag", "join"}) =>
                                StartedBy(m, {"spawn_flag", "join"})'
         /\ \A m \in Names : t \in Callers /\ m = n => StartedBy(m, {"spawn_flag", "join"})'
    BY <1>2, <1>4, <1>6, ThreadFacts DEF StartedBy
  <1>11. PidsOwned'
    BY <1>0, <1>2, <1>3, <1>4, <1>6, <1>7, PidFacts, ThreadFacts DEF PidsOwned
  <1>12. EntryKept'
    <2>1. \A m \in Names : StartedBy(m, {"forked", "spawn_flag", "join"}) =>
                              StartedBy(m, {"forked", "spawn_flag", "join"})'
      BY <1>4, <1>6, ThreadFacts DEF StartedBy
    <2> QED
      BY <1>0, <1>1, <1>4, <1>6, <2>1, ThreadFacts DEF EntryKept
  <1>13. Handling'
    <2> SUFFICES ASSUME NEW u \in Handlers, pc'[u] \in Exiting
                 PROVE  Handled(u)'
      BY DEF Handling
    <2>1. u # t /\ u \in Threads
      BY <1>2, <1>6, ThreadFacts DEF Exiting
    <2>2. pc'[u] = pc[u] /\ on[u] \in Names /\ Handled(u)
      BY <1>6, <2>1, HandlerType
    <2>3. u = Watchdog => pc'[on[u]] \notin Exiting \cup {"fork", "forked"} /\ on[u] # n
      BY <1>1, <1>2, <1>6, <2>2, ThreadFacts DEF Handled, Exiting
    <2>4. u # Watchdog => u \in Names /\ on[u] = u
      BY <1>0, ThreadFacts DEF Placed
    <2>5. \/ pid'[on[u]] = pid[on[u]]
          \/ u # Watchdog /\ pid'[u] # 0 /\ StartedBy(u, {"spawn_flag", "join"})'
      BY <1>2, <1>3, <1>7, <1>10, <2>1, <2>2, <2>3, <2>4, PidFacts
    <2> QED
      BY <1>4, <1>10, <2>2, <2>3, <2>4, <2>5, HandledKept
  <1>14. Restarting'
    <2> SUFFICES ASSUME NEW m \in Names, pc'[m] \in {"fork", "forked"}
                 PROVE  status'[m] # "RUNNING" \/ StartedBy(m, {"spawn_flag", "join"})'
      BY DEF Restarting
    <2>1. m # t /\ pc[m] \in {"fork", "forked"}
      BY <1>6, ThreadFacts
    <2> QED
      BY <1>0, <1>2, <1>7, <1>10, <2>1 DEF Restarting
  <1>15. RunningIsReal'
    BY <1>0, <1>1, <1>3, <1>4, <1>6, <1>7, ThreadFacts DEF RunningIsReal
  <1>16. RestartOnlyOnFailure'
    <2>1. \A m \in Names : SelfRestart(m)' => SelfRestart(m)
      BY <1>1, <1>6, ThreadFacts DEF SelfRestart
    <2> QED
      BY <1>0, <1>4, <2>1 DEF RestartOnlyOnFailure, WEXITSTATUS
  <1>17. ReportedIsReaped' /\ ExitReported'
    BY <1>0, <1>4 DEF ReportedIsReaped, ExitReported, WEXITSTATUS
  <1> QED
    BY <1>5, <1>8, <1>9, <1>11, <1>12, <1>13, <1>14, <1>15, <1>16, <1>17 DEF Base

LEMMA SpawnFlagBase ==
    ASSUME Base, NEW t \in Spawners, SpawnFlag(t)
    PROVE  Base'
  <1>0. /\ TypeOK /\ Placed /\ MutexHeld /\ PidsOwned /\ EntryKept /\ Handling /\ Restarting
        /\ RunningIsReal /\ RestartOnlyOnFailure /\ ExitReported /\ ReportedIsReaped
    BY DEF Base
  <1>1. pc[t] = "spawn_flag" /\ pc[t] \in Spawning
    BY DEF SpawnFlag, At, Spawning
  <1>2. /\ t \in Threads /\ t # Watchdog /\ on[t] \in Names
        /\ t \in Names => on[t] = t
        /\ t \in Callers <=> t \notin Names
        /\ t \in Callers => mutex = t /\ on[t] \in processes
    BY <1>1, SpawnerType
  <1>3. /\ pc' = [pc EXCEPT ![t] = "join"]
        /\ running' = [running EXCEPT ![on[t]] = TRUE]
        /\ UNCHANGED <<on, hand, op, calls, mutex, processes, config, status, pid, exit_code,
                       restart_count, watchdog_running, todo, child, owner, ended, reported,
                       raced, aborted>>
    BY DEF SpawnFlag, Goto, callVars, dogVars, kidVars, past
  <1>4. TypeOK'
    <2>1. running' \in [Names -> BOOLEAN]
      BY <1>0, <1>3 DEF TypeOK
    <2> QED
      BY <1>0, <1>3, <2>1 DEF TypeOK
  <1>5. \A u \in Threads : pc'[u] = IF u = t THEN "join" ELSE pc[u]
    BY <1>0, <1>3 DEF TypeOK
  <1>6. Placed'
    BY <1>0, <1>1, <1>2, <1>3, <1>5, ThreadFacts DEF Placed, Spawning, Exiting
  <1>7. MutexHeld'
    BY <1>0, <1>1, <1>2, <1>3, <1>5, ThreadFacts DEF MutexHeld, Spawning, Exiting
  <1>8. \A m \in Names :
           /\ StartedBy(m, {"spawn_flag", "join"})' <=> StartedBy(m, {"spawn_flag", "join"})
           /\ StartedBy(m, {"forked", "spawn_flag", "join"})'
                 <=> StartedBy(m, {"forked", "spawn_flag", "join"})
    BY <1>1, <1>3, <1>5, ThreadFacts DEF StartedBy
  <1>9. PidsOwned'
    BY <1>0, <1>3, <1>5, ThreadFacts DEF PidsOwned
  <1>10. EntryKept'
    BY <1>0, <1>1, <1>3, <1>5, <1>8, ThreadFacts DEF EntryKept
  <1>11. Handling'
    <2> SUFFICES ASSUME NEW u \in Handlers, pc'[u] \in Exiting
                 PROVE  Handled(u)'
      BY DEF Handling
    <2>1. u # t /\ u \in Threads
      BY <1>2, <1>5, ThreadFacts DEF Exiting
    <2>2. pc'[u] = pc[u] /\ on[u] \in Names /\ Handled(u)
      BY <1>5, <2>1, HandlerType
    <2>3. u = Watchdog => pc'[on[u]] \notin Exiting \cup {"fork", "forked"}
      BY <1>5, <2>2, ThreadFacts DEF Handled, Exiting
    <2>4. u # Watchdog => u \in Names
      BY ThreadFacts
    <2> QED
      BY <1>3, <1>8, <2>2, <2>3, <2>4, HandledKept
  <1>12. Restarting'
    BY <1>0, <1>3, <1>5, <1>8, ThreadFacts DEF Restarting
  <1>13. RunningIsReal'
    BY <1>0, <1>1, <1>3, <1>5, ThreadFacts DEF RunningIsReal
  <1>14. RestartOnlyOnFailure'
    <2>1. \A m \in Names : SelfRestart(m)' => SelfRestart(m)
      BY <1>1, <1>5, ThreadFacts DEF SelfRestart
    <2> QED
      BY <1>0, <1>3, <2>1 DEF RestartOnlyOnFailure, WEXITSTATUS
  <1>15. ReportedIsReaped' /\ ExitReported'
    BY <1>0, <1>3 DEF ReportedIsReaped, ExitReported, WEXITSTATUS
  <1> QED
    BY <1>4, <1>6, <1>7, <1>9, <1>10, <1>11, <1>12, <1>13, <1>14, <1>15 DEF Base

LEMMA JoinBase ==
    ASSUME Base, NEW t \in Spawners, Join(t)
    PROVE  Base'
  <1> DEFINE n == on[t]
  <1>0. /\ TypeOK /\ Placed /\ MutexHeld /\ PidsOwned /\ EntryKept /\ Handling /\ Restarting
        /\ RunningIsReal /\ RestartOnlyOnFailure /\ ExitReported /\ ReportedIsReaped
    BY DEF Base
  <1>1. pc[t] = "join" /\ pc[t] \in Spawning /\ ~aborted
    BY DEF Join, At, Spawning
  <1>2. /\ t \in Threads /\ t # Watchdog /\ n \in Names /\ n \in Threads
        /\ t \in Names => n = t
        /\ t \in Callers <=> t \notin Names
        /\ t \in Callers => mutex = t /\ n \in processes
        /\ pc[Watchdog] \in Exiting => t \notin Callers
    BY <1>1, SpawnerType, ThreadFacts
  <1>3. /\ hand' = [hand EXCEPT ![t] = 0]
        /\ UNCHANGED <<on, op, calls, processes, config, status, pid, exit_code, restart_count,
                       running, watchdog_running, todo, child, owner, ended, reported, raced>>
    BY DEF Join, callVars, entryVars, dogVars, kidVars
  <1>4. \/ t = n /\ aborted' = TRUE /\ UNCHANGED <<pc, mutex>>
        \/ /\ t # n /\ pc[n] \in {"none", "returned"} /\ aborted' = FALSE
           /\ pc' = [pc EXCEPT ![n] = "loop", ![t] = "idle"] /\ mutex' = None
    BY DEF Join, Joined
  <1>5. hand' \in [Threads -> 0..MaxPids]
    <2>1. 0 \in 0..MaxPids
      BY SupervisorAssumption
    <2> QED
      BY <1>0, <1>3, <2>1 DEF TypeOK
  <1>6. TypeOK'
    <2>1. aborted' \in BOOLEAN
      BY <1>4
    <2> QED
      BY <1>0, <1>2, <1>3, <1>4, <1>5, <2>1 DEF TypeOK
  <1>7. \A u \in Threads : u # t => hand'[u] = hand[u]
    BY <1>0, <1>3 DEF TypeOK
  <1>8. CASE t = n
    <2>1. aborted' = TRUE /\ UNCHANGED <<pc, mutex>>
      BY <1>4, <1>8
    <2>2. Placed' /\ MutexHeld'
      BY <1>0, <1>3, <2>1 DEF Placed, MutexHeld
    <2>3. PidsOwned'
      <3>1. \A u \in Spawners : pc[u] = "forked" => hand'[u] = hand[u]
        BY <1>1, <1>7, ThreadFacts
      <3> QED
        BY <1>0, <1>3, <2>1, <3>1 DEF PidsOwned
    <2>4. EntryKept'
      BY <1>0, <1>3, <2>1 DEF EntryKept, StartedBy
    <2>5. Handling'
      <3> SUFFICES ASSUME NEW u \in Handlers, pc'[u] \in Exiting
                   PROVE  Handled(u)'
        BY DEF Handling
      <3>1. u # t /\ u \in Threads /\ pc[u] \in Exiting
        BY <1>1, <2>1, ThreadFacts DEF Exiting
      <3>2. Handled(u)
        BY <1>0, <3>1 DEF Handling
      <3>3. StartedBy(u, {"spawn_flag", "join"}) => StartedBy(u, {"spawn_flag", "join"})'
        BY <1>3, <2>1 DEF StartedBy
      <3> QED
        BY <1>3, <1>7, <2>1, <3>1, <3>2, <3>3, HandledKept DEF Handled
    <2>6. Restarting' /\ RunningIsReal' /\ RestartOnlyOnFailure' /\ ReportedIsReaped'
          /\ ExitReported'
      BY <1>0, <1>3, <2>1 DEF Restarting, StartedBy, RunningIsReal, RestartOnlyOnFailure,
         SelfRestart, ReportedIsReaped, ExitReported, WEXITSTATUS
    <2> QED
      BY <1>6, <2>2, <2>3, <2>4, <2>5, <2>6 DEF Base
  <1>9. CASE t # n
    <2>1. /\ t \in Callers /\ pc[n] \in {"none", "returned"} /\ mutex' = None
          /\ n \in processes /\ pc[Watchdog] \notin Exiting
      BY <1>2, <1>4, <1>9
    <2>2. \A u \in Threads :
             pc'[u] = IF u = t THEN "idle" ELSE IF u = n THEN "loop" ELSE pc[u]
      BY <1>0, <1>2, <1>4, <1>9 DEF TypeOK
    <2>3. Placed'
      BY <1>0, <1>2, <1>3, <2>1, <2>2, ThreadFacts DEF Placed, Spawning, Exiting
    <2>4. MutexHeld'
      BY <1>0, <1>1, <1>2, <1>3, <2>1, <2>2, ThreadFacts DEF MutexHeld, Spawning, Exiting
    <2>5. \A m \in Names : m # n =>
             /\ StartedBy(m, {"spawn_flag", "join"})' <=> StartedBy(m, {"spawn_flag", "join"})
             /\ StartedBy(m, {"forked", "spawn_flag", "join"})'
                   <=> StartedBy(m, {"forked", "spawn_flag", "join"})
      <3>1. \A c \in Callers : c # t => pc'[c] = pc[c] /\ on'[c] = on[c]
        BY <1>2, <1>3, <2>2, ThreadFacts
      <3>2. on[t] = n /\ on'[t] = n
        BY <1>3
      <3>3. \A m \in Names, c \in Callers : m # n =>
               (on'[c] = m <=> on[c] = m) /\ (on[c] = m => pc'[c] = pc[c])
        BY <3>1, <3>2
      <3>4. ASSUME NEW m \in Names, m # n, NEW W
            PROVE  StartedBy(m, W)' <=> StartedBy(m, W)
        <4>1. \A c \in Callers : (on'[c] = m /\ pc'[c] \in W) <=> (on[c] = m /\ pc[c] \in W)
          BY <3>3, <3>4
        <4> QED
          BY <4>1 DEF StartedBy
      <3> QED
        BY <3>4
    <2>6. PidsOwned'
      <3>1. \A u \in Spawners : pc'[u] = "forked" => pc[u] = "forked" /\ hand'[u] = hand[u]
        BY <1>7, <2>2, ThreadFacts
      <3> QED
        BY <1>0, <1>3, <3>1 DEF PidsOwned
    <2>7. EntryKept'
      BY <1>0, <1>1, <1>2, <1>3, <2>1, <2>2, <2>5, ThreadFacts DEF EntryKept
    <2>8. Handling'
      <3> SUFFICES ASSUME NEW u \in Handlers, pc'[u] \in Exiting
                   PROVE  Handled(u)'
        BY DEF Handling
      <3>1. u # t /\ u # n /\ u \in Threads /\ u # Watchdog /\ u \in Names
        BY <1>2, <2>1, <2>2, ThreadFacts DEF Exiting
      <3>2. pc'[u] = pc[u] /\ hand'[u] = hand[u]
        BY <1>7, <2>2, <3>1
      <3> QED
        BY <1>3, <2>5, <3>1, <3>2, HandledKept
    <2>9. Restarting'
      BY <1>0, <1>3, <2>2, <2>5, ThreadFacts DEF Restarting
    <2>10. RunningIsReal'
      <3>1. \A u \in Handlers : pc[u] \in {"exit_flag", "exit_status"} => pc'[u] = pc[u]
        BY <1>2, <2>1, <2>2, ThreadFacts
      <3> QED
        BY <1>0, <1>3, <3>1 DEF RunningIsReal
    <2>11. RestartOnlyOnFailure'
      <3>1. \A m \in Names : SelfRestart(m)' => SelfRestart(m)
        BY <2>2, ThreadFacts DEF SelfRestart
      <3> QED
        BY <1>0, <1>3, <3>1 DEF RestartOnlyOnFailure, WEXITSTATUS
    <2>12. ReportedIsReaped' /\ ExitReported'
      BY <1>0, <1>3 DEF ReportedIsReaped, ExitReported, WEXITSTATUS
    <2> QED
      BY <1>6, <2>3, <2>4, <2>6, <2>7, <2>8, <2>9, <2>10, <2>11, <2>12 DEF Base
  <1> QED
    BY <1>8, <1>9

-----------------------------------------------------------------------------
LEMMA BaseInit == Init => Base
  <1> SUFFICES ASSUME Init
               PROVE  Base
    OBVIOUS
  <1>1. TypeOK
    <2>1. (CHOOSE f \in Configs : TRUE) \in Configs
      BY SupervisorAssumption
    <2>2. 0 \in 0..MaxPids /\ 0 \in 0..MaxCalls
      BY SupervisorAssumption
    <2>4. ended \in [Pids -> EndStatuses]
      BY EndFacts DEF Init
    <2>5. config \in [Names -> Configs]
      BY <2>1 DEF Init
    <2>6. running \in [Names -> BOOLEAN] /\ watchdog_running \in BOOLEAN /\ aborted \in BOOLEAN
      BY DEF Init
    <2> QED
      BY <2>2, <2>4, <2>5, <2>6 DEF Init, TypeOK
  <1>2. /\ \A c \in Callers : pc[c] = "idle"
        /\ \A n \in Names : pc[n] = "none" /\ on[n] = n
        /\ pc[Watchdog] = "none"
    BY ThreadFacts DEF Init
  <1>3. Placed
    BY <1>2 DEF Placed, Exiting
  <1>4. MutexHeld
    <2>1. mutex = None
      BY DEF Init
    <2>2. mutex # Watchdog /\ \A c \in Callers : mutex # c
      BY <2>1, ThreadFacts
    <2> QED
      BY <1>2, <2>2 DEF MutexHeld, Spawning, Exiting
  <1>5. \A t \in Spawners : pc[t] # "forked"
    BY <1>2, ThreadFacts
  <1>6. PidsOwned
    BY <1>5 DEF Init, PidsOwned
  <1>7. EntryKept
    <2>1. \A p \in Pids, n \in Names : owner[p] # n
      BY ThreadFacts DEF Init
    <2> QED
      BY <1>2, <2>1 DEF EntryKept
  <1>8. Handling
    BY <1>2, ThreadFacts DEF Handling, Exiting
  <1>9. Restarting /\ RunningIsReal
    BY DEF Init, Restarting, RunningIsReal
  <1>10. RestartOnlyOnFailure
    BY <1>2 DEF RestartOnlyOnFailure, SelfRestart
  <1>11. ReportedIsReaped /\ ExitReported
    BY DEF Init, ReportedIsReaped, ExitReported
  <1> QED
    BY <1>1, <1>3, <1>4, <1>6, <1>7, <1>8, <1>9, <1>10, <1>11 DEF Base

LEMMA BaseStutters == Base /\ UNCHANGED vars => Base'
  <1> SUFFICES ASSUME Base, UNCHANGED vars
               PROVE  Base'
    OBVIOUS
  <1>1. UNCHANGED <<pc, on, hand, op, calls, mutex, processes, config, status, pid, exit_code,
                    restart_count, running, watchdog_running, todo, child, owner, ended,
                    reported, raced, aborted>>
    BY DEF vars, callVars, entryVars, dogVars, kidVars, past
  <1>2. TypeOK' /\ Placed' /\ MutexHeld'
    BY <1>1 DEF Base, TypeOK, Placed, MutexHeld
  <1>3. QuietStep
    BY <1>1 DEF QuietStep, Quiet, Ages
  <1> QED
    BY <1>2, <1>3, QuietBase DEF Base

LEMMA BaseNext == Base /\ [Next]_vars => Base'
  <1> SUFFICES ASSUME Base, Next
               PROVE  Base'
    BY BaseStutters
  <1>1. ASSUME NEW t \in Spawners, SpawnStep(t)
        PROVE  Base'
    BY <1>1, ForkBase, ForkedBase, SpawnFlagBase, JoinBase DEF SpawnStep
  <1>2. ASSUME NEW t \in Handlers, ExitStep(t)
        PROVE  Base'
    BY <1>2, ExitFlagBase, ExitStatusBase, ExitEventBase DEF ExitStep
  <1>3. ASSUME NEW c \in Callers, Enter(c) \/ CallStep(c)
        PROVE  Base'
    <2>1. c \in Spawners
      BY ThreadFacts
    <2> QED
      BY <1>1, <1>3, <2>1, EnterBase, AddProcessBase, RemoveProcessBase, StartBase, StopBase,
         StopWaitedBase, StopReturnsBase, StopAllBase, StartWatchdogCheckBase,
         StartWatchdogBase, StopWatchdogBase, JoinWatchdogBase
         DEF CallStep
  <1>4. ASSUME NEW n \in Names, MonitorStep(n)
        PROVE  Base'
    <2>1. n \in Spawners /\ n \in Handlers
      BY ThreadFacts
    <2> QED
      BY <1>1, <1>2, <1>4, <2>1, MonitorLoopBase, MonitorWaitBase DEF MonitorStep
  <1>5. ASSUME WatchdogStep
        PROVE  Base'
    <2>1. Watchdog \in Handlers
      BY ThreadFacts
    <2> QED
      BY <1>2, <1>5, <2>1, WatchdogWakesBase, WatchdogLooksBase, WatchdogSleepsBase
         DEF WatchdogStep
  <1> QED
    BY <1>3, <1>4, <1>5, ChildEndsBase DEF Next

\* The entries, the children and the threads stay in step, with no assumption
\* about timing (process_supervisor.cpp:50-250).
THEOREM BaseInvariant == Spec => []Base
  BY BaseInit, BaseNext, PTL DEF Spec

\* What handle_exit reports and does about an exit follows from that exit, for
\* every interleaving of start, stop, monitors and watchdog and whatever the
\* timing (process_supervisor.cpp:176-217).
THEOREM ExitHandledAlways == Spec => []ExitHandled
  <1>1. Base => ExitHandled
    BY DEF Base, ExitHandled
  <1> QED
    BY <1>1, BaseInvariant, PTL

-----------------------------------------------------------------------------
(* The part that speaks of the races: what the threads rely on holds until *)
(* handle_exit writes over a start().                                      *)

\* Monitor n stays where it is or moves outside handle_exit and spawn_process.
CalmMonitor(n) ==
    \/ pc'[n] = pc[n]
    \/ pc'[n] \in {"loop", "returned"} /\ pc[n] \notin {"forked", "spawn_flag", "join"}
    \/ pc[n] = "loop" /\ pc'[n] = "waitpid" /\ running[n]
    \/ pc[n] = "exit_flag" /\ pc'[n] = "exit_status"

\* Caller c neither enters nor leaves the middle of spawn_process.
CalmCaller(c) ==
    \/ pc'[c] = pc[c] /\ on'[c] = on[c]
    \/ pc[c] # "forked" /\ pc'[c] \notin {"forked", "spawn_flag"}

\* A step that leaves status and pid of n alone.
Calm(n) ==
    /\ CalmMonitor(n)
    /\ \A c \in Callers : on[c] = n \/ on'[c] = n => CalmCaller(c)
    /\ \A t \in Spawners : on[t] = n /\ pc[t] = "forked" => hand'[t] = hand[t]
    /\ pid'[n] = pid[n] /\ config'[n] = config[n] /\ status'[n] = status[n]
    /\ n \in raced => n \in raced'
    /\ running'[n] => running[n]
    /\ \A p \in Pids :
          child'[p] = "alive" /\ owner'[p] = n => child[p] = "alive" /\ owner[p] = n

LEMMA CalmKept ==
    ASSUME Base, Base', NEW n \in Names, Agreed(n), Calm(n)
    PROVE  /\ \A c \in Callers : on[c] = n /\ on'[c] = n /\ pc'[c] = pc[c] =>
                 CallerRelies(c, n)'
           /\ TrackedYet(n)'
  <1>1. /\ pid'[n] = pid[n] /\ config'[n] = config[n] /\ status'[n] = status[n]
        /\ running'[n] => running[n]
        /\ CalmMonitor(n)
    BY DEF Calm
  <1>2. Hidden(n) => Hidden(n)'
    BY DEF Hidden, Calm, CalmMonitor
  <1>3. pid[n] = 0 \/ pid[n] \in Pids
    <2>1. pid \in [Names -> 0..MaxPids]
      BY DEF Base, TypeOK
    <2> QED
      BY <2>1, PidFacts
  <1>6. ASSUME NEW c \in Callers, on[c] = n, on'[c] = n, pc'[c] = pc[c]
        PROVE  CallerRelies(c, n)'
    <2>1. CallerRelies(c, n)
      BY <1>6 DEF Agreed
    <2>2. status[n] = "RUNNING" => (child'[pid[n]] = "alive" => child[pid[n]] = "alive")
      <3>1. status[n] = "RUNNING" => pid[n] \in Pids /\ owner'[pid[n]] = n
        BY <1>1, <1>3 DEF Base, PidsOwned
      <3> QED
        BY <3>1 DEF Calm
    <2> QED
      BY <1>1, <1>2, <1>6, <2>1, <2>2 DEF CallerRelies
  <1>8. TrackedYet(n)'
    <2> SUFFICES ASSUME NEW p \in Pids, child'[p] = "alive", owner'[p] = n
                 PROVE  \/ pid'[n] = p /\ status'[n] = "RUNNING"
                        \/ \E t \in Spawners : pc'[t] = "forked" /\ hand'[t] = p
                        \/ Hidden(n)'
      BY DEF TrackedYet
    <2>1. child[p] = "alive" /\ owner[p] = n
      BY DEF Calm
    <2>2. \/ pid[n] = p /\ status[n] = "RUNNING"
          \/ \E t \in Spawners : pc[t] = "forked" /\ hand[t] = p
          \/ Hidden(n)
      BY <2>1 DEF Agreed, TrackedYet
    <2>3. ASSUME NEW t \in Spawners, pc[t] = "forked", hand[t] = p
          PROVE  pc'[t] = "forked" /\ hand'[t] = p
      <3>1. on[t] = n /\ (t \in Names => t = n)
        BY <2>1, <2>3 DEF Base, PidsOwned, Placed
      <3> QED
        BY <2>3, <3>1, ThreadFacts DEF Calm, CalmCaller, CalmMonitor
    <2> QED
      BY <1>1, <1>2, <2>2, <2>3
  <1> QED
    BY <1>6, <1>8

\* Caller c keeps its place, or takes one that relies on nothing.
Settled(c) ==
    \/ pc'[c] = pc[c] /\ on'[c] = on[c]
    \/ pc'[c] \notin {"fork", "forked", "stopping", "stopped"}

LEMMA CalmAgreed ==
    ASSUME Base, Base', NEW n \in Names, Agreed(n), Calm(n),
           \A c \in Callers : on'[c] = n => Settled(c) \/ CallerRelies(c, n)'
    PROVE  Agreed(n)'
  <1>1. \A c \in Callers : pc'[c] \notin {"fork", "forked", "stopping", "stopped"} =>
           CallerRelies(c, n)'
    BY DEF CallerRelies
  <1>2. \A c \in Callers : on'[c] = n => CallerRelies(c, n)'
    BY <1>1, CalmKept DEF Settled
  <1> QED
    BY <1>2, CalmKept DEF Agreed

AllAgreed == \A n \in Names : Agreed(n)

LEMMA EnterAgreed ==
    ASSUME Base, Base', AllAgreed, NEW c \in Callers, Enter(c)
    PROVE  AllAgreed'
  <1>0. TypeOK /\ Placed
    BY DEF Base
  <1>1. \A n \in Names : Calm(n)
    BY <1>0, ThreadFacts
       DEF TypeOK, Placed, Enter, At, Goto, Calm, CalmMonitor, CalmCaller, Spawning,
           Exiting, entryVars, kidVars, past
  <1>2. \A d \in Callers : Settled(d)
    BY <1>0, ThreadFacts DEF TypeOK, Enter, At, Goto, Settled
  <1> QED
    BY <1>1, <1>2, CalmAgreed DEF AllAgreed

LEMMA RemoveProcessAgreed ==
    ASSUME Base, Base', AllAgreed, NEW c \in Callers, remove_process(c)
    PROVE  AllAgreed'
  <1>0. TypeOK /\ Placed
    BY DEF Base
  <1>1. \A n \in Names : Calm(n)
    BY <1>0, ThreadFacts
       DEF TypeOK, Placed, remove_process, At, Goto, Locking, Calm, CalmMonitor, CalmCaller, Spawning,
           Exiting, entryVars, kidVars, past
  <1>2. \A d \in Callers : Settled(d)
    BY <1>0, ThreadFacts DEF TypeOK, remove_process, At, Goto, Locking, Settled
  <1> QED
    BY <1>1, <1>2, CalmAgreed DEF AllAgreed

LEMMA StopAllAgreed ==
    ASSUME Base, Base', AllAgreed, NEW c \in Callers, stop_all(c)
    PROVE  AllAgreed'
  <1>0. TypeOK /\ Placed
    BY DEF Base
  <1>1. \A n \in Names : Calm(n)
    BY <1>0, ThreadFacts
       DEF TypeOK, Placed, stop_all, At, Goto, Locking, Calm, CalmMonitor, CalmCaller, Spawning,
           Exiting, entryVars, kidVars, past
  <1>2. \A d \in Callers : Settled(d)
    BY <1>0, ThreadFacts DEF TypeOK, stop_all, At, Goto, Locking, Settled
  <1> QED
    BY <1>1, <1>2, CalmAgreed DEF AllAgreed

LEMMA StartWatchdogCheckAgreed ==
    ASSUME Base, Base', AllAgreed, NEW c \in Callers, start_watchdog_check(c)
    PROVE  AllAgreed'
  <1>0. TypeOK /\ Placed
    BY DEF Base
  <1>1. \A n \in Names : Calm(n)
    BY <1>0, ThreadFacts
       DEF TypeOK, Placed, start_watchdog_check, At, Goto, Calm, CalmMonitor, CalmCaller, Spawning,
           Exiting, entryVars, kidVars, past
  <1>2. \A d \in Callers : Settled(d)
    BY <1>0, ThreadFacts DEF TypeOK, start_watchdog_check, At, Goto, Settled
  <1> QED
    BY <1>1, <1>2, CalmAgreed DEF AllAgreed

LEMMA StartWatchdogAgreed ==
    ASSUME Base, Base', AllAgreed, NEW c \in Callers, start_watchdog(c)
    PROVE  AllAgreed'
  <1>0. TypeOK /\ Placed
    BY DEF Base
  <1>1. \A n \in Names : Calm(n)
    BY <1>0, ThreadFacts
       DEF TypeOK, Placed, start_watchdog, At, Calm, CalmMonitor, CalmCaller, Spawning,
           Exiting, entryVars, kidVars, past
  <1>2. \A d \in Callers : Settled(d)
    BY <1>0, ThreadFacts DEF TypeOK, start_watchdog, At, Settled
  <1> QED
    BY <1>1, <1>2, CalmAgreed DEF AllAgreed

LEMMA StopWatchdogAgreed ==
    ASSUME Base, Base', AllAgreed, NEW c \in Callers, stop_watchdog(c)
    PROVE  AllAgreed'
  <1>0. TypeOK /\ Placed
    BY DEF Base
  <1>1. \A n \in Names : Calm(n)
    BY <1>0, ThreadFacts
       DEF TypeOK, Placed, stop_watchdog, At, Goto, Calm, CalmMonitor, CalmCaller, Spawning,
           Exiting, entryVars, kidVars, past
  <1>2. \A d \in Callers : Settled(d)
    BY <1>0, ThreadFacts DEF TypeOK, stop_watchdog, At, Goto, Settled
  <1> QED
    BY <1>1, <1>2, CalmAgreed DEF AllAgreed

LEMMA JoinWatchdogAgreed ==
    ASSUME Base, Base', AllAgreed, NEW c \in Callers, JoinWatchdog(c)
    PROVE  AllAgreed'
  <1>0. TypeOK /\ Placed
    BY DEF Base
  <1>1. \A n \in Names : Calm(n)
    BY <1>0, ThreadFacts
       DEF TypeOK, Placed, JoinWatchdog, At, Calm, CalmMonitor, CalmCaller, Spawning,
           Exiting, entryVars, kidVars, past
  <1>2. \A d \in Callers : Settled(d)
    BY <1>0, ThreadFacts DEF TypeOK, JoinWatchdog, At, Settled
  <1> QED
    BY <1>1, <1>2, CalmAgreed DEF AllAgreed

LEMMA MonitorLoopAgreed ==
    ASSUME Base, Base', AllAgreed, NEW m \in Names, MonitorLoop(m)
    PROVE  AllAgreed'
  <1>0. TypeOK /\ Placed
    BY DEF Base
  <1>1. \A n \in Names : Calm(n)
    BY <1>0, ThreadFacts
       DEF TypeOK, Placed, MonitorLoop, At, Goto, Calm, CalmMonitor, CalmCaller, Spawning,
           Exiting, entryVars, kidVars, past
  <1>2. \A d \in Callers : Settled(d)
    BY <1>0, ThreadFacts DEF TypeOK, MonitorLoop, At, Goto, Settled
  <1> QED
    BY <1>1, <1>2, CalmAgreed DEF AllAgreed

LEMMA WatchdogWakesAgreed ==
    ASSUME Base, Base', AllAgreed, WatchdogWakes
    PROVE  AllAgreed'
  <1>0. TypeOK /\ Placed
    BY DEF Base
  <1>1. \A n \in Names : Calm(n)
    BY <1>0, ThreadFacts
       DEF TypeOK, Placed, WatchdogWakes, At, Goto, Calm, CalmMonitor, CalmCaller, Spawning,
           Exiting, entryVars, kidVars, past
  <1>2. \A d \in Callers : Settled(d)
    BY <1>0, ThreadFacts DEF TypeOK, WatchdogWakes, At, Goto, Settled
  <1> QED
    BY <1>1, <1>2, CalmAgreed DEF AllAgreed

LEMMA WatchdogLooksAgreed ==
    ASSUME Base, Base', AllAgreed, WatchdogLooks
    PROVE  AllAgreed'
  <1>0. TypeOK /\ Placed
    BY DEF Base
  <1>1. \A n \in Names : Calm(n)
    BY <1>0, ThreadFacts
       DEF TypeOK, Placed, WatchdogLooks, At, Goto, Reapable, Calm, CalmMonitor, CalmCaller, Spawning,
           Exiting, entryVars, kidVars, past
  <1>2. \A d \in Callers : Settled(d)
    BY <1>0, ThreadFacts DEF TypeOK, WatchdogLooks, At, Goto, Reapable, Settled
  <1> QED
    BY <1>1, <1>2, CalmAgreed DEF AllAgreed

LEMMA WatchdogSleepsAgreed ==
    ASSUME Base, Base', AllAgreed, WatchdogSleeps
    PROVE  AllAgreed'
  <1>0. TypeOK /\ Placed
    BY DEF Base
  <1>1. \A n \in Names : Calm(n)
    BY <1>0, ThreadFacts
       DEF TypeOK, Placed, WatchdogSleeps, At, Goto, Calm, CalmMonitor, CalmCaller, Spawning,
           Exiting, entryVars, kidVars, past
  <1>2. \A d \in Callers : Settled(d)
    BY <1>0, ThreadFacts DEF TypeOK, WatchdogSleeps, At, Goto, Settled
  <1> QED
    BY <1>1, <1>2, CalmAgreed DEF AllAgreed

LEMMA ChildEndsAgreed ==
    ASSUME Base, Base', AllAgreed, NEW p \in Pids, ChildEnds(p)
    PROVE  AllAgreed'
  <1>0. TypeOK /\ Placed
    BY DEF Base
  <1>1. \A n \in Names : Calm(n)
    BY <1>0, ThreadFacts
       DEF TypeOK, Placed, ChildEnds, Calm, CalmMonitor, CalmCaller, Spawning,
           Exiting, entryVars, kidVars, past
  <1>2. \A d \in Callers : Settled(d)
    BY <1>0, ThreadFacts DEF TypeOK, ChildEnds, Settled
  <1> QED
    BY <1>1, <1>2, CalmAgreed DEF AllAgreed

LEMMA StartAgreed ==
    ASSUME Base, Base', AllAgreed, NEW c \in Callers, start(c)
    PROVE  AllAgreed'
  <1>0. TypeOK /\ Placed
    BY DEF Base
  <1>1. \A n \in Names : Calm(n)
    BY <1>0, ThreadFacts
       DEF TypeOK, start, Locking, At, Goto, Calm, CalmMonitor, CalmCaller, entryVars,
           kidVars, past
  <1>2. \A d \in Callers : d # c => Settled(d)
    BY <1>0, ThreadFacts DEF TypeOK, start, Goto, Settled
  <1>3. ASSUME NEW n \in Names, on'[c] = n
        PROVE  CallerRelies(c, n)'
    <2>1. /\ pc'[c] \in {"fork", "idle"}
          /\ pc'[c] = "fork" => status'[n] # "RUNNING"
      BY <1>0, <1>3, ThreadFacts DEF TypeOK, start, Goto, MayStart, entryVars
    <2> QED
      BY <2>1 DEF CallerRelies
  <1> QED
    BY <1>1, <1>2, <1>3, CalmAgreed DEF AllAgreed

LEMMA StopAgreed ==
    ASSUME Base, Base', AllAgreed, NEW c \in Callers, stop(c)
    PROVE  AllAgreed'
  <1>0. TypeOK /\ Placed
    BY DEF Base
  <1>1. /\ pc[c] = "lock" /\ on[c] \in Names
        /\ UNCHANGED <<on, hand, config, status, pid, child, owner, raced>>
    BY <1>0 DEF stop, Locking, At, Placed, Term, kidVars, past
  <1>2. \/ Goto(c, "stopping") /\ running' = [running EXCEPT ![on[c]] = FALSE]
        \/ (Goto(c, "lock") \/ Goto(c, "idle")) /\ running' = running
    BY DEF stop
  <1>3. \A d \in Threads : d # c => pc'[d] = pc[d]
    BY <1>0, <1>2 DEF TypeOK, Goto
  <1>4. \A n \in Names : running'[n] => running[n]
    BY <1>0, <1>2 DEF TypeOK
  <1>5. /\ pc'[c] \in {"stopping", "lock", "idle"}
        /\ pc'[c] = "stopping" => ~running'[on[c]]
    BY <1>0, <1>1, <1>2, ThreadFacts DEF TypeOK, Goto
  <1>6. \A n \in Names : Calm(n)
    BY <1>1, <1>3, <1>4, <1>5, ThreadFacts DEF Calm, CalmMonitor, CalmCaller
  <1>7. \A n \in Names : on'[c] = n => CallerRelies(c, n)'
    BY <1>1, <1>5 DEF CallerRelies
  <1>8. \A d \in Callers : d # c => Settled(d)
    BY <1>1, <1>3, ThreadFacts DEF Settled
  <1> QED
    BY <1>6, <1>7, <1>8, CalmAgreed DEF AllAgreed

\* The wait of stop() ends with a status that is not RUNNING or, wherever the
\* monitor is, with a child that is killed.
LEMMA StopWaitedAgreed ==
    ASSUME Base, Base', AllAgreed, NEW c \in Callers, StopWaited(c)
    PROVE  AllAgreed'
  <1>0. TypeOK /\ Placed
    BY DEF Base
  <1>1. PICK n \in Names : n = on[c]
    BY <1>0 DEF StopWaited, At, Placed
  <1>2. /\ pc[c] = "stopping" /\ Goto(c, "stopped")
        /\ UNCHANGED <<on, hand, config, status, pid, running, owner, raced>>
    BY DEF StopWaited, At, GiveUp, Kill, entryVars, kidVars, past
  <1>3. \A d \in Threads : pc'[d] = IF d = c THEN "stopped" ELSE pc[d]
    BY <1>0, <1>2 DEF TypeOK, Goto
  <1>4. \A p \in Pids : child'[p] = "alive" => child[p] = "alive"
    BY <1>0 DEF TypeOK, StopWaited, GiveUp, Kill, kidVars
  <1>5. \A m \in Names : Calm(m)
    BY <1>2, <1>3, <1>4, ThreadFacts DEF Calm, CalmMonitor, CalmCaller
  <1>6. \A d \in Callers : d # c => Settled(d)
    BY <1>2, <1>3, ThreadFacts DEF Settled
  <1>7. status[n] = "RUNNING" => child'[pid[n]] # "alive"
    <2> SUFFICES ASSUME status[n] = "RUNNING"
                 PROVE  child'[pid[n]] # "alive"
      OBVIOUS
    <2>1. Kill(pid[n])
      BY <1>1 DEF StopWaited, GiveUp
    <2>2. pid[n] \in Pids
      <3>1. pid[n] # 0 /\ pid[n] \in 0..MaxPids
        BY <1>0 DEF Base, PidsOwned, TypeOK
      <3> QED
        BY <3>1, PidFacts
    <2> QED
      BY <1>0, <2>1, <2>2 DEF Kill, TypeOK
  <1>8. CallerRelies(c, n)'
    <2>1. ~running[n] \/ Hidden(n)
      BY <1>1, <1>2 DEF AllAgreed, Agreed, CallerRelies
    <2>2. Hidden(n) => Hidden(n)'
      BY <1>2, <1>3, ThreadFacts DEF Hidden
    <2>3. pc'[c] = "stopped"
      BY <1>3, ThreadFacts
    <2> QED
      BY <1>2, <1>7, <2>1, <2>2, <2>3 DEF CallerRelies
  <1>9. \A m \in Names : on'[c] = m => CallerRelies(c, m)'
    BY <1>1, <1>2, <1>8
  <1> QED
    BY <1>5, <1>6, <1>9, CalmAgreed DEF AllAgreed

\* What remains to be shown of a step that writes the entry of n.
LEMMA OthersAgreed ==
    ASSUME Base, Base', AllAgreed, NEW n \in Names,
           \A m \in Names : m # n => Calm(m),
           \A c \in Callers : on'[c] # n => Settled(c),
           Agreed(n)'
    PROVE  AllAgreed'
  <1>1. ASSUME NEW m \in Names, m # n
        PROVE  Agreed(m)'
    <2>1. \A c \in Callers : on'[c] = m => Settled(c)
      BY <1>1
    <2> QED
      BY <1>1, <2>1, CalmAgreed DEF AllAgreed
  <1> QED
    BY <1>1 DEF AllAgreed

LEMMA StopReturnsAgreed ==
    ASSUME Base, Base', AllAgreed, NEW c \in Callers, StopReturns(c)
    PROVE  AllAgreed'
  <1>0. TypeOK /\ Placed /\ MutexHeld
    BY DEF Base
  <1>1. PICK n \in Names : n = on[c]
    BY <1>0 DEF StopReturns, At, Placed
  <1>2. /\ pc[c] = "stopped" /\ mutex = c
        /\ status' = [status EXCEPT ![n] = "STOPPED"]
        /\ UNCHANGED <<on, hand, config, pid, running, child, owner, raced>>
    BY <1>0, <1>1 DEF StopReturns, At, MutexHeld, kidVars, past
  <1>3. \A d \in Threads : d # c => pc'[d] = pc[d]
    BY <1>0 DEF TypeOK, StopReturns, Goto
  <1>4. pc'[c] \in {"lock", "idle"}
    BY <1>0, ThreadFacts DEF TypeOK, StopReturns, Goto
  <1>5. \A m \in Names : status'[m] = IF m = n THEN "STOPPED" ELSE status[m]
    BY <1>0, <1>2 DEF TypeOK
  <1>6. \A m \in Names : m # n => Calm(m)
    BY <1>2, <1>3, <1>4, <1>5, ThreadFacts DEF Calm, CalmMonitor, CalmCaller
  <1>7. \A d \in Callers : Settled(d)
    BY <1>2, <1>3, <1>4, ThreadFacts DEF Settled
  <1>8. Hidden(n) => Hidden(n)'
    BY <1>2, <1>3, ThreadFacts DEF Hidden
  <1>9. Agreed(n) /\ CallerRelies(c, n)
    BY <1>1 DEF AllAgreed, Agreed
  <1>10. \A d \in Callers : pc'[d] \notin {"fork", "forked", "stopping", "stopped"}
    BY <1>0, <1>2, <1>3, <1>4, ThreadFacts DEF MutexHeld, Spawning
  <1>13. TrackedYet(n)'
    <2>1. \A t \in Spawners : pc[t] = "forked" => pc'[t] = "forked"
      BY <1>2, <1>3, ThreadFacts
    <2> QED
      BY <1>2, <1>5, <1>8, <1>9, <2>1 DEF TrackedYet, CallerRelies, Agreed
  <1>14. \A d \in Callers : CallerRelies(d, n)'
    BY <1>10 DEF CallerRelies
  <1>15. Agreed(n)'
    BY <1>13, <1>14 DEF Agreed
  <1> QED
    BY <1>6, <1>7, <1>15, OthersAgreed

LEMMA AddProcessAgreed ==
    ASSUME Base, Base', AllAgreed, NEW c \in Callers, add_process(c)
    PROVE  AllAgreed'
  <1>0. TypeOK /\ Placed /\ MutexHeld
    BY DEF Base
  <1>1. PICK n \in Names : n = on[c]
    BY <1>0 DEF add_process, Locking, At, Placed
  <1>2. /\ pc[c] = "lock" /\ mutex = None /\ ~aborted /\ Goto(c, "idle")
        /\ UNCHANGED <<on, hand, child, owner, raced>>
    BY DEF add_process, Locking, At, kidVars, past
  <1>3. \A d \in Threads : pc'[d] = IF d = c THEN "idle" ELSE pc[d]
    BY <1>0, <1>2 DEF TypeOK, Goto
  <1>4. \A d \in Callers : Settled(d)
    BY <1>2, <1>3, ThreadFacts DEF Settled
  <1>5. \A m \in Names : m # n \/ n \in processes =>
           /\ pid'[m] = pid[m] /\ config'[m] = config[m] /\ status'[m] = status[m]
           /\ running'[m] = running[m]
    BY <1>0, <1>1 DEF TypeOK, add_process, entryVars
  <1>6. \A m \in Names : m # n \/ n \in processes => Calm(m)
    BY <1>2, <1>3, <1>5, ThreadFacts DEF Calm, CalmMonitor, CalmCaller
  <1>7. CASE n \in processes
    BY <1>4, <1>6, <1>7, CalmAgreed DEF AllAgreed
  <1>8. CASE n \notin processes
    <2>1. \A d \in Callers :
             pc'[d] \notin {"fork", "forked", "spawn_flag", "join", "stopping", "stopped"}
      <3>1. \A d \in Callers : mutex # d
        BY <1>2, ThreadFacts
      <3> QED
        BY <1>0, <1>3, <3>1, ThreadFacts DEF MutexHeld, Spawning
    <2>2. ~StartedBy(n, {"forked", "spawn_flag", "join"})'
      BY <2>1 DEF StartedBy
    <2>3. pc[n] = "none"
      BY <1>2, <1>8 DEF Base, EntryKept
    <2>4. pc'[n] = "none"
      BY <1>3, <2>3, ThreadFacts
    <2>5. \A p \in Pids : owner'[p] # n
      BY <2>2, <2>4 DEF Base, EntryKept
    <2>7. TrackedYet(n)'
      BY <2>5 DEF TrackedYet
    <2>8. \A d \in Callers : CallerRelies(d, n)'
      BY <2>1 DEF CallerRelies
    <2>9. Agreed(n)'
      BY <2>7, <2>8 DEF Agreed
    <2> QED
      BY <1>4, <1>6, <2>9, OthersAgreed
  <1> QED
    BY <1>7, <1>8

LEMMA MonitorWaitAgreed ==
    ASSUME Base, Base', AllAgreed, NEW n \in Names, MonitorWait(n)
    PROVE  AllAgreed'
  <1>0. TypeOK /\ Placed
    BY DEF Base
  <1>1. /\ pc[n] = "waitpid" /\ n \in Threads /\ n \in Spawners
        /\ UNCHANGED <<on, config, status, pid, running, owner, raced>>
    BY ThreadFacts DEF MonitorWait, At, Kill, entryVars, kidVars, past
  <1>2. \A d \in Threads : d # n => pc'[d] = pc[d] /\ hand'[d] = hand[d]
    BY <1>0 DEF TypeOK, MonitorWait, Goto
  <1>3. \A d \in Callers : pc'[d] = pc[d] /\ on'[d] = on[d] /\ Settled(d)
    BY <1>1, <1>2, ThreadFacts DEF Settled
  <1>4. \A p \in Pids : child'[p] = "alive" => child[p] = "alive"
    BY <1>0 DEF TypeOK, MonitorWait, Kill, Reapable, kidVars
  <1>5. \A m \in Names : on[m] = m
    BY <1>0 DEF Placed
  <1>6. \A m \in Names : m # n => Calm(m)
    BY <1>1, <1>2, <1>3, <1>4, <1>5, ThreadFacts DEF Calm, CalmMonitor, CalmCaller
  <1>7. CASE ~Reapable(pid[n])
    <2>1. pc'[n] \in {"loop", "returned"}
      BY <1>0, <1>1, <1>7 DEF TypeOK, MonitorWait, Goto
    <2>2. Calm(n)
      BY <1>1, <1>2, <1>3, <1>4, <1>5, <2>1, ThreadFacts DEF Calm, CalmMonitor, CalmCaller
    <2> QED
      BY <1>3, <1>6, <2>2, CalmAgreed DEF AllAgreed
  <1>8. CASE Reapable(pid[n])
    <2>1. pc'[n] = "exit_flag" /\ hand'[n] = pid[n]
      BY <1>0, <1>1, <1>8 DEF TypeOK, MonitorWait, Goto
    <2>2. Agreed(n)
      BY DEF AllAgreed
    <2>3. Hidden(n) <=> Hidden(n)'
      BY <1>1, <2>1 DEF Hidden
    <2>6. TrackedYet(n)'
      <3>1. \A t \in Spawners : pc[t] = "forked" => pc'[t] = "forked" /\ hand'[t] = hand[t]
        BY <1>1, <1>2, ThreadFacts
      <3> QED
        BY <1>1, <1>4, <2>2, <2>3, <3>1 DEF Agreed, TrackedYet
    <2>7. ASSUME NEW d \in Callers, on'[d] = n
          PROVE  CallerRelies(d, n)'
      <3>1. CallerRelies(d, n) /\ pc'[d] = pc[d]
        BY <1>3, <2>2, <2>7 DEF Agreed
      <3>2. child'[pid[n]] = "alive" => child[pid[n]] = "alive"
        BY <1>4, <1>8 DEF Reapable
      <3> QED
        BY <1>1, <2>3, <3>1, <3>2 DEF CallerRelies
    <2>8. Agreed(n)'
      BY <2>6, <2>7 DEF Agreed
    <2> QED
      BY <1>3, <1>6, <2>8, OthersAgreed
  <1> QED
    BY <1>7, <1>8

LEMMA ExitFlagAgreed ==
    ASSUME Base, Base', AllAgreed, NEW t \in Handlers, ExitFlag(t)
    PROVE  AllAgreed'
  <1>0. TypeOK /\ Placed
    BY DEF Base
  <1>1. /\ pc[t] = "exit_flag" /\ Goto(t, "exit_status")
        /\ running' = [running EXCEPT ![on[t]] = FALSE]
        /\ UNCHANGED <<on, hand, config, status, pid, child, owner, raced>>
    BY DEF ExitFlag, At, kidVars, past
  <1>2. \A d \in Threads : d # t => pc'[d] = pc[d]
    BY <1>0, <1>1 DEF TypeOK, Goto
  <1>3. pc'[t] = "exit_status"
    BY <1>0, <1>1, ThreadFacts DEF TypeOK, Goto
  <1>4. \A d \in Callers : pc'[d] = pc[d] /\ on'[d] = on[d]
    BY <1>1, <1>2, ThreadFacts
  <1>5. \A n \in Names : CalmMonitor(n) /\ (running'[n] => running[n])
    BY <1>0, <1>1, <1>2, <1>3, ThreadFacts DEF TypeOK, CalmMonitor
  <1>6. \A n \in Names : Calm(n)
    BY <1>1, <1>4, <1>5 DEF Calm, CalmCaller
  <1> QED
    BY <1>4, <1>6, CalmAgreed DEF AllAgreed, Settled

LEMMA ExitStatusAgreed ==
    ASSUME Base, Base', AllAgreed, NEW t \in Handlers, ExitStatus(t)
    PROVE  AllAgreed'
  <1>0. TypeOK /\ Placed
    BY DEF Base
  <1>1. /\ pc[t] = "exit_status" /\ Goto(t, "exit_event") /\ pc[t] \in Exiting
        /\ status' = [status EXCEPT ![on[t]] = "STOPPED"]
        /\ raced' = IF pid[on[t]] # hand[t] THEN raced \cup {on[t]} ELSE raced
        /\ UNCHANGED <<on, hand, config, running, pid, child, owner>>
    BY DEF ExitStatus, StatusAfterExit, At, Exiting, kidVars, past
  <1>2. PICK n \in Names : n = on[t]
    BY <1>1, HandlerType
  <1>3. \A d \in Threads : pc'[d] = IF d = t THEN "exit_event" ELSE pc[d]
    BY <1>0, <1>1 DEF TypeOK, Goto
  <1>4. \A d \in Callers : pc'[d] = pc[d] /\ on'[d] = on[d] /\ Settled(d)
    BY <1>1, <1>3, ThreadFacts DEF Settled
  <1>5. \A m \in Names : status'[m] = IF m = n THEN "STOPPED" ELSE status[m]
    BY <1>0, <1>1, <1>2 DEF TypeOK
  <1>6. t \in Names => t = n
    BY <1>0, <1>2 DEF Placed
  <1>7. \A m \in Names : m # n => Calm(m)
    <2>1. \A m \in Names : m # n => pc'[m] = pc[m]
      BY <1>3, <1>6, ThreadFacts
    <2> QED
      BY <1>1, <1>4, <1>5, <2>1 DEF Calm, CalmMonitor, CalmCaller
  <1>8. Agreed(n) /\ Handled(t)
    BY <1>1, HandlerType DEF AllAgreed
  <1>9. pid[n] = hand[t] \/ Hidden(n)'
    BY <1>1, <1>2 DEF Hidden
  <1>13. TrackedYet(n)'
    <2>1. \A u \in Spawners : pc[u] = "forked" => pc'[u] = "forked" /\ hand'[u] = hand[u]
      BY <1>1, <1>3, ThreadFacts
    <2>2. \A p \in Pids : child'[p] = "alive" /\ owner'[p] = n =>
             child[p] = "alive" /\ owner[p] = n
      BY <1>1
    <2>3. Hidden(n) => Hidden(n)'
      BY <1>1, <1>3, ThreadFacts DEF Hidden
    <2>4. pid[n] \in Pids /\ child[pid[n]] = "alive" => Hidden(n)'
      BY <1>8, <1>9 DEF Handled
    <2> QED
      BY <1>8, <2>1, <2>2, <2>3, <2>4 DEF Agreed, TrackedYet
  <1>14. ASSUME NEW d \in Callers, on'[d] = n
         PROVE  CallerRelies(d, n)'
    <2>1. CallerRelies(d, n) /\ pc'[d] = pc[d]
      BY <1>4, <1>8, <1>14 DEF Agreed
    <2>2. status'[n] # "RUNNING" /\ running'[n] = running[n] /\ (Hidden(n) => Hidden(n)')
      BY <1>1, <1>3, <1>5, ThreadFacts DEF Hidden
    <2> QED
      BY <2>1, <2>2 DEF CallerRelies
  <1>15. Agreed(n)'
    BY <1>13, <1>14 DEF Agreed
  <1> QED
    BY <1>4, <1>7, <1>15, OthersAgreed

LEMMA ExitEventAgreed ==
    ASSUME Base, Base', AllAgreed, NEW t \in Handlers, ExitEvent(t)
    PROVE  AllAgreed'
  <1>0. TypeOK /\ Placed
    BY DEF Base
  <1>1. pc[t] = "exit_event" /\ pc[t] \in Exiting
    BY DEF ExitEvent, At, Exiting
  <1>2. PICK n \in Names : n = on[t]
    BY <1>1, HandlerType
  <1>3. /\ \E w \in {"fork", "sweep", "returned"} : pc' = [pc EXCEPT ![t] = w]
        /\ hand' = [hand EXCEPT ![t] = 0]
        /\ UNCHANGED <<on, config, running, pid, child, owner>>
    BY DEF ExitEvent, HandlerReturns, Goto, kidVars
  <1>4. raced \subseteq raced' /\ (Restarts(n) /\ pid[n] # hand[t] => n \in raced')
    BY <1>2 DEF ExitEvent
  <1>5. \/ status' = status
        \/ /\ Restarts(n)
           /\ \/ status' = [status EXCEPT ![n] = "RESTARTING"]
              \/ status' = [status EXCEPT ![n] = "FAILED"]
    <2>1. status' = [status EXCEPT ![n] =
                        IF Restarts(n) /\ restart_count[n] < config[n].max_restarts
                        THEN "RESTARTING" ELSE IF Restarts(n) THEN "FAILED" ELSE status[n]]
      BY <1>2 DEF ExitEvent
    <2>2. status = [status EXCEPT ![n] = status[n]]
      BY <1>0 DEF TypeOK
    <2> QED
      BY <2>1, <2>2, Zenon
  <1>6. \A d \in Threads : d # t => pc'[d] = pc[d] /\ hand'[d] = hand[d]
    BY <1>0, <1>3 DEF TypeOK
  <1>7. pc'[t] \in {"fork", "sweep", "returned"}
    BY <1>0, <1>3, ThreadFacts DEF TypeOK
  <1>8. \A d \in Callers : pc'[d] = pc[d] /\ on'[d] = on[d] /\ Settled(d)
    BY <1>3, <1>6, ThreadFacts DEF Settled
  <1>9. \A m \in Names : /\ m # n => status'[m] = status[m]
                         /\ status'[m] = "RUNNING" => status[m] = "RUNNING"
    BY <1>0, <1>5 DEF TypeOK
  <1>10. t \in Names => t = n
    BY <1>0, <1>2 DEF Placed
  <1>11. \A m \in Names : m # n => Calm(m)
    <2>1. \A m \in Names : m # n => pc'[m] = pc[m] /\ hand'[m] = hand[m]
      BY <1>6, <1>10, ThreadFacts
    <2>2. \A u \in Spawners : pc[u] \in {"forked", "exit_flag", "exit_status"} =>
             hand'[u] = hand[u]
      BY <1>1, <1>6, ThreadFacts
    <2> QED
      BY <1>3, <1>4, <1>8, <1>9, <2>1, <2>2 DEF Calm, CalmMonitor, CalmCaller
  <1>12. Agreed(n) /\ Handled(t)
    BY <1>1, HandlerType DEF AllAgreed
  <1>13. Hidden(n) => Hidden(n)'
    BY <1>1, <1>3, <1>4, <1>6, ThreadFacts DEF Hidden
  <1>14. status'[n] = status[n] \/ child[pid[n]] = "reaped" \/ Hidden(n)'
    <2> SUFFICES ASSUME Restarts(n)
                 PROVE  child[pid[n]] = "reaped" \/ Hidden(n)'
      BY <1>5
    <2>1. CASE pid[n] = hand[t]
      BY <1>12, <2>1 DEF Handled
    <2>2. CASE pid[n] # hand[t]
      BY <1>4, <2>2 DEF Hidden
    <2> QED
      BY <2>1, <2>2
  <1>18. TrackedYet(n)'
    <2>1. \A u \in Spawners : pc[u] = "forked" => pc'[u] = "forked" /\ hand'[u] = hand[u]
      BY <1>1, <1>6, ThreadFacts
    <2> QED
      BY <1>3, <1>12, <1>13, <1>14, <2>1 DEF Agreed, TrackedYet
  <1>19. ASSUME NEW d \in Callers, on'[d] = n
         PROVE  CallerRelies(d, n)'
    <2>1. CallerRelies(d, n) /\ pc'[d] = pc[d]
      BY <1>8, <1>12, <1>19 DEF Agreed
    <2> QED
      BY <1>3, <1>9, <1>13, <2>1 DEF CallerRelies
  <1>20. Agreed(n)'
    BY <1>18, <1>19 DEF Agreed
  <1> QED
    BY <1>8, <1>11, <1>20, OthersAgreed

LEMMA SpawnFlagAgreed ==
    ASSUME Base, Base', AllAgreed, NEW t \in Spawners, SpawnFlag(t)
    PROVE  AllAgreed'
  <1>0. TypeOK /\ Placed
    BY DEF Base
  <1>1. pc[t] = "spawn_flag" /\ pc[t] \in Spawning
    BY DEF SpawnFlag, At, Spawning
  <1>2. PICK n \in Names : n = on[t]
    BY <1>1, SpawnerType
  <1>3. /\ pc' = [pc EXCEPT ![t] = "join"]
        /\ running' = [running EXCEPT ![n] = TRUE]
        /\ UNCHANGED <<on, hand, config, status, pid, child, owner, raced>>
    BY <1>2 DEF SpawnFlag, Goto, kidVars, past
  <1>4. \A d \in Threads : pc'[d] = IF d = t THEN "join" ELSE pc[d]
    BY <1>0, <1>3 DEF TypeOK
  <1>5. \A d \in Callers : Settled(d)
    BY <1>3, <1>4, ThreadFacts DEF Settled
  <1>6. t \in Names => t = n
    BY <1>0, <1>2 DEF Placed
  <1>7. \A m \in Names : m # n => Calm(m)
    <2>1. \A m \in Names : m # n => pc'[m] = pc[m] /\ running'[m] = running[m]
      BY <1>0, <1>3, <1>4, <1>6, ThreadFacts DEF TypeOK
    <2>2. \A d \in Callers : CalmCaller(d)
      BY <1>1, <1>3, <1>4, ThreadFacts DEF CalmCaller
    <2> QED
      BY <1>3, <2>1, <2>2 DEF Calm, CalmMonitor
  <1>8. Agreed(n)
    BY DEF AllAgreed
  <1>9. Hidden(n) <=> Hidden(n)'
    BY <1>1, <1>3, <1>4, ThreadFacts DEF Hidden
  <1>13. TrackedYet(n)'
    <2>1. \A u \in Spawners : pc[u] = "forked" => pc'[u] = "forked"
      BY <1>1, <1>4, ThreadFacts
    <2> QED
      BY <1>3, <1>8, <1>9, <2>1 DEF Agreed, TrackedYet
  <1>14. ASSUME NEW d \in Callers, on'[d] = n
         PROVE  CallerRelies(d, n)'
    <2>1. CASE d = t
      BY <1>4, <2>1, ThreadFacts DEF CallerRelies
    <2>2. CASE d # t
      <3>1. CallerRelies(d, n) /\ pc'[d] = pc[d]
        BY <1>3, <1>4, <1>8, <1>14, <2>2, ThreadFacts DEF Agreed
      <3>2. pc[d] \in {"stopping", "stopped"} => Hidden(n)'
        <4> SUFFICES ASSUME pc[d] \in {"stopping", "stopped"}
                     PROVE  Hidden(n)'
          OBVIOUS
        <4>1. t \notin Callers
          BY <1>1, <2>2 DEF Base, MutexHeld
        <4>2. pc[n] = "spawn_flag"
          BY <1>1, <1>6, <4>1, ThreadFacts
        <4> QED
          BY <1>9, <4>2 DEF Hidden
      <3> QED
        BY <1>3, <1>9, <3>1, <3>2 DEF CallerRelies
    <2> QED
      BY <2>1, <2>2
  <1>15. Agreed(n)'
    BY <1>13, <1>14 DEF Agreed
  <1> QED
    BY <1>5, <1>7, <1>15, OthersAgreed

LEMMA JoinAgreed ==
    ASSUME Base, Base', AllAgreed, NEW t \in Spawners, Join(t)
    PROVE  AllAgreed'
  <1>0. TypeOK /\ Placed
    BY DEF Base
  <1>1. pc[t] = "join" /\ pc[t] \in Spawning
    BY DEF Join, At, Spawning
  <1>2. on[t] \in Names /\ (t \in Names => on[t] = t) /\ on[t] \in Threads /\ t \in Threads
    BY <1>1, SpawnerType, ThreadFacts
  <1>3. /\ hand' = [hand EXCEPT ![t] = 0]
        /\ UNCHANGED <<on, config, status, pid, running, child, owner, raced>>
    BY DEF Join, entryVars, kidVars
  <1>4. \/ UNCHANGED pc
        \/ /\ t # on[t] /\ pc[on[t]] \in {"none", "returned"}
           /\ pc' = [pc EXCEPT ![on[t]] = "loop", ![t] = "idle"]
    BY DEF Join, Joined
  <1>5. \A d \in Threads :
           \/ pc'[d] = pc[d]
           \/ d = t /\ pc'[d] = "idle" /\ t \in Callers
           \/ pc[d] \in {"none", "returned"} /\ pc'[d] = "loop" /\ d \in Names
    BY <1>0, <1>2, <1>4, ThreadFacts DEF TypeOK
  <1>6. \A n \in Names : CalmMonitor(n)
    BY <1>5, ThreadFacts DEF CalmMonitor
  <1>7. \A d \in Callers : CalmCaller(d) /\ Settled(d)
    BY <1>1, <1>3, <1>5, ThreadFacts DEF CalmCaller, Settled
  <1>8. \A u \in Spawners : pc[u] \in {"forked", "exit_flag", "exit_status"} =>
           hand'[u] = hand[u]
    BY <1>0, <1>1, <1>3, ThreadFacts DEF TypeOK
  <1>9. \A n \in Names : Calm(n)
    BY <1>3, <1>6, <1>7, <1>8 DEF Calm
  <1> QED
    BY <1>7, <1>9, CalmAgreed DEF AllAgreed

LEMMA ForkedAgreed ==
    ASSUME Base, Base', AllAgreed, NEW t \in Spawners, Forked(t)
    PROVE  AllAgreed'
  <1>0. TypeOK /\ Placed
    BY DEF Base
  <1>1. pc[t] = "forked" /\ pc[t] \in Spawning
    BY DEF Forked, At, Spawning
  <1>2. PICK n \in Names : n = on[t]
    BY <1>1, SpawnerType
  <1>3. /\ pc' = [pc EXCEPT ![t] = "spawn_flag"]
        /\ pid' = [pid EXCEPT ![n] = hand[t]]
        /\ status' = [status EXCEPT ![n] = "RUNNING"]
        /\ UNCHANGED <<on, hand, config, running, child, owner, raced>>
    BY <1>2 DEF Forked, Goto, kidVars, past
  <1>4. \A d \in Threads : pc'[d] = IF d = t THEN "spawn_flag" ELSE pc[d]
    BY <1>0, <1>3 DEF TypeOK
  <1>5. \A d \in Callers : Settled(d)
    BY <1>3, <1>4, ThreadFacts DEF Settled
  <1>6. t \in Names => t = n
    BY <1>0, <1>2 DEF Placed
  <1>7. \A m \in Names : /\ m # n => pid'[m] = pid[m] /\ status'[m] = status[m]
                         /\ m = n => pid'[m] = hand[t] /\ status'[m] = "RUNNING"
    BY <1>0, <1>3 DEF TypeOK
  <1>8. \A m \in Names : m # n => Calm(m)
    <2>1. \A m \in Names : m # n => pc'[m] = pc[m]
      BY <1>4, <1>6, ThreadFacts
    <2>2. \A d \in Callers : d # t => CalmCaller(d)
      BY <1>3, <1>4, ThreadFacts DEF CalmCaller
    <2>3. on[t] = n /\ on'[t] = n
      BY <1>2, <1>3
    <2> QED
      BY <1>3, <1>7, <2>1, <2>2, <2>3 DEF Calm, CalmMonitor
  <1>9. Agreed(n)
    BY DEF AllAgreed
  <1>10. Hidden(n) => Hidden(n)'
    BY <1>1, <1>3, <1>4, ThreadFacts DEF Hidden
  <1>11. status[n] # "RUNNING" \/ Hidden(n)
    <2>1. CASE t \in Callers
      BY <1>1, <1>2, <1>9, <2>1 DEF Agreed, CallerRelies
    <2>2. CASE t \in Names
      BY <1>1, <1>6, <2>2 DEF Hidden
    <2> QED
      BY <2>1, <2>2, ThreadFacts
  <1>14. TrackedYet(n)'
    <2> SUFFICES ASSUME NEW p \in Pids, child'[p] = "alive", owner'[p] = n
                 PROVE  \/ pid'[n] = p /\ status'[n] = "RUNNING"
                        \/ \E u \in Spawners : pc'[u] = "forked" /\ hand'[u] = p
                        \/ Hidden(n)'
      BY DEF TrackedYet
    <2>1. child[p] = "alive" /\ owner[p] = n
      BY <1>3
    <2>2. (\E u \in Spawners : pc[u] = "forked" /\ hand[u] = p) \/ Hidden(n)
      BY <1>9, <1>11, <2>1 DEF Agreed, TrackedYet
    <2>3. ASSUME NEW u \in Spawners, pc[u] = "forked", hand[u] = p
          PROVE  \/ pid'[n] = p /\ status'[n] = "RUNNING"
                 \/ pc'[u] = "forked" /\ hand'[u] = p
      BY <1>3, <1>4, <1>7, <2>3, ThreadFacts
    <2> QED
      BY <1>10, <2>2, <2>3
  <1>15. ASSUME NEW d \in Callers, on'[d] = n
         PROVE  CallerRelies(d, n)'
    <2>1. CASE d = t
      BY <1>4, <2>1, ThreadFacts DEF CallerRelies
    <2>2. CASE d # t
      <3>1. CallerRelies(d, n) /\ pc'[d] = pc[d]
        BY <1>3, <1>4, <1>9, <1>15, <2>2, ThreadFacts DEF Agreed
      <3>2. pc[d] \in {"fork", "forked", "stopping", "stopped"} => Hidden(n)'
        <4> SUFFICES ASSUME pc[d] \in {"fork", "forked", "stopping", "stopped"}
                     PROVE  Hidden(n)'
          OBVIOUS
        <4>1. t \notin Callers
          BY <1>1, <2>2 DEF Base, MutexHeld, Spawning
        <4>2. pc[n] = "forked"
          BY <1>1, <1>6, <4>1, ThreadFacts
        <4> QED
          BY <1>10, <4>2 DEF Hidden
      <3> QED
        BY <3>1, <3>2 DEF CallerRelies
    <2> QED
      BY <2>1, <2>2
  <1>16. Agreed(n)'
    BY <1>14, <1>15 DEF Agreed
  <1> QED
    BY <1>5, <1>8, <1>16, OthersAgreed

\* A monitor that finds its entry RUNNING again has met a start().
LEMMA ForkOverlaps ==
    ASSUME Base, NEW n \in Names, Fork(n), status[n] = "RUNNING"
    PROVE  n \in raced'
  <1>1. pc[n] = "fork" /\ on[n] = n
    BY DEF Fork, At, Base, Placed
  <1>2. StartedBy(n, {"spawn_flag", "join"})
    BY <1>1 DEF Base, Restarting
  <1>3. PICK c \in Callers : on[c] = n /\ pc[c] \in {"spawn_flag", "join"}
    BY <1>2 DEF StartedBy
  <1>4. Overlaps(n)
    BY <1>1, <1>3, ThreadFacts DEF Overlaps
  <1> QED
    BY <1>1, <1>4 DEF Fork

LEMMA ForkAgreed ==
    ASSUME Base, Base', AllAgreed, NEW t \in Spawners, Fork(t)
    PROVE  AllAgreed'
  <1>0. TypeOK /\ Placed /\ PidsOwned
    BY DEF Base
  <1>1. pc[t] = "fork" /\ pc[t] \in Spawning
    BY DEF Fork, At, Spawning
  <1>2. PICK n \in Names : n = on[t]
    BY <1>1, SpawnerType
  <1>3. raced \subseteq raced' /\ UNCHANGED <<on, config, running, pid>>
    BY DEF Fork
  <1>4. \A u \in Threads : u # t => pc'[u] = pc[u] /\ hand'[u] = hand[u]
    BY <1>0 DEF TypeOK, Fork, SpawnReturns, Goto
  <1>5. pc'[t] \in {"idle", "returned", "forked"}
    BY <1>0, ThreadFacts DEF TypeOK, Fork, SpawnReturns, Goto
  <1>6. \A m \in Names : /\ m # n => status'[m] = status[m]
                         /\ m = n => status'[m] \in {"STARTING", "FAILED"}
    BY <1>0, <1>2 DEF TypeOK, Fork
  <1>7. \A p \in Pids : child[p] # "free" => child'[p] = child[p] /\ owner'[p] = owner[p]
    BY <1>0 DEF TypeOK, Fork
  <1>8. \A p \in Pids : child[p] = "free" /\ child'[p] # "free" =>
           /\ owner'[p] = n
           /\ pc'[t] = "forked" /\ hand'[t] = p
    BY <1>0, <1>2, ThreadFacts DEF TypeOK, Fork, Goto
  <1>9. t \in Names => t = n
    BY <1>0, <1>2 DEF Placed
  <1>10. \A d \in Callers : on'[d] # n => Settled(d)
    BY <1>2, <1>3, <1>4, ThreadFacts DEF Settled
  <1>11. \A u \in Spawners : pc[u] \in {"forked", "exit_flag", "exit_status"} =>
            pc'[u] = pc[u] /\ hand'[u] = hand[u]
    BY <1>1, <1>4, ThreadFacts
  <1>12. \A m \in Names : m # n => Calm(m)
    <2>1. \A m \in Names : m # n => pc'[m] = pc[m]
      BY <1>4, <1>9, ThreadFacts
    <2>2. \A d \in Callers : d # t => CalmCaller(d)
      BY <1>3, <1>4, ThreadFacts DEF CalmCaller
    <2>3. on[t] = n /\ on'[t] = n
      BY <1>2, <1>3
    <2>4. \A m \in Names, p \in Pids : m # n /\ child'[p] = "alive" /\ owner'[p] = m =>
             child[p] = "alive" /\ owner[p] = m
      BY <1>7, <1>8
    <2> QED
      BY <1>3, <1>6, <1>11, <2>1, <2>2, <2>3, <2>4 DEF Calm, CalmMonitor
  <1>13. Agreed(n)
    BY DEF AllAgreed
  <1>14. Hidden(n) => Hidden(n)'
    BY <1>1, <1>3, <1>4, ThreadFacts DEF Hidden
  <1>15. status[n] # "RUNNING" \/ Hidden(n)'
    <2>1. CASE t \in Callers
      BY <1>1, <1>2, <1>13, <1>14, <2>1 DEF Agreed, CallerRelies
    <2>2. CASE t \in Names
      <3>1. status[n] = "RUNNING" => n \in raced'
        BY <1>9, <2>2, ForkOverlaps
      <3> QED
        BY <3>1 DEF Hidden
    <2> QED
      BY <2>1, <2>2, ThreadFacts
  <1>17. TrackedYet(n)'
    <2> SUFFICES ASSUME NEW p \in Pids, child'[p] = "alive", owner'[p] = n
                 PROVE  (\E u \in Spawners : pc'[u] = "forked" /\ hand'[u] = p) \/ Hidden(n)'
      BY DEF TrackedYet
    <2>1. CASE child[p] = "free"
      BY <1>8, <2>1
    <2>2. CASE child[p] # "free"
      <3>1. child[p] = "alive" /\ owner[p] = n
        BY <1>7, <2>2
      <3> QED
        BY <1>11, <1>13, <1>14, <1>15, <3>1 DEF Agreed, TrackedYet
    <2> QED
      BY <2>1, <2>2
  <1>18. ASSUME NEW d \in Callers, on'[d] = n
         PROVE  CallerRelies(d, n)'
    <2>1. CASE d = t
      BY <1>5, <1>6, <2>1 DEF CallerRelies
    <2>2. CASE d # t
      <3>1. CallerRelies(d, n) /\ pc'[d] = pc[d]
        BY <1>3, <1>4, <1>13, <1>18, <2>2, ThreadFacts DEF Agreed
      <3> QED
        BY <1>3, <1>6, <1>14, <3>1 DEF CallerRelies
    <2> QED
      BY <2>1, <2>2
  <1>19. Agreed(n)'
    BY <1>17, <1>18 DEF Agreed
  <1> QED
    BY <1>10, <1>12, <1>19, OthersAgreed

-----------------------------------------------------------------------------
LEMMA AgreedInit == Init => AllAgreed
  <1> SUFFICES ASSUME Init, NEW n \in Names
               PROVE  Agreed(n)
    BY DEF AllAgreed
  <1>1. \A c \in Callers : pc[c] = "idle"
    BY ThreadFacts DEF Init
  <1>2. \A p \in Pids : child[p] = "free"
    BY DEF Init
  <1>3. \A c \in Callers : CallerRelies(c, n)
    BY <1>1 DEF CallerRelies
  <1>5. TrackedYet(n)
    BY <1>2 DEF TrackedYet
  <1> QED
    BY <1>3, <1>5 DEF Agreed

LEMMA AgreedStutters == Base /\ Base' /\ AllAgreed /\ UNCHANGED vars => AllAgreed'
  <1> SUFFICES ASSUME Base, Base', AllAgreed, UNCHANGED vars
               PROVE  AllAgreed'
    OBVIOUS
  <1>1. UNCHANGED <<pc, on, hand, config, status, pid, running, child, owner, raced>>
    BY DEF vars, entryVars, kidVars, past
  <1>2. \A n \in Names : Calm(n)
    BY <1>1 DEF Calm, CalmMonitor, CalmCaller
  <1>3. \A c \in Callers : Settled(c)
    BY <1>1 DEF Settled
  <1> QED
    BY <1>2, <1>3, CalmAgreed DEF AllAgreed

LEMMA AgreedNext == Base /\ Base' /\ AllAgreed /\ [Next]_vars => AllAgreed'
  <1> SUFFICES ASSUME Base, Base', AllAgreed, Next
               PROVE  AllAgreed'
    BY AgreedStutters
  <1>1. ASSUME NEW t \in Spawners, SpawnStep(t)
        PROVE  AllAgreed'
    BY <1>1, ForkAgreed, ForkedAgreed, SpawnFlagAgreed, JoinAgreed DEF SpawnStep
  <1>2. ASSUME NEW t \in Handlers, ExitStep(t)
        PROVE  AllAgreed'
    BY <1>2, ExitFlagAgreed, ExitStatusAgreed, ExitEventAgreed DEF ExitStep
  <1>3. ASSUME NEW c \in Callers, Enter(c) \/ CallStep(c)
        PROVE  AllAgreed'
    <2>1. c \in Spawners
      BY ThreadFacts
    <2> QED
      BY <1>1, <1>3, <2>1, EnterAgreed, AddProcessAgreed, RemoveProcessAgreed, StartAgreed,
         StopAgreed, StopWaitedAgreed, StopReturnsAgreed, StopAllAgreed,
         StartWatchdogCheckAgreed, StartWatchdogAgreed, StopWatchdogAgreed, JoinWatchdogAgreed
         DEF CallStep
  <1>4. ASSUME NEW n \in Names, MonitorStep(n)
        PROVE  AllAgreed'
    <2>1. n \in Spawners /\ n \in Handlers
      BY ThreadFacts
    <2> QED
      BY <1>1, <1>2, <1>4, <2>1, MonitorLoopAgreed, MonitorWaitAgreed DEF MonitorStep
  <1>5. ASSUME WatchdogStep
        PROVE  AllAgreed'
    <2>1. Watchdog \in Handlers
      BY ThreadFacts
    <2> QED
      BY <1>2, <1>5, <2>1, WatchdogWakesAgreed, WatchdogLooksAgreed, WatchdogSleepsAgreed
         DEF WatchdogStep
  <1> QED
    BY <1>3, <1>4, <1>5, ChildEndsAgreed DEF Next

LEMMA AgreedTracked ==
    ASSUME Base, AllAgreed
    PROVE  Tracked
  <1> SUFFICES ASSUME NEW p \in Pids, child[p] = "alive"
               PROVE  \/ pid[owner[p]] = p /\ status[owner[p]] = "RUNNING"
                      \/ \E t \in Spawners : pc[t] = "forked" /\ hand[t] = p
                      \/ Raced(owner[p])
    BY DEF Tracked
  <1>1. owner[p] \in Names
    BY DEF Base, PidsOwned
  <1>2. \A n \in Names : Hidden(n) => Raced(n)
    BY DEF Hidden, Raced, SelfRestart
  <1>3. TrackedYet(owner[p])
    BY <1>1 DEF AllAgreed, Agreed
  <1> QED
    BY <1>1, <1>2, <1>3 DEF TrackedYet

LEMMA AgreedOneChild ==
    ASSUME Base, AllAgreed
    PROVE  OneChild
  <1> SUFFICES ASSUME NEW p \in Pids, NEW q \in Pids, p # q, child[p] = "alive",
                      child[q] = "alive", owner[p] = owner[q], ~Raced(owner[p])
               PROVE  FALSE
    BY DEF OneChild
  <1>1. PICK n \in Names : n = owner[p]
    BY DEF Base, PidsOwned
  <1>2. ~Hidden(n) /\ ~Raced(n)
    BY <1>1 DEF Hidden, Raced, SelfRestart
  <1>3. \A t \in Spawners : pc[t] = "forked" /\ hand[t] \in {p, q} =>
           t \in Callers /\ on[t] = n /\ status[n] # "RUNNING" /\ mutex = t
    <2> SUFFICES ASSUME NEW t \in Spawners, pc[t] = "forked", hand[t] \in {p, q}
                 PROVE  t \in Callers /\ on[t] = n /\ status[n] # "RUNNING" /\ mutex = t
      OBVIOUS
    <2>1. on[t] = n
      BY <1>1 DEF Base, PidsOwned
    <2>2. t \notin Names
      <3> SUFFICES ASSUME t \in Names
                   PROVE  FALSE
        OBVIOUS
      <3>1. t = n
        BY <2>1 DEF Base, Placed
      <3>2. SelfRestart(n)
        BY <3>1 DEF SelfRestart
      <3> QED
        BY <1>2, <3>2 DEF Raced
    <2>3. t \in Callers
      BY <2>2, ThreadFacts
    <2>4. CallerRelies(t, n)
      BY <2>1, <2>3 DEF AllAgreed, Agreed
    <2> QED
      BY <1>2, <2>1, <2>3, <2>4 DEF CallerRelies, Base, MutexHeld, Spawning
  <1>4. /\ (pid[n] = p /\ status[n] = "RUNNING")
              \/ \E t \in Spawners : pc[t] = "forked" /\ hand[t] = p
        /\ (pid[n] = q /\ status[n] = "RUNNING")
              \/ \E t \in Spawners : pc[t] = "forked" /\ hand[t] = q
    BY <1>1, <1>2 DEF AllAgreed, Agreed, TrackedYet
  <1> QED
    BY <1>3, <1>4

\* The entries and the children agree, seen from either side, wherever stop()
\* times out, until handle_exit writes over a start()
\* (process_supervisor.cpp:50-250).
THEOREM SupervisorInvariant == Spec => []SupervisorInv
  <1>1. Init => Base /\ AllAgreed
    BY BaseInit, AgreedInit
  <1>2. Base /\ AllAgreed /\ [Next]_vars => Base' /\ AllAgreed'
    BY BaseNext, AgreedNext
  <1>3. Base /\ AllAgreed => SupervisorInv
    BY AgreedTracked DEF Base, AllAgreed, SupervisorInv
  <1> QED
    BY <1>1, <1>2, <1>3, PTL DEF Spec

\* No two live children of one process, wherever stop() times out, until
\* handle_exit writes over a start() (process_supervisor.cpp:50-131, 169-211,
\* 236-247).
THEOREM OneChildAlways == Spec => []OneChild
  <1>1. Init => Base /\ AllAgreed
    BY BaseInit, AgreedInit
  <1>2. Base /\ AllAgreed /\ [Next]_vars => Base' /\ AllAgreed'
    BY BaseNext, AgreedNext
  <1>3. Base /\ AllAgreed => OneChild
    BY AgreedOneChild
  <1> QED
    BY <1>1, <1>2, <1>3, PTL DEF Spec

-----------------------------------------------------------------------------
(* What ends the program.  The calls on the watchdog look at and assign    *)
(* watchdog_thread_ without the mutex, so the theorem is about programs in *)
(* which one thread makes them, as in main().                              *)

\* One caller starts and stops the watchdog.
OneController ==
    \A c, d \in Callers :
        /\ Ops[c] \cap {"start_watchdog", "stop_watchdog"} # {}
        /\ Ops[d] \cap {"start_watchdog", "stop_watchdog"} # {}
        => c = d

DogPlaces == {"dog_check", "dog_start", "dog_stop", "dog_join"}

\* The call behind each statement of the watchdog's control.
DogCall(c) ==
    /\ pc[c] \in DogPlaces => op[c] \in (Ops[c] \cap {"start_watchdog", "stop_watchdog"})
                                        \cup {"destroy"}
    /\ pc[c] \in {"dog_check", "dog_start"} => op[c] # "destroy"

\* The destructor runs alone.
LastCall == \A c, d \in Callers : op[c] = "destroy" /\ c # d => pc[d] = "idle"

\* The flag and the thread agree, seen from every statement of its control.
FlagIsThread ==
    /\ \A c \in Callers : pc[c] = "dog_start" => pc[Watchdog] = "none"
    /\ \A c \in Callers : pc[c] = "dog_join" => ~watchdog_running
    /\ (\A c \in Callers : pc[c] # "dog_join") =>
          (watchdog_running <=> pc[Watchdog] # "none")

DogInv ==
    /\ \A c \in Callers : DogCall(c)
    /\ LastCall /\ FlagIsThread /\ OnlyKnownAborts

\* A step that moves no caller into, within or out of the watchdog's control.
DogQuiet ==
    /\ \A c \in Callers :
          /\ pc[c] \in DogPlaces \/ pc'[c] \in DogPlaces => pc'[c] = pc[c] /\ op'[c] = op[c]
          /\ pc[c] = "idle" => pc'[c] = "idle"
          /\ op'[c] = "destroy" => op[c] = "destroy"
    /\ pc'[Watchdog] = "none" <=> pc[Watchdog] = "none"
    /\ UNCHANGED watchdog_running

LEMMA DogQuietKept ==
    ASSUME DogInv, DogQuiet
    PROVE  (\A c \in Callers : DogCall(c)') /\ LastCall' /\ FlagIsThread'
  <1>1. \A c \in Callers : DogCall(c)'
    BY DEF DogInv, DogQuiet, DogCall, DogPlaces
  <1>2. LastCall'
    BY DEF DogInv, DogQuiet, LastCall
  <1>3. \A c \in Callers : /\ (pc'[c] = "dog_start") <=> (pc[c] = "dog_start")
                           /\ (pc'[c] = "dog_join") <=> (pc[c] = "dog_join")
    BY DEF DogQuiet, DogPlaces
  <1>4. FlagIsThread'
    BY <1>3 DEF DogInv, DogQuiet, FlagIsThread
  <1> QED
    BY <1>1, <1>2, <1>4

LEMMA DogQuietInv ==
    ASSUME DogInv, DogQuiet, ~aborted'
    PROVE  DogInv'
  BY DogQuietKept DEF DogInv, OnlyKnownAborts

LEMMA AddProcessDog ==
    ASSUME Base, DogInv, NEW c \in Callers, add_process(c)
    PROVE  DogInv'
  <1>1. TypeOK /\ Placed
    BY DEF Base
  <1>2. ~aborted'
    BY DEF add_process, At, Locking, past
  <1>3. DogQuiet
    BY <1>1, ThreadFacts
       DEF TypeOK, Placed, Spawning, Exiting, DogQuiet, DogPlaces, At, Goto, add_process,
           Locking, callVars, entryVars, dogVars, kidVars, past
  <1> QED
    BY <1>2, <1>3, DogQuietInv

LEMMA StartDog ==
    ASSUME Base, DogInv, NEW c \in Callers, start(c)
    PROVE  DogInv'
  <1>1. TypeOK /\ Placed
    BY DEF Base
  <1>2. ~aborted'
    BY DEF start, At, Locking, past
  <1>3. DogQuiet
    BY <1>1, ThreadFacts
       DEF TypeOK, Placed, Spawning, Exiting, DogQuiet, DogPlaces, At, Goto, start,
           Locking, callVars, entryVars, dogVars, kidVars, past
  <1> QED
    BY <1>2, <1>3, DogQuietInv

LEMMA StopDog ==
    ASSUME Base, DogInv, NEW c \in Callers, stop(c)
    PROVE  DogInv'
  <1>1. TypeOK /\ Placed
    BY DEF Base
  <1>2. ~aborted'
    BY DEF stop, At, Locking, past
  <1>3. DogQuiet
    BY <1>1, ThreadFacts
       DEF TypeOK, Placed, Spawning, Exiting, DogQuiet, DogPlaces, At, Goto, stop,
           Locking, Term, callVars, entryVars, dogVars, kidVars, past
  <1> QED
    BY <1>2, <1>3, DogQuietInv

LEMMA StopWaitedDog ==
    ASSUME Base, DogInv, NEW c \in Callers, StopWaited(c)
    PROVE  DogInv'
  <1>1. TypeOK /\ Placed
    BY DEF Base
  <1>2. ~aborted'
    BY DEF StopWaited, At, past
  <1>3. DogQuiet
    BY <1>1, ThreadFacts
       DEF TypeOK, Placed, Spawning, Exiting, DogQuiet, DogPlaces, At, Goto, StopWaited,
           callVars, entryVars, dogVars, kidVars, past
  <1> QED
    BY <1>2, <1>3, DogQuietInv

LEMMA StopReturnsDog ==
    ASSUME Base, DogInv, NEW c \in Callers, StopReturns(c)
    PROVE  DogInv'
  <1>1. TypeOK /\ Placed
    BY DEF Base
  <1>2. ~aborted'
    BY DEF StopReturns, At, past
  <1>3. DogQuiet
    BY <1>1, ThreadFacts
       DEF TypeOK, Placed, Spawning, Exiting, DogQuiet, DogPlaces, At, Goto, StopReturns,
           callVars, entryVars, dogVars, kidVars, past
  <1> QED
    BY <1>2, <1>3, DogQuietInv

LEMMA ForkDog ==
    ASSUME Base, DogInv, NEW t \in Spawners, Fork(t)
    PROVE  DogInv'
  <1>1. TypeOK /\ Placed
    BY DEF Base
  <1>2. ~aborted'
    BY DEF Fork, At, past
  <1>3. DogQuiet
    BY <1>1, ThreadFacts
       DEF TypeOK, Placed, Spawning, Exiting, DogQuiet, DogPlaces, At, Goto, Fork,
           SpawnReturns, callVars, entryVars, dogVars, kidVars, past
  <1> QED
    BY <1>2, <1>3, DogQuietInv

LEMMA ForkedDog ==
    ASSUME Base, DogInv, NEW t \in Spawners, Forked(t)
    PROVE  DogInv'
  <1>1. TypeOK /\ Placed
    BY DEF Base
  <1>2. ~aborted'
    BY DEF Forked, At, past
  <1>3. DogQuiet
    BY <1>1, ThreadFacts
       DEF TypeOK, Placed, Spawning, Exiting, DogQuiet, DogPlaces, At, Goto, Forked,
           callVars, entryVars, dogVars, kidVars, past
  <1> QED
    BY <1>2, <1>3, DogQuietInv

LEMMA SpawnFlagDog ==
    ASSUME Base, DogInv, NEW t \in Spawners, SpawnFlag(t)
    PROVE  DogInv'
  <1>1. TypeOK /\ Placed
    BY DEF Base
  <1>2. ~aborted'
    BY DEF SpawnFlag, At, past
  <1>3. DogQuiet
    BY <1>1, ThreadFacts
       DEF TypeOK, Placed, Spawning, Exiting, DogQuiet, DogPlaces, At, Goto, SpawnFlag,
           callVars, entryVars, dogVars, kidVars, past
  <1> QED
    BY <1>2, <1>3, DogQuietInv

LEMMA MonitorLoopDog ==
    ASSUME Base, DogInv, NEW n \in Names, MonitorLoop(n)
    PROVE  DogInv'
  <1>1. TypeOK /\ Placed
    BY DEF Base
  <1>2. ~aborted'
    BY DEF MonitorLoop, At, past
  <1>3. DogQuiet
    BY <1>1, ThreadFacts
       DEF TypeOK, Placed, Spawning, Exiting, DogQuiet, DogPlaces, At, Goto, MonitorLoop,
           callVars, entryVars, dogVars, kidVars, past
  <1> QED
    BY <1>2, <1>3, DogQuietInv

LEMMA MonitorWaitDog ==
    ASSUME Base, DogInv, NEW n \in Names, MonitorWait(n)
    PROVE  DogInv'
  <1>1. TypeOK /\ Placed
    BY DEF Base
  <1>2. ~aborted'
    BY DEF MonitorWait, At, past
  <1>3. DogQuiet
    BY <1>1, ThreadFacts
       DEF TypeOK, Placed, Spawning, Exiting, DogQuiet, DogPlaces, At, Goto, MonitorWait,
           callVars, entryVars, dogVars, kidVars, past
  <1> QED
    BY <1>2, <1>3, DogQuietInv

LEMMA ExitFlagDog ==
    ASSUME Base, DogInv, NEW t \in Handlers, ExitFlag(t)
    PROVE  DogInv'
  <1>1. TypeOK /\ Placed
    BY DEF Base
  <1>2. ~aborted'
    BY DEF ExitFlag, At, past
  <1>3. DogQuiet
    BY <1>1, ThreadFacts
       DEF TypeOK, Placed, Spawning, Exiting, DogQuiet, DogPlaces, At, Goto, ExitFlag,
           callVars, entryVars, dogVars, kidVars, past
  <1> QED
    BY <1>2, <1>3, DogQuietInv

LEMMA ExitStatusDog ==
    ASSUME Base, DogInv, NEW t \in Handlers, ExitStatus(t)
    PROVE  DogInv'
  <1>1. TypeOK /\ Placed
    BY DEF Base
  <1>2. ~aborted'
    BY DEF ExitStatus, At, past
  <1>3. DogQuiet
    BY <1>1, ThreadFacts
       DEF TypeOK, Placed, Spawning, Exiting, DogQuiet, DogPlaces, At, Goto, ExitStatus,
           callVars, entryVars, dogVars, kidVars, past
  <1> QED
    BY <1>2, <1>3, DogQuietInv

LEMMA ExitEventDog ==
    ASSUME Base, DogInv, NEW t \in Handlers, ExitEvent(t)
    PROVE  DogInv'
  <1>1. TypeOK /\ Placed
    BY DEF Base
  <1>2. ~aborted'
    BY DEF ExitEvent, At, past
  <1>3. DogQuiet
    BY <1>1, ThreadFacts
       DEF TypeOK, Placed, Spawning, Exiting, DogQuiet, DogPlaces, At, Goto, ExitEvent,
           HandlerReturns, callVars, entryVars, dogVars, kidVars, past
  <1> QED
    BY <1>2, <1>3, DogQuietInv

LEMMA WatchdogWakesDog ==
    ASSUME Base, DogInv, WatchdogWakes
    PROVE  DogInv'
  <1>1. TypeOK /\ Placed
    BY DEF Base
  <1>2. ~aborted'
    BY DEF WatchdogWakes, At, past
  <1>3. DogQuiet
    BY <1>1, ThreadFacts
       DEF TypeOK, Placed, Spawning, Exiting, DogQuiet, DogPlaces, At, Goto, WatchdogWakes,
           callVars, entryVars, dogVars, kidVars, past
  <1> QED
    BY <1>2, <1>3, DogQuietInv

LEMMA WatchdogLooksDog ==
    ASSUME Base, DogInv, WatchdogLooks
    PROVE  DogInv'
  <1>1. TypeOK /\ Placed
    BY DEF Base
  <1>2. ~aborted'
    BY DEF WatchdogLooks, At, past
  <1>3. DogQuiet
    BY <1>1, ThreadFacts
       DEF TypeOK, Placed, Spawning, Exiting, DogQuiet, DogPlaces, At, Goto, WatchdogLooks,
           callVars, entryVars, dogVars, kidVars, past
  <1> QED
    BY <1>2, <1>3, DogQuietInv

LEMMA WatchdogSleepsDog ==
    ASSUME Base, DogInv, WatchdogSleeps
    PROVE  DogInv'
  <1>1. TypeOK /\ Placed
    BY DEF Base
  <1>2. ~aborted'
    BY DEF WatchdogSleeps, At, past
  <1>3. DogQuiet
    BY <1>1, ThreadFacts
       DEF TypeOK, Placed, Spawning, Exiting, DogQuiet, DogPlaces, At, Goto, WatchdogSleeps,
           callVars, entryVars, dogVars, kidVars, past
  <1> QED
    BY <1>2, <1>3, DogQuietInv

LEMMA ChildEndsDog ==
    ASSUME Base, DogInv, NEW p \in Pids, ChildEnds(p)
    PROVE  DogInv'
  <1>1. TypeOK /\ Placed
    BY DEF Base
  <1>2. ~aborted'
    BY DEF ChildEnds, At, past
  <1>3. DogQuiet
    BY <1>1, ThreadFacts
       DEF TypeOK, Placed, Spawning, Exiting, DogQuiet, DogPlaces, At, Goto, ChildEnds,
           callVars, entryVars, dogVars, kidVars, past
  <1> QED
    BY <1>2, <1>3, DogQuietInv

LEMMA RemoveProcessDog ==
    ASSUME Base, DogInv, NEW c \in Callers, remove_process(c)
    PROVE  DogInv'
  <1>1. TypeOK /\ Placed
    BY DEF Base
  <1>2. DogQuiet
    BY <1>1, ThreadFacts
       DEF TypeOK, Placed, DogQuiet, DogPlaces, At, Goto, remove_process, Locking,
           callVars, dogVars
  <1>3. aborted' => /\ pc'[c] = "idle" /\ op'[c] = "remove"
                    /\ on'[c] \notin processes' /\ pc'[on'[c]] # "none"
    BY <1>1, ThreadFacts
       DEF TypeOK, Placed, At, Goto, remove_process, Locking, callVars
  <1>4. OnlyKnownAborts'
    BY <1>3 DEF OnlyKnownAborts
  <1> QED
    BY <1>2, <1>4, DogQuietKept DEF DogInv

LEMMA JoinDog ==
    ASSUME Base, DogInv, NEW t \in Spawners, Join(t)
    PROVE  DogInv'
  <1>1. TypeOK /\ Placed
    BY DEF Base
  <1>2. on[t] \in Names
    BY <1>1, ThreadFacts DEF Placed, Join, At
  <1>3. DogQuiet
    <2>1. UNCHANGED <<op, watchdog_running>> /\ pc[t] = "join"
      BY DEF Join, At, callVars, dogVars
    <2>2. CASE UNCHANGED pc
      BY <2>1, <2>2 DEF DogQuiet
    <2>3. CASE t # on[t] /\ pc' = [pc EXCEPT ![on[t]] = "loop", ![t] = "idle"]
      <3>1. /\ pc'[t] = "idle" /\ pc'[Watchdog] = pc[Watchdog]
            /\ \A c \in Callers : c # t => pc'[c] = pc[c]
        BY <1>1, <1>2, <2>3, ThreadFacts DEF TypeOK
      <3> QED
        BY <2>1, <3>1 DEF DogQuiet, DogPlaces
    <2> QED
      BY <2>2, <2>3 DEF Join
  <1>4. aborted' => t \in Names /\ pc'[t] = "join"
    BY <1>2 DEF Join, At, Joined
  <1>5. OnlyKnownAborts'
    BY <1>4 DEF OnlyKnownAborts
  <1> QED
    BY <1>3, <1>5, DogQuietKept DEF DogInv

LEMMA EnterDog ==
    ASSUME Base, DogInv, NEW c \in Callers, Enter(c)
    PROVE  DogInv'
  <1>1. TypeOK /\ Placed
    BY DEF Base
  <1>2. PICK o \in Ops[c] :
           /\ o = "destroy" => \A d \in Callers : pc[d] = "idle"
           /\ op' = [op EXCEPT ![c] = o]
           /\ Goto(c, CASE o = "start_watchdog" -> "dog_check"
                        [] o = "stop_watchdog" -> "dog_stop"
                        [] OTHER -> "lock")
    BY DEF Enter
  <1>3. /\ op'[c] = o
        /\ pc'[c] \in {"dog_check", "dog_stop", "lock"}
        /\ pc'[c] = "dog_check" => o = "start_watchdog"
        /\ pc'[c] = "dog_stop" => o = "stop_watchdog"
        /\ \A d \in Callers : d # c => op'[d] = op[d] /\ pc'[d] = pc[d]
        /\ pc'[Watchdog] = pc[Watchdog]
    BY <1>1, <1>2, ThreadFacts DEF TypeOK, Goto
  <1>4. /\ pc[c] = "idle" /\ ~aborted /\ UNCHANGED <<watchdog_running, aborted>>
        /\ \A d \in Callers : op[d] # "destroy"
    BY DEF Enter, At, dogVars, past
  <1>5. \A d \in Callers : DogCall(d)'
    BY <1>3 DEF DogInv, DogCall, DogPlaces
  <1>6. LastCall'
    BY <1>2, <1>3, <1>4 DEF LastCall
  <1>7. FlagIsThread'
    BY <1>3, <1>4 DEF DogInv, FlagIsThread
  <1> QED
    BY <1>4, <1>5, <1>6, <1>7 DEF DogInv, OnlyKnownAborts

LEMMA StopAllDog ==
    ASSUME Base, DogInv, NEW c \in Callers, stop_all(c)
    PROVE  DogInv'
  <1>1. TypeOK /\ Placed
    BY DEF Base
  <1>2. /\ pc[c] = "lock" /\ ~aborted' /\ UNCHANGED <<op, watchdog_running>>
        /\ pc' = [pc EXCEPT ![c] = IF op[c] = "destroy" THEN "dog_stop" ELSE "idle"]
    BY DEF stop_all, Locking, At, Goto, callVars, dogVars, past
  <1>3. /\ pc'[c] \in {"dog_stop", "idle"}
        /\ pc'[c] = "dog_stop" => op[c] = "destroy"
        /\ \A d \in Callers : d # c => pc'[d] = pc[d]
        /\ pc'[Watchdog] = pc[Watchdog]
    BY <1>1, <1>2, ThreadFacts DEF TypeOK
  <1>5. \A d \in Callers : DogCall(d)'
    BY <1>2, <1>3 DEF DogInv, DogCall, DogPlaces
  <1>6. LastCall'
    BY <1>2, <1>3 DEF DogInv, LastCall
  <1>7. FlagIsThread'
    BY <1>2, <1>3 DEF DogInv, FlagIsThread
  <1> QED
    BY <1>2, <1>5, <1>6, <1>7 DEF DogInv, OnlyKnownAborts

\* Two callers are never in the watchdog's control at a time.
LEMMA OneInControl ==
    ASSUME OneController, DogInv, NEW c \in Callers, NEW d \in Callers,
           pc[c] \in DogPlaces, pc[d] \in DogPlaces
    PROVE  c = d
  <1>1. CASE op[c] = "destroy" \/ op[d] = "destroy"
    BY <1>1 DEF DogInv, LastCall, DogPlaces
  <1>2. CASE op[c] # "destroy" /\ op[d] # "destroy"
    BY <1>2 DEF DogInv, DogCall, OneController
  <1> QED
    BY <1>1, <1>2

LEMMA StartWatchdogCheckDog ==
    ASSUME OneController, Base, DogInv, NEW c \in Callers, start_watchdog_check(c)
    PROVE  DogInv'
  <1>1. TypeOK /\ Placed
    BY DEF Base
  <1>2. /\ pc[c] = "dog_check" /\ ~aborted' /\ UNCHANGED <<op, watchdog_running>>
        /\ pc' = [pc EXCEPT ![c] = IF watchdog_running THEN "idle" ELSE "dog_start"]
    BY DEF start_watchdog_check, At, Goto, callVars, dogVars, past
  <1>3. /\ pc'[c] \in {"dog_start", "idle"}
        /\ pc'[c] = "dog_start" => ~watchdog_running
        /\ \A d \in Callers : d # c => pc'[d] = pc[d]
        /\ pc'[Watchdog] = pc[Watchdog]
    BY <1>1, <1>2, ThreadFacts DEF TypeOK
  <1>4. \A d \in Callers : pc[d] # "dog_join" /\ pc[d] # "dog_start"
    BY <1>2, OneInControl DEF DogPlaces
  <1>5. \A d \in Callers : DogCall(d)'
    BY <1>2, <1>3 DEF DogInv, DogCall, DogPlaces
  <1>6. LastCall'
    BY <1>2, <1>3 DEF DogInv, LastCall
  <1>7. FlagIsThread'
    BY <1>2, <1>3, <1>4 DEF DogInv, FlagIsThread
  <1> QED
    BY <1>2, <1>5, <1>6, <1>7 DEF DogInv, OnlyKnownAborts

LEMMA StartWatchdogDog ==
    ASSUME OneController, Base, DogInv, NEW c \in Callers, start_watchdog(c)
    PROVE  DogInv'
  <1>1. TypeOK /\ Placed
    BY DEF Base
  <1>2. pc[c] = "dog_start" /\ pc[Watchdog] = "none"
    BY DEF start_watchdog, At, DogInv, FlagIsThread
  <1>3. /\ ~aborted' /\ UNCHANGED op /\ watchdog_running'
        /\ pc' = [pc EXCEPT ![c] = "idle", ![Watchdog] = "sleep"]
    BY <1>1, <1>2 DEF start_watchdog, callVars, TypeOK
  <1>4. /\ pc'[c] = "idle" /\ pc'[Watchdog] = "sleep"
        /\ \A d \in Callers : d # c => pc'[d] = pc[d]
    BY <1>1, <1>3, ThreadFacts DEF TypeOK
  <1>5. \A d \in Callers : DogCall(d)'
    BY <1>3, <1>4 DEF DogInv, DogCall, DogPlaces
  <1>6. LastCall'
    BY <1>3, <1>4 DEF DogInv, LastCall
  <1>7. \A d \in Callers : d # c => pc[d] # "dog_join" /\ pc[d] # "dog_start"
    BY <1>2, OneInControl DEF DogPlaces
  <1>8. FlagIsThread'
    BY <1>3, <1>4, <1>7 DEF FlagIsThread
  <1> QED
    BY <1>3, <1>5, <1>6, <1>8 DEF DogInv, OnlyKnownAborts

LEMMA StopWatchdogDog ==
    ASSUME OneController, Base, DogInv, NEW c \in Callers, stop_watchdog(c)
    PROVE  DogInv'
  <1>1. TypeOK /\ Placed
    BY DEF Base
  <1>2. /\ pc[c] = "dog_stop" /\ ~aborted' /\ UNCHANGED op /\ ~watchdog_running'
        /\ pc' = [pc EXCEPT ![c] = "dog_join"]
    BY DEF stop_watchdog, At, Goto, callVars, past
  <1>3. /\ pc'[c] = "dog_join" /\ pc'[Watchdog] = pc[Watchdog]
        /\ \A d \in Callers : d # c => pc'[d] = pc[d]
    BY <1>1, <1>2, ThreadFacts DEF TypeOK
  <1>5. \A d \in Callers : DogCall(d)'
    BY <1>2, <1>3 DEF DogInv, DogCall, DogPlaces
  <1>6. LastCall'
    BY <1>2, <1>3 DEF DogInv, LastCall
  <1>7. FlagIsThread'
    BY <1>2, <1>3 DEF DogInv, FlagIsThread
  <1> QED
    BY <1>2, <1>5, <1>6, <1>7 DEF DogInv, OnlyKnownAborts

LEMMA JoinWatchdogDog ==
    ASSUME OneController, Base, DogInv, NEW c \in Callers, JoinWatchdog(c)
    PROVE  DogInv'
  <1>1. TypeOK /\ Placed
    BY DEF Base
  <1>2. /\ pc[c] = "dog_join" /\ UNCHANGED <<op, watchdog_running, processes>>
        /\ pc' = [pc EXCEPT ![c] = "idle", ![Watchdog] = "none"]
    BY DEF JoinWatchdog, At, callVars, dogVars, entryVars
  <1>3. /\ pc'[c] = "idle" /\ pc'[Watchdog] = "none"
        /\ \A d \in Callers : d # c => pc'[d] = pc[d]
        /\ \A n \in Names : pc'[n] = pc[n]
    BY <1>1, <1>2, ThreadFacts DEF TypeOK
  <1>4. ~watchdog_running
    BY <1>2 DEF DogInv, FlagIsThread
  <1>5. \A d \in Callers : DogCall(d)'
    BY <1>2, <1>3 DEF DogInv, DogCall, DogPlaces
  <1>6. LastCall'
    BY <1>2, <1>3 DEF DogInv, LastCall
  <1>7. FlagIsThread'
    BY <1>2, <1>3, <1>4 DEF DogInv, FlagIsThread
  <1>8. aborted' => op[c] = "destroy" /\ \E n \in processes : pc[n] # "none"
    BY DEF JoinWatchdog
  <1>9. OnlyKnownAborts'
    <2> SUFFICES ASSUME aborted'
                 PROVE  op'[c] = "destroy" /\ \E n \in processes' : pc'[n] # "none"
      BY <1>3 DEF OnlyKnownAborts
    <2>1. PICK n \in processes : pc[n] # "none"
      BY <1>8
    <2>2. n \in Names
      BY <1>1 DEF TypeOK
    <2> QED
      BY <1>2, <1>3, <1>8, <2>1, <2>2
  <1> QED
    BY <1>5, <1>6, <1>7, <1>9 DEF DogInv

LEMMA DogInit == Init => DogInv
  <1> SUFFICES ASSUME Init
               PROVE  DogInv
    OBVIOUS
  <1>1. /\ \A c \in Callers : pc[c] = "idle"
        /\ pc[Watchdog] = "none" /\ ~watchdog_running /\ ~aborted
    BY ThreadFacts DEF Init
  <1> QED
    BY <1>1 DEF DogInv, DogCall, DogPlaces, LastCall, FlagIsThread, OnlyKnownAborts

LEMMA DogStutters == DogInv /\ UNCHANGED vars => DogInv'
  BY DEF vars, callVars, entryVars, dogVars, kidVars, past, DogInv, DogCall, DogPlaces,
         LastCall, FlagIsThread, OnlyKnownAborts

LEMMA DogNext ==
    ASSUME OneController
    PROVE  Base /\ DogInv /\ [Next]_vars => DogInv'
  <1> SUFFICES ASSUME Base, DogInv, Next
               PROVE  DogInv'
    BY DogStutters
  <1>1. ASSUME NEW t \in Spawners, SpawnStep(t)
        PROVE  DogInv'
    BY <1>1, ForkDog, ForkedDog, SpawnFlagDog, JoinDog DEF SpawnStep
  <1>2. ASSUME NEW t \in Handlers, ExitStep(t)
        PROVE  DogInv'
    BY <1>2, ExitFlagDog, ExitStatusDog, ExitEventDog DEF ExitStep
  <1>3. ASSUME NEW c \in Callers, Enter(c) \/ CallStep(c)
        PROVE  DogInv'
    <2>1. c \in Spawners
      BY ThreadFacts
    <2> QED
      BY <1>1, <1>3, <2>1, EnterDog, AddProcessDog, RemoveProcessDog, StartDog,
         StopDog, StopWaitedDog, StopReturnsDog, StopAllDog,
         StartWatchdogCheckDog, StartWatchdogDog, StopWatchdogDog, JoinWatchdogDog
         DEF CallStep
  <1>4. ASSUME NEW n \in Names, MonitorStep(n)
        PROVE  DogInv'
    <2>1. n \in Spawners /\ n \in Handlers
      BY ThreadFacts
    <2> QED
      BY <1>1, <1>2, <1>4, <2>1, MonitorLoopDog, MonitorWaitDog DEF MonitorStep
  <1>5. ASSUME WatchdogStep
        PROVE  DogInv'
    <2>1. Watchdog \in Handlers
      BY ThreadFacts
    <2> QED
      BY <1>2, <1>5, <2>1, WatchdogWakesDog, WatchdogLooksDog, WatchdogSleepsDog
         DEF WatchdogStep
  <1> QED
    BY <1>3, <1>4, <1>5, ChildEndsDog DEF Next

\* With one thread that starts and stops the watchdog, whatever the calls, the
\* policies and the exits, only a monitor that joins itself and the erasure of an
\* entry with a joinable monitor end the program (process_supervisor.cpp:17-20, 46,
\* 122-125, 324-346).
THEOREM OnlyKnownAbortsAlways ==
    ASSUME OneController
    PROVE  Spec => []OnlyKnownAborts
  <1>1. Init => Base /\ DogInv
    BY BaseInit, DogInit
  <1>2. Base /\ DogInv /\ [Next]_vars => Base' /\ DogInv'
    BY BaseNext, DogNext
  <1>3. DogInv => OnlyKnownAborts
    BY DEF DogInv
  <1> QED
    BY <1>1, <1>2, <1>3, PTL DEF Spec
=============================================================================
