----------------------- MODULE ResourceMonitorProofs -----------------------
(***************************************************************************)
(* Proofs about ResourceMonitor, for any number of users, any limits, any  *)
(* number of ticks and any word size above it.                             *)
(***************************************************************************)
EXTENDS ResourceMonitor, TLAPS

Control == {"none", "idle", "stat", "load", "store", "loop", "record",
            "alerts", "callback", "returned", "start", "launch", "stop",
            "clear", "join"}

\* The history flags are Boolean whatever is recorded.
LEMMA FlagTypes ==
    ASSUME TypeOK
    PROVE  running \in BOOLEAN /\ mixed \in BOOLEAN /\ crossed \in BOOLEAN
           /\ aborted \in BOOLEAN
  BY DEF TypeOK

\* A difference of tick counts is a word, and exact if it is no underflow.
LEMMA Difference ==
    ASSUME NEW a \in 0..MaxTicks, NEW b \in 0..MaxTicks
    PROVE  /\ (a - b) % Word \in 0..(Word - 1)
           /\ b <= a => (a - b) % Word = a - b
  <1> USE MonitorAssumption
  <1>1. Word \in Nat /\ Word > 0 /\ a - b \in Int
    OBVIOUS
  <1>2. (a - b) % Word \in 0..(Word - 1)
    BY <1>1, SMT
  <1>3. b <= a => a - b \in 0..(Word - 1)
    OBVIOUS
  <1>4. b <= a => (a - b) % Word = a - b
    BY <1>1, <1>3, SMT
  <1> QED
    BY <1>2, <1>4

\* Each step of read_usage, on any thread, keeps the types.
LEMMA ReadTypes ==
    ASSUME TypeOK, NEW t \in Threads, ReadStep(t)
    PROVE  TypeOK'
  <1> USE MonitorAssumption DEF TypeOK
  <1>1. CASE ReadStat(t)
    <2>1. pc' \in [Threads -> Control]
      BY <1>1 DEF ReadStat, ReadReturns, Goto, Control
    <2>2. mixed' \in BOOLEAN
      BY <1>1, FlagTypes DEF ReadStat
    <2>3. /\ total' \in [Threads -> 0..MaxTicks]
          /\ delta' \in [Threads -> 0..(Word - 1)]
      BY <1>1 DEF ReadStat
    <2> QED
      BY <1>1, <2>1, <2>2, <2>3 DEF ReadStat, Control, object
  <1>2. CASE LoadPrev(t)
    <2>1. pc' \in [Threads -> Control]
      BY <1>2 DEF LoadPrev, Goto, Control
    <2>2. (total[t] - prev) % Word \in 0..(Word - 1)
      BY Difference
    <2> QED
      BY <1>2, <2>1, <2>2 DEF LoadPrev, Control, object, past
  <1>3. CASE StorePrev(t)
    <2>1. pc' \in [Threads -> Control]
      BY <1>3 DEF StorePrev, ReadReturns, Goto, Control
    <2>2. prev' \in 0..MaxTicks /\ reported' \in Nat
      BY <1>3 DEF StorePrev, PrevAfter
    <2>3. /\ total' \in [Threads -> 0..MaxTicks]
          /\ delta' \in [Threads -> 0..(Word - 1)]
      BY <1>3 DEF StorePrev
    <2> QED
      BY <1>3, <2>1, <2>2, <2>3 DEF StorePrev, Control
  <1> QED
    BY <1>1, <1>2, <1>3 DEF ReadStep

\* Every step keeps the types.
LEMMA TypeStep ==
    ASSUME TypeOK, [Next]_vars
    PROVE  TypeOK'
  <1> USE MonitorAssumption DEF TypeOK, Threads
  <1>1. ASSUME NEW t \in Threads, ReadStep(t)
        PROVE  TypeOK'
    BY <1>1, ReadTypes
  <1>2. CASE Loop \/ Callback
    BY <1>2 DEF Loop, Callback, Goto, locals, object, past
  <1>3. CASE Record
    <2>1. size' \in 0..HistoryMax
      BY <1>3 DEF Record, SizeAfter
    <2> QED
      BY <1>3, <2>1 DEF Record, Goto, locals, past
  <1>4. CASE CheckAlerts
    <2>1. pc' \in [Threads -> Control]
      BY <1>4 DEF CheckAlerts, Goto, Control
    <2>2. delta' \in [Threads -> 0..(Word - 1)]
      BY <1>4 DEF CheckAlerts
    <2> QED
      BY <1>4, <2>1, <2>2 DEF CheckAlerts, Control, object, past
  <1>5. ASSUME NEW t \in Users, Enter(t) \/ set_limit(t)
        PROVE  TypeOK'
    BY <1>5 DEF Enter, set_limit, Goto, locals, object, past
  <1>6. ASSUME NEW t \in Users, start(t) \/ stop(t)
        PROVE  TypeOK'
    <2>1. crossed' \in BOOLEAN
      BY <1>6, FlagTypes DEF start, stop, Cross
    <2> QED
      BY <1>6, <2>1 DEF start, stop, Goto, locals, object
  <1>7. ASSUME NEW t \in Users, Launch(t)
        PROVE  TypeOK'
    <2>1. crossed' \in BOOLEAN /\ aborted' \in BOOLEAN /\ running' \in BOOLEAN
      BY <1>7, FlagTypes DEF Launch, Cross
    <2> QED
      BY <1>7, <2>1 DEF Launch, locals
  <1>8. ASSUME NEW t \in Users, StopClears(t)
        PROVE  TypeOK'
    <2>1. running' \in BOOLEAN
      BY <1>8 DEF StopClears
    <2> QED
      BY <1>8, <2>1 DEF StopClears, Goto, locals, past
  <1>9. ASSUME NEW t \in Users, StopJoins(t)
        PROVE  TypeOK'
    <2>1. aborted' \in BOOLEAN
      BY <1>9 DEF StopJoins
    <2> QED
      BY <1>9, <2>1 DEF StopJoins, locals, object
  <1>10. CASE Process
    <2>1. ticks' \in -1..MaxTicks
      BY <1>10 DEF Process
    <2>2. mixed' \in BOOLEAN
      BY <1>10, FlagTypes DEF Process
    <2> QED
      BY <1>10, <2>1, <2>2 DEF Process, locals, object
  <1>11. CASE UNCHANGED vars
    BY <1>11 DEF vars, locals, object, past
  <1> QED
    BY <1>1, <1>2, <1>3, <1>4, <1>5, <1>6, <1>7, <1>8, <1>9, <1>10, <1>11
       DEF Next, UserStep, MonitorStep

-----------------------------------------------------------------------------
(* The life of the thread, along FlagIsThread.                             *)

\* The monitor's thread moves within its own loop, and leaves it only when
\* running_ is down.
LEMMA LoopMoves ==
    ASSUME TypeOK, Places, MonitorStep
    PROVE  /\ \A u \in Users : pc'[u] = pc[u]
           /\ pc[Monitor] \notin {"none", "returned"}
           /\ pc'[Monitor] \in {"loop", "stat", "load", "store", "record",
                                "alerts", "callback", "returned"}
           /\ pc'[Monitor] = "returned" => ~running
           /\ UNCHANGED <<running, crossed, aborted>>
  <1> USE MonitorAssumption DEF TypeOK, Threads, At
  <1>1. CASE Loop
    BY <1>1 DEF Loop, GoesOn, Goto, object, past
  <1>2. CASE ReadStep(Monitor)
    BY <1>2 DEF ReadStep, ReadStat, LoadPrev, StorePrev, ReadReturns, Goto,
                object, past
  <1>3. CASE Record \/ CheckAlerts \/ Callback
    BY <1>3 DEF Record, CheckAlerts, Callback, Goto, object, past
  <1> QED
    BY <1>1, <1>2, <1>3 DEF MonitorStep

\* A user in read_usage or outside of start() and stop() leaves the thread
\* and the flag alone.
LEMMA UserMoves ==
    ASSUME TypeOK, NEW t \in Users, Enter(t) \/ set_limit(t) \/ ReadStep(t)
    PROVE  /\ \A u \in Threads \ {t} : pc'[u] = pc[u]
           /\ pc[t] \in {"idle", "stat", "load", "store"}
           /\ pc'[t] \in {"idle", "stat", "load", "store", "start", "stop"}
           /\ UNCHANGED <<running, crossed, aborted>>
  BY MonitorAssumption
     DEF TypeOK, Threads, At, Enter, set_limit, ReadStep, ReadStat, LoadPrev,
         StorePrev, ReadReturns, Goto, object, past

\* What the life of the thread consists of.
Life == Places /\ FlagIsThread /\ OnlyCrossingAborts /\ StoppedMeansJoined

\* Every step keeps it.
LEMMA LifeStep ==
    ASSUME TypeOK, Life, [Next]_vars
    PROVE  Life'
  <1> USE MonitorAssumption, FlagTypes
      DEF Life, Places, FlagIsThread, Switching, OnlyCrossingAborts,
          StoppedMeansJoined
  <1>1. CASE MonitorStep
    <2>1. /\ \A u \in Users : pc'[u] = pc[u]
          /\ pc[Monitor] \notin {"none", "returned"}
          /\ pc'[Monitor] \in {"loop", "stat", "load", "store", "record",
                               "alerts", "callback", "returned"}
          /\ pc'[Monitor] = "returned" => ~running
          /\ UNCHANGED <<running, crossed, aborted>>
      BY <1>1, LoopMoves
    <2> QED
      BY <2>1
  <1>2. ASSUME NEW t \in Users, Enter(t) \/ set_limit(t) \/ ReadStep(t)
        PROVE  Life'
    <2>1. /\ \A u \in Threads \ {t} : pc'[u] = pc[u]
          /\ pc[t] \in {"idle", "stat", "load", "store"}
          /\ pc'[t] \in {"idle", "stat", "load", "store", "start", "stop"}
          /\ UNCHANGED <<running, crossed, aborted>>
      BY <1>2, UserMoves
    <2> QED
      BY <2>1 DEF Threads
  <1>3. ASSUME NEW t \in Users, start(t)
        PROVE  Life'
    <2>1. /\ \A u \in Threads \ {t} : pc'[u] = pc[u]
          /\ pc[t] = "start"
          /\ pc'[t] = IF running THEN "idle" ELSE "launch"
          /\ UNCHANGED <<running, aborted>>
          /\ crossed' = (crossed \/ Switching \ {t} # {})
      BY <1>3 DEF TypeOK, Threads, start, At, Goto, Refuses, Cross, object
    <2> QED
      BY <2>1 DEF Threads
  <1>4. ASSUME NEW t \in Users, Launch(t)
        PROVE  Life'
    <2>1. /\ \A u \in Users \ {t} : pc'[u] = pc[u]
          /\ pc[t] = "launch" /\ pc'[t] = "idle" /\ pc'[Monitor] = "loop"
          /\ running' = TRUE /\ aborted' = (pc[Monitor] # "none")
          /\ crossed' = (crossed \/ Switching \ {t} # {})
      BY <1>4 DEF TypeOK, Threads, Launch, At, Cross
    <2> QED
      BY <2>1
  <1>5. ASSUME NEW t \in Users, stop(t)
        PROVE  Life'
    <2>1. /\ \A u \in Threads \ {t} : pc'[u] = pc[u]
          /\ pc[t] = "stop"
          /\ pc'[t] = IF running THEN "clear" ELSE "idle"
          /\ UNCHANGED <<running, aborted>>
          /\ crossed' = (crossed \/ Switching \ {t} # {})
      BY <1>5 DEF TypeOK, Threads, stop, At, Goto, Stops, Cross, object
    <2> QED
      BY <2>1 DEF Threads
  <1>6. ASSUME NEW t \in Users, StopClears(t)
        PROVE  Life'
    <2>1. /\ \A u \in Threads \ {t} : pc'[u] = pc[u]
          /\ pc[t] = "clear"
          /\ pc'[t] = IF pc[Monitor] # "none" THEN "join" ELSE "idle"
          /\ running' = FALSE
          /\ UNCHANGED <<crossed, aborted>>
      BY <1>6 DEF TypeOK, Threads, StopClears, At, Goto, Joinable, past
    <2> QED
      BY <2>1 DEF Threads
  <1>7. ASSUME NEW t \in Users, StopJoins(t)
        PROVE  Life'
    <2>1. /\ \A u \in Users \ {t} : pc'[u] = pc[u]
          /\ pc[t] = "join" /\ pc'[t] = "idle" /\ pc'[Monitor] = "none"
          /\ aborted' = (pc[Monitor] = "none")
          /\ UNCHANGED <<running, crossed>>
      BY <1>7 DEF TypeOK, Threads, StopJoins, At, object
    <2> QED
      BY <2>1
  <1>8. CASE Process \/ UNCHANGED vars
    BY <1>8 DEF Process, vars, object, past
  <1> QED
    BY <1>1, <1>2, <1>3, <1>4, <1>5, <1>6, <1>7, <1>8 DEF Next, UserStep

-----------------------------------------------------------------------------
(* Each tick is reported once, along ReadsAlone.                           *)

\* What no step but those of read_usage and of the process touches.
LEMMA ReadsUntouched ==
    ASSUME TypeOK, Places, ReadsAlone, TicksReportedOnce,
           UNCHANGED <<total, prev, ticks, reported, mixed>>,
           MidRead' \subseteq MidRead,
           \A t \in MidRead' : pc'[t] = pc[t] /\ delta'[t] = delta[t]
    PROVE  ReadsAlone' /\ TicksReportedOnce'
  BY DEF ReadsAlone, TicksReportedOnce

\* Every step keeps it: a read that overlaps no other one moves
\* prev_cpu_time_ to the ticks it saw, and reports the difference.
LEMMA TickStep ==
    ASSUME TypeOK, Places, ReadsAlone, TicksReportedOnce, [Next]_vars
    PROVE  ReadsAlone' /\ TicksReportedOnce'
  <1> USE MonitorAssumption, FlagTypes DEF Threads
  <1>1. ASSUME NEW t \in Threads, ReadStat(t)
        PROVE  ReadsAlone' /\ TicksReportedOnce'
    <2>1. CASE ticks < 0
      <3>1. /\ UNCHANGED <<total, prev, ticks, reported, mixed>>
            /\ \A u \in Threads \ {t} : pc'[u] = pc[u] /\ delta'[u] = delta[u]
            /\ pc'[t] \in {"record", "idle"}
        BY <1>1, <2>1 DEF TypeOK, ReadStat, ReadReturns, Goto, object
      <3> QED
        BY <3>1, ReadsUntouched DEF MidRead
    <2>2. CASE ticks >= 0
      <3>1. /\ UNCHANGED <<prev, ticks, reported>>
            /\ \A u \in Threads \ {t} : pc'[u] = pc[u]
            /\ pc'[t] = "load" /\ total'[t] = ticks
            /\ mixed' = (mixed \/ MidRead # {})
        BY <1>1, <2>2 DEF TypeOK, ReadStat, Goto, object
      <3>2. mixed' \/ (~mixed /\ MidRead' = {t})
        BY <3>1 DEF MidRead
      <3> QED
        BY <2>2, <3>1, <3>2 DEF TypeOK, ReadsAlone, TicksReportedOnce
    <2> QED
      BY <2>1, <2>2 DEF TypeOK
  <1>2. ASSUME NEW t \in Threads, LoadPrev(t)
        PROVE  ReadsAlone' /\ TicksReportedOnce'
    <2>1. /\ UNCHANGED <<total, prev, ticks, reported, mixed>>
          /\ \A u \in Threads \ {t} : pc'[u] = pc[u]
          /\ pc[t] = "load" /\ pc'[t] = "store"
          /\ delta'[t] = (total[t] - prev) % Word
      BY <1>2 DEF TypeOK, LoadPrev, At, Goto, object, past
    <2>2. MidRead' = MidRead /\ t \in MidRead
      BY <2>1 DEF MidRead
    <2>3. prev <= total[t] => delta'[t] = total[t] - prev
      BY <2>1, Difference DEF TypeOK
    <2> QED
      BY <2>1, <2>2, <2>3 DEF ReadsAlone, TicksReportedOnce
  <1>3. ASSUME NEW t \in Threads, StorePrev(t)
        PROVE  ReadsAlone' /\ TicksReportedOnce'
    <2>1. /\ UNCHANGED <<ticks, mixed>>
          /\ \A u \in Threads \ {t} : pc'[u] = pc[u]
          /\ pc[t] = "store" /\ pc'[t] \in {"record", "idle"}
          /\ prev' = total[t]
          /\ reported' = IF mixed THEN 0 ELSE reported + delta[t]
      BY <1>3 DEF TypeOK, StorePrev, PrevAfter, ReadReturns, At, Goto
    <2>2. t \in MidRead /\ MidRead' = MidRead \ {t}
      BY <2>1 DEF MidRead
    <2>3. mixed \/ MidRead' = {}
      BY <2>2 DEF ReadsAlone
    <2> QED
      BY <2>1, <2>2, <2>3 DEF TypeOK, ReadsAlone, TicksReportedOnce
  <1>4. CASE Loop \/ Record \/ CheckAlerts \/ Callback
    <2>1. /\ UNCHANGED <<total, prev, ticks, reported, mixed>>
          /\ \A u \in Threads \ {Monitor} : pc'[u] = pc[u] /\ delta'[u] = delta[u]
          /\ pc'[Monitor] \notin {"load", "store"}
      BY <1>4 DEF TypeOK, Loop, Record, CheckAlerts, Callback, Goto, locals,
                  object, past
    <2> QED
      BY <2>1, ReadsUntouched DEF MidRead
  <1>5. ASSUME NEW t \in Users, Enter(t) \/ set_limit(t) \/ start(t) \/ stop(t)
                                    \/ StopClears(t)
        PROVE  ReadsAlone' /\ TicksReportedOnce'
    <2>1. /\ UNCHANGED <<total, delta, prev, ticks, reported, mixed>>
          /\ \A u \in Threads \ {t} : pc'[u] = pc[u]
          /\ pc'[t] \notin {"load", "store"} \/ pc' = pc
      BY <1>5 DEF TypeOK, Enter, set_limit, start, stop, StopClears, Goto,
                  locals, object, past
    <2> QED
      BY <2>1, ReadsUntouched DEF MidRead
  <1>6. ASSUME NEW t \in Users, Launch(t) \/ StopJoins(t)
        PROVE  ReadsAlone' /\ TicksReportedOnce'
    <2>1. /\ UNCHANGED <<total, delta, prev, ticks, reported, mixed>>
          /\ \A u \in Threads \ {t, Monitor} : pc'[u] = pc[u]
          /\ pc'[t] \notin {"load", "store"}
          /\ pc'[Monitor] \notin {"load", "store"}
      BY <1>6 DEF TypeOK, Launch, StopJoins, locals, object
    <2> QED
      BY <2>1, ReadsUntouched DEF MidRead
  <1>7. CASE Process
    <2>1. /\ UNCHANGED <<pc, total, delta, prev, reported>>
          /\ \/ ticks' \in {ticks + 1, -1} /\ UNCHANGED mixed /\ ticks >= 0
             \/ mixed' = TRUE
      BY <1>7 DEF Process, locals, object
    <2>2. MidRead' = MidRead
      BY <2>1 DEF MidRead
    <2> QED
      BY <2>1, <2>2 DEF TypeOK, MidRead, ReadsAlone, TicksReportedOnce
  <1>8. CASE UNCHANGED vars
    BY <1>8, ReadsUntouched DEF MidRead, vars, locals, object, past
  <1> QED
    BY <1>1, <1>2, <1>3, <1>4, <1>5, <1>6, <1>7, <1>8
       DEF Next, UserStep, MonitorStep, ReadStep

-----------------------------------------------------------------------------
(* The invariants.                                                         *)

\* MonitorInv and TicksReportedOnce hold together at the start.
LEMMA InitInvariant ==
    ASSUME Init
    PROVE  MonitorInv /\ TicksReportedOnce
  <1> USE MonitorAssumption DEF Init, Threads
  <1>1. TypeOK
    <2>1. pc \in [Threads -> Control]
      BY DEF Control
    <2>2. /\ total \in [Threads -> 0..MaxTicks]
          /\ delta \in [Threads -> 0..(Word - 1)]
      OBVIOUS
    <2>3. {running, mixed, crossed, aborted} \subseteq BOOLEAN
      BY Zenon
    <2>4. /\ prev \in 0..MaxTicks /\ size \in 0..HistoryMax /\ limits \in Limits
          /\ ticks \in -1..MaxTicks /\ reported \in Nat
      OBVIOUS
    <2> QED
      BY <2>1, <2>2, <2>3, <2>4, Zenon DEF TypeOK, Control
  <1>2. Places /\ MidRead = {} /\ Switching = {}
    BY DEF Places, MidRead, Switching
  <1>3. ReadsAlone /\ TicksReportedOnce
    BY <1>2 DEF ReadsAlone, TicksReportedOnce
  <1>4. FlagIsThread /\ OnlyCrossingAborts /\ StoppedMeansJoined
    BY <1>2 DEF FlagIsThread, OnlyCrossingAborts, StoppedMeansJoined
  <1> QED
    BY <1>1, <1>2, <1>3, <1>4 DEF MonitorInv

\* The invariant of the thread, with each tick reported once, is inductive.
LEMMA Invariance == Spec => [](MonitorInv /\ TicksReportedOnce)
  <1>1. Init => MonitorInv /\ TicksReportedOnce
    BY InitInvariant
  <1>2. ASSUME MonitorInv, TicksReportedOnce, [Next]_vars
        PROVE  MonitorInv' /\ TicksReportedOnce'
    <2>1. TypeOK' /\ Life'
      BY <1>2, TypeStep, LifeStep DEF MonitorInv, Life
    <2>2. ReadsAlone' /\ TicksReportedOnce'
      BY <1>2, TickStep DEF MonitorInv
    <2> QED
      BY <2>1, <2>2 DEF MonitorInv, Life
  <1> QED
    BY <1>1, <1>2, PTL DEF Spec

\* For any number of threads in start(), stop() and the reads: a join or an
\* assignment of the thread goes wrong only if two were in start() or stop()
\* at a time, and the thread outlives no stop() otherwise
\* (resource_monitor.cpp:21-41).
THEOREM MonitorInvariant == Spec => []MonitorInv
  BY Invariance, PTL

\* Each tick of the process is reported by exactly one read, for any number of
\* reading threads and whatever the word size, unless two reads overlap or the
\* pid goes to a new process (resource_monitor.cpp:78-86).
THEOREM EachTickReportedOnce == Spec => []TicksReportedOnce
  BY Invariance, PTL

\* is_over_limit, get_violations and check_alerts agree on every usage, for
\* any limits and any amount of memory (resource_monitor.cpp:140-160, 206-227).
THEOREM VerdictsAlwaysAgree == Spec => []VerdictsAgree
  <1>1. ASSUME MonitorInv
        PROVE  VerdictsAgree
    <2> SUFFICES ASSUME NEW b \in Memory, NEW d \in 0..(Word - 1)
                 PROVE  LET u == Usage(b, d)
                        IN /\ is_over_limit(u, limits)
                                 <=> get_violations(u, limits) # {}
                           /\ get_violations(u, limits)
                                 \subseteq check_alerts(u, limits)
      BY DEF VerdictsAgree
    <2> DEFINE u == Usage(b, d)
    <2>1. /\ u.memory_bytes = b /\ u.cpu_percent = d /\ u.pids_current = 0
          /\ b \in Nat /\ d \in Nat
      BY MonitorAssumption DEF Usage
    <2>2. /\ limits.memory_bytes \in Nat /\ limits.cpu_percent \in Nat
          /\ limits.pids_max \in Nat
      BY <1>1, MonitorAssumption DEF MonitorInv, TypeOK
    <2>3. is_over_limit(u, limits)
             <=> b > limits.memory_bytes \/ d > limits.cpu_percent
      BY <2>1, <2>2 DEF is_over_limit
    <2>4. /\ "memory" \in get_violations(u, limits) <=> b > limits.memory_bytes
          /\ "cpu" \in get_violations(u, limits) <=> d > limits.cpu_percent
          /\ get_violations(u, limits) \subseteq {"memory", "cpu"}
      BY <2>1 DEF get_violations
    <2>5. /\ b > limits.memory_bytes => "memory" \in check_alerts(u, limits)
          /\ d > limits.cpu_percent => "cpu" \in check_alerts(u, limits)
      <3>1. b > limits.memory_bytes => MemoryLevel(u, limits) # "INFO"
        BY <2>1, <2>2 DEF MemoryLevel
      <3> QED
        BY <2>1, <3>1 DEF check_alerts
    <2>6. is_over_limit(u, limits) <=> get_violations(u, limits) # {}
      BY <2>3, <2>4, Zenon
    <2>7. get_violations(u, limits) \subseteq check_alerts(u, limits)
      BY <2>4, <2>5, Zenon
    <2> QED
      BY <2>6, <2>7
  <1> QED
    BY <1>1, MonitorInvariant, PTL
=============================================================================
