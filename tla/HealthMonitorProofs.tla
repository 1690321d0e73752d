------------------------ MODULE HealthMonitorProofs ------------------------
(***************************************************************************)
(* Proofs about HealthMonitor, for any number of callers, checks and calls *)
(* and any intervals.                                                      *)
(***************************************************************************)
EXTENDS HealthMonitor, FiniteSetTheorems, TLAPS

\* Every step keeps the types, given that a result in hand has a check.
LEMMA TypeStep ==
    ASSUME TypeOK, ResultInHand, [Next]_vars
    PROVE  TypeOK'
  <1> USE HealthAssumption DEF TypeOK, Threads
  <1>1. ASSUME NEW c \in Callers, Enter(c)
        PROVE  TypeOK'
    <2>1. calls[c] + 1 \in 0..MaxCalls
      BY <1>1 DEF Enter
    <2> QED
      BY <1>1, <2>1 DEF Enter, Goto, mapVars, loopVars
  <1>2. ASSUME NEW c \in Callers, Lock(c) \/ Query(c)
        PROVE  TypeOK'
    BY <1>2 DEF Lock, Query, Goto, callVars, mapVars, loopVars
  <1>3. ASSUME NEW c \in Callers, register_check(c)
        PROVE  TypeOK'
    BY <1>3 DEF register_check, StatusRegistered, Goto, callVars, loopVars
  <1>4. ASSUME NEW c \in Callers, set_interval_ms(c)
        PROVE  TypeOK'
    <2>1. calls[c] + 1 \in 0..MaxCalls
      BY <1>4 DEF set_interval_ms
    <2> QED
      BY <1>4, <2>1 DEF set_interval_ms, mapVars, loopVars
  <1>5. CASE start
    <2>1. starts + 1 \in 0..MaxStarts
      BY <1>5 DEF start
    <2>2. pc' \in [Threads -> {"none", "idle", "lock", "in", "join", "loop",
                               "round", "store", "sleep", "sleep_for",
                               "returned"}]
      BY <1>5 DEF start
    <2> QED
      BY <1>5, <2>1, <2>2 DEF start, callVars, mapVars, loopVars
  <1>6. CASE stop \/ Join
    <2>1. CASE stop
      <3>1. /\ pc' \in [Threads -> {"none", "idle", "lock", "in", "join", "loop",
                                    "round", "store", "sleep", "sleep_for",
                                    "returned"}]
            /\ pc'[Monitor] = pc[Monitor]
        BY <2>1 DEF stop, Goto
      <3>2. running' = FALSE /\ late' = 0
        BY <2>1, Zenon DEF stop
      <3>3. UNCHANGED <<arg, calls, starts, mutex, interval, checks, statuses,
                        latest, todo, fnid, result, slept, stolen>>
        BY <2>1 DEF stop, callVars, mapVars, loopVars
      <3>4. {running', stolen'} \subseteq BOOLEAN
        BY <3>2, <3>3, Zenon
      <3>5. late' \in 0..2
        BY <3>2
      <3>6. \E n \in Intervals :
               slept' <= n /\ (pc'[Monitor] = "sleep_for" => slept' < n)
        BY <3>1, <3>3
      <3> HIDE DEF TypeOK
      <3>7. /\ arg' \in [Callers -> Ids \cup {None}]
            /\ calls' \in [Callers -> 0..MaxCalls]
            /\ starts' \in 0..MaxStarts
            /\ mutex' \in Callers \cup {Monitor, None}
            /\ interval' \in Intervals
            /\ checks' \subseteq Ids /\ todo' \subseteq checks'
            /\ {statuses', latest'} \subseteq
                  [Ids -> {"absent", "pending", "ok", "unhealthy"}]
            /\ fnid' \in checks' \cup {None}
            /\ result' \in {"absent", "ok", "unhealthy"}
            /\ slept' \in Nat
        BY <3>3 DEF TypeOK
      <3> QED
        BY <3>1, <3>4, <3>5, <3>6, <3>7 DEF TypeOK
    <2>2. CASE Join
      BY <2>2 DEF Join, callVars, mapVars, loopVars
    <2> QED
      BY <1>6, <2>1, <2>2
  <1>7. CASE Loop
    BY <1>7 DEF Loop, Goto, callVars, mapVars, loopVars
  <1>8. CASE LockMonitor
    BY <1>8 DEF LockMonitor, Round, Begins, Goto, callVars, mapVars
  <1>9. CASE CallCheck
    <2>1. PICK i \in todo :
             /\ todo' = todo \ {i} /\ fnid' = i
             /\ result' \in {"ok", "unhealthy"}
             /\ latest' = [latest EXCEPT ![i] = result']
      BY <1>9 DEF CallCheck
    <2> QED
      BY <1>9, <2>1 DEF CallCheck, Goto, callVars
  <1>10. CASE Store
    <2>1. fnid \in Ids
      BY <1>10 DEF Store, ResultInHand
    <2> QED
      BY <1>10, <2>1 DEF Store, Goto, callVars
  <1>11. CASE Unlock
    BY <1>11 DEF Unlock, Goto, callVars, mapVars
  <1>12. CASE SleepLoop \/ Sleep
    <2>1. CASE SleepLoop
      <3>1. interval \in Intervals /\ slept < interval /\ slept <= interval
        BY <2>1 DEF SleepLoop, SleepsOn
      <3> QED
        BY <2>1, <3>1 DEF SleepLoop, Goto, callVars, mapVars, loopVars
    <2>2. CASE Sleep
      <3>1. PICK n \in Intervals : n \in Nat /\ slept < n
        BY <2>2 DEF Sleep
      <3>2. slept + 1 \in Nat /\ slept + 1 <= n /\ late' \in 0..2
        BY <2>2, <3>1 DEF Sleep, Begins
      <3>3. pc'[Monitor] # "sleep_for"
        BY <2>2 DEF Sleep, Goto
      <3> QED
        BY <2>2, <3>2, <3>3 DEF Sleep, Goto, callVars, mapVars
    <2> QED
      BY <1>12, <2>1, <2>2
  <1>13. CASE EndOfScope
    <2>1. stolen' \in BOOLEAN
      BY <1>13 DEF EndOfScope
    <2> QED
      BY <1>13, <2>1 DEF EndOfScope, Goto, callVars, mapVars, loopVars
  <1>14. CASE UNCHANGED vars
    BY <1>14 DEF vars, callVars, mapVars, loopVars
  <1> QED
    BY <1>1, <1>2, <1>3, <1>4, <1>5, <1>6, <1>7, <1>8, <1>9, <1>10, <1>11,
       <1>12, <1>13, <1>14 DEF Next, CallStep, MonitorStep

-----------------------------------------------------------------------------
(* What mutex_ guarantees, along HealthInv.                                *)

\* A set whose members are all one thing has at most one member.
LEMMA AtMostOneMember ==
    ASSUME NEW S, NEW x, \A t \in S : x = t
    PROVE  Cardinality(S) <= 1
  <1>1. S = {} \/ S = {x}
    OBVIOUS
  <1>2. Cardinality({}) = 0 /\ Cardinality({x}) = 1
    BY FS_EmptySet, FS_Singleton, Zenon
  <1> QED
    BY <1>1, <1>2

\* The owner of mutex_ alone is in the maps.
LEMMA OwnerExcludes ==
    ASSUME OwnerInside
    PROVE  Exclusion
  BY AtMostOneMember DEF OwnerInside, Exclusion

\* Each step keeps the life of the monitor thread: start() and stop() are
\* called by one thread, and the loop ends only when the flag is down.
LEMMA LifeStep ==
    ASSUME TypeOK, ThreadLife, [Next]_vars
    PROVE  ThreadLife'
  <1> USE HealthAssumption DEF TypeOK, ThreadLife, Threads
  <1>1. ASSUME NEW c \in Callers, Enter(c) \/ Lock(c) \/ register_check(c)
                                    \/ Query(c) \/ set_interval_ms(c)
        PROVE  ThreadLife'
    <2>1. /\ running' = running /\ pc'[c] \in {"idle", "lock", "in"}
          /\ \A t \in Threads \ {c} : pc'[t] = pc[t]
      BY <1>1 DEF Enter, Lock, register_check, Query, set_interval_ms, Goto
    <2> QED
      BY <2>1
  <1>2. CASE start
    <2>1. running' = TRUE /\ pc'[Controller] = "idle"
          /\ (\A c \in Callers : pc'[c] = pc[c])
          /\ pc'[Monitor] = IF running THEN pc[Monitor] ELSE "loop"
      BY <1>2 DEF start
    <2> QED
      BY <1>2, <2>1 DEF start
  <1>3. CASE stop
    BY <1>3 DEF stop, Goto
  <1>4. CASE Join
    BY <1>4 DEF Join
  <1>5. CASE MonitorStep
    <2>1. /\ running' = running
          /\ \A t \in Threads \ {Monitor} : pc'[t] = pc[t]
          /\ pc[Monitor] # "none"
          /\ pc'[Monitor] \in {"loop", "lock", "round", "store", "sleep",
                               "sleep_for", "returned"}
          /\ pc'[Monitor] = "returned" => ~running
      BY <1>5 DEF MonitorStep, Loop, LockMonitor, CallCheck, Store, Unlock,
                  SleepLoop, Sleep, EndOfScope, Goto, GoesOn
    <2> QED
      BY <2>1
  <1>6. CASE UNCHANGED vars
    BY <1>6 DEF vars
  <1> QED
    BY <1>1, <1>2, <1>3, <1>4, <1>5, <1>6 DEF Next, CallStep

\* Each step keeps the owner of mutex_ and the users of the maps together,
\* unless it is the second unlock and a caller loses the lock.
LEMMA OwnerStep ==
    ASSUME TypeOK, ThreadLife, OwnerInside, [Next]_vars
    PROVE  OwnerInside'
  <1> USE HealthAssumption DEF TypeOK, OwnerInside, Inside, Threads
  <1>1. ASSUME NEW c \in Callers, Enter(c) \/ set_interval_ms(c)
        PROVE  OwnerInside'
    BY <1>1 DEF Enter, set_interval_ms, Goto
  <1>2. ASSUME NEW c \in Callers, Lock(c)
        PROVE  OwnerInside'
    BY <1>2 DEF Lock, Goto
  <1>3. ASSUME NEW c \in Callers, register_check(c) \/ Query(c)
        PROVE  OwnerInside'
    BY <1>3 DEF register_check, Query, Goto
  <1>4. CASE start \/ stop \/ Join
    BY <1>4 DEF start, stop, Join, Goto, ThreadLife
  <1>5. CASE Loop \/ CallCheck \/ Store \/ SleepLoop \/ Sleep
    BY <1>5 DEF Loop, CallCheck, Store, SleepLoop, Sleep, Goto
  <1>6. CASE LockMonitor
    BY <1>6 DEF LockMonitor, MayEnter, Goto
  <1>7. CASE Unlock
    BY <1>7 DEF Unlock, Goto
  <1>8. CASE EndOfScope
    BY <1>8 DEF EndOfScope, Goto
  <1>9. CASE UNCHANGED vars
    BY <1>9 DEF vars
  <1> QED
    BY <1>1, <1>2, <1>3, <1>4, <1>5, <1>6, <1>7, <1>8, <1>9
       DEF Next, CallStep, MonitorStep

\* Each step keeps fnid and statuses_ in line with the results of the checks:
\* while the monitor has a result in hand nobody else is in the maps.
LEMMA StatusStep ==
    ASSUME TypeOK, ThreadLife, OwnerInside, ResultInHand, StatusIsLatest,
           [Next]_vars
    PROVE  ResultInHand' /\ StatusIsLatest'
  <1> USE HealthAssumption DEF TypeOK, ResultInHand, StatusIsLatest, Threads
  <1>1. ASSUME NEW c \in Callers, Enter(c) \/ Lock(c) \/ Query(c)
                                     \/ set_interval_ms(c)
        PROVE  ResultInHand' /\ StatusIsLatest'
    BY <1>1 DEF Enter, Lock, Query, set_interval_ms, Goto, mapVars, loopVars
  <1>2. ASSUME NEW c \in Callers, register_check(c)
        PROVE  ResultInHand' /\ StatusIsLatest'
    <2>1. stolen \/ pc[Monitor] # "store"
      BY <1>2 DEF register_check, OwnerInside, Inside
    <2> QED
      BY <1>2, <2>1 DEF register_check, StatusRegistered, Goto, loopVars
  <1>3. CASE start \/ stop \/ Join
    BY <1>3 DEF start, stop, Join, Goto, ThreadLife, mapVars, loopVars
  <1>4. CASE Loop \/ LockMonitor \/ Unlock \/ SleepLoop \/ Sleep \/ EndOfScope
    BY <1>4 DEF Loop, LockMonitor, Unlock, SleepLoop, Sleep, EndOfScope, Goto,
                mapVars, loopVars
  <1>5. CASE CallCheck
    <2>1. PICK i \in todo :
             /\ fnid' = i
             /\ latest' = [latest EXCEPT ![i] = result']
      BY <1>5 DEF CallCheck
    <2>2. \A k \in Ids \ {i} : latest'[k] = latest[k]
      BY <2>1
    <2>3. fnid = None /\ i # None
      BY <1>5 DEF CallCheck
    <2> QED
      BY <1>5, <2>1, <2>2, <2>3 DEF CallCheck, Goto
  <1>6. CASE Store
    BY <1>6 DEF Store, Goto
  <1>7. CASE UNCHANGED vars
    BY <1>7 DEF vars, mapVars, loopVars
  <1> QED
    BY <1>1, <1>2, <1>3, <1>4, <1>5, <1>6, <1>7
       DEF Next, CallStep, MonitorStep

\* In spite of the double unlock: the types, the life of the monitor thread,
\* the exclusion of the users of checks_ and statuses_ and the truth of the
\* statuses hold in every reachable state, for any number of callers
\* (health_monitor.cpp:9-77).
THEOREM HealthInvariant == Spec => []HealthInv
  <1>1. Init => HealthInv
    <2> SUFFICES ASSUME Init
                 PROVE  HealthInv
      OBVIOUS
    <2> USE HealthAssumption DEF Init, Threads
    <2>1. TypeOK
      <3>1. MaxCalls \in Nat /\ MaxStarts \in Nat
        OBVIOUS
      <3>2. /\ slept \in Nat /\ result \in {"absent", "ok", "unhealthy"}
            /\ \E n \in Intervals : /\ slept <= n
                                    /\ pc[Monitor] = "sleep_for" => slept < n
        OBVIOUS
      <3>3. pc \in [Threads -> {"none", "idle", "lock", "in", "join", "loop",
                               "round", "store", "sleep", "sleep_for",
                               "returned"}]
        OBVIOUS
      <3>4. /\ arg \in [Callers -> Ids \cup {None}]
            /\ calls \in [Callers -> 0..MaxCalls]
            /\ {statuses, latest} \subseteq
                  [Ids -> {"absent", "pending", "ok", "unhealthy"}]
        BY <3>1
      <3>5. /\ starts \in 0..MaxStarts /\ late \in 0..2
            /\ mutex \in Callers \cup {Monitor, None}
            /\ interval \in Intervals
            /\ checks \subseteq Ids /\ todo \subseteq checks
            /\ fnid \in checks \cup {None}
        BY <3>1
      <3>6. {running, stolen} \subseteq BOOLEAN
        BY Zenon
      <3> QED
        BY <3>2, <3>3, <3>4, <3>5, <3>6, Zenon DEF TypeOK
    <2>2. ThreadLife /\ ResultInHand /\ StatusIsLatest
      BY DEF ThreadLife, ResultInHand, StatusIsLatest
    <2>3. OwnerInside
      BY DEF OwnerInside, Inside
    <2> QED
      BY <2>1, <2>2, <2>3, OwnerExcludes DEF HealthInv
  <1>2. ASSUME HealthInv, [Next]_vars
        PROVE  HealthInv'
    <2>1. TypeOK' /\ ThreadLife' /\ OwnerInside'
      BY <1>2, TypeStep, LifeStep, OwnerStep DEF HealthInv
    <2>2. ResultInHand' /\ StatusIsLatest'
      BY <1>2, StatusStep DEF HealthInv
    <2>3. Exclusion'
      <3>1. stolen' \/ Cardinality(Inside') <= 1
        BY <2>1, AtMostOneMember DEF OwnerInside
      <3> QED
        BY <3>1 DEF Exclusion
    <2> QED
      BY <2>1, <2>2, <2>3 DEF HealthInv
  <1> QED
    BY <1>1, <1>2, PTL DEF Spec

\* Once stop() has cleared running_ the monitor thread begins at most one more
\* round of checks or sleep of 100 ms, whatever the interval and wherever the
\* thread was (health_monitor.cpp:26, 55-75).
THEOREM ShutdownIsQuick == Spec => []QuickShutdown
  <1>1. Init => QuickShutdown
    BY DEF Init, QuickShutdown
  <1>2. ASSUME HealthInv, QuickShutdown, [Next]_vars
        PROVE  QuickShutdown'
    <2> USE HealthAssumption DEF QuickShutdown
    <2>1. TypeOK /\ ThreadLife
      BY <1>2 DEF HealthInv
    <2>2. pc \in [Threads -> {"none", "idle", "lock", "in", "join", "loop",
                              "round", "store", "sleep", "sleep_for",
                              "returned"}]
      BY <2>1 DEF TypeOK
    <2>3. ASSUME NEW c \in Callers, Enter(c) \/ CallStep(c) \/ set_interval_ms(c)
          PROVE  QuickShutdown'
      <3>1. UNCHANGED <<running, late>> /\ pc'[Monitor] = pc[Monitor]
        BY <2>2, <2>3 DEF Enter, CallStep, Lock, register_check, Query,
                          set_interval_ms, Goto, Threads
      <3> QED
        BY <1>2, <3>1
    <2>4. CASE start
      BY <1>2, <2>4 DEF start
    <2>5. CASE stop
      BY <2>5 DEF stop
    <2>6. CASE Join
      BY <1>2, <2>2, <2>6 DEF Join, Threads
    <2>7. CASE Loop
      BY <1>2, <2>2, <2>7 DEF Loop, GoesOn, Goto, Threads
    <2>8. CASE LockMonitor \/ Sleep
      <3>1. /\ pc[Monitor] \in {"lock", "sleep_for"}
            /\ pc'[Monitor] \in {"round", "sleep"}
            /\ Begins /\ running' = running
        BY <2>2, <2>8 DEF LockMonitor, Sleep, Goto, Threads
      <3> QED
        BY <1>2, <3>1 DEF Begins
    <2>9. CASE CallCheck \/ Store \/ Unlock \/ EndOfScope
      <3>1. /\ UNCHANGED <<running, late>>
            /\ pc'[Monitor] \in {"round", "store", "sleep", "loop"}
        BY <2>2, <2>9 DEF CallCheck, Store, Unlock, EndOfScope, Goto, Threads
      <3> QED
        BY <1>2, <3>1
    <2>10. CASE SleepLoop
      BY <1>2, <2>10 DEF SleepLoop, SleepsOn
    <2>11. CASE UNCHANGED vars
      BY <1>2, <2>11 DEF vars
    <2> QED
      BY <1>2, <2>3, <2>4, <2>5, <2>6, <2>7, <2>8, <2>9, <2>10, <2>11
         DEF Next, MonitorStep
  <1> QED
    BY <1>1, <1>2, HealthInvariant, PTL DEF Spec
=============================================================================
