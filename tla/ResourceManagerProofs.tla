----------------------- MODULE ResourceManagerProofs -----------------------
(***************************************************************************)
(* Proofs about ResourceManager, for any number of users, ids and monitors *)
(* (ManagerInv is the inductive invariant; see module ResourceManager).    *)
(***************************************************************************)
EXTENDS ResourceManager, FiniteSetTheorems, TLAPS

Control == {"none", "idle", "lock", "start", "reading", "stop", "join",
            "stopped", "dropping", "loop", "round", "returned"}

CallRecords == [op : Operations \cup {None}, id : Ids \cup {None},
                m : 0..MaxMonitors]

\* The threads of monitors are no callers.
LEMMA ThreadFacts ==
    /\ Callers \subseteq Threads /\ Mons \subseteq Threads
    /\ Mons \subseteq Nat /\ 0 \notin Mons /\ Callers \cap Mons = {}
    /\ Health \in Callers /\ Users \subseteq Callers
    /\ \A m : m \in Mons <=> m \in 0..MaxMonitors /\ m # 0
  BY ManagerAssumption DEF Threads, Mons, Callers

\* What a call that goes on to another statement changes.
LEMMA ContinueEffect ==
    ASSUME TypeOK, NEW c \in Callers, NEW where \in Control,
           NEW op \in Operations \cup {None}, NEW m \in 0..MaxMonitors,
           Continue(c, where, op, m)
    PROVE  /\ pc' \in [Threads -> Control] /\ pc'[c] = where
           /\ \A t \in Threads \ {c} : pc'[t] = pc[t]
           /\ call' \in [Callers -> CallRecords]
           /\ call'[c].op = op /\ call'[c].m = m /\ call'[c].id = call[c].id
           /\ \A d \in Callers \ {c} : call'[d] = call[d]
  <1>1. /\ pc' \in [Threads -> Control] /\ pc'[c] = where
        /\ \A t \in Threads \ {c} : pc'[t] = pc[t]
    BY ThreadFacts DEF TypeOK, Continue, Goto, Control
  <1>2. call[c] \in CallRecords /\ call \in [Callers -> CallRecords]
    BY DEF TypeOK, CallRecords
  <1>3. call' = [call EXCEPT ![c] = [call[c] EXCEPT !.op = op, !.m = m]]
    BY <1>2 DEF Continue, CallRecords
  <1>4. [call[c] EXCEPT !.op = op, !.m = m] \in CallRecords
    BY <1>2 DEF CallRecords
  <1>5. /\ call' \in [Callers -> CallRecords]
        /\ call'[c] = [call[c] EXCEPT !.op = op, !.m = m]
        /\ \A d \in Callers \ {c} : call'[d] = call[d]
    BY <1>2, <1>3, <1>4
  <1>6. call'[c].op = op /\ call'[c].m = m /\ call'[c].id = call[c].id
    BY <1>2, <1>5 DEF CallRecords
  <1> QED
    BY <1>1, <1>5, <1>6

\* What the return from a call changes.
LEMMA ReturnEffect ==
    ASSUME TypeOK, NEW c \in Callers, Return(c)
    PROVE  /\ pc' \in [Threads -> Control] /\ pc'[c] = "idle"
           /\ \A t \in Threads \ {c} : pc'[t] = pc[t]
           /\ call' \in [Callers -> CallRecords]
           /\ call'[c] = NoCall
           /\ \A d \in Callers \ {c} : call'[d] = call[d]
  <1>1. NoCall \in CallRecords
    BY ManagerAssumption DEF NoCall, CallRecords
  <1> QED
    BY <1>1, ThreadFacts DEF TypeOK, Return, Goto, Control, CallRecords

\* What a step that moves one thread changes.
LEMMA GotoEffect ==
    ASSUME TypeOK, NEW t \in Threads, NEW where \in Control, Goto(t, where)
    PROVE  /\ pc' \in [Threads -> Control] /\ pc'[t] = where
           /\ \A u \in Threads \ {t} : pc'[u] = pc[u]
  BY DEF TypeOK, Goto, Control

\* A call without a monitor in hand.
LEMMA NoCallFields == NoCall.op = None /\ NoCall.id = None /\ NoCall.m = 0
  BY DEF NoCall

\* A call that returns leaves the others as they are.
LEMMA ReturnShape ==
    ASSUME CallShape, NEW c \in Callers, pc'[c] = "idle", call'[c] = NoCall,
           \A d \in Callers \ {c} : pc'[d] = pc[d] /\ call'[d] = call[d] /\ held'[d] = held[d]
    PROVE  CallShape'
  <1> SUFFICES ASSUME NEW d \in Callers
      PROVE  (/\ pc[d] \in {"idle", "lock", "start", "reading", "stop", "join", "stopped",
                            "dropping"}
              /\ pc[d] = "idle" => call[d] = NoCall
              /\ pc[d] = "lock" =>
                    call[d].op \in {"add", "remove", "get_monitor", "stats"}
              /\ pc[d] = "start" => call[d].op = "add"
              /\ pc[d] = "reading" => call[d].op = "stats"
              /\ pc[d] = "dropping" => call[d].op = "destroy"
              /\ Ending(d) => call[d].op \in {"add", "remove", "erase", "release", "destroy"}
              /\ Ending(d) <=> call[d].m # 0
              /\ call[d].op \in {"add", "remove", "erase", "get_monitor"} =>
                    call[d].id \in Ids
              /\ call[d].op = "stats" <=> d = Health /\ pc[d] # "idle"
              /\ call[d].op = "get_monitor" => held[d] = 0)'
    BY DEF CallShape
  <1>1. CASE d = c
    BY <1>1, NoCallFields, ManagerAssumption DEF Ending, Operations
  <1>2. CASE d # c
    BY <1>2 DEF CallShape, Ending
  <1> QED
    BY <1>1, <1>2

\* What each caller's call is made of.
LEMMA CallTypes ==
    ASSUME TypeOK, NEW c \in Callers
    PROVE  /\ call[c].op \in Operations \cup {None}
           /\ call[c].id \in Ids \cup {None}
           /\ call[c].m \in 0..MaxMonitors
  BY DEF TypeOK

-----------------------------------------------------------------------------
(* Steps of a caller that leave the monitors and their threads alone.      *)

\* What ManagerInv says of monitors and their threads.
Ownership == NoLostMonitor /\ OneStopper /\ LastOwner /\ FlagIsThread /\ DeadIsGone

\* A caller that is not in stop() and does not go there keeps it.
LEMMA QuietStep ==
    ASSUME TypeOK, CallShape, Ownership, NEW c \in Callers,
           UNCHANGED <<monitors, held, running, dead>>,
           \A t \in Threads \ {c} : pc'[t] = pc[t],
           \A d \in Callers \ {c} : call'[d] = call[d],
           call[c].m = 0, call'[c].m = 0,
           ~Ending(c), ~Ending(c)', Holds(c)' => call'[c].op # "add"
    PROVE  Ownership'
  <1> USE ThreadFacts DEF Ownership
  <1>1. /\ \A m \in Mons : pc'[m] = pc[m] /\ running'[m] = running[m]
        /\ \A d \in Callers : call'[d].m = call[d].m
    OBVIOUS
  <1>2. NoLostMonitor'
    BY <1>1 DEF NoLostMonitor, Shared
  <1>3. OneStopper'
    BY <1>1 DEF OneStopper
  <1>4. LastOwner'
    <2>1. \A d \in Callers : Ending(d)' => d # c /\ Ending(d)
      BY DEF Ending
    <2>2. \A d \in Callers : Holds(d)' /\ call'[d].op = "add"
                               => d # c /\ Holds(d)
      BY <2>1 DEF Holds, Ending
    <2>3. \A d \in Callers : Ending(d)' =>
             IF call'[d].op = "remove"
             THEN monitors'[call'[d].id] = call'[d].m
             ELSE /\ \A e \in Callers : held'[e] # call'[d].m
                  /\ \A i \in Ids : monitors'[i] # call'[d].m
      BY <2>1 DEF LastOwner, Shared
    <2> QED
      BY <2>1, <2>2, <2>3 DEF LastOwner, Shared
  <1>5. FlagIsThread'
    <2>1. \A d \in Callers : pc[d] \in {"join", "stopped"} \/ pc'[d] \in {"join", "stopped"}
              => pc'[d] = pc[d] /\ call'[d] = call[d]
      BY DEF Ending
    <2>2. \A d \in Callers : pc[d] = "stopped" => call[d].m \in Mons
      BY CallTypes DEF CallShape, Ending
    <2> QED
      BY <1>1, <2>1, <2>2 DEF FlagIsThread
  <1>6. DeadIsGone'
    <2>1. dead \subseteq Mons
      BY DEF TypeOK
    <2> QED
      BY <1>1, <2>1 DEF DeadIsGone, Shared
  <1> QED
    BY <1>2, <1>3, <1>4, <1>5, <1>6

\* The bound on monitors is kept by a step that adds none and starts no add.
LEMMA SameNumber ==
    ASSUME TypeOK, Numbered, UNCHANGED <<created, dead>>, Adding' \subseteq Adding,
           \A d \in Callers : call'[d].m <= created
    PROVE  Numbered'
  <1>1. IsFiniteSet(Adding') /\ Cardinality(Adding') <= Cardinality(Adding)
    BY FS_Subset DEF Numbered
  <1>2. Cardinality(Adding) \in Nat /\ Cardinality(Adding') \in Nat
    BY <1>1, FS_CardinalityType DEF Numbered
  <1>3. created \in Nat /\ MaxMonitors \in Nat
    BY ManagerAssumption DEF TypeOK
  <1> QED
    BY <1>1, <1>2, <1>3 DEF Numbered

\* A call begins; the callers that wait to add a monitor stay within the bound.
LEMMA EnterStep ==
    ASSUME ManagerInv, NEW c \in Callers, NEW op \in Operations,
           NEW i \in Ids \cup {None}, Enter(c, op, i),
           \/ op \in {"add", "remove", "get_monitor"} /\ i \in Ids /\ Up /\ c # Health
           \/ op = "stats" /\ c = Health /\ phase \in {"up", "torn"}
    PROVE  ManagerInv'
  <1> USE ManagerAssumption, ThreadFacts DEF ManagerInv
  <1>1. /\ pc' \in [Threads -> Control] /\ pc'[c] = "lock" /\ pc[c] = "idle"
        /\ \A t \in Threads \ {c} : pc'[t] = pc[t]
    BY GotoEffect DEF Enter, Control
  <1>2. /\ call' \in [Callers -> CallRecords]
        /\ call'[c] = [op |-> op, id |-> i, m |-> 0]
        /\ \A d \in Callers \ {c} : call'[d] = call[d]
    BY DEF Enter, TypeOK, CallRecords
  <1>3. UNCHANGED <<mutex, monitors, held, running, dead, created, todo, phase, tidy>>
    BY DEF Enter, map
  <1>4. /\ call'[c].op = op /\ call'[c].id = i /\ call'[c].m = 0
        /\ call[c].m = 0 /\ call[c].op = None
    BY <1>1, <1>2, NoCallFields DEF CallShape
  <1>5. TypeOK'
    BY <1>1, <1>2, <1>3 DEF TypeOK, Control, CallRecords
  <1>6. CallShape'
    BY <1>1, <1>2, <1>3, <1>4 DEF CallShape, Ending, Enter
  <1>7. Ownership'
    BY <1>1, <1>2, <1>3, <1>4, QuietStep DEF Ownership, Ending, Holds
  <1>8. CallsFitPhase'
    <2>1. \A d \in Callers : Holds(d)' => mutex' = d
      BY <1>1, <1>2, <1>3 DEF CallsFitPhase, Holds, Ending
    <2>2. \A d \in Callers :
             IF Up' THEN call'[d].op # "destroy"
             ELSE call'[d].op \in {None, "stats", "release", "destroy"}
      BY <1>2, <1>3, <1>4 DEF CallsFitPhase, Up
    <2>3. phase' \in {"health_stopped", "destroyed"} => pc'[Health] = "idle"
      BY <1>1, <1>3 DEF CallsFitPhase, Up
    <2>4. todo' # {} => pc'[Health] = "reading"
      BY <1>1, <1>3 DEF CallsFitPhase
    <2>5. Up' => todo' \subseteq {monitors'[k] : k \in Ids}
      BY <1>3 DEF CallsFitPhase, Up
    <2> QED
      BY <1>3, <2>1, <2>2, <2>3, <2>4, <2>5 DEF CallsFitPhase
  <1>9. Numbered'
    <2>1. \A d \in Callers : call'[d].m <= created
      BY <1>2, <1>4 DEF Numbered, TypeOK
    <2>2. CASE op # "add"
      <3>1. Adding' \subseteq Adding
        BY <1>1, <1>2, <1>4, <2>2 DEF Adding
      <3> QED
        BY <1>3, <2>1, <3>1, SameNumber
    <2>3. CASE op = "add"
      <3>1. Adding' = Adding \cup {c} /\ c \notin Adding
        <4>1. c \notin Adding /\ c \in Adding'
          BY <1>1, <1>4, <2>3 DEF Adding
        <4>2. \A d \in Callers \ {c} : d \in Adding' <=> d \in Adding
          BY <1>1, <1>2 DEF Adding
        <4>3. Adding \subseteq Callers /\ Adding' \subseteq Callers
          BY DEF Adding
        <4> QED
          BY <4>1, <4>2, <4>3
      <3>2. /\ IsFiniteSet(Adding')
            /\ Cardinality(Adding') = Cardinality(Adding) + 1
        BY <3>1, FS_AddElement DEF Numbered
      <3>3. created + Cardinality(Adding) < MaxMonitors
        BY <2>3 DEF Enter
      <3>4. Cardinality(Adding) \in Nat /\ created \in Nat
        BY FS_CardinalityType DEF Numbered, TypeOK
      <3> QED
        BY <1>3, <2>1, <3>2, <3>3, <3>4 DEF Numbered
    <2> QED
      BY <2>2, <2>3
  <1> QED
    BY <1>5, <1>6, <1>7, <1>8, <1>9 DEF Ownership

\* What a step of a user other than the end of main() does to the phase of
\* main() and to the mutex.
LEMMA UserPhase ==
    ASSUME TypeOK, CallsFitPhase, NEW c \in Callers, c # Health,
           UNCHANGED <<phase, tidy, todo>>,
           \A t \in Callers \ {c} : pc'[t] = pc[t] /\ call'[t] = call[t],
           Holds(c)' => mutex' = c,
           mutex' = mutex \/ mutex \in {None, c},
           monitors' = monitors \/ mutex \in {None, c} \/ ~Up,
           IF Up THEN call'[c].op # "destroy"
                 ELSE call'[c].op \in {None, "stats", "release", "destroy"}
    PROVE  CallsFitPhase'
  <1> USE ManagerAssumption, ThreadFacts
  <1>1. \A d \in Callers \ {c} : Holds(d)' => mutex = d
    BY DEF CallsFitPhase, Holds, Ending
  <1>2. \A d \in Callers : Holds(d)' => mutex' = d
    BY <1>1
  <1>3. \A d \in Callers :
           IF Up' THEN call'[d].op # "destroy"
           ELSE call'[d].op \in {None, "stats", "release", "destroy"}
    BY DEF CallsFitPhase, Up
  <1>4. pc'[Health] = pc[Health]
    OBVIOUS
  <1>5. Up' => todo' \subseteq {monitors'[k] : k \in Ids}
    <2>1. mutex \in {None, c} => todo = {}
      BY DEF CallsFitPhase, Holds
    <2> QED
      BY <2>1 DEF CallsFitPhase, Up
  <1> QED
    BY <1>2, <1>3, <1>4, <1>5 DEF CallsFitPhase

\* Who is in stop() of a monitor that an entry names holds the mutex.
LEMMA EntryEnded ==
    ASSUME CallShape, CallsFitPhase, LastOwner,
           NEW d \in Callers, NEW i \in Ids,
           monitors[i] # 0, call[d].m = monitors[i]
    PROVE  call[d].op = "remove" /\ Ending(d) /\ mutex = d
  <1>1. Ending(d)
    BY DEF CallShape
  <1>2. call[d].op = "remove"
    BY <1>1 DEF LastOwner
  <1> QED
    BY <1>1, <1>2 DEF CallsFitPhase, Holds

\* add_monitor: the new monitor takes the entry of the old one.
LEMMA AddStep ==
    ASSUME ManagerInv, NEW c \in Callers, add_monitor(c)
    PROVE  ManagerInv'
  <1> USE ManagerAssumption, ThreadFacts DEF ManagerInv
  <1> DEFINE i == call[c].id
             old == monitors[i]
             new == created + 1
             quiet == old = 0 \/ Shared(old)
  <1>1. /\ pc[c] = "lock" /\ call[c].op = "add" /\ mutex = None /\ i \in Ids
        /\ c # Health /\ call[c].m = 0
    BY DEF add_monitor, Locking, CallShape, Ending
  <1>2. new \in 1..MaxMonitors /\ old \in 0..created /\ created \in Nat
    <2>1. c \in Adding
      BY <1>1 DEF Adding
    <2>2. Cardinality(Adding) \in Nat /\ Cardinality(Adding) # 0
      BY <2>1, FS_CardinalityType, FS_EmptySet DEF Numbered
    <2> QED
      BY <1>1, <2>2 DEF Numbered, TypeOK
  <1>3. /\ pc' \in [Threads -> Control] /\ pc'[c] = IF quiet THEN "start" ELSE "stop"
        /\ \A t \in Threads \ {c} : pc'[t] = pc[t]
        /\ call' \in [Callers -> CallRecords]
        /\ call'[c].op = "add" /\ call'[c].id = i
        /\ call'[c].m = IF quiet THEN 0 ELSE old
        /\ \A d \in Callers \ {c} : call'[d] = call[d]
    <2>1. "add" \in Operations /\ "start" \in Control /\ "stop" \in Control
      BY DEF Operations, Control
    <2>2. 0 \in 0..MaxMonitors /\ old \in 0..MaxMonitors
      BY <1>2
    <2>3. CASE quiet
      <3>1. Continue(c, "start", "add", 0)
        BY <2>3 DEF add_monitor
      <3> QED
        BY <2>1, <2>2, <2>3, <3>1, ContinueEffect
    <2>4. CASE ~quiet
      <3>1. Continue(c, "stop", "add", old)
        BY <2>4 DEF add_monitor
      <3> QED
        BY <2>1, <2>2, <2>4, <3>1, ContinueEffect
    <2> QED
      BY <2>3, <2>4
  <1>4. /\ monitors' = [monitors EXCEPT ![i] = new] /\ created' = new /\ mutex' = c
        /\ UNCHANGED <<held, running, dead, todo, phase, tidy>>
    BY DEF add_monitor
  <1>5. /\ monitors'[i] = new
        /\ \A k \in Ids \ {i} : monitors'[k] = monitors[k]
        /\ \A k \in Ids : monitors[k] \in 0..created /\ monitors[k] # new
    BY <1>1, <1>2, <1>4 DEF TypeOK
  <1>6. TypeOK'
    <2>1. monitors' \in [Ids -> 0..created'] /\ held' \in [Callers -> 0..created']
      BY <1>1, <1>2, <1>4 DEF TypeOK
    <2> QED
      BY <1>2, <1>3, <1>4, <2>1 DEF TypeOK, Control, CallRecords
  <1>7. CallShape'
    BY <1>1, <1>3, <1>4 DEF CallShape, Ending
  <1>8. CallsFitPhase'
    <2>1. Up
      BY <1>1 DEF CallsFitPhase, Operations
    <2> QED
      BY <1>1, <1>3, <1>4, <2>1, UserPhase
  <1> HIDE DEF new
  <1>9. NoLostMonitor'
    <2> SUFFICES ASSUME NEW m \in Mons, pc'[m] # "none"
                 PROVE  \/ \E d \in Callers : held'[d] = m
                        \/ \E k \in Ids : monitors'[k] = m
                        \/ \E d \in Callers : call'[d].m = m
      BY DEF NoLostMonitor, Shared
    <2>1. pc[m] # "none"
      BY <1>3
    <2>2. CASE Shared(m)
      BY <1>4, <2>2 DEF Shared
    <2>3. CASE \E k \in Ids : monitors[k] = m
      <3>1. CASE m = old
        BY <1>3, <1>4, <3>1 DEF Shared
      <3>2. CASE m # old
        BY <1>5, <2>3, <3>2
      <3> QED
        BY <3>1, <3>2
    <2>4. CASE \E d \in Callers : call[d].m = m
      BY <1>1, <1>3, <2>4
    <2> QED
      BY <2>1, <2>2, <2>3, <2>4 DEF NoLostMonitor
  <1>10. \A d \in Callers : old # 0 => call[d].m # old
    BY <1>1, EntryEnded
  <1>11. OneStopper'
    BY <1>3, <1>10 DEF OneStopper
  <1>12. LastOwner'
    <2>1. \A k, j \in Ids : monitors'[k] = monitors'[j] /\ monitors'[k] # 0 => k = j
      BY <1>5 DEF LastOwner
    <2>2. \A d \in Callers \ {c} : ~Holds(d)
      BY <1>1 DEF CallsFitPhase
    <2>3. \A d \in Callers : Ending(d)' =>
             IF call'[d].op = "remove"
             THEN monitors'[call'[d].id] = call'[d].m
             ELSE /\ \A e \in Callers : held'[e] # call'[d].m
                  /\ \A k \in Ids : monitors'[k] # call'[d].m
      <3> SUFFICES ASSUME NEW d \in Callers, Ending(d)'
                   PROVE  IF call'[d].op = "remove"
                          THEN monitors'[call'[d].id] = call'[d].m
                          ELSE /\ \A e \in Callers : held'[e] # call'[d].m
                               /\ \A k \in Ids : monitors'[k] # call'[d].m
        OBVIOUS
      <3>1. CASE d = c
        <4>1. ~quiet /\ call'[d].m = old
          BY <1>3, <3>1 DEF Ending
        <4>2. \A k \in Ids : monitors'[k] # old
          BY <1>1, <1>5, <4>1 DEF LastOwner
        <4> QED
          BY <1>3, <1>4, <3>1, <4>1, <4>2 DEF Shared
      <3>2. CASE d # c
        <4>1. Ending(d) /\ call'[d] = call[d] /\ call[d].op # "remove"
          BY <1>3, <2>2, <3>2 DEF Ending, Holds
        <4>2. call[d].m # new
          BY <1>2 DEF Numbered, new
        <4> QED
          BY <1>4, <1>5, <4>1, <4>2 DEF LastOwner, Shared
      <3> QED
        BY <3>1, <3>2
    <2>4. \A d \in Callers : Holds(d)' /\ call'[d].op = "add" =>
             monitors'[call'[d].id] # 0
      <3>1. \A d \in Callers \ {c} : ~Holds(d)'
        BY <1>3, <2>2 DEF Holds, Ending
      <3>2. new # 0
        BY <1>2 DEF new
      <3> QED
        BY <1>3, <1>5, <3>1, <3>2
    <2> QED
      BY <2>1, <2>3, <2>4 DEF LastOwner, Shared
  <1>13. FlagIsThread'
    <2>1. \A d \in Callers : pc[d] \in {"join", "stopped"} \/ pc'[d] \in {"join", "stopped"}
              => pc'[d] = pc[d] /\ call'[d] = call[d]
      BY <1>1, <1>3
    <2>2. \A d \in Callers : pc[d] = "stopped" => call[d].m \in Mons
      BY CallTypes DEF CallShape, Ending
    <2> QED
      BY <1>3, <1>4, <2>1, <2>2 DEF FlagIsThread
  <1>14. DeadIsGone'
    <2>1. \A m \in dead : m \in Mons /\ m # new
      BY <1>2 DEF TypeOK, Numbered, new
    <2> QED
      BY <1>1, <1>3, <1>4, <1>5, <2>1 DEF DeadIsGone, Shared
  <1>15. Numbered'
    <2>1. Adding' = Adding \ {c} /\ c \in Adding
      <3>1. c \in Adding /\ c \notin Adding'
        BY <1>1, <1>3 DEF Adding
      <3>2. \A d \in Callers \ {c} : d \in Adding' <=> d \in Adding
        BY <1>3 DEF Adding
      <3>3. Adding \subseteq Callers /\ Adding' \subseteq Callers
        BY DEF Adding
      <3> QED
        BY <3>1, <3>2, <3>3
    <2>2. IsFiniteSet(Adding') /\ Cardinality(Adding') = Cardinality(Adding) - 1
      BY <2>1, FS_RemoveElement DEF Numbered
    <2>3. Cardinality(Adding) \in Nat
      BY FS_CardinalityType DEF Numbered
    <2>4. created' + Cardinality(Adding') <= MaxMonitors
      BY <1>2, <1>4, <2>2, <2>3 DEF Numbered, new
    <2>5. dead' \subseteq 1..created'
      BY <1>2, <1>4 DEF Numbered, new
    <2>6. \A d \in Callers : call'[d].m <= created'
      BY <1>2, <1>3, <1>4, CallTypes DEF Numbered, new
    <2> QED
      BY <2>2, <2>4, <2>5, <2>6 DEF Numbered
  <1> QED
    BY <1>6, <1>7, <1>8, <1>9, <1>11, <1>12, <1>13, <1>14, <1>15

\* Start() of the monitor that add_monitor has just made.
LEMMA StartStep ==
    ASSUME ManagerInv, NEW c \in Callers, Start(c)
    PROVE  ManagerInv'
  <1> USE ManagerAssumption, ThreadFacts DEF ManagerInv
  <1> DEFINE i == call[c].id
             new == monitors[i]
  <1>1. /\ pc[c] = "start" /\ call[c].op = "add" /\ mutex = c /\ i \in Ids
        /\ c # Health /\ call[c].m = 0 /\ Holds(c)
    BY DEF Start, CallShape, CallsFitPhase, Holds, Ending
  <1>2. new \in Mons /\ new # c /\ new \in Threads
    <2>1. new # 0
      BY <1>1 DEF LastOwner
    <2> QED
      BY <1>1, <2>1 DEF TypeOK
  <1>3. /\ pc' \in [Threads -> Control] /\ pc'[c] = "idle" /\ pc'[new] = "loop"
        /\ \A t \in Threads \ {c, new} : pc'[t] = pc[t]
    BY <1>2 DEF Start, TypeOK, Control
  <1>4. /\ running' \in [Mons -> BOOLEAN] /\ running'[new] = TRUE
        /\ \A m \in Mons \ {new} : running'[m] = running[m]
    BY <1>2 DEF Start, TypeOK
  <1>5. /\ call' \in [Callers -> CallRecords] /\ call'[c] = NoCall
        /\ \A d \in Callers \ {c} : call'[d] = call[d]
    <2>1. NoCall \in CallRecords
      BY DEF NoCall, CallRecords
    <2> QED
      BY <2>1 DEF Start, TypeOK, CallRecords
  <1>6. mutex' = None /\ UNCHANGED <<monitors, held, dead, created, todo, phase, tidy>>
    BY DEF Start, map
  <1>7. TypeOK'
    BY <1>3, <1>4, <1>5, <1>6 DEF TypeOK, Control, CallRecords
  <1>8. CallShape'
    BY <1>2, <1>3, <1>5, <1>6, ReturnShape
  <1>9. CallsFitPhase'
    <2>1. Up
      BY <1>1 DEF CallsFitPhase, Operations
    <2>2. ~Holds(c)'
      BY <1>3 DEF Holds, Ending
    <2> QED
      BY <1>1, <1>2, <1>3, <1>5, <1>6, <2>1, <2>2, UserPhase, NoCallFields
         DEF Operations
  <1>10. \A d \in Callers : call[d].m # new /\ call'[d].m = call[d].m
    <2>1. \A d \in Callers : call[d].m # new
      BY <1>1, <1>2, EntryEnded
    <2> QED
      BY <1>1, <1>5, <2>1, NoCallFields
  <1> HIDE DEF new
  <1>11. NoLostMonitor'
    <2>1. \A m \in Mons \ {new} : pc'[m] = pc[m]
      BY <1>3
    <2>2. \E k \in Ids : monitors'[k] = new
      BY <1>1, <1>6 DEF new
    <2> QED
      BY <1>6, <1>10, <2>1, <2>2 DEF NoLostMonitor, Shared
  <1>12. OneStopper'
    BY <1>10 DEF OneStopper
  <1>13. LastOwner'
    <2>1. \A d \in Callers : Ending(d)' \/ Holds(d)' =>
             d # c /\ pc'[d] = pc[d] /\ call'[d] = call[d]
      BY <1>2, <1>3, <1>5 DEF Ending, Holds
    <2>2. \A d \in Callers : Ending(d)' =>
             IF call'[d].op = "remove"
             THEN monitors'[call'[d].id] = call'[d].m
             ELSE /\ \A e \in Callers : held'[e] # call'[d].m
                  /\ \A k \in Ids : monitors'[k] # call'[d].m
      BY <1>6, <2>1 DEF LastOwner, Shared, Ending
    <2>3. \A d \in Callers : Holds(d)' /\ call'[d].op = "add" =>
             monitors'[call'[d].id] # 0
      BY <1>6, <2>1 DEF LastOwner, Ending, Holds
    <2> QED
      BY <1>6, <2>2, <2>3 DEF LastOwner, Shared
  <1>14. FlagIsThread'
    <2>1. \A d \in Callers : pc[d] \in {"join", "stopped"} \/ pc'[d] \in {"join", "stopped"}
              => pc'[d] = pc[d] /\ call'[d] = call[d]
      BY <1>1, <1>2, <1>3, <1>5
    <2>2. \A d \in Callers : pc[d] \in {"join", "stopped"}
              => call[d].m \in Mons \ {new}
      BY <1>10, CallTypes DEF CallShape, Ending
    <2> QED
      BY <1>2, <1>3, <1>4, <2>1, <2>2 DEF FlagIsThread
  <1>15. DeadIsGone'
    <2>1. \A m \in dead : m \in Mons /\ m # new
      BY <1>1 DEF TypeOK, DeadIsGone, new
    <2> QED
      BY <1>3, <1>4, <1>6, <1>10, <2>1 DEF DeadIsGone, Shared
  <1>16. Numbered'
    <2>1. Adding' \subseteq Adding
      BY <1>2, <1>3, <1>5 DEF Adding
    <2>2. \A d \in Callers : call'[d].m <= created
      BY <1>10 DEF Numbered
    <2> QED
      BY <1>6, <2>1, <2>2, SameNumber
  <1> QED
    BY <1>7, <1>8, <1>9, <1>11, <1>12, <1>13, <1>14, <1>15, <1>16

-----------------------------------------------------------------------------
(* Calls that lead to stop().                                              *)

\* A caller goes into stop() of a monitor that nobody else is about to end,
\* as its last owner or with its entry.
LEMMA BeginStop ==
    ASSUME TypeOK, CallShape, Ownership, NEW c \in Callers, NEW m \in Mons,
           call[c].m = 0, ~Ending(c), m \notin dead,
           pc'[c] = "stop", call'[c].m = m, call'[c].op # "add",
           \A t \in Threads \ {c} : pc'[t] = pc[t],
           \A d \in Callers \ {c} : call'[d] = call[d],
           UNCHANGED <<running, dead>>,
           \A d \in Callers : call[d].m # m,
           \A d \in Callers : held'[d] # held[d] => held[d] = m /\ held'[d] = 0,
           \A i \in Ids : monitors'[i] # monitors[i]
                             => monitors[i] = m /\ monitors'[i] = 0,
           \A d \in Callers : Holds(d) /\ call[d].op = "add" => monitors' = monitors,
           IF call'[c].op = "remove" THEN monitors'[call'[c].id] = m
           ELSE /\ \A d \in Callers : held'[d] # m
                /\ \A i \in Ids : monitors'[i] # m
    PROVE  Ownership'
  <1> USE ThreadFacts DEF Ownership
  <1>1. \A n \in Mons : pc'[n] = pc[n] /\ running'[n] = running[n]
    OBVIOUS
  <1>2. NoLostMonitor'
    BY <1>1 DEF NoLostMonitor, Shared
  <1>3. OneStopper'
    BY DEF OneStopper
  <1>4. LastOwner'
    <2>1. \A k, j \in Ids : monitors'[k] = monitors'[j] /\ monitors'[k] # 0 => k = j
      BY DEF LastOwner
    <2>2. ASSUME NEW d \in Callers, Ending(d)'
          PROVE  IF call'[d].op = "remove"
                 THEN monitors'[call'[d].id] = call'[d].m
                 ELSE /\ \A e \in Callers : held'[e] # call'[d].m
                      /\ \A k \in Ids : monitors'[k] # call'[d].m
      <3>1. CASE d = c
        BY <3>1
      <3>2. CASE d # c
        <4>1. Ending(d) /\ call'[d] = call[d] /\ call[d].m # m /\ call[d].m # 0
          BY <2>2, <3>2 DEF Ending, CallShape
        <4>2. call[d].op = "remove" => call[d].id \in Ids
          BY DEF CallShape
        <4> QED
          BY <4>1, <4>2 DEF LastOwner, Shared
      <3> QED
        BY <3>1, <3>2
    <2>3. ASSUME NEW d \in Callers, Holds(d)', call'[d].op = "add"
          PROVE  monitors'[call'[d].id] # 0
      <3>1. d # c /\ Holds(d) /\ call'[d] = call[d]
        BY <2>3 DEF Holds, Ending
      <3> QED
        BY <2>3, <3>1 DEF LastOwner
    <2> QED
      BY <2>1, <2>2, <2>3 DEF LastOwner, Shared
  <1>5. FlagIsThread'
    <2>1. \A d \in Callers : pc[d] \in {"join", "stopped"} \/ pc'[d] \in {"join", "stopped"}
              => pc'[d] = pc[d] /\ call'[d] = call[d]
      BY DEF Ending
    <2>2. \A d \in Callers : pc[d] = "stopped" => call[d].m \in Mons
      BY CallTypes DEF CallShape, Ending
    <2> QED
      BY <1>1, <2>1, <2>2 DEF FlagIsThread
  <1>6. DeadIsGone'
    <2>1. \A n \in dead : n \in Mons /\ n # m /\ n # 0
      BY DEF TypeOK
    <2> QED
      BY <1>1, <2>1 DEF DeadIsGone, Shared
  <1> QED
    BY <1>2, <1>3, <1>4, <1>5, <1>6

\* A step of one caller that is not in add_monitor keeps the numbers.
LEMMA StepNumbered ==
    ASSUME TypeOK, Numbered, NEW c \in Callers, UNCHANGED <<created, dead>>,
           pc'[c] # "lock", call'[c].m <= created,
           \A t \in Threads \ {c} : pc'[t] = pc[t],
           \A d \in Callers \ {c} : call'[d] = call[d]
    PROVE  Numbered'
  <1>1. Adding' \subseteq Adding
    BY ThreadFacts DEF Adding
  <1>2. \A d \in Callers : call'[d].m <= created
    BY DEF Numbered
  <1> QED
    BY <1>1, <1>2, SameNumber

\* remove_monitor: an id with no entry, or stop() with the mutex held.
LEMMA RemoveStep ==
    ASSUME ManagerInv, NEW c \in Callers, remove_monitor(c)
    PROVE  ManagerInv'
  <1> USE ManagerAssumption, ThreadFacts DEF ManagerInv
  <1> DEFINE i == call[c].id
             m == monitors[i]
  <1>1. /\ pc[c] = "lock" /\ call[c].op = "remove" /\ mutex = None /\ i \in Ids
        /\ c # Health /\ call[c].m = 0 /\ ~Ending(c) /\ Up
    BY DEF remove_monitor, Locking, CallShape, CallsFitPhase, Operations, Ending
  <1>2. UNCHANGED <<monitors, held, running, dead, created, todo, phase, tidy>>
    BY DEF remove_monitor, map
  <1>3. m \in 0..created /\ created \in Nat /\ created <= MaxMonitors
    BY <1>1 DEF TypeOK
  <1>4. CASE m = 0 /\ Return(c) /\ UNCHANGED mutex
    <2>1. /\ pc' \in [Threads -> Control] /\ pc'[c] = "idle"
          /\ \A t \in Threads \ {c} : pc'[t] = pc[t]
          /\ call' \in [Callers -> CallRecords] /\ call'[c] = NoCall
          /\ \A d \in Callers \ {c} : call'[d] = call[d]
      BY <1>4, ReturnEffect
    <2>2. TypeOK'
      BY <1>2, <1>4, <2>1 DEF TypeOK, Control, CallRecords
    <2>3. CallShape'
      BY <1>2, <2>1, ReturnShape
    <2>4. ~Holds(c)' /\ ~Ending(c)'
      BY <2>1 DEF Holds, Ending
    <2>5. CallsFitPhase'
      BY <1>1, <1>2, <1>4, <2>1, <2>4, UserPhase, NoCallFields DEF Operations
    <2>6. Ownership'
      BY <1>1, <1>2, <2>1, <2>4, QuietStep, NoCallFields DEF Ownership
    <2>7. Numbered'
      BY <1>2, <1>3, <2>1, StepNumbered, NoCallFields
    <2> QED
      BY <2>2, <2>3, <2>5, <2>6, <2>7 DEF Ownership
  <1>5. CASE m # 0 /\ Continue(c, "stop", "remove", m) /\ mutex' = c
    <2>1. /\ pc' \in [Threads -> Control] /\ pc'[c] = "stop"
          /\ \A t \in Threads \ {c} : pc'[t] = pc[t]
          /\ call' \in [Callers -> CallRecords]
          /\ call'[c].op = "remove" /\ call'[c].m = m /\ call'[c].id = i
          /\ \A d \in Callers \ {c} : call'[d] = call[d]
      <3>1. "remove" \in Operations /\ "stop" \in Control /\ m \in 0..MaxMonitors
        BY <1>3 DEF Operations, Control
      <3> QED
        BY <1>5, <3>1, ContinueEffect
    <2>2. TypeOK'
      BY <1>2, <1>5, <2>1 DEF TypeOK, Control, CallRecords
    <2>3. CallShape'
      <3>1. /\ c # Health /\ i \in Ids /\ m # 0 /\ UNCHANGED held
            /\ \A d \in Callers \ {c} : pc'[d] = pc[d] /\ call'[d] = call[d]
        BY <1>1, <1>2, <1>5, <2>1
      <3> HIDE DEF i, m
      <3> QED
        BY <2>1, <3>1 DEF CallShape, Ending
    <2>4. CallsFitPhase'
      BY <1>1, <1>2, <1>5, <2>1, UserPhase
    <2>5. \A d \in Callers : call[d].m # m
      BY <1>1, <1>5, EntryEnded
    <2>6. m \in Mons /\ m \notin dead
      BY <1>1, <1>3, <1>5 DEF DeadIsGone
    <2>7. Ownership'
      BY <1>1, <1>2, <2>1, <2>5, <2>6, BeginStop DEF Ownership
    <2>8. Numbered'
      BY <1>2, <1>3, <2>1, StepNumbered
    <2> QED
      BY <2>2, <2>3, <2>4, <2>7, <2>8 DEF Ownership
  <1> QED
    BY <1>4, <1>5 DEF remove_monitor

\* get_monitor: an entry of monitors_ has one more owner.
LEMMA GetStep ==
    ASSUME ManagerInv, NEW c \in Callers, get_monitor(c)
    PROVE  ManagerInv'
  <1> USE ManagerAssumption, ThreadFacts DEF ManagerInv
  <1> DEFINE i == call[c].id
             m == monitors[i]
  <1>1. /\ pc[c] = "lock" /\ call[c].op = "get_monitor" /\ mutex = None /\ i \in Ids
        /\ c # Health /\ call[c].m = 0 /\ ~Ending(c) /\ Up /\ held[c] = 0
    BY DEF get_monitor, Locking, CallShape, CallsFitPhase, Operations, Ending
  <1>2. /\ held' = [held EXCEPT ![c] = m]
        /\ UNCHANGED <<mutex, monitors, running, dead, created, todo, phase, tidy>>
    BY DEF get_monitor
  <1>3. m \in 0..created /\ created \in Nat /\ created <= MaxMonitors
    BY <1>1 DEF TypeOK
  <1>4. held'[c] = m /\ \A d \in Callers \ {c} : held'[d] = held[d]
    BY <1>2 DEF TypeOK
  <1>5. /\ pc' \in [Threads -> Control] /\ pc'[c] = "idle"
        /\ \A t \in Threads \ {c} : pc'[t] = pc[t]
        /\ call' \in [Callers -> CallRecords] /\ call'[c] = NoCall
        /\ \A d \in Callers \ {c} : call'[d] = call[d]
    BY ReturnEffect DEF get_monitor
  <1>6. TypeOK'
    BY <1>2, <1>3, <1>5 DEF TypeOK, Control, CallRecords
  <1>7. CallShape'
    BY <1>4, <1>5, ReturnShape
  <1>8. ~Holds(c)' /\ ~Ending(c)'
    BY <1>5 DEF Holds, Ending
  <1>9. CallsFitPhase'
    BY <1>1, <1>2, <1>5, <1>8, UserPhase, NoCallFields DEF Operations
  <1>10. Numbered'
    BY <1>2, <1>3, <1>5, StepNumbered, NoCallFields
  <1>11. /\ \A n \in Mons : pc'[n] = pc[n] /\ running'[n] = running[n]
         /\ \A d \in Callers : call'[d].m = call[d].m
    BY <1>1, <1>2, <1>5, NoCallFields
  <1>12. NoLostMonitor'
    BY <1>1, <1>2, <1>4, <1>11 DEF NoLostMonitor, Shared
  <1>13. OneStopper'
    BY <1>11 DEF OneStopper
  <1>14. LastOwner'
    <2>1. \A d \in Callers : Ending(d)' \/ Holds(d)' =>
             d # c /\ pc'[d] = pc[d] /\ call'[d] = call[d]
      BY <1>5, <1>8 DEF Ending, Holds
    <2>2. ASSUME NEW d \in Callers, Ending(d)'
          PROVE  IF call'[d].op = "remove"
                 THEN monitors'[call'[d].id] = call'[d].m
                 ELSE /\ \A e \in Callers : held'[e] # call'[d].m
                      /\ \A k \in Ids : monitors'[k] # call'[d].m
      <3>1. Ending(d) /\ call'[d] = call[d]
        BY <2>1, <2>2 DEF Ending
      <3> QED
        BY <1>1, <1>2, <1>4, <3>1 DEF LastOwner, Shared
    <2>3. \A d \in Callers : Holds(d)' /\ call'[d].op = "add" =>
             monitors'[call'[d].id] # 0
      BY <1>2, <2>1 DEF LastOwner, Ending, Holds
    <2> QED
      BY <1>2, <2>2, <2>3 DEF LastOwner, Shared
  <1>15. FlagIsThread'
    <2>1. \A d \in Callers : pc[d] \in {"join", "stopped"} \/ pc'[d] \in {"join", "stopped"}
              => pc'[d] = pc[d] /\ call'[d] = call[d]
      BY <1>1, <1>5
    <2>2. \A d \in Callers : pc[d] = "stopped" => call[d].m \in Mons
      BY CallTypes DEF CallShape, Ending
    <2> QED
      BY <1>2, <1>11, <2>1, <2>2 DEF FlagIsThread
  <1>16. DeadIsGone'
    <2>1. dead \subseteq Mons
      BY DEF TypeOK
    <2> QED
      BY <1>1, <1>2, <1>4, <1>11, <2>1 DEF DeadIsGone, Shared
  <1> QED
    BY <1>6, <1>7, <1>9, <1>10, <1>12, <1>13, <1>14, <1>15, <1>16

-----------------------------------------------------------------------------
(* The check of the health thread.                                         *)

\* get_global_stats takes the mutex and the monitors of all entries.
LEMMA StatsStep ==
    ASSUME ManagerInv, NEW c \in Callers, get_global_stats(c)
    PROVE  ManagerInv'
  <1> USE ManagerAssumption, ThreadFacts DEF ManagerInv
  <1>1. /\ pc[c] = "lock" /\ call[c].op = "stats" /\ mutex = None
        /\ c = Health /\ call[c].m = 0 /\ ~Ending(c)
    BY DEF get_global_stats, Locking, CallShape, Ending
  <1>2. /\ mutex' = c /\ todo' = {monitors[i] : i \in Present}
        /\ UNCHANGED <<call, monitors, held, running, dead, created, phase, tidy>>
    BY DEF get_global_stats, map
  <1>3. /\ pc' \in [Threads -> Control] /\ pc'[c] = "reading"
        /\ \A t \in Threads \ {c} : pc'[t] = pc[t]
    BY GotoEffect DEF get_global_stats, Control
  <1>4. \A i \in Present : i \in Ids /\ monitors[i] \in Mons
    BY DEF Present, TypeOK
  <1>5. TypeOK'
    BY <1>2, <1>3, <1>4 DEF TypeOK, Control
  <1>6. CallShape'
    BY <1>1, <1>2, <1>3 DEF CallShape, Ending
  <1>7. Ownership'
    BY <1>1, <1>2, <1>3, QuietStep DEF Ownership, Ending
  <1>8. CallsFitPhase'
    <2>1. \A d \in Callers : Holds(d)' => d = c
      BY <1>1, <1>2, <1>3 DEF CallsFitPhase, Holds, Ending
    <2>2. phase' \notin {"health_stopped", "destroyed"}
      BY <1>1, <1>2 DEF CallsFitPhase
    <2> QED
      BY <1>1, <1>2, <1>3, <1>4, <2>1, <2>2 DEF CallsFitPhase, Up
  <1>9. Numbered'
    BY <1>1, <1>2, <1>3, StepNumbered DEF Numbered
  <1> QED
    BY <1>5, <1>6, <1>7, <1>8, <1>9 DEF Ownership

\* One monitor is read, or the health thread gives the mutex back.
LEMMA ReadStep ==
    ASSUME ManagerInv, NEW c \in Callers, StatsRead(c)
    PROVE  ManagerInv'
  <1> USE ManagerAssumption, ThreadFacts DEF ManagerInv
  <1>1. /\ pc[c] = "reading" /\ call[c].op = "stats" /\ mutex = c
        /\ c = Health /\ call[c].m = 0 /\ ~Ending(c)
    BY DEF StatsRead, CallShape, CallsFitPhase, Holds, Ending
  <1>2. UNCHANGED <<monitors, held, running, dead, created, phase, tidy>>
    BY DEF StatsRead, map
  <1>3. CASE (\E m \in todo : todo' = todo \ {m}) /\ UNCHANGED <<pc, call, mutex>>
    <2>1. TypeOK'
      BY <1>2, <1>3 DEF TypeOK
    <2>2. CallShape' /\ Ownership'
      BY <1>2, <1>3 DEF CallShape, Ending, Ownership, NoLostMonitor, OneStopper,
                        LastOwner, FlagIsThread, DeadIsGone, Shared, Holds
    <2>3. CallsFitPhase'
      BY <1>1, <1>2, <1>3 DEF CallsFitPhase, Holds, Ending, Up
    <2>4. Numbered'
      BY <1>1, <1>2, <1>3, StepNumbered DEF Numbered
    <2> QED
      BY <2>1, <2>2, <2>3, <2>4 DEF Ownership
  <1>4. CASE todo = {} /\ mutex' = None /\ Return(c) /\ UNCHANGED todo
    <2>1. /\ pc' \in [Threads -> Control] /\ pc'[c] = "idle"
          /\ \A t \in Threads \ {c} : pc'[t] = pc[t]
          /\ call' \in [Callers -> CallRecords] /\ call'[c] = NoCall
          /\ \A d \in Callers \ {c} : call'[d] = call[d]
      BY <1>4, ReturnEffect
    <2>2. TypeOK'
      BY <1>2, <1>4, <2>1 DEF TypeOK, Control, CallRecords
    <2>3. CallShape'
      BY <1>2, <2>1, ReturnShape
    <2>4. ~Holds(c)' /\ ~Ending(c)'
      BY <2>1 DEF Holds, Ending
    <2>5. CallsFitPhase'
      <3>1. \A d \in Callers : ~Holds(d)'
        BY <1>1, <2>1, <2>4 DEF CallsFitPhase, Holds, Ending
      <3>2. call'[c].op = None /\ None # "destroy"
        BY <2>1, NoCallFields DEF Operations
      <3>3. \A d \in Callers :
               IF Up' THEN call'[d].op # "destroy"
               ELSE call'[d].op \in {None, "stats", "release", "destroy"}
        BY <1>2, <2>1, <3>2 DEF CallsFitPhase, Up
      <3> QED
        BY <1>1, <1>2, <1>4, <2>1, <3>1, <3>3 DEF CallsFitPhase, Up
    <2>6. Ownership'
      BY <1>1, <1>2, <2>1, <2>4, QuietStep, NoCallFields DEF Ownership
    <2>7. Numbered'
      <3>1. 0 <= created
        BY DEF TypeOK
      <3> QED
        BY <1>2, <2>1, <3>1, StepNumbered, NoCallFields
    <2> QED
      BY <2>2, <2>3, <2>5, <2>6, <2>7 DEF Ownership
  <1> QED
    BY <1>3, <1>4 DEF StatsRead

-----------------------------------------------------------------------------
(* A shared_ptr goes out of scope.                                         *)

\* A caller that has other owners beside it drops its shared_ptr.
LEMMA ShareDropped ==
    ASSUME ManagerInv, NEW c \in Callers,
           held' = [held EXCEPT ![c] = 0],
           \/ \E d \in Callers \ {c} : held[d] = held[c]
           \/ \E i \in Ids : monitors[i] = held[c],
           UNCHANGED <<pc, call, mutex, monitors, running, dead, created, todo, phase, tidy>>
    PROVE  ManagerInv'
  <1> USE ManagerAssumption, ThreadFacts DEF ManagerInv
  <1>1. held'[c] = 0 /\ \A d \in Callers \ {c} : held'[d] = held[d]
    BY DEF TypeOK
  <1>2. TypeOK'
    BY DEF TypeOK
  <1>3. CallShape'
    BY <1>1 DEF CallShape, Ending
  <1>4. CallsFitPhase'
    BY DEF CallsFitPhase, Holds, Ending, Up
  <1>5. NoLostMonitor'
    BY <1>1 DEF NoLostMonitor, Shared
  <1>6. LastOwner'
    <2>1. ASSUME NEW d \in Callers, Ending(d)
          PROVE  IF call[d].op = "remove"
                 THEN monitors[call[d].id] = call[d].m
                 ELSE /\ \A e \in Callers : held'[e] # call[d].m
                      /\ \A k \in Ids : monitors[k] # call[d].m
      BY <1>1, <2>1 DEF LastOwner, Shared, CallShape
    <2> QED
      BY <2>1 DEF LastOwner, Shared, Ending, Holds
  <1>7. DeadIsGone'
    <2>1. \A m \in dead : m # 0
      BY DEF TypeOK
    <2> QED
      BY <1>1, <2>1 DEF DeadIsGone, Shared
  <1>8. OneStopper' /\ FlagIsThread' /\ Numbered'
    BY DEF OneStopper, FlagIsThread, Numbered, Adding
  <1> QED
    BY <1>2, <1>3, <1>4, <1>5, <1>6, <1>7, <1>8

\* release: the last owner ends the monitor.
LEMMA ReleaseStep ==
    ASSUME ManagerInv, NEW c \in Users, release(c)
    PROVE  ManagerInv'
  <1> USE ManagerAssumption, ThreadFacts DEF ManagerInv
  <1> DEFINE m == held[c]
             others == \/ \E d \in Callers \ {c} : held[d] = m
                       \/ \E i \in Ids : monitors[i] = m
  <1>1. /\ c \in Callers /\ c # Health /\ pc[c] = "idle" /\ m # 0 /\ ~Ending(c)
        /\ call[c] = NoCall /\ call[c].m = 0
    BY NoCallFields DEF release, CallShape, Ending
  <1>2. /\ held' = [held EXCEPT ![c] = 0]
        /\ UNCHANGED <<mutex, monitors, running, dead, created, todo, phase, tidy>>
    BY DEF release
  <1>3. CASE others
    <2>1. UNCHANGED <<pc, call>>
      BY <1>3 DEF release
    <2> QED
      BY <1>1, <1>2, <1>3, <2>1, ShareDropped
  <1>4. CASE ~others
    <2>1. m \in 0..created /\ created \in Nat /\ created <= MaxMonitors
      BY <1>1 DEF TypeOK
    <2>2. /\ pc' \in [Threads -> Control] /\ pc'[c] = "stop"
          /\ \A t \in Threads \ {c} : pc'[t] = pc[t]
          /\ call' \in [Callers -> CallRecords]
          /\ call'[c].op = "release" /\ call'[c].m = m /\ call'[c].id = call[c].id
          /\ \A d \in Callers \ {c} : call'[d] = call[d]
      <3>1. "release" \in Operations /\ "stop" \in Control /\ m \in 0..MaxMonitors
        BY <2>1 DEF Operations, Control
      <3>2. Continue(c, "stop", "release", m)
        BY <1>4 DEF release
      <3> QED
        BY <1>1, <3>1, <3>2, ContinueEffect
    <2>3. held'[c] = 0 /\ \A d \in Callers \ {c} : held'[d] = held[d]
      BY <1>2 DEF TypeOK
    <2>4. TypeOK'
      <3>1. held' \in [Callers -> 0..created]
        BY <1>1, <1>2, <2>1 DEF TypeOK
      <3> QED
        BY <1>1, <1>2, <2>2, <3>1 DEF TypeOK, Control, CallRecords
    <2>5. CallShape'
      BY <1>1, <2>2, <2>3 DEF CallShape, Ending
    <2>6. CallsFitPhase'
      <3>1. ~Holds(c)'
        BY <2>2 DEF Holds, Ending
      <3> QED
        BY <1>1, <1>2, <2>2, <3>1, UserPhase
    <2>7. m \in Mons /\ m \notin dead
      BY <1>1, <2>1 DEF DeadIsGone, Shared
    <2>8. \A i \in Ids : monitors[i] # m
      BY <1>1, <1>4 DEF LastOwner
    <2>9. \A d \in Callers : call[d].m # m
      <3> SUFFICES ASSUME NEW d \in Callers, call[d].m = m
                   PROVE  FALSE
        OBVIOUS
      <3>1. Ending(d) /\ (call[d].op = "remove" => call[d].id \in Ids)
        BY <1>1 DEF CallShape
      <3>2. Shared(m)
        BY <1>1 DEF Shared
      <3> QED
        BY <2>8, <3>1, <3>2 DEF LastOwner
    <2>10. Ownership'
      BY <1>1, <1>2, <1>4, <2>2, <2>3, <2>7, <2>8, <2>9, BeginStop DEF Ownership
    <2>11. Numbered'
      BY <1>1, <1>2, <2>1, <2>2, StepNumbered
    <2> QED
      BY <2>4, <2>5, <2>6, <2>10, <2>11 DEF Ownership
  <1> QED
    BY <1>3, <1>4

-----------------------------------------------------------------------------
(* stop(), its join, and what comes after it.                              *)

\* Who is in stop() has a monitor in hand and is a user.
LEMMA EndingFacts ==
    ASSUME TypeOK, CallShape, NEW c \in Callers, Ending(c)
    PROVE  /\ call[c].m \in Mons /\ c # Health
           /\ call[c].op \in {"add", "remove", "erase", "release", "destroy"}
           /\ call[c].op \in {"add", "remove", "erase"} => call[c].id \in Ids
  <1>1. call[c].m # 0 /\ call[c].op \in {"add", "remove", "erase", "release", "destroy"}
    BY DEF CallShape
  <1>2. c # Health
    BY <1>1 DEF CallShape, Ending
  <1> QED
    BY <1>1, <1>2, CallTypes, ThreadFacts DEF CallShape

\* stop: running_ is false, and there is a join only if there is a thread.
LEMMA StopStep ==
    ASSUME ManagerInv, NEW c \in Callers, stop(c)
    PROVE  ManagerInv'
  <1> USE ManagerAssumption, ThreadFacts DEF ManagerInv
  <1> DEFINE m == call[c].m
  <1>1. pc[c] = "stop" /\ Ending(c)
    BY DEF stop, Ending
  <1>2. m \in Mons /\ c # Health
    BY <1>1, EndingFacts
  <1>3. UNCHANGED <<call, mutex, monitors, held, dead, created, todo, phase, tidy>>
    BY DEF stop, map
  <1>4. /\ running' \in [Mons -> BOOLEAN] /\ running'[m] = FALSE
        /\ \A n \in Mons \ {m} : running'[n] = running[n]
    BY <1>2 DEF stop, FlagAfterStop, TypeOK
  <1>5. /\ pc' \in [Threads -> Control] /\ pc'[c] = IF running[m] THEN "join" ELSE "stopped"
        /\ \A t \in Threads \ {c} : pc'[t] = pc[t]
    <2>1. Goto(c, IF running[m] THEN "join" ELSE "stopped")
      BY DEF stop, Joins
    <2>2. (IF running[m] THEN "join" ELSE "stopped") \in Control
      BY DEF Control
    <2> HIDE DEF m
    <2> QED
      BY <2>1, <2>2, GotoEffect
  <1> HIDE DEF m
  <1>6. /\ \A n \in Mons : pc'[n] = pc[n]
        /\ \A d \in Callers : Ending(d)' <=> Ending(d)
        /\ \A d \in Callers : Holds(d)' <=> Holds(d)
    <2>1. Ending(c)'
      BY <1>5 DEF Ending
    <2>2. \A d \in Callers : Ending(d)' <=> Ending(d)
      BY <1>1, <1>5, <2>1 DEF Ending
    <2>3. pc[c] \notin {"start", "reading"} /\ pc'[c] \notin {"start", "reading"}
      BY <1>1, <1>5
    <2> QED
      BY <1>2, <1>3, <1>5, <2>2, <2>3 DEF Holds
  <1>7. TypeOK'
    BY <1>3, <1>4, <1>5 DEF TypeOK, Control
  <1>8. CallShape'
    <2>1. pc[c] = "stop" /\ pc'[c] \in {"join", "stopped"}
      BY <1>1, <1>5
    <2>2. \A d \in Callers \ {c} : pc'[d] = pc[d]
      BY <1>5
    <2> QED
      BY <1>3, <1>6, <2>1, <2>2 DEF CallShape
  <1>9. CallsFitPhase'
    <2>1. Holds(c)' => mutex' = c
      BY <1>3, <1>6 DEF CallsFitPhase
    <2> QED
      BY <1>2, <1>3, <1>5, <2>1, UserPhase DEF CallsFitPhase
  <1>10. NoLostMonitor' /\ OneStopper'
    BY <1>3, <1>6 DEF NoLostMonitor, OneStopper, Shared
  <1>11. LastOwner'
    <2>1. \A d \in Callers : Ending(d)' =>
             IF call'[d].op = "remove"
             THEN monitors'[call'[d].id] = call'[d].m
             ELSE /\ \A e \in Callers : held'[e] # call'[d].m
                  /\ \A k \in Ids : monitors'[k] # call'[d].m
      BY <1>3, <1>6 DEF LastOwner, Shared
    <2> QED
      BY <1>3, <1>6, <2>1 DEF LastOwner, Shared
  <1>12. FlagIsThread'
    <2>1. \A d \in Callers \ {c} : call[d].m # m
      BY <1>1, <1>2 DEF OneStopper, m
    <2>2. ~running[m] => pc[m] = "none"
      BY <1>1, <1>2, <2>1 DEF FlagIsThread
    <2>3. ASSUME NEW n \in Mons
          PROVE  /\ pc'[n] \in {"none", "loop", "round", "returned"}
                 /\ running'[n] => pc'[n] \in {"loop", "round"}
                 /\ ~running'[n] /\ pc'[n] # "none" =>
                       \E d \in Callers : pc'[d] = "join" /\ call'[d].m = n
      <3>1. CASE n = m
        BY <1>3, <1>4, <1>5, <1>6, <2>2, <3>1 DEF FlagIsThread, m
      <3>2. CASE n # m
        BY <1>1, <1>3, <1>4, <1>5, <1>6, <3>2 DEF FlagIsThread
      <3> QED
        BY <3>1, <3>2
    <2>4. ASSUME NEW d \in Callers, pc'[d] \in {"join", "stopped"}
          PROVE  /\ ~running'[call'[d].m]
                 /\ pc'[d] = "stopped" => pc'[call'[d].m] = "none"
      <3>1. CASE d = c
        BY <1>2, <1>3, <1>4, <1>5, <1>6, <2>2, <3>1 DEF m
      <3>2. CASE d # c
        <4>1. call[d].m \in Mons
          BY <1>5, <2>4, <3>2, EndingFacts DEF Ending
        <4> QED
          BY <1>3, <1>4, <1>5, <1>6, <2>1, <2>4, <3>2, <4>1 DEF FlagIsThread
      <3> QED
        BY <3>1, <3>2
    <2> QED
      BY <2>3, <2>4 DEF FlagIsThread
  <1>13. DeadIsGone'
    <2>1. \A n \in dead : n \in Mons
      BY DEF TypeOK
    <2> QED
      BY <1>3, <1>4, <1>6, <2>1 DEF DeadIsGone, Shared
  <1>14. Numbered'
    BY <1>3, <1>5, StepNumbered DEF Numbered
  <1> QED
    BY <1>7, <1>8, <1>9, <1>10, <1>11, <1>12, <1>13, <1>14

\* StopJoins: the thread of the monitor is gone.
LEMMA JoinStep ==
    ASSUME ManagerInv, NEW c \in Callers, StopJoins(c)
    PROVE  ManagerInv'
  <1> USE ManagerAssumption, ThreadFacts DEF ManagerInv
  <1> DEFINE m == call[c].m
  <1>1. pc[c] = "join" /\ Ending(c) /\ pc[m] = "returned"
    BY DEF StopJoins, Ending
  <1>2. m \in Mons /\ c # Health /\ m # c /\ m \in Threads
    BY <1>1, EndingFacts
  <1>3. UNCHANGED <<call, mutex, monitors, held, running, dead, created, todo, phase, tidy>>
    BY DEF StopJoins, map
  <1>4. /\ pc' \in [Threads -> Control] /\ pc'[c] = "stopped" /\ pc'[m] = "none"
        /\ \A t \in Threads \ {c, m} : pc'[t] = pc[t]
    BY <1>2 DEF StopJoins, TypeOK, Control
  <1>5. ~running[m] /\ \A d \in Callers \ {c} : call[d].m # m
    BY <1>1, <1>2 DEF FlagIsThread, OneStopper
  <1> HIDE DEF m
  <1>6. /\ \A d \in Callers \ {c} : pc'[d] = pc[d]
        /\ \A d \in Callers : Ending(d)' <=> Ending(d)
        /\ \A d \in Callers : Holds(d)' <=> Holds(d)
    <2>1. \A d \in Callers \ {c} : pc'[d] = pc[d]
      BY <1>2, <1>4
    <2>2. \A d \in Callers : Ending(d)' <=> Ending(d)
      BY <1>1, <1>4, <2>1 DEF Ending
    <2> QED
      BY <1>1, <1>3, <1>4, <2>1, <2>2 DEF Holds
  <1>7. TypeOK'
    BY <1>3, <1>4 DEF TypeOK, Control
  <1>8. CallShape'
    BY <1>1, <1>3, <1>4, <1>6 DEF CallShape, Ending
  <1>9. CallsFitPhase'
    <2>1. Holds(c)' => mutex' = c
      BY <1>3, <1>6 DEF CallsFitPhase
    <2> QED
      BY <1>2, <1>3, <1>6, <2>1, UserPhase DEF CallsFitPhase
  <1>10. NoLostMonitor' /\ OneStopper'
    <2>1. \A n \in Mons \ {m} : pc'[n] = pc[n]
      BY <1>4
    <2> QED
      BY <1>3, <1>4, <2>1 DEF NoLostMonitor, OneStopper, Shared
  <1>11. LastOwner'
    <2>1. \A d \in Callers : Ending(d)' =>
             IF call'[d].op = "remove"
             THEN monitors'[call'[d].id] = call'[d].m
             ELSE /\ \A e \in Callers : held'[e] # call'[d].m
                  /\ \A k \in Ids : monitors'[k] # call'[d].m
      BY <1>3, <1>6 DEF LastOwner, Shared
    <2> QED
      BY <1>3, <1>6, <2>1 DEF LastOwner, Shared
  <1>12. FlagIsThread'
    <2>1. ASSUME NEW n \in Mons
          PROVE  /\ pc'[n] \in {"none", "loop", "round", "returned"}
                 /\ running'[n] => pc'[n] \in {"loop", "round"}
                 /\ ~running'[n] /\ pc'[n] # "none" =>
                       \E d \in Callers : pc'[d] = "join" /\ call'[d].m = n
      <3>1. CASE n = m
        BY <1>3, <1>4, <1>5, <3>1
      <3>2. CASE n # m
        BY <1>3, <1>4, <1>6, <3>2 DEF FlagIsThread, m
      <3> QED
        BY <3>1, <3>2
    <2>2. ASSUME NEW d \in Callers, pc'[d] \in {"join", "stopped"}
          PROVE  /\ ~running'[call'[d].m]
                 /\ pc'[d] = "stopped" => pc'[call'[d].m] = "none"
      <3>1. CASE d = c
        BY <1>3, <1>4, <1>5, <3>1 DEF m
      <3>2. CASE d # c
        <4>1. call[d].m \in Mons
          BY <1>6, <2>2, <3>2, EndingFacts DEF Ending
        <4> QED
          BY <1>3, <1>4, <1>5, <1>6, <2>2, <3>2, <4>1 DEF FlagIsThread
      <3> QED
        BY <3>1, <3>2
    <2> QED
      BY <2>1, <2>2 DEF FlagIsThread
  <1>13. DeadIsGone'
    <2>1. \A n \in dead : n \in Mons
      BY DEF TypeOK
    <2> QED
      BY <1>3, <1>4, <2>1 DEF DeadIsGone, Shared
  <1>14. Numbered'
    <2>1. Adding' \subseteq Adding
      BY <1>3, <1>4, <1>6 DEF Adding
    <2>2. \A d \in Callers : call'[d].m <= created
      BY <1>3 DEF Numbered
    <2> QED
      BY <1>3, <2>1, <2>2, SameNumber
  <1> QED
    BY <1>7, <1>8, <1>9, <1>10, <1>11, <1>12, <1>13, <1>14

\* The destructor is done: nothing points at the monitor any more.
LEMMA MonitorEnds ==
    ASSUME TypeOK, CallShape, Ownership, NEW c \in Callers,
           pc[c] = "stopped", call[c].op # "remove",
           dead' = dead \cup {call[c].m},
           UNCHANGED <<monitors, held, running>>,
           \A t \in Threads \ {c} : pc'[t] = pc[t],
           \A d \in Callers \ {c} : call'[d] = call[d],
           call'[c].m = 0, ~Ending(c)',
           Holds(c)' /\ call'[c].op = "add" => monitors[call'[c].id] # 0
    PROVE  Ownership'
  <1> USE ThreadFacts DEF Ownership
  <1> DEFINE m == call[c].m
  <1>1. Ending(c) /\ m \in Mons /\ pc[m] = "none" /\ ~running[m]
    BY EndingFacts DEF Ending, FlagIsThread
  <1>2. ~Shared(m) /\ \A i \in Ids : monitors[i] # m
    BY <1>1 DEF LastOwner
  <1>3. \A d \in Callers \ {c} : call[d].m # m
    BY <1>1 DEF OneStopper
  <1> HIDE DEF m
  <1>4. \A n \in Mons : pc'[n] = pc[n] /\ running'[n] = running[n]
    OBVIOUS
  <1>5. \A d \in Callers : Ending(d)' => d # c /\ Ending(d) /\ call'[d] = call[d]
    BY DEF Ending
  <1>6. NoLostMonitor'
    BY <1>1, <1>4 DEF NoLostMonitor, Shared, m
  <1>7. OneStopper'
    BY DEF OneStopper
  <1>8. LastOwner'
    <2>1. \A d \in Callers : Ending(d)' =>
             IF call'[d].op = "remove"
             THEN monitors'[call'[d].id] = call'[d].m
             ELSE /\ \A e \in Callers : held'[e] # call'[d].m
                  /\ \A k \in Ids : monitors'[k] # call'[d].m
      BY <1>5 DEF LastOwner, Shared
    <2>2. \A d \in Callers : Holds(d)' /\ call'[d].op = "add" =>
             monitors'[call'[d].id] # 0
      <3>1. \A d \in Callers \ {c} : Holds(d)' => Holds(d)
        BY DEF Holds, Ending
      <3> QED
        BY <3>1 DEF LastOwner
    <2> QED
      BY <2>1, <2>2 DEF LastOwner, Shared
  <1>9. FlagIsThread'
    <2>1. \A n \in Mons : /\ pc'[n] \in {"none", "loop", "round", "returned"}
                          /\ running'[n] => pc'[n] \in {"loop", "round"}
      BY <1>4 DEF FlagIsThread
    <2>2. ASSUME NEW n \in Mons, ~running'[n], pc'[n] # "none"
          PROVE  \E d \in Callers : pc'[d] = "join" /\ call'[d].m = n
      <3>1. PICK d \in Callers : pc[d] = "join" /\ call[d].m = n
        BY <1>4, <2>2 DEF FlagIsThread
      <3> QED
        BY <3>1
    <2>3. \A d \in Callers : pc'[d] \in {"join", "stopped"} =>
             pc[d] = pc'[d] /\ call'[d] = call[d] /\ call[d].m \in Mons
      BY <1>5, EndingFacts DEF Ending
    <2> QED
      BY <1>4, <2>1, <2>2, <2>3 DEF FlagIsThread
  <1>10. DeadIsGone'
    <2>1. \A n \in dead : n \in Mons
      BY DEF TypeOK
    <2>2. pc'[m] = "none" /\ ~running'[m] /\ \A d \in Callers : call'[d].m # m
      BY <1>1, <1>3, <1>4
    <2> QED
      BY <1>2, <1>4, <2>1, <2>2 DEF DeadIsGone, Shared, m
  <1> QED
    BY <1>6, <1>7, <1>8, <1>9, <1>10

\* remove_monitor erases the entry of the monitor that it has stopped; with
\* no other owner it goes on into the destructor.
LEMMA EntryErased ==
    ASSUME TypeOK, CallShape, CallsFitPhase, Ownership, NEW c \in Callers,
           pc[c] = "stopped", call[c].op = "remove",
           monitors' = [monitors EXCEPT ![call[c].id] = 0],
           UNCHANGED <<held, running, dead>>,
           \A t \in Threads \ {c} : pc'[t] = pc[t],
           \A d \in Callers \ {c} : call'[d] = call[d],
           \/ pc'[c] = "idle" /\ call'[c].m = 0
           \/ /\ pc'[c] = "stop" /\ call'[c].m = call[c].m /\ call'[c].op = "erase"
              /\ ~Shared(call[c].m)
    PROVE  Ownership'
  <1> USE ManagerAssumption, ThreadFacts DEF Ownership
  <1> DEFINE m == call[c].m
             i == call[c].id
  <1>1. /\ Ending(c) /\ m \in Mons /\ i \in Ids /\ pc[m] = "none" /\ ~running[m]
        /\ monitors[i] = m /\ mutex = c
    BY EndingFacts DEF Ending, FlagIsThread, LastOwner, CallsFitPhase, Holds
  <1>2. monitors'[i] = 0 /\ \A k \in Ids \ {i} : monitors'[k] = monitors[k]
    BY <1>1 DEF TypeOK
  <1>3. \A k \in Ids : monitors'[k] # m
    BY <1>1, <1>2 DEF LastOwner
  <1>4. m \notin dead
    BY <1>1 DEF DeadIsGone
  <1>5. \A d \in Callers \ {c} : call[d].m # m /\ ~Holds(d)
    BY <1>1 DEF OneStopper, CallsFitPhase
  <1> HIDE DEF m, i
  <1>6. \A n \in Mons : pc'[n] = pc[n] /\ running'[n] = running[n]
    OBVIOUS
  <1>7. \A d \in Callers \ {c} : (Ending(d)' => Ending(d)) /\ (Holds(d)' => Holds(d))
    BY DEF Ending, Holds
  <1>8. NoLostMonitor'
    <2> SUFFICES ASSUME NEW n \in Mons, pc'[n] # "none"
                 PROVE  \/ \E d \in Callers : held'[d] = n
                        \/ \E k \in Ids : monitors'[k] = n
                        \/ \E d \in Callers : call'[d].m = n
      BY DEF NoLostMonitor, Shared
    <2>1. n # m /\ pc[n] # "none"
      BY <1>1, <1>6
    <2> QED
      BY <1>1, <1>2, <2>1 DEF NoLostMonitor, Shared, m
  <1>9. OneStopper'
    BY <1>5 DEF OneStopper, m
  <1>10. LastOwner'
    <2>1. \A k, j \in Ids : monitors'[k] = monitors'[j] /\ monitors'[k] # 0 => k = j
      BY <1>2 DEF LastOwner
    <2>2. ASSUME NEW d \in Callers, Ending(d)'
          PROVE  IF call'[d].op = "remove"
                 THEN monitors'[call'[d].id] = call'[d].m
                 ELSE /\ \A e \in Callers : held'[e] # call'[d].m
                      /\ \A k \in Ids : monitors'[k] # call'[d].m
      <3>1. CASE d = c
        BY <1>3, <2>2, <3>1 DEF Ending, Shared, m
      <3>2. CASE d # c
        <4>1. Ending(d) /\ call'[d] = call[d] /\ call[d].op # "remove" /\ call[d].m # 0
          <5>1. Ending(d) /\ call'[d] = call[d] /\ ~Holds(d)
            BY <1>5, <1>7, <2>2, <3>2
          <5> QED
            BY <5>1, EndingFacts DEF Holds
        <4> QED
          BY <1>2, <4>1 DEF LastOwner, Shared
      <3> QED
        BY <3>1, <3>2
    <2>3. \A d \in Callers : ~(Holds(d)' /\ call'[d].op = "add")
      BY <1>5, <1>7 DEF Holds, Ending
    <2> QED
      BY <2>1, <2>2, <2>3 DEF LastOwner, Shared
  <1>11. FlagIsThread'
    <2>1. \A n \in Mons : /\ pc'[n] \in {"none", "loop", "round", "returned"}
                          /\ running'[n] => pc'[n] \in {"loop", "round"}
      BY <1>6 DEF FlagIsThread
    <2>2. ASSUME NEW n \in Mons, ~running'[n], pc'[n] # "none"
          PROVE  \E d \in Callers : pc'[d] = "join" /\ call'[d].m = n
      <3>1. PICK d \in Callers : pc[d] = "join" /\ call[d].m = n
        BY <1>6, <2>2 DEF FlagIsThread
      <3> QED
        BY <3>1
    <2>3. \A d \in Callers : pc'[d] \in {"join", "stopped"} =>
             pc[d] = pc'[d] /\ call'[d] = call[d] /\ call[d].m \in Mons
      BY <1>7, EndingFacts DEF Ending
    <2> QED
      BY <1>6, <2>1, <2>2, <2>3 DEF FlagIsThread
  <1>12. DeadIsGone'
    <2>1. \A n \in dead : n \in Mons /\ n # m
      BY <1>4 DEF TypeOK
    <2> QED
      BY <1>2, <1>6, <2>1 DEF DeadIsGone, Shared, m
  <1> QED
    BY <1>8, <1>9, <1>10, <1>11, <1>12

\* A monitor more is dead, and the caller that ended it lets go of it.
LEMMA OneMoreDead ==
    ASSUME TypeOK, Numbered, NEW c \in Callers, NEW m \in Mons, m <= created,
           UNCHANGED created, dead' = dead \cup {m}, pc'[c] # "lock",
           call'[c].m <= created,
           \A t \in Threads \ {c} : pc'[t] = pc[t],
           \A d \in Callers \ {c} : call'[d] = call[d]
    PROVE  Numbered'
  <1> USE ManagerAssumption, ThreadFacts
  <1>1. Adding' \subseteq Adding
    BY DEF Adding
  <1>2. IsFiniteSet(Adding') /\ Cardinality(Adding') <= Cardinality(Adding)
    BY <1>1, FS_Subset DEF Numbered
  <1>3. Cardinality(Adding) \in Nat /\ Cardinality(Adding') \in Nat
    BY <1>2, FS_CardinalityType DEF Numbered
  <1>4. \A d \in Callers : call'[d].m <= created'
    BY DEF Numbered
  <1>5. m \in 1..created /\ created \in Nat
    BY DEF TypeOK
  <1>6. created' + Cardinality(Adding') <= MaxMonitors
    BY <1>2, <1>3, <1>5 DEF Numbered
  <1>7. dead' \subseteq 1..created'
    BY <1>5 DEF Numbered
  <1> QED
    BY <1>2, <1>4, <1>6, <1>7 DEF Numbered

\* Back from stop().
LEMMA StoppedStep ==
    ASSUME ManagerInv, NEW c \in Callers, Stopped(c)
    PROVE  ManagerInv'
  <1> USE ManagerAssumption, ThreadFacts DEF ManagerInv
  <1> DEFINE m == call[c].m
             op == call[c].op
  <1>1. pc[c] = "stopped" /\ Ending(c)
    BY DEF Stopped, Ending
  <1>2. /\ m \in Mons /\ c # Health
        /\ op \in {"add", "remove", "erase", "release", "destroy"}
        /\ op \in {"add", "remove", "erase"} => call[c].id \in Ids /\ mutex = c /\ Up
    BY <1>1, EndingFacts DEF CallsFitPhase, Holds, Operations
  <1>3. UNCHANGED <<held, running, created, todo, phase, tidy>>
    BY DEF Stopped
  <1>4. 0 \in 0..created /\ created \in Nat /\ m <= created /\ 0 \in 0..MaxMonitors
    BY DEF TypeOK, Numbered
  <1>5. CASE op \in {"add", "destroy"}
    <2> DEFINE where == IF op = "add" THEN "start" ELSE "dropping"
    <2>1. /\ Continue(c, where, op, 0) /\ dead' = dead \cup {m}
          /\ UNCHANGED <<monitors, mutex>>
      BY <1>5 DEF Stopped
    <2>2. where \in Control /\ op \in Operations
      BY <1>5 DEF Control, Operations
    <2> HIDE DEF where, op
    <2>3. /\ pc' \in [Threads -> Control] /\ pc'[c] = where
          /\ \A t \in Threads \ {c} : pc'[t] = pc[t]
          /\ call' \in [Callers -> CallRecords]
          /\ call'[c].op = op /\ call'[c].m = 0 /\ call'[c].id = call[c].id
          /\ \A d \in Callers \ {c} : call'[d] = call[d]
      BY <1>4, <2>1, <2>2, ContinueEffect
    <2>4. TypeOK'
      BY <1>2, <1>3, <2>1, <2>3 DEF TypeOK, Control, CallRecords
    <2>5. CallShape'
      BY <1>2, <1>3, <1>5, <2>3 DEF CallShape, Ending, where
    <2>6. CallsFitPhase'
      <3>1. Holds(c)' => mutex' = c
        BY <1>2, <2>1, <2>3 DEF Holds, Ending, where
      <3>2. IF Up THEN call'[c].op # "destroy"
            ELSE call'[c].op \in {None, "stats", "release", "destroy"}
        BY <2>3 DEF CallsFitPhase, op
      <3> QED
        BY <1>2, <1>3, <2>1, <2>3, <3>1, <3>2, UserPhase
    <2>7. Ownership'
      <3>1. ~Ending(c)'
        BY <2>3 DEF Ending, where
      <3>2. op = "add" => monitors[call[c].id] # 0
        BY <1>1 DEF LastOwner, Holds, op
      <3>3. op # "remove"
        BY <1>5
      <3> QED
        BY <1>1, <1>3, <2>1, <2>3, <3>1, <3>2, <3>3, MonitorEnds DEF Ownership, op
    <2>8. Numbered'
      <3>1. pc'[c] # "lock"
        BY <2>3 DEF where
      <3> QED
        BY <1>2, <1>3, <1>4, <2>1, <2>3, <3>1, OneMoreDead
    <2> QED
      BY <2>4, <2>5, <2>6, <2>7, <2>8 DEF Ownership
  <1>6. CASE op \in {"erase", "release"}
    <2>1. /\ Return(c) /\ dead' = dead \cup {m} /\ UNCHANGED monitors
          /\ mutex' = IF op = "erase" THEN None ELSE mutex
      BY <1>6 DEF Stopped
    <2>2. /\ pc' \in [Threads -> Control] /\ pc'[c] = "idle"
          /\ \A t \in Threads \ {c} : pc'[t] = pc[t]
          /\ call' \in [Callers -> CallRecords] /\ call'[c] = NoCall
          /\ \A d \in Callers \ {c} : call'[d] = call[d]
      BY <2>1, ReturnEffect
    <2>3. ~Holds(c)' /\ ~Ending(c)'
      BY <2>2 DEF Holds, Ending
    <2>4. TypeOK'
      BY <1>2, <1>3, <2>1, <2>2 DEF TypeOK, Control, CallRecords
    <2>5. CallShape'
      BY <1>3, <2>2, ReturnShape
    <2>6. CallsFitPhase'
      BY <1>2, <1>3, <1>6, <2>1, <2>2, <2>3, UserPhase, NoCallFields DEF Operations
    <2>7. Ownership'
      <3>1. op # "remove"
        BY <1>6
      <3> QED
        BY <1>1, <1>3, <2>1, <2>2, <2>3, <3>1, MonitorEnds, NoCallFields DEF Ownership
    <2>8. Numbered'
      BY <1>2, <1>3, <1>4, <2>1, <2>2, OneMoreDead, NoCallFields
    <2> QED
      BY <2>4, <2>5, <2>6, <2>7, <2>8 DEF Ownership
  <1>7. CASE op = "remove" /\ Shared(m)
    <2>1. /\ Return(c) /\ dead' = dead /\ mutex' = None
          /\ monitors' = [monitors EXCEPT ![call[c].id] = 0]
      BY <1>7 DEF Stopped
    <2>2. /\ pc' \in [Threads -> Control] /\ pc'[c] = "idle"
          /\ \A t \in Threads \ {c} : pc'[t] = pc[t]
          /\ call' \in [Callers -> CallRecords] /\ call'[c] = NoCall
          /\ \A d \in Callers \ {c} : call'[d] = call[d]
      BY <2>1, ReturnEffect
    <2>3. ~Holds(c)' /\ ~Ending(c)'
      BY <2>2 DEF Holds, Ending
    <2>4. TypeOK'
      <3>1. monitors' \in [Ids -> 0..created]
        BY <1>4, <2>1 DEF TypeOK
      <3> QED
        BY <1>3, <2>1, <2>2, <3>1 DEF TypeOK, Control, CallRecords
    <2>5. CallShape'
      BY <1>3, <2>2, ReturnShape
    <2>6. CallsFitPhase'
      BY <1>2, <1>3, <1>7, <2>1, <2>2, <2>3, UserPhase, NoCallFields DEF Operations
    <2>7. Ownership'
      BY <1>1, <1>3, <1>7, <2>1, <2>2, EntryErased, NoCallFields DEF Ownership
    <2>8. Numbered'
      BY <1>3, <1>4, <2>1, <2>2, StepNumbered, NoCallFields
    <2> QED
      BY <2>4, <2>5, <2>6, <2>7, <2>8 DEF Ownership
  <1>8. CASE op = "remove" /\ ~Shared(m)
    <2>1. /\ Continue(c, "stop", "erase", m) /\ dead' = dead /\ mutex' = mutex
          /\ monitors' = [monitors EXCEPT ![call[c].id] = 0]
      BY <1>8 DEF Stopped
    <2>2. /\ pc' \in [Threads -> Control] /\ pc'[c] = "stop"
          /\ \A t \in Threads \ {c} : pc'[t] = pc[t]
          /\ call' \in [Callers -> CallRecords]
          /\ call'[c].op = "erase" /\ call'[c].m = m /\ call'[c].id = call[c].id
          /\ \A d \in Callers \ {c} : call'[d] = call[d]
      <3>1. "erase" \in Operations /\ "stop" \in Control /\ m \in 0..MaxMonitors
        BY <1>2 DEF Operations, Control
      <3> QED
        BY <2>1, <3>1, ContinueEffect
    <2>3. m # 0
      BY <1>2
    <2>4. TypeOK'
      <3>1. monitors' \in [Ids -> 0..created]
        BY <1>4, <2>1 DEF TypeOK
      <3> QED
        BY <1>3, <2>1, <2>2, <3>1 DEF TypeOK, Control, CallRecords
    <2>5. CallShape'
      <3>1. /\ c # Health /\ call[c].id \in Ids /\ UNCHANGED held
            /\ \A d \in Callers \ {c} : pc'[d] = pc[d] /\ call'[d] = call[d]
        BY <1>2, <1>3, <1>8, <2>2
      <3> HIDE DEF m, op
      <3> QED
        BY <2>2, <2>3, <3>1 DEF CallShape, Ending
    <2>6. CallsFitPhase'
      BY <1>2, <1>3, <1>8, <2>1, <2>2, UserPhase
    <2>7. Ownership'
      BY <1>1, <1>3, <1>8, <2>1, <2>2, EntryErased DEF Ownership
    <2>8. Numbered'
      BY <1>3, <1>4, <2>1, <2>2, StepNumbered
    <2> QED
      BY <2>4, <2>5, <2>6, <2>7, <2>8 DEF Ownership
  <1> QED
    BY <1>2, <1>5, <1>6, <1>7, <1>8

-----------------------------------------------------------------------------
(* Monitor threads and the end of main().                                  *)

\* A monitor thread takes a step of its loop.
LEMMA ThreadStep ==
    ASSUME ManagerInv, NEW m \in Mons, Loop(m) \/ Round(m)
    PROVE  ManagerInv'
  <1> USE ManagerAssumption, ThreadFacts DEF ManagerInv
  <1>1. UNCHANGED <<call, mutex, monitors, held, running, dead, created, todo, phase, tidy>>
    BY DEF Loop, Round, map
  <1> DEFINE where == IF pc[m] = "round" \/ ~running[m]
                      THEN IF pc[m] = "round" THEN "loop" ELSE "returned"
                      ELSE "round"
  <1>2. Goto(m, where) /\ pc[m] \in {"loop", "round"} /\ where \in Control
    BY DEF Loop, Round, Control
  <1> HIDE DEF where
  <1>3. /\ pc' \in [Threads -> Control] /\ pc'[m] = where
        /\ \A t \in Threads \ {m} : pc'[t] = pc[t]
    BY <1>2, GotoEffect
  <1>4. \A c \in Callers : pc'[c] = pc[c]
    BY <1>3
  <1>5. TypeOK'
    BY <1>1, <1>3 DEF TypeOK, Control
  <1>6. CallShape'
    BY <1>1, <1>4 DEF CallShape, Ending
  <1>7. CallsFitPhase'
    BY <1>1, <1>4 DEF CallsFitPhase, Holds, Ending, Up
  <1>8. NoLostMonitor' /\ OneStopper'
    BY <1>1, <1>2, <1>3 DEF NoLostMonitor, OneStopper, Shared
  <1>9. LastOwner'
    <2>1. \A d \in Callers : Ending(d)' =>
             IF call'[d].op = "remove"
             THEN monitors'[call'[d].id] = call'[d].m
             ELSE /\ \A e \in Callers : held'[e] # call'[d].m
                  /\ \A k \in Ids : monitors'[k] # call'[d].m
      BY <1>1, <1>4 DEF LastOwner, Shared, Ending
    <2>2. \A d \in Callers : Holds(d)' /\ call'[d].op = "add" =>
             monitors'[call'[d].id] # 0
      BY <1>1, <1>4 DEF LastOwner, Holds, Ending
    <2> QED
      BY <1>1, <2>1, <2>2 DEF LastOwner, Shared
  <1>10. FlagIsThread'
    <2>1. where \in {"loop", "round", "returned"}
      BY DEF where
    <2>2. running[m] => where # "returned"
      BY <1>2 DEF where
    <2>3. ASSUME NEW n \in Mons
          PROVE  /\ pc'[n] \in {"none", "loop", "round", "returned"}
                 /\ running'[n] => pc'[n] \in {"loop", "round"}
                 /\ ~running'[n] /\ pc'[n] # "none" =>
                       \E d \in Callers : pc'[d] = "join" /\ call'[d].m = n
      BY <1>1, <1>2, <1>3, <1>4, <2>1, <2>2 DEF FlagIsThread
    <2>4. ASSUME NEW d \in Callers, pc'[d] \in {"join", "stopped"}
          PROVE  /\ ~running'[call'[d].m]
                 /\ pc'[d] = "stopped" => pc'[call'[d].m] = "none"
      <3>1. call[d].m \in Mons
        BY <1>4, <2>4, EndingFacts DEF Ending
      <3> QED
        BY <1>1, <1>2, <1>3, <1>4, <2>4, <3>1 DEF FlagIsThread
    <2> QED
      BY <2>3, <2>4 DEF FlagIsThread
  <1>11. DeadIsGone'
    <2>1. \A n \in dead : n \in Mons /\ n # m
      BY <1>2 DEF TypeOK, DeadIsGone
    <2> QED
      BY <1>1, <1>3, <2>1 DEF DeadIsGone, Shared
  <1>12. Numbered'
    <2>1. Adding' \subseteq Adding
      BY <1>1, <1>4 DEF Adding
    <2> QED
      BY <1>1, <2>1, SameNumber DEF Numbered
  <1> QED
    BY <1>5, <1>6, <1>7, <1>8, <1>9, <1>10, <1>11, <1>12

\* ~ResourceManager begins: no user is in a call.
LEMMA DestroyStep ==
    ASSUME ManagerInv, NEW c \in Users, DestroyManager(c)
    PROVE  ManagerInv'
  <1> USE ManagerAssumption, ThreadFacts DEF ManagerInv
  <1>1. /\ Up /\ pc[c] = "idle" /\ call[c].m = 0 /\ ~Ending(c) /\ c # Health
        /\ \A u \in Users : call[u] = NoCall
    BY NoCallFields DEF DestroyManager, CallShape, Ending
  <1>2. /\ phase' = IF phase = "up" THEN "torn" ELSE "destroyed"
        /\ tidy' \in BOOLEAN /\ (tidy' => phase = "health_stopped")
        /\ UNCHANGED <<mutex, monitors, held, running, dead, created, todo>>
    BY DEF DestroyManager, map
  <1>3. /\ pc' \in [Threads -> Control] /\ pc'[c] = "dropping"
        /\ \A t \in Threads \ {c} : pc'[t] = pc[t]
    BY GotoEffect DEF DestroyManager, Control
  <1>4. /\ call' \in [Callers -> CallRecords] /\ call'[c].op = "destroy" /\ call'[c].m = 0
        /\ \A d \in Callers \ {c} : call'[d] = call[d]
    <2>1. [NoCall EXCEPT !.op = "destroy"] = [op |-> "destroy", id |-> None, m |-> 0]
      BY DEF NoCall
    <2>2. [op |-> "destroy", id |-> None, m |-> 0] \in CallRecords
      BY DEF CallRecords, Operations
    <2>3. call' = [call EXCEPT ![c] = [op |-> "destroy", id |-> None, m |-> 0]]
      BY <2>1 DEF DestroyManager
    <2> QED
      BY <2>2, <2>3 DEF TypeOK, CallRecords
  <1>5. TypeOK'
    <2>1. phase' \in {"up", "health_stopped", "destroyed", "torn"}
      BY <1>2
    <2>2. /\ mutex' \in Callers \cup {None} /\ monitors' \in [Ids -> 0..created']
          /\ held' \in [Callers -> 0..created'] /\ running' \in [Mons -> BOOLEAN]
          /\ dead' \subseteq Mons /\ todo' \subseteq Mons /\ created' \in 0..MaxMonitors
      BY <1>2 DEF TypeOK
    <2> QED
      BY <1>2, <1>3, <1>4, <2>1, <2>2, Zenon DEF TypeOK, Control, CallRecords
  <1>6. CallShape'
    <2>1. \A d \in Callers \ {c} : pc'[d] = pc[d] /\ call'[d] = call[d]
      BY <1>3, <1>4
    <2> QED
      BY <1>1, <1>2, <1>3, <1>4, <2>1 DEF CallShape, Ending
  <1>7. Ownership'
    <2>1. ~Ending(c)' /\ ~Holds(c)'
      BY <1>3 DEF Ending, Holds
    <2> QED
      BY <1>1, <1>2, <1>3, <1>4, <2>1, QuietStep DEF Ownership
  <1>8. CallsFitPhase'
    <2>1. \A d \in Callers : Holds(d)' => mutex' = d
      BY <1>2, <1>3, <1>4 DEF CallsFitPhase, Holds, Ending
    <2>2. ~Up' /\ (phase' = "destroyed" => phase = "health_stopped")
      BY <1>1, <1>2 DEF Up
    <2>3. call[Health].op \in {None, "stats"}
      <3>1. CASE pc[Health] = "idle"
        BY <3>1, NoCallFields DEF CallShape
      <3>2. CASE pc[Health] # "idle"
        BY <3>2 DEF CallShape
      <3> QED
        BY <3>1, <3>2
    <2>4. \A d \in Callers : call'[d].op \in {None, "stats", "destroy"}
      BY <1>1, <1>4, <2>3, NoCallFields DEF Callers
    <2>5. pc'[Health] = pc[Health]
      BY <1>1, <1>3
    <2> QED
      BY <1>1, <1>2, <2>1, <2>2, <2>4, <2>5 DEF CallsFitPhase, Up
  <1>9. Numbered'
    <2>1. 0 <= created
      BY DEF TypeOK
    <2> QED
      BY <1>2, <1>3, <1>4, <2>1, StepNumbered
  <1> QED
    BY <1>5, <1>6, <1>7, <1>8, <1>9 DEF Ownership

\* An entry goes while a caller has the monitor.
LEMMA EntryDropped ==
    ASSUME ManagerInv, ~Up, NEW i \in Ids, Shared(monitors[i]),
           monitors' = [monitors EXCEPT ![i] = 0],
           UNCHANGED <<pc, call, mutex, held, running, dead, created, todo, phase, tidy>>
    PROVE  ManagerInv'
  <1> USE ManagerAssumption, ThreadFacts DEF ManagerInv
  <1>1. monitors'[i] = 0 /\ \A k \in Ids \ {i} : monitors'[k] = monitors[k]
    BY DEF TypeOK
  <1>2. TypeOK'
    <2>1. 0 \in 0..created
      BY DEF TypeOK
    <2> QED
      BY <2>1 DEF TypeOK
  <1>3. CallShape'
    BY DEF CallShape, Ending
  <1>4. CallsFitPhase'
    BY DEF CallsFitPhase, Holds, Ending, Up
  <1>5. NoLostMonitor'
    BY <1>1 DEF NoLostMonitor, Shared
  <1>6. LastOwner'
    <2>1. \A d \in Callers : call[d].op \notin {"add", "remove"}
      BY DEF CallsFitPhase, Operations
    <2>2. \A d \in Callers : Ending(d) => call[d].m # 0
      BY DEF CallShape
    <2>3. \A d \in Callers : Ending(d) =>
             /\ \A e \in Callers : held[e] # call[d].m
             /\ \A k \in Ids : monitors'[k] # call[d].m
      BY <1>1, <2>1, <2>2 DEF LastOwner, Shared
    <2>4. \A k, j \in Ids : monitors'[k] = monitors'[j] /\ monitors'[k] # 0 => k = j
      BY <1>1 DEF LastOwner
    <2> QED
      BY <2>1, <2>3, <2>4 DEF LastOwner, Shared, Ending
  <1>7. DeadIsGone'
    <2>1. \A n \in dead : n # 0
      BY DEF TypeOK
    <2> QED
      BY <1>1, <2>1 DEF DeadIsGone, Shared
  <1>8. OneStopper' /\ FlagIsThread' /\ Numbered'
    BY DEF OneStopper, FlagIsThread, Numbered, Adding
  <1> QED
    BY <1>2, <1>3, <1>4, <1>5, <1>6, <1>7, <1>8

\* The destructor of the manager drops its entries one by one.
LEMMA DropStep ==
    ASSUME ManagerInv, NEW c \in Callers, DropMonitor(c)
    PROVE  ManagerInv'
  <1> USE ManagerAssumption, ThreadFacts DEF ManagerInv
  <1>1. /\ pc[c] = "dropping" /\ call[c].op = "destroy" /\ call[c].m = 0 /\ ~Ending(c)
        /\ c # Health /\ ~Up
    BY DEF DropMonitor, CallShape, CallsFitPhase, Ending
  <1>2. UNCHANGED <<mutex, held, running, dead, created, todo, phase, tidy>>
    BY DEF DropMonitor
  <1>3. 0 \in 0..created /\ created \in Nat /\ created <= MaxMonitors
    BY DEF TypeOK
  <1>4. CASE Present = {} /\ Return(c) /\ UNCHANGED monitors
    <2>1. /\ pc' \in [Threads -> Control] /\ pc'[c] = "idle"
          /\ \A t \in Threads \ {c} : pc'[t] = pc[t]
          /\ call' \in [Callers -> CallRecords] /\ call'[c] = NoCall
          /\ \A d \in Callers \ {c} : call'[d] = call[d]
      BY <1>4, ReturnEffect
    <2>2. ~Holds(c)' /\ ~Ending(c)'
      BY <2>1 DEF Holds, Ending
    <2>3. TypeOK'
      BY <1>2, <1>4, <2>1 DEF TypeOK, Control, CallRecords
    <2>4. CallShape'
      BY <1>2, <2>1, ReturnShape
    <2>5. CallsFitPhase'
      BY <1>1, <1>2, <1>4, <2>1, <2>2, UserPhase, NoCallFields
    <2>6. Ownership'
      BY <1>1, <1>2, <1>4, <2>1, <2>2, QuietStep, NoCallFields DEF Ownership
    <2>7. Numbered'
      BY <1>2, <1>3, <2>1, StepNumbered, NoCallFields
    <2> QED
      BY <2>3, <2>4, <2>5, <2>6, <2>7 DEF Ownership
  <1>5. ASSUME NEW i \in Present,
               monitors' = [monitors EXCEPT ![i] = 0],
               IF Shared(monitors[i]) THEN UNCHANGED <<pc, call>>
               ELSE Continue(c, "stop", "destroy", monitors[i])
        PROVE  ManagerInv'
    <2> DEFINE m == monitors[i]
    <2>1. i \in Ids /\ m \in Mons /\ m \in 0..MaxMonitors /\ m <= created /\ m # 0
      BY <1>3 DEF Present, TypeOK
    <2>2. CASE Shared(m)
      BY <1>1, <1>2, <1>5, <2>1, <2>2, EntryDropped
    <2>3. CASE ~Shared(m)
      <3>1. /\ pc' \in [Threads -> Control] /\ pc'[c] = "stop"
            /\ \A t \in Threads \ {c} : pc'[t] = pc[t]
            /\ call' \in [Callers -> CallRecords]
            /\ call'[c].op = "destroy" /\ call'[c].m = m /\ call'[c].id = call[c].id
            /\ \A d \in Callers \ {c} : call'[d] = call[d]
        <4>1. "destroy" \in Operations /\ "stop" \in Control
          BY DEF Operations, Control
        <4>2. Continue(c, "stop", "destroy", m)
          BY <1>5, <2>3
        <4> QED
          BY <2>1, <4>1, <4>2, ContinueEffect
      <3>2. monitors'[i] = 0 /\ \A k \in Ids \ {i} : monitors'[k] = monitors[k]
        BY <1>5, <2>1 DEF TypeOK
      <3>3. \A k \in Ids : monitors'[k] # m
        BY <2>1, <3>2 DEF LastOwner
      <3>4. TypeOK'
        <4>1. monitors' \in [Ids -> 0..created]
          BY <1>3, <1>5 DEF TypeOK
        <4> QED
          BY <1>2, <3>1, <4>1 DEF TypeOK, Control, CallRecords
      <3>5. CallShape'
        <4>1. /\ c # Health /\ m # 0 /\ UNCHANGED held
              /\ \A d \in Callers \ {c} : pc'[d] = pc[d] /\ call'[d] = call[d]
          BY <1>1, <1>2, <2>1, <3>1
        <4> HIDE DEF m
        <4> QED
          BY <3>1, <4>1 DEF CallShape, Ending
      <3>6. CallsFitPhase'
        <4>1. ~Holds(c)'
          BY <3>1 DEF Holds, Ending
        <4> QED
          BY <1>1, <1>2, <3>1, <4>1, UserPhase
      <3>7. \A d \in Callers : call[d].op \notin {"add", "remove"}
        BY <1>1 DEF CallsFitPhase, Operations
      <3>8. \A d \in Callers : call[d].m # m
        BY <2>1, <3>7, EntryEnded
      <3>9. m \notin dead
        BY <2>1 DEF DeadIsGone
      <3>10. Ownership'
        <4>1. /\ \A k \in Ids : monitors'[k] # monitors[k]
                                   => monitors[k] = m /\ monitors'[k] = 0
              /\ \A d \in Callers : held'[d] # m
          BY <1>2, <2>3, <3>2 DEF Shared
        <4> HIDE DEF m
        <4> QED
          BY <1>1, <1>2, <2>1, <3>1, <3>3, <3>7, <3>8, <3>9, <4>1, BeginStop
             DEF Ownership
      <3>11. Numbered'
        BY <1>2, <2>1, <3>1, StepNumbered
      <3> QED
        BY <3>4, <3>5, <3>6, <3>10, <3>11 DEF Ownership
    <2> QED
      BY <2>2, <2>3
  <1> QED
    BY <1>4, <1>5 DEF DropMonitor

\* The initial states satisfy the invariant.
LEMMA InitInvariant == Init => ManagerInv
  <1> SUFFICES ASSUME Init PROVE ManagerInv
    OBVIOUS
  <1> USE ManagerAssumption, ThreadFacts
  <1>1. /\ \A c \in Callers : pc[c] = "idle" /\ call[c] = NoCall /\ held[c] = 0
        /\ \A m \in Mons : pc[m] = "none" /\ running[m] = FALSE
        /\ \A i \in Ids : monitors[i] = 0
        /\ \A c \in Callers : call[c].op = None /\ call[c].m = 0
    BY NoCallFields DEF Init
  <1>2. TypeOK
    <2>1. /\ pc \in [Threads -> {"none", "idle", "lock", "start", "reading", "stop",
                                 "join", "stopped", "dropping", "loop", "round", "returned"}]
          /\ running \in [Mons -> BOOLEAN] /\ tidy \in BOOLEAN
          /\ dead \subseteq Mons /\ todo \subseteq Mons
          /\ phase \in {"up", "health_stopped", "destroyed", "torn"}
      BY DEF Init
    <2>2. /\ mutex \in Callers \cup {None} /\ created \in 0..MaxMonitors
          /\ monitors \in [Ids -> 0..created] /\ held \in [Callers -> 0..created]
      BY DEF Init
    <2>3. NoCall \in [op : Operations \cup {None}, id : Ids \cup {None}, m : 0..MaxMonitors]
      BY DEF NoCall
    <2>4. call \in [Callers -> [op : Operations \cup {None}, id : Ids \cup {None},
                                m : 0..MaxMonitors]]
      BY <2>3 DEF Init
    <2> QED
      BY <2>1, <2>2, <2>4 DEF TypeOK
  <1>3. CallShape
    BY <1>1, NoCallFields DEF CallShape, Ending, Operations
  <1>4. CallsFitPhase
    BY <1>1 DEF CallsFitPhase, Init, Holds, Ending, Up, Operations
  <1>5. NoLostMonitor /\ OneStopper /\ LastOwner /\ FlagIsThread /\ DeadIsGone
    BY <1>1 DEF NoLostMonitor, OneStopper, LastOwner, FlagIsThread, DeadIsGone, Ending,
                Holds, Init
  <1>6. Numbered
    <2>1. Adding = {}
      BY <1>1 DEF Adding
    <2> QED
      BY <1>1, <2>1, FS_EmptySet DEF Numbered, Init
  <1> QED
    BY <1>2, <1>3, <1>4, <1>5, <1>6 DEF ManagerInv

\* Every step keeps the invariant.
LEMMA Invariance == ManagerInv /\ [Next]_vars => ManagerInv'
  <1> SUFFICES ASSUME ManagerInv, [Next]_vars PROVE ManagerInv'
    OBVIOUS
  <1> USE ThreadFacts
  <1>1. ASSUME NEW c \in Users, NEW op \in {"add", "remove", "get_monitor"},
               NEW i \in Ids, Up, Enter(c, op, i)
        PROVE  ManagerInv'
    <2>1. op \in Operations /\ i \in Ids \cup {None} /\ c \in Callers /\ c # Health
      BY ManagerAssumption DEF Operations
    <2> QED
      BY <1>1, <2>1, EnterStep
  <1>2. CASE HealthCheck
    <2>1. "stats" \in Operations /\ None \in Ids \cup {None}
      BY DEF Operations
    <2> QED
      BY <1>2, <2>1, EnterStep DEF HealthCheck
  <1>3. ASSUME NEW c \in Users, release(c) \/ DestroyManager(c) PROVE ManagerInv'
    BY <1>3, ReleaseStep, DestroyStep
  <1>4. ASSUME NEW c \in Callers, CallStep(c) PROVE ManagerInv'
    BY <1>4, AddStep, StartStep, RemoveStep, GetStep, StatsStep, ReadStep, StopStep,
       JoinStep, StoppedStep, DropStep DEF CallStep
  <1>5. ASSUME NEW m \in Mons, Loop(m) \/ Round(m) PROVE ManagerInv'
    BY <1>5, ThreadStep
  <1>6. CASE HealthStops
    <2>1. /\ phase = "up" /\ phase' = "health_stopped" /\ pc[Health] = "idle"
          /\ UNCHANGED <<pc, call, mutex, monitors, held, running, dead, created, todo, tidy>>
      BY <1>6 DEF HealthStops, HealthGone, map
    <2>2. TypeOK' /\ CallShape' /\ Ownership' /\ Numbered'
      BY <2>1 DEF ManagerInv, TypeOK, CallShape, Ending, Holds, Ownership, NoLostMonitor,
                  OneStopper, LastOwner, FlagIsThread, DeadIsGone, Shared, Numbered, Adding
    <2>3. CallsFitPhase'
      BY <2>1 DEF ManagerInv, CallsFitPhase, Holds, Ending, Up
    <2> QED
      BY <2>2, <2>3 DEF ManagerInv, Ownership
  <1>7. CASE UNCHANGED vars
    <2>1. UNCHANGED <<pc, call, mutex, monitors, held, running, dead, created, todo, phase,
                      tidy>>
      BY <1>7 DEF vars, map
    <2>2. TypeOK' /\ CallShape' /\ Ownership' /\ Numbered'
      BY <2>1 DEF ManagerInv, TypeOK, CallShape, Ending, Holds, Ownership, NoLostMonitor,
                  OneStopper, LastOwner, FlagIsThread, DeadIsGone, Shared, Numbered, Adding
    <2>3. CallsFitPhase'
      BY <2>1 DEF ManagerInv, CallsFitPhase, Holds, Ending, Up
    <2> QED
      BY <2>2, <2>3 DEF ManagerInv, Ownership
  <1> QED
    BY <1>1, <1>2, <1>3, <1>4, <1>5, <1>6, <1>7 DEF Next

-----------------------------------------------------------------------------
(* The theorems.                                                           *)

\* Every monitor thread has an owner or a call that joins it, no monitor is
\* stopped by two threads, and who ends a monitor is its last owner, for any
\* number of users, ids and monitors (resource_monitor.cpp:21-41, 252-271).
THEOREM ManagerInvariant == Spec => []ManagerInv
  BY InitInvariant, Invariance, PTL DEF Spec

\* Once no thread of a monitor is left to start or to join, a step of a call
\* moves only the thread that makes it.
LEMMA CallMoves ==
    ASSUME TypeOK, NEW c \in Callers, CallStep(c), pc[c] # "start",
           \A t \in Threads : pc[t] # "returned",
           call[c].m \in Threads \/ pc[c] # "join"
    PROVE  pc[c] # "idle" /\ \A t \in Threads \ {c} : pc'[t] = pc[t]
  <1> USE ThreadFacts DEF Locking, Continue, Return, Goto, TypeOK
  <1>1. CASE add_monitor(c)
    BY <1>1 DEF add_monitor
  <1>2. CASE remove_monitor(c)
    BY <1>2 DEF remove_monitor
  <1>3. CASE get_monitor(c) \/ get_global_stats(c) \/ StatsRead(c)
    BY <1>3 DEF get_monitor, get_global_stats, StatsRead
  <1>4. CASE stop(c)
    BY <1>4 DEF stop
  <1>5. CASE Stopped(c)
    BY <1>5 DEF Stopped
  <1>6. CASE DropMonitor(c)
    BY <1>6 DEF DropMonitor
  <1>7. ~Start(c) /\ ~StopJoins(c)
    BY DEF Start, StopJoins
  <1> QED
    BY <1>1, <1>2, <1>3, <1>4, <1>5, <1>6, <1>7 DEF CallStep

\* Nothing is left to run in a manager that was destroyed with nothing in it.
LEMMA TeardownStep ==
    ManagerInv /\ SafeTeardown /\ [Next]_vars => SafeTeardown'
  <1> SUFFICES ASSUME ManagerInv, SafeTeardown, [Next]_vars, tidy'
               PROVE  pc'[Health] = "idle" /\ \A m \in Mons : pc'[m] = "none"
    BY DEF SafeTeardown
  <1> USE ManagerAssumption, ThreadFacts
  <1>1. CASE tidy
    <2>1. /\ pc[Health] = "idle" /\ \A m \in Mons : pc[m] = "none"
          /\ phase = "destroyed" /\ ~Up
      BY <1>1 DEF SafeTeardown, ManagerInv, CallsFitPhase, Up
    <2>2. \A c \in Callers : pc[c] # "start"
      BY <2>1 DEF ManagerInv, CallShape, CallsFitPhase, Operations
    <2>3. ASSUME NEW c \in Callers, c # Health,
                 \A t \in Threads \ {c} : pc'[t] = pc[t]
          PROVE  pc'[Health] = "idle" /\ \A m \in Mons : pc'[m] = "none"
      BY <2>1, <2>3
    <2>4. ASSUME NEW c \in Callers, CallStep(c)
          PROVE  c # Health /\ \A t \in Threads \ {c} : pc'[t] = pc[t]
      <3>1. \A t \in Threads : pc[t] # "returned"
        BY <2>1 DEF Threads, ManagerInv, CallShape
      <3>2. pc[c] = "join" => call[c].m \in Threads
        BY EndingFacts DEF ManagerInv, Ending
      <3> QED
        BY <2>1, <2>2, <2>4, <3>1, <3>2, CallMoves DEF ManagerInv
    <2>5. ASSUME NEW c \in Users, release(c)
          PROVE  c # Health /\ \A t \in Threads \ {c} : pc'[t] = pc[t]
      BY <2>5 DEF release, Continue, Goto, ManagerInv, TypeOK
    <2>6. CASE UNCHANGED pc
      BY <2>1, <2>6
    <2> QED
      BY <2>1, <2>3, <2>4, <2>5, <2>6 DEF Next, HealthCheck, DestroyManager, Loop, Round,
         HealthStops, vars
  <1>2. CASE ~tidy
    <2>1. PICK c \in Users : DestroyManager(c)
      BY <1>2 DEF Next, HealthCheck, Enter, release, CallStep, add_monitor, Start,
         remove_monitor, get_monitor, get_global_stats, StatsRead, stop, StopJoins,
         Stopped, DropMonitor, Loop, Round, HealthStops, vars
    <2>2. /\ phase = "health_stopped" /\ Present = {} /\ \A d \in Callers : held[d] = 0
          /\ \A u \in Users : pc[u] = "idle"
      BY <2>1 DEF DestroyManager
    <2>3. \A d \in Callers : pc[d] = "idle" /\ call[d].m = 0
      BY <2>2, NoCallFields DEF ManagerInv, CallsFitPhase, CallShape, Callers
    <2>4. \A m \in Mons : pc[m] = "none"
      BY <2>2, <2>3 DEF ManagerInv, NoLostMonitor, Shared, Present
    <2>5. \A t \in Threads \ {c} : pc'[t] = pc[t]
      BY <2>1 DEF DestroyManager, Goto, ManagerInv, TypeOK
    <2> QED
      BY <2>3, <2>4, <2>5
  <1> QED
    BY <1>1, <1>2

\* Nobody uses a destroyed monitor, and after a tidy end of main() no thread
\* is left that could use the destroyed manager, for any number of users, ids
\* and monitors (resource_monitor.cpp:240-300, main.cpp:283).
THEOREM NothingIsUsedAfterItsEnd == Spec => []NothingDangles
  <1>1. Init => SafeTeardown
    BY DEF Init, SafeTeardown
  <1>2. ManagerInv => UsesLive
    <2> SUFFICES ASSUME ManagerInv, Up \/ tidy, NEW m \in dead
                 PROVE  pc[m] = "none" /\ m \notin todo /\ ~Shared(m)
      BY DEF UsesLive
    <2>1. pc[m] = "none" /\ ~Shared(m) /\ \A i \in Ids : monitors[i] # m
      BY DEF ManagerInv, DeadIsGone
    <2>2. m \notin todo
      <3>1. CASE Up
        BY <2>1, <3>1 DEF ManagerInv, CallsFitPhase
      <3>2. CASE tidy
        BY <3>2 DEF ManagerInv, CallsFitPhase
      <3> QED
        BY <3>1, <3>2
    <2> QED
      BY <2>1, <2>2
  <1> QED
    BY <1>1, <1>2, ManagerInvariant, TeardownStep, PTL DEF Spec, NothingDangles
=============================================================================
