-------------------------- MODULE JobWorkerProofs --------------------------
(***************************************************************************)
(* Proofs about JobWorker, for any number of daemons and jobs, any exit    *)
(* codes, any set of faults and any choice of ids.                         *)
(***************************************************************************)
EXTENDS JobWorker, FiniteSetTheorems, TLAPS

\* Every RedisClient call keeps the types of what it changes.
LEMMA CallTypes ==
    ASSUME TypeOK, NEW w \in Workers, NEW o, NEW next \in Control,
           Call(w, o, next)
    PROVE  /\ pc' \in [Workers -> Control]
           /\ conn' \in [Workers -> {"none", "up", "broken", "closed"}]
           /\ faulted' \subseteq Workers
  BY DEF TypeOK, Call, Control, Terminal, InHand

\* Each step of main(), of a signal or of the server keeps every type.
LEMMA TypeStep ==
    ASSUME TypeOK, [Next]_vars
    PROVE  TypeOK'
  <1> USE WorkerAssumption
  <1>1. ASSUME NEW w \in Workers, Connect(w)
        PROVE  TypeOK'
    BY <1>1 DEF TypeOK, Connect, localVars, serverVars, histVars, Control,
                Terminal, InHand
  <1>2. ASSUME NEW w \in Workers, Register(w)
        PROVE  TypeOK'
    <2>1. PICK o \in Outcomes(w) :
             Call(w, o, IF o.reply = "value" THEN "loop" ELSE "exit1")
      BY <1>2 DEF Register
    <2>2. (IF o.reply = "value" THEN "loop" ELSE "exit1") \in Control
      BY DEF Control, Terminal
    <2> QED
      BY <1>2, <2>1, <2>2, CallTypes
         DEF TypeOK, Register, localVars, serverVars, histVars
  <1>3. ASSUME NEW w \in Workers, LoopHead(w) \/ Shutdown(w)
        PROVE  TypeOK'
    BY <1>3 DEF TypeOK, LoopHead, Shutdown, localVars, serverVars, histVars, Control,
                Terminal, InHand
  <1>4. ASSUME NEW w \in Workers, JobNext(w)
        PROVE  TypeOK'
    <2>1. PICK o \in Outcomes(w),
               j \in (IF queue = {} THEN {None} ELSE queue),
               short \in (IF "malformed" \in Faults THEN BOOLEAN ELSE {FALSE}) :
             LET arrived == o.reply = "value" /\ j # None /\ ~short
             IN /\ queue' = IF o.served THEN queue \ {j} ELSE queue
                /\ Call(w, o, AfterFetch(arrived))
                /\ job' = [job EXCEPT ![w] = IF arrived THEN j ELSE None]
                /\ taken' = [taken EXCEPT ![w] =
                                IF arrived THEN @ \cup {j} ELSE @]
      BY <1>4 DEF JobNext
    <2> DEFINE arrived == o.reply = "value" /\ j # None /\ ~short
    <2>2. AfterFetch(arrived) \in Control
      BY DEF AfterFetch, Control, InHand
    <2>3. j \in Jobs \cup {None} /\ (arrived => j \in Jobs)
      BY DEF TypeOK
    <2>4. /\ pc' \in [Workers -> Control]
          /\ conn' \in [Workers -> {"none", "up", "broken", "closed"}]
          /\ faulted' \subseteq Workers
      BY <2>1, <2>2, CallTypes
    <2>5. job' \in [Workers -> Jobs \cup {None}]
          /\ taken' \in [Workers -> SUBSET Jobs]
          /\ queue' \subseteq Jobs
      BY <2>1, <2>3 DEF TypeOK
    <2> QED
      BY <1>4, <2>4, <2>5 DEF TypeOK, JobNext
  <1>5. ASSUME NEW w \in Workers, Claim(w)
        PROVE  TypeOK'
    <2>1. PICK o \in Outcomes(w) :
             /\ Call(w, o, AfterClaim(w))
             /\ claims' = IF o.served
                          THEN [claims EXCEPT ![sandbox_id(w)] = job[w]]
                          ELSE claims
      BY <1>5 DEF Claim
    <2>2. AfterClaim(w) \in Control
      BY DEF AfterClaim, Control, InHand
    <2>3. claims' \in [Ids -> Jobs \cup {None}]
      BY <2>1 DEF TypeOK
    <2> QED
      BY <1>5, <2>1, <2>2, <2>3, CallTypes
         DEF TypeOK, Claim, localVars, histVars
  <1>6. ASSUME NEW w \in Workers, NEW kind \in {"start", "output"},
               NEW next \in Control, Log(w, kind, next)
        PROVE  TypeOK'
    <2>1. PICK o \in Outcomes(w) :
             /\ Call(w, o, next)
             /\ joblog' = IF o.served
                          THEN [joblog EXCEPT ![job[w]] = @ \cup {kind}]
                          ELSE joblog
      BY <1>6 DEF Log
    <2>2. joblog' \in [Jobs -> SUBSET {"start", "output"}]
      BY <2>1 DEF TypeOK
    <2> QED
      BY <1>6, <2>1, <2>2, CallTypes DEF TypeOK, Log, localVars, histVars
  <1>7. ASSUME NEW w \in Workers, Announce(w) \/ Output(w)
        PROVE  TypeOK'
    BY <1>6, <1>7 DEF Announce, Output, Control, InHand
  <1>8. ASSUME NEW w \in Workers, RunStart(w)
        PROVE  TypeOK'
    <2>1. execs' \in [Jobs -> Nat]
      <3>1. \A j \in Jobs : execs[j] + 1 \in Nat
        BY DEF TypeOK
      <3> QED
        BY <1>8, <3>1 DEF TypeOK, RunStart
    <2>2. pc' \in [Workers -> Control]
      BY <1>8 DEF TypeOK, RunStart, Control, InHand
    <2> QED
      BY <1>8, <2>1, <2>2 DEF TypeOK, RunStart, localVars, serverVars
  <1>9. ASSUME NEW w \in Workers, RunEnd(w)
        PROVE  TypeOK'
    <2>1. pc' \in [Workers -> Control]
      BY <1>9 DEF TypeOK, RunEnd, Control, InHand
    <2>2. PICK c \in ExitCodes :
             /\ code' = [code EXCEPT ![w] = c]
             /\ outcome' = [outcome EXCEPT ![job[w]] = c]
      BY <1>9 DEF RunEnd, RunResult
    <2>3. code' \in [Workers -> ExitCodes \cup {None}]
      BY <2>2 DEF TypeOK
    <2>4. outcome' \in [Jobs -> ExitCodes \cup {None}]
      BY <2>2 DEF TypeOK
    <2> QED
      BY <1>9, <2>1, <2>3, <2>4 DEF TypeOK, RunEnd, serverVars
  <1>10. ASSUME NEW w \in Workers, Report(w)
         PROVE  TypeOK'
    <2>1. PICK o \in Outcomes(w) :
             /\ Call(w, o, AfterReport(w, o))
             /\ results' = IF o.served
                           THEN [results EXCEPT ![job[w]] = code[w]]
                           ELSE results
             /\ jobs_completed' =
                   [jobs_completed EXCEPT ![w] =
                       IF Returns(o) /\ CountsAsCompleted(code[w])
                       THEN @ + 1 ELSE @]
             /\ jobs_failed' =
                   [jobs_failed EXCEPT ![w] =
                       IF Returns(o) /\ ~CountsAsCompleted(code[w])
                       THEN @ + 1 ELSE @]
      BY <1>10 DEF Report
    <2>2. AfterReport(w, o) \in Control
      BY DEF AfterReport, Control, InHand
    <2>3. results' \in [Jobs -> ExitCodes \cup {None}]
      BY <2>1 DEF TypeOK
    <2>4. /\ jobs_completed[w] + 1 \in Nat
          /\ jobs_failed[w] + 1 \in Nat
      BY DEF TypeOK
    <2>5. /\ jobs_completed' \in [Workers -> Nat]
          /\ jobs_failed' \in [Workers -> Nat]
      BY <2>1, <2>4 DEF TypeOK
    <2> QED
      BY <1>10, <2>1, <2>2, <2>3, <2>5, CallTypes DEF TypeOK, Report, histVars
  <1>11. ASSUME NEW w \in Workers, Release(w)
         PROVE  TypeOK'
    <2>1. PICK o \in Outcomes(w) :
             /\ Call(w, o, "loop")
             /\ claims' = IF o.served
                          THEN [claims EXCEPT ![sandbox_id(w)] = None]
                          ELSE claims
      BY <1>11 DEF Release
    <2>2. "loop" \in Control
      BY DEF Control
    <2>3. claims' \in [Ids -> Jobs \cup {None}]
      BY <2>1 DEF TypeOK
    <2> QED
      BY <1>11, <2>1, <2>2, <2>3, CallTypes DEF TypeOK, Release, histVars
  <1>12. ASSUME NEW w \in Workers, SignalHandler(w) \/ Kill9(w)
         PROVE  TypeOK'
    BY <1>12 DEF TypeOK, SignalHandler, Kill9, localVars, serverVars,
                 histVars, Control, Terminal
  <1>13. ASSUME NEW j \in Jobs, Submit(j)
         PROVE  TypeOK'
    BY <1>13 DEF TypeOK, Submit, localVars, histVars
  <1>14. CASE UNCHANGED vars
    BY <1>14 DEF TypeOK, vars, localVars, serverVars, histVars
  <1> QED
    BY <1>1, <1>2, <1>3, <1>4, <1>5, <1>7, <1>8, <1>9, <1>10, <1>11, <1>12,
       <1>13, <1>14 DEF Next, MainStep

\* The types of main()'s and of the server's state are never broken.
THEOREM TypeCorrect == Spec => []TypeOK
  <1>1. Init => TypeOK
    BY WorkerAssumption
       DEF Init, TypeOK, Control, Terminal, Ids
  <1>2. TypeOK /\ [Next]_vars => TypeOK'
    BY TypeStep
  <1> QED
    BY <1>1, <1>2, PTL DEF Spec

-----------------------------------------------------------------------------
(* AtMostOnce and ReportsOwnRun, along JobInv.                             *)

\* A call sends its own daemon to the given statement, leaves it in recv
\* or ends it; the others do not move.
LEMMA CallControl ==
    ASSUME TypeOK, NEW w \in Workers, NEW o, NEW next, Call(w, o, next)
    PROVE  /\ pc'[w] \in {next, "blocked", "sigpipe"}
           /\ \A v \in Workers \ {w} : pc'[v] = pc[v]
  BY DEF TypeOK, Call

\* The stretches of main() in which the run of the job in hand does not
\* change: before it, during it, after it.
Stretches == {{"claim", "announce", "run"}, {"running"}, {"report", "release"}}

\* A step of one daemon that stays in its stretch, or lets go of its job,
\* and that records nothing, keeps the invariant.
LEMMA LocalStep ==
    ASSUME JobInv, TypeOK', NEW w \in Workers,
           UNCHANGED <<submitted, queue, results, execs, outcome>>,
           \A v \in Workers \ {w} :
              pc'[v] = pc[v] /\ job'[v] = job[v] /\ code'[v] = code[v],
           pc'[w] \in InHand =>
              /\ job'[w] = job[w] /\ code'[w] = code[w]
              /\ \E S \in Stretches : pc[w] \in S /\ pc'[w] \in S
    PROVE  JobInv'
  <1>1. pc'[w] \in InHand => pc[w] \in InHand
    BY DEF Stretches, InHand
  <1>2. OneHand'
    BY <1>1 DEF JobInv, OneHand
  <1>3. RunTracksControl'
    <2>1. ASSUME NEW v \in Workers
          PROVE  /\ pc'[v] \in {"claim", "announce", "run"}
                       => execs'[job'[v]] = 0
                 /\ pc'[v] = "running"
                       => execs'[job'[v]] = 1 /\ outcome'[job'[v]] = None
                 /\ pc'[v] \in {"report", "release"}
                       => execs'[job'[v]] = 1 /\ code'[v] = outcome'[job'[v]]
      <3>1. CASE v = w
        BY <3>1 DEF JobInv, RunTracksControl, Stretches, InHand
      <3>2. CASE v # w
        BY <3>2 DEF JobInv, RunTracksControl
      <3> QED
        BY <3>1, <3>2
    <2> QED
      BY <2>1 DEF JobInv, RunTracksControl
  <1> QED
    BY <1>2, <1>3 DEF JobInv, AtMostOnce, RecordsAgree

\* Only a request the server acted upon is answered with a value.
LEMMA AnsweredIsServed ==
    ASSUME NEW w, NEW o \in Outcomes(w), o.reply = "value"
    PROVE  o.served
  <1>1. \A S : \A r \in [served : S, reply : {"err"}] : r.reply = "err"
    OBVIOUS
  <1>2. \A S : \A r \in [served : S, reply : {"none"}] : r.reply = "none"
    OBVIOUS
  <1>3. \A S : \A r \in [served : S, reply : {"err", "sigpipe"}] :
           r.reply # "value"
    OBVIOUS
  <1>4. \A S : \A r \in [served : S, reply : {"error_tag"}] : r.reply # "value"
    OBVIOUS
  <1>5. o = [served |-> TRUE, reply |-> "value"]
    BY <1>1, <1>2, <1>3, <1>4, Zenon DEF Outcomes
  <1> QED
    BY <1>5

\* Each step keeps the invariant: only job_next, the run, job_result and
\* the submission of a job touch what it speaks about.
LEMMA JobStep ==
    ASSUME JobInv, [Next]_vars
    PROVE  JobInv'
  <1> USE WorkerAssumption
  <1>0. TypeOK /\ TypeOK'
    BY TypeStep DEF JobInv
  <1>1. ASSUME NEW w \in Workers, Connect(w) \/ LoopHead(w) \/ Shutdown(w)
                                     \/ Kill9(w)
        PROVE  JobInv'
    <2>1. pc'[w] \notin InHand /\ \A v \in Workers \ {w} : pc'[v] = pc[v]
      BY <1>0, <1>1 DEF TypeOK, Connect, LoopHead, Shutdown, Kill9, InHand
    <2> QED
      BY <1>0, <1>1, <2>1, LocalStep
         DEF Connect, LoopHead, Shutdown, Kill9, localVars, serverVars,
             histVars
  <1>2. ASSUME NEW w \in Workers, Register(w)
        PROVE  JobInv'
    <2>1. PICK o \in Outcomes(w) :
             Call(w, o, IF o.reply = "value" THEN "loop" ELSE "exit1")
      BY <1>2 DEF Register
    <2>2. pc'[w] \notin InHand /\ \A v \in Workers \ {w} : pc'[v] = pc[v]
      BY <1>0, <2>1, CallControl DEF InHand
    <2> QED
      BY <1>0, <1>2, <2>2, LocalStep
         DEF Register, localVars, serverVars, histVars
  <1>3. ASSUME NEW w \in Workers, Claim(w) \/ Announce(w) \/ Output(w)
        PROVE  JobInv'
    <2>1. /\ \A v \in Workers \ {w} : pc'[v] = pc[v]
          /\ pc'[w] \in InHand =>
                \E S \in Stretches : pc[w] \in S /\ pc'[w] \in S
      BY <1>0, <1>3, CallControl
         DEF Claim, Announce, Output, Log, AfterClaim, Stretches, InHand
    <2>2. UNCHANGED <<job, code, submitted, queue, results, execs, outcome>>
      BY <1>3 DEF Claim, Announce, Output, Log, localVars, histVars
    <2> QED
      BY <1>0, <2>1, <2>2, LocalStep
  <1>4. ASSUME NEW w \in Workers, Release(w)
        PROVE  JobInv'
    <2>1. pc'[w] \notin InHand /\ \A v \in Workers \ {w} : pc'[v] = pc[v]
      BY <1>0, <1>4, CallControl DEF Release, InHand
    <2>2. \A v \in Workers \ {w} : job'[v] = job[v] /\ code'[v] = code[v]
      BY <1>0, <1>4 DEF Release, TypeOK
    <2>3. UNCHANGED <<submitted, queue, results, execs, outcome>>
      BY <1>4 DEF Release, histVars
    <2> QED
      BY <1>0, <2>1, <2>2, <2>3, LocalStep
  <1>5. ASSUME NEW w \in Workers, JobNext(w)
        PROVE  JobInv'
    <2>1. PICK o \in Outcomes(w),
               j \in (IF queue = {} THEN {None} ELSE queue),
               short \in (IF "malformed" \in Faults THEN BOOLEAN ELSE {FALSE}) :
             LET arrived == o.reply = "value" /\ j # None /\ ~short
             IN /\ queue' = IF o.served THEN queue \ {j} ELSE queue
                /\ Call(w, o, AfterFetch(arrived))
                /\ job' = [job EXCEPT ![w] = IF arrived THEN j ELSE None]
      BY <1>5 DEF JobNext
    <2> DEFINE arrived == o.reply = "value" /\ j # None /\ ~short
    <2>2. UNCHANGED <<code, submitted, results, execs, outcome>>
      BY <1>5 DEF JobNext
    <2>3. \A v \in Workers \ {w} : pc'[v] = pc[v] /\ job'[v] = job[v]
      BY <1>0, <2>1, CallControl DEF TypeOK
    <2>4. queue' \subseteq queue
      BY <2>1
    <2>5. CASE pc'[w] \notin InHand
      <3>1. OneHand'
        BY <2>2, <2>3, <2>4, <2>5 DEF JobInv, OneHand
      <3>2. RunTracksControl'
        <4>1. queue' \subseteq submitted'
              /\ \A i \in Jobs : i \in queue' \/ i \notin submitted'
                                  => execs'[i] = 0
          BY <2>2, <2>4 DEF JobInv, RunTracksControl
        <4> QED
          BY <2>2, <2>3, <2>5, <4>1 DEF JobInv, RunTracksControl, InHand
      <3> QED
        BY <1>0, <2>2, <3>1, <3>2 DEF JobInv, AtMostOnce, RecordsAgree
    <2>6. CASE pc'[w] \in InHand
      <3>1. arrived /\ o.served /\ pc'[w] = "claim"
        <4>1. pc'[w] \in {AfterFetch(arrived), "blocked", "sigpipe"}
          BY <1>0, <2>1, CallControl
        <4>2. arrived /\ pc'[w] = "claim"
          BY <2>6, <4>1 DEF AfterFetch, InHand
        <4>3. o.reply = "value" => o.served
          BY AnsweredIsServed
        <4> QED
          BY <4>2, <4>3
      <3>2. j \in queue /\ j \in Jobs /\ job'[w] = j /\ queue' = queue \ {j}
        BY <1>0, <2>1, <3>1 DEF TypeOK
      <3>3. OneHand'
        <4>1. \A v \in Workers \ {w} : pc'[v] \in InHand => job'[v] # j
          BY <2>3, <3>2 DEF JobInv, OneHand
        <4>2. j \in submitted' \ queue'
          BY <2>2, <3>2 DEF JobInv, RunTracksControl
        <4> QED
          BY <2>2, <2>3, <2>4, <3>2, <4>1, <4>2 DEF JobInv, OneHand
      <3>4. RunTracksControl'
        <4>1. execs'[j] = 0
          BY <2>2, <3>2 DEF JobInv, RunTracksControl
        <4>2. queue' \subseteq submitted'
              /\ \A i \in Jobs : i \in queue' \/ i \notin submitted'
                                  => execs'[i] = 0
          BY <2>2, <2>4 DEF JobInv, RunTracksControl
        <4> QED
          BY <2>2, <2>3, <3>1, <3>2, <4>1, <4>2 DEF JobInv, RunTracksControl
      <3> QED
        BY <1>0, <2>2, <3>3, <3>4 DEF JobInv, AtMostOnce, RecordsAgree
    <2> QED
      BY <2>5, <2>6
  <1>6. ASSUME NEW w \in Workers, RunStart(w)
        PROVE  JobInv'
    <2>1. /\ pc[w] = "run" /\ pc'[w] = "running"
          /\ \A v \in Workers \ {w} : pc'[v] = pc[v]
          /\ UNCHANGED <<job, code, submitted, queue, results, outcome>>
          /\ execs' = [execs EXCEPT ![job[w]] = @ + 1]
      BY <1>0, <1>6 DEF RunStart, TypeOK, localVars, serverVars
    <2>2. job[w] \in Jobs /\ job[w] \in submitted \ queue
      BY <1>0, <2>1 DEF JobInv, OneHand, TypeOK, InHand
    <2>3. /\ execs[job[w]] = 0 /\ execs'[job[w]] = 1
          /\ \A j \in Jobs \ {job[w]} : execs'[j] = execs[j]
      BY <1>0, <2>1, <2>2 DEF JobInv, RunTracksControl, TypeOK
    <2>4. OneHand'
      BY <2>1 DEF JobInv, OneHand, InHand
    <2>5. \A v \in Workers \ {w} :
             pc'[v] \in InHand => job[v] \in Jobs \ {job[w]}
      BY <1>0, <2>1 DEF JobInv, OneHand, TypeOK, InHand
    <2>6. RunTracksControl'
      <3>1. outcome[job[w]] = None
        BY <2>2, <2>3 DEF JobInv, RecordsAgree
      <3>2. queue' \subseteq submitted'
            /\ \A j \in Jobs : j \in queue' \/ j \notin submitted'
                                => execs'[j] = 0
        BY <2>1, <2>2, <2>3 DEF JobInv, RunTracksControl
      <3> QED
        BY <2>1, <2>3, <2>5, <3>1, <3>2
           DEF JobInv, RunTracksControl, InHand
    <2>7. AtMostOnce' /\ RecordsAgree'
      BY <2>1, <2>3 DEF JobInv, AtMostOnce, RecordsAgree
    <2> QED
      BY <1>0, <2>4, <2>6, <2>7 DEF JobInv
  <1>7. ASSUME NEW w \in Workers, RunEnd(w)
        PROVE  JobInv'
    <2>1. PICK c \in ExitCodes :
             /\ code' = [code EXCEPT ![w] = c]
             /\ outcome' = [outcome EXCEPT ![job[w]] = c]
      BY <1>7 DEF RunEnd, RunResult
    <2>2. /\ pc[w] = "running" /\ pc'[w] = "report"
          /\ \A v \in Workers \ {w} : pc'[v] = pc[v] /\ code'[v] = code[v]
          /\ UNCHANGED <<job, submitted, queue, results, execs>>
      BY <1>0, <1>7, <2>1 DEF RunEnd, TypeOK, serverVars
    <2>3. job[w] \in Jobs /\ execs[job[w]] = 1 /\ results[job[w]] = None
      BY <1>0, <2>2
         DEF JobInv, OneHand, RunTracksControl, RecordsAgree, TypeOK, InHand
    <2>4. /\ outcome'[job[w]] = c /\ code'[w] = c
          /\ \A j \in Jobs \ {job[w]} : outcome'[j] = outcome[j]
      BY <1>0, <2>1, <2>3 DEF TypeOK
    <2>5. OneHand'
      BY <2>2 DEF JobInv, OneHand, InHand
    <2>6. \A v \in Workers \ {w} :
             pc'[v] \in InHand => job[v] \in Jobs \ {job[w]}
      BY <1>0, <2>2 DEF JobInv, OneHand, TypeOK, InHand
    <2>7. RunTracksControl'
      BY <2>2, <2>3, <2>4, <2>6 DEF JobInv, RunTracksControl, InHand
    <2>8. AtMostOnce' /\ RecordsAgree'
      BY <2>2, <2>3, <2>4 DEF JobInv, AtMostOnce, RecordsAgree
    <2> QED
      BY <1>0, <2>5, <2>7, <2>8 DEF JobInv
  <1>8. ASSUME NEW w \in Workers, Report(w)
        PROVE  JobInv'
    <2>1. PICK o \in Outcomes(w) :
             /\ Call(w, o, AfterReport(w, o))
             /\ results' = IF o.served
                           THEN [results EXCEPT ![job[w]] = code[w]]
                           ELSE results
      BY <1>8 DEF Report
    <2>2. /\ pc[w] = "report" /\ pc'[w] \in {"release", "blocked", "sigpipe"}
          /\ \A v \in Workers \ {w} : pc'[v] = pc[v]
          /\ UNCHANGED <<job, code, submitted, queue, execs, outcome>>
      BY <1>0, <1>8, <2>1, CallControl DEF Report, AfterReport, histVars
    <2>3. job[w] \in Jobs /\ execs[job[w]] = 1 /\ code[w] = outcome[job[w]]
      BY <1>0, <2>2 DEF JobInv, OneHand, RunTracksControl, TypeOK, InHand
    <2>4. \A j \in Jobs : results'[j] \in {results[j], outcome[j]}
      BY <1>0, <2>1, <2>3 DEF TypeOK
    <2>5. OneHand'
      BY <2>2 DEF JobInv, OneHand, InHand
    <2>6. RunTracksControl'
      BY <2>2 DEF JobInv, RunTracksControl
    <2>7. AtMostOnce' /\ RecordsAgree'
      BY <2>2, <2>4 DEF JobInv, AtMostOnce, RecordsAgree
    <2> QED
      BY <1>0, <2>5, <2>6, <2>7 DEF JobInv
  <1>9. ASSUME NEW w \in Workers, SignalHandler(w)
        PROVE  JobInv'
    BY <1>0, <1>9
       DEF SignalHandler, JobInv, AtMostOnce, OneHand, RunTracksControl,
           RecordsAgree, serverVars, histVars
  <1>10. ASSUME NEW j \in Jobs, Submit(j)
         PROVE  JobInv'
    <2>1. /\ UNCHANGED <<pc, job, code, results, execs, outcome>>
          /\ submitted' = submitted \cup {j} /\ queue' = queue \cup {j}
          /\ j \notin submitted
      BY <1>10 DEF Submit, localVars, histVars
    <2>2. OneHand'
      BY <2>1 DEF JobInv, OneHand
    <2>3. RunTracksControl'
      BY <2>1 DEF JobInv, RunTracksControl
    <2> QED
      BY <1>0, <2>1, <2>2, <2>3 DEF JobInv, AtMostOnce, RecordsAgree
  <1>11. CASE UNCHANGED vars
    BY <1>0, <1>11
       DEF vars, JobInv, AtMostOnce, OneHand, RunTracksControl, RecordsAgree,
           localVars, serverVars, histVars
  <1> QED
    BY <1>1, <1>2, <1>3, <1>4, <1>5, <1>6, <1>7, <1>8, <1>9, <1>10, <1>11
       DEF Next, MainStep

\* JobInv holds in every state the daemons and the server can reach.
THEOREM JobInvariant == Spec => []JobInv
  <1>1. Init => JobInv
    <2>1. Init => TypeOK
      BY WorkerAssumption DEF Init, TypeOK, Control, Terminal, Ids
    <2>2. Init => AtMostOnce /\ OneHand /\ RunTracksControl /\ RecordsAgree
      BY DEF Init, AtMostOnce, OneHand, RunTracksControl, RecordsAgree, InHand
    <2> QED
      BY <2>1, <2>2 DEF JobInv
  <1>2. JobInv /\ [Next]_vars => JobInv'
    BY JobStep
  <1> QED
    BY <1>1, <1>2, PTL DEF Spec

\* No job is executed twice, for any number of daemons sharing the queue
\* and whatever faults hit their calls (main.cpp:209-280).
THEOREM ExecutedAtMostOnce == Spec => []AtMostOnce
  <1>1. JobInv => AtMostOnce
    BY DEF JobInv
  <1> QED
    BY <1>1, JobInvariant, PTL

\* A verdict the server holds is the exit code of the job's one execution
\* (main.cpp:248-257).
THEOREM VerdictIsOwnRun == Spec => []ReportsOwnRun
  <1>1. JobInv => ReportsOwnRun
    BY DEF JobInv, TypeOK, AtMostOnce, RecordsAgree, ReportsOwnRun
  <1> QED
    BY <1>1, JobInvariant, PTL

\* What is once recorded of a job is final: no later step of any daemon, retry,
\* lost reply or restart of the loop overwrites the verdict the server holds or
\* makes a job that has ended run again (main.cpp:209-280).
THEOREM RecordsFinal ==
    Spec => [][\A j \in Jobs : /\ results[j] # None => results'[j] = results[j]
                               /\ outcome[j] # None => /\ outcome'[j] = outcome[j]
                                                       /\ execs'[j] = execs[j]]_vars
  <1> DEFINE Kept(j) == /\ results[j] # None => results'[j] = results[j]
                        /\ outcome[j] # None => /\ outcome'[j] = outcome[j]
                                                /\ execs'[j] = execs[j]
  <1>1. ASSUME JobInv, Next, NEW j \in Jobs
        PROVE  Kept(j)
    <2>1. /\ execs \in [Jobs -> Nat] /\ outcome \in [Jobs -> ExitCodes \cup {None}]
          /\ results \in [Jobs -> ExitCodes \cup {None}]
          /\ execs[j] = 0 => outcome[j] = None
          /\ results[j] # None => results[j] = outcome[j]
      BY <1>1 DEF JobInv, TypeOK, RecordsAgree
    <2>2. ASSUME NEW w \in Workers, RunStart(w)
          PROVE  Kept(j)
      <3>1. execs[job[w]] = 0
        BY <1>1, <2>2 DEF RunStart, JobInv, RunTracksControl
      <3> QED
        BY <2>1, <2>2, <3>1 DEF RunStart, serverVars
    <2>3. ASSUME NEW w \in Workers, RunEnd(w)
          PROVE  Kept(j)
      <3>1. outcome[job[w]] = None
        BY <1>1, <2>3 DEF RunEnd, JobInv, RunTracksControl
      <3> QED
        BY <2>1, <2>3, <3>1 DEF RunEnd, serverVars
    <2>4. ASSUME NEW w \in Workers, Report(w)
          PROVE  Kept(j)
      <3>1. code[w] = outcome[job[w]]
        BY <1>1, <2>4 DEF Report, JobInv, RunTracksControl
      <3>2. results' \in {results, [results EXCEPT ![job[w]] = code[w]]}
        BY <2>4 DEF Report
      <3>3. UNCHANGED <<outcome, execs>>
        BY <2>4 DEF Report, histVars
      <3> QED
        BY <2>1, <3>1, <3>2, <3>3
    <2>5. ASSUME NEW w \in Workers,
                 Connect(w) \/ Register(w) \/ LoopHead(w) \/ Shutdown(w) \/ JobNext(w)
                 \/ Claim(w) \/ Announce(w) \/ Output(w) \/ Release(w)
                 \/ SignalHandler(w) \/ Kill9(w)
          PROVE  Kept(j)
      <3>1. UNCHANGED <<results, outcome, execs>>
        BY <2>5 DEF Connect, Register, LoopHead, Shutdown, JobNext, Claim, Announce,
                    Output, Log, Release, SignalHandler, Kill9, serverVars, histVars
      <3> QED
        BY <3>1
    <2>6. ASSUME NEW i \in Jobs, Submit(i)
          PROVE  Kept(j)
      BY <2>6 DEF Submit, histVars
    <2> QED
      BY <1>1, <2>2, <2>3, <2>4, <2>5, <2>6 DEF Next, MainStep
  <1>2. JobInv /\ [Next]_vars => [\A j \in Jobs : Kept(j)]_vars
    BY <1>1
  <1> QED
    BY <1>2, JobInvariant, PTL DEF Spec

-----------------------------------------------------------------------------
(* The daemons and the server implement JobLedger.                         *)

\* What is recorded of a job tells its phase.
PhaseTold ==
    \A j \in Jobs :
        /\ results[j] # None => LedgerPhase(j) = "reported"
        /\ results[j] = None /\ outcome[j] # None => LedgerPhase(j) = "executed"
        /\ outcome[j] = None /\ execs[j] = 1 => LedgerPhase(j) = "executing"
        /\ j \in submitted \ queue /\ execs[j] = 0 => LedgerPhase(j) = "assigned"
        /\ j \in queue => LedgerPhase(j) = "queued"
        /\ j \notin submitted => LedgerPhase(j) = "new"

\* It does so wherever the invariant holds.
LEMMA PhaseIsTold == JobInv => PhaseTold
  <1> SUFFICES ASSUME JobInv, NEW j \in Jobs
               PROVE  /\ results[j] # None => LedgerPhase(j) = "reported"
                      /\ results[j] = None /\ outcome[j] # None
                            => LedgerPhase(j) = "executed"
                      /\ outcome[j] = None /\ execs[j] = 1
                            => LedgerPhase(j) = "executing"
                      /\ j \in submitted \ queue /\ execs[j] = 0
                            => LedgerPhase(j) = "assigned"
                      /\ j \in queue => LedgerPhase(j) = "queued"
                      /\ j \notin submitted => LedgerPhase(j) = "new"
    BY DEF PhaseTold
  <1>1. /\ execs[j] = 0 => outcome[j] = None
        /\ outcome[j] = None => results[j] = None
        /\ j \in queue \/ j \notin submitted => execs[j] = 0
        /\ queue \subseteq submitted
        /\ execs[j] \in Nat
    BY DEF JobInv, RecordsAgree, RunTracksControl, TypeOK
  <1> QED
    BY <1>1 DEF LedgerPhase

\* The abstract phase function changes where the phase of a job does.
LEMMA PhaseMoves ==
    ASSUME NEW j \in Jobs, NEW p,
           \A i \in Jobs \ {j} : /\ UNCHANGED <<results[i], outcome[i], execs[i]>>
                                 /\ i \in submitted' <=> i \in submitted
                                 /\ i \in queue' <=> i \in queue,
           LedgerPhase(j)' = p
    PROVE  [i \in Jobs |-> LedgerPhase(i)]'
              = [[i \in Jobs |-> LedgerPhase(i)] EXCEPT ![j] = p]
  <1>1. ASSUME NEW i \in Jobs \ {j}
        PROVE  LedgerPhase(i)' = LedgerPhase(i)
    BY DEF LedgerPhase
  <1> QED
    BY <1>1

\* A step that records nothing of a job is a stutter of the ledger.
LEMMA LedgerStutters ==
    ASSUME UNCHANGED <<submitted, queue, results, outcome, execs>>
    PROVE  UNCHANGED Ledger!vars
  BY DEF Ledger!vars, LedgerPhase

\* Each step of the daemons and the server is a step of the ledger or none.
LEMMA LedgerStep ==
    ASSUME JobInv, JobInv', PhaseTold, PhaseTold', [Next]_vars
    PROVE  [Ledger!Next]_(Ledger!vars)
  <1> USE WorkerAssumption
  <1>1. ASSUME NEW w \in Workers,
               \/ Connect(w) \/ Register(w) \/ LoopHead(w) \/ Shutdown(w) \/ Claim(w)
               \/ Announce(w) \/ Output(w) \/ Release(w) \/ SignalHandler(w) \/ Kill9(w)
        PROVE  UNCHANGED <<submitted, queue, results, outcome, execs>>
    BY <1>1 DEF Connect, Register, LoopHead, Shutdown, Claim, Announce, Output, Log,
       Release, SignalHandler, Kill9, serverVars, histVars
  <1>2. ASSUME NEW w \in Workers, JobNext(w)
        PROVE  [Ledger!Next]_(Ledger!vars)
    <2>1. PICK j \in (IF queue = {} THEN {None} ELSE queue) :
             queue' = queue \/ queue' = queue \ {j}
      BY <1>2 DEF JobNext
    <2>2. UNCHANGED <<submitted, results, outcome, execs>>
      BY <1>2 DEF JobNext
    <2>3. CASE queue' = queue
      BY <2>2, <2>3, LedgerStutters
    <2>4. CASE queue' # queue
      <3>1. j \in queue /\ j \in Jobs /\ queue' = queue \ {j} /\ j \in submitted
        <4>1. queue' = queue \ {j}
          BY <2>1, <2>4
        <4>2. j \in queue
          BY <2>4, <4>1
        <4> QED
          BY <4>1, <4>2 DEF JobInv, TypeOK, RunTracksControl
      <3>2. LedgerPhase(j) = "queued" /\ LedgerPhase(j)' = "assigned"
        BY <2>2, <3>1 DEF PhaseTold, JobInv, RunTracksControl
      <3>3. Ledger!Assign(j)
        BY <2>2, <3>1, <3>2, PhaseMoves DEF Ledger!Assign
      <3> QED
        BY <3>1, <3>3 DEF Ledger!Next
    <2> QED
      BY <2>3, <2>4
  <1>3. ASSUME NEW w \in Workers, RunStart(w)
        PROVE  [Ledger!Next]_(Ledger!vars)
    <2>1. /\ pc[w] = "run" /\ UNCHANGED <<submitted, queue, results, outcome>>
          /\ execs' = [execs EXCEPT ![job[w]] = @ + 1]
      BY <1>3 DEF RunStart, serverVars
    <2>2. PICK j \in Jobs : /\ j = job[w] /\ j \in submitted \ queue
                            /\ execs[j] = 0 /\ outcome[j] = None
      BY <2>1 DEF JobInv, OneHand, TypeOK, InHand, RunTracksControl, RecordsAgree
    <2>3. execs'[j] = 1 /\ \A i \in Jobs \ {j} : execs'[i] = execs[i]
      BY <2>1, <2>2 DEF JobInv, TypeOK
    <2>4. LedgerPhase(j) = "assigned" /\ LedgerPhase(j)' = "executing"
      BY <2>1, <2>2, <2>3 DEF PhaseTold
    <2>5. Ledger!Execute(j)
      BY <2>1, <2>2, <2>3, <2>4, PhaseMoves DEF Ledger!Execute
    <2> QED
      BY <2>2, <2>5 DEF Ledger!Next
  <1>4. ASSUME NEW w \in Workers, RunEnd(w)
        PROVE  [Ledger!Next]_(Ledger!vars)
    <2>1. PICK c \in ExitCodes : outcome' = [outcome EXCEPT ![job[w]] = c]
      BY <1>4 DEF RunEnd
    <2>2. pc[w] = "running" /\ UNCHANGED <<submitted, queue, results, execs>>
      BY <1>4 DEF RunEnd, serverVars
    <2>3. PICK j \in Jobs : /\ j = job[w] /\ execs[j] = 1
                            /\ outcome[j] = None /\ results[j] = None
      BY <2>2 DEF JobInv, OneHand, TypeOK, InHand, RunTracksControl, RecordsAgree
    <2>4. outcome'[j] = c /\ \A i \in Jobs \ {j} : outcome'[i] = outcome[i]
      BY <2>1, <2>3 DEF JobInv, TypeOK
    <2>5. LedgerPhase(j) = "executing" /\ LedgerPhase(j)' = "executed"
      BY <2>2, <2>3, <2>4 DEF PhaseTold
    <2>6. Ledger!Finish(j)
      BY <2>1, <2>2, <2>3, <2>4, <2>5, PhaseMoves DEF Ledger!Finish
    <2> QED
      BY <2>3, <2>6 DEF Ledger!Next
  <1>5. ASSUME NEW w \in Workers, Report(w)
        PROVE  [Ledger!Next]_(Ledger!vars)
    <2>1. /\ pc[w] = "report" /\ UNCHANGED <<submitted, queue, outcome, execs>>
          /\ results' = results \/ results' = [results EXCEPT ![job[w]] = code[w]]
      BY <1>5 DEF Report, histVars
    <2>2. PICK j \in Jobs : j = job[w] /\ execs[j] = 1 /\ code[w] = outcome[j]
      BY <2>1 DEF JobInv, OneHand, TypeOK, InHand, RunTracksControl
    <2>3. CASE results' = results
      BY <2>1, <2>3, LedgerStutters
    <2>4. CASE results' # results
      <3>1. /\ results' = [results EXCEPT ![j] = outcome[j]]
            /\ results'[j] = outcome[j]
            /\ \A i \in Jobs \ {j} : results'[i] = results[i]
        BY <2>1, <2>2, <2>4 DEF JobInv, TypeOK
      <3>2. results[j] = None /\ outcome[j] # None
        <4>1. results[j] # outcome[j]
          BY <2>2, <2>4, <3>1 DEF JobInv, TypeOK
        <4> QED
          BY <2>2, <4>1 DEF JobInv, RecordsAgree
      <3>3. LedgerPhase(j) = "executed" /\ LedgerPhase(j)' = "reported"
        BY <2>2, <3>1, <3>2 DEF PhaseTold
      <3>4. Ledger!Report(j)
        BY <2>1, <2>2, <3>1, <3>3, PhaseMoves DEF Ledger!Report
      <3> QED
        BY <2>2, <3>4 DEF Ledger!Next
    <2> QED
      BY <2>3, <2>4
  <1>6. ASSUME NEW j \in Jobs, Submit(j)
        PROVE  [Ledger!Next]_(Ledger!vars)
    <2>1. /\ j \notin submitted /\ submitted' = submitted \cup {j}
          /\ queue' = queue \cup {j} /\ UNCHANGED <<results, outcome, execs>>
      BY <1>6 DEF Submit, histVars
    <2>2. LedgerPhase(j) = "new" /\ LedgerPhase(j)' = "queued"
      BY <2>1 DEF PhaseTold
    <2>3. Ledger!Submit(j)
      BY <2>1, <2>2, PhaseMoves DEF Ledger!Submit
    <2> QED
      BY <2>3 DEF Ledger!Next
  <1>7. CASE UNCHANGED vars
    BY <1>7, LedgerStutters DEF vars, serverVars, histVars
  <1> QED
    BY <1>1, <1>2, <1>3, <1>4, <1>5, <1>6, <1>7, LedgerStutters DEF Next, MainStep

\* The daemons, their queue server and every fault together implement the
\* ledger: a job is handed out once, run at most once and its verdict is that
\* run's (main.cpp:209-280).
THEOREM ImplementsLedger == Spec => LedgerSpec
  <1>1. Init => Ledger!Init
    BY DEF Init, Ledger!Init, LedgerPhase
  <1>2. JobInv /\ JobInv' /\ PhaseTold /\ PhaseTold' /\ [Next]_vars
           => [Ledger!Next]_(Ledger!vars)
    BY LedgerStep
  <1> QED
    BY <1>1, <1>2, JobInvariant, PhaseIsTold, PTL DEF Spec, LedgerSpec, Ledger!Spec

-----------------------------------------------------------------------------
(* What a daemon has taken, reported and counted.                          *)

\* The jobs that reached a daemon are its own.
TakenApart ==
    /\ \A w \in Workers : taken[w] \subseteq submitted \ queue /\ IsFiniteSet(taken[w])
    /\ \A v, w \in Workers : v # w => taken[v] \cap taken[w] = {}
    /\ \A w \in Workers : pc[w] \in InHand => job[w] \in taken[w]

\* Where main() has a job in hand that it has not reported yet.
Unreported == {"claim", "announce", "run", "running", "report"}

\* Only the job in hand of a daemon with no failing call has no verdict.
VerdictsLeft ==
    /\ \A w \in Workers : pc[w] \in {"report", "release"} => code[w] # None
    /\ \A w \in Workers : pc[w] \in Unreported => results[job[w]] = None
    /\ \A w \in Workers \ faulted, j \in Jobs :
          j \in taken[w] /\ results[j] = None => pc[w] \in Unreported /\ j = job[w]

\* The counters of a daemon with no failing call count its verdicts.
Tallied(w) ==
    /\ jobs_completed[w] = Cardinality({j \in taken[w] : results[j] = 0})
    /\ jobs_failed[w] = Cardinality({j \in taken[w] : results[j] \notin {0, None}})

\* The invariant behind CleanExitLosesNoJob and TalliesMatch.
AccountInv ==
    TakenApart /\ VerdictsLeft /\ \A w \in Workers \ faulted : Tallied(w)

\* A daemon with no failing call so far has had its requests served and
\* answered, and goes on to the next statement.
LEMMA CleanCall ==
    ASSUME TypeOK, NEW w \in Workers, NEW o \in Outcomes(w), NEW next, Call(w, o, next)
    PROVE  /\ \A v \in Workers \ {w} : (v \in faulted' <=> v \in faulted) /\ pc'[v] = pc[v]
           /\ faulted \subseteq faulted'
           /\ w \notin faulted' => o.served /\ pc'[w] = next
  <1>1. w \notin faulted' => o.reply = "value"
    BY DEF Call
  <1>2. o.reply = "value" => o.served
    BY AnsweredIsServed
  <1> QED
    BY <1>1, <1>2 DEF TypeOK, Call, Returns

\* A step that neither takes nor reports a job nor counts one.
LEMMA QuietAccount ==
    ASSUME AccountInv, NEW w \in Workers,
           UNCHANGED <<job, code, submitted, queue, results, taken, jobs_completed,
                       jobs_failed>>,
           faulted \subseteq faulted',
           \A v \in Workers \ {w} : pc'[v] = pc[v],
           pc'[w] \in InHand => /\ pc[w] \in Unreported \ {"report"}
                                /\ pc'[w] \in Unreported \ {"report"},
           pc[w] \in Unreported /\ w \notin faulted' => pc'[w] \in Unreported
    PROVE  AccountInv'
  <1>1. TakenApart'
    BY DEF AccountInv, TakenApart, Unreported, InHand
  <1>2. VerdictsLeft'
    <2>1. \A v \in Workers : /\ pc'[v] \in {"report", "release"} => code'[v] # None
                             /\ pc'[v] \in Unreported => results'[job'[v]] = None
      BY DEF AccountInv, VerdictsLeft, Unreported, InHand
    <2>2. \A v \in Workers \ faulted', j \in Jobs :
             j \in taken'[v] /\ results'[j] = None => pc'[v] \in Unreported /\ j = job'[v]
      BY DEF AccountInv, VerdictsLeft
    <2> QED
      BY <2>1, <2>2 DEF VerdictsLeft
  <1>3. \A v \in Workers \ faulted' : Tallied(v)'
    BY DEF AccountInv, Tallied
  <1> QED
    BY <1>1, <1>2, <1>3 DEF AccountInv

\* job_next: the job that arrives was nobody's and has no verdict.
LEMMA NextAccount ==
    ASSUME JobInv, AccountInv, NEW w \in Workers, JobNext(w)
    PROVE  AccountInv'
  <1> USE WorkerAssumption
  <1>1. PICK o \in Outcomes(w),
             j \in (IF queue = {} THEN {None} ELSE queue),
             short \in (IF "malformed" \in Faults THEN BOOLEAN ELSE {FALSE}) :
           LET arrived == o.reply = "value" /\ j # None /\ ~short
           IN /\ queue' = IF o.served THEN queue \ {j} ELSE queue
              /\ Call(w, o, AfterFetch(arrived))
              /\ job' = [job EXCEPT ![w] = IF arrived THEN j ELSE None]
              /\ taken' = [taken EXCEPT ![w] = IF arrived THEN @ \cup {j} ELSE @]
    BY DEF JobNext
  <1> DEFINE arrived == o.reply = "value" /\ j # None /\ ~short
  <1>2. /\ pc[w] = "fetch"
        /\ UNCHANGED <<code, submitted, results, jobs_completed, jobs_failed>>
    BY DEF JobNext
  <1>3. /\ \A v \in Workers \ {w} : /\ v \in faulted' <=> v \in faulted
                                    /\ pc'[v] = pc[v] /\ job'[v] = job[v]
                                    /\ taken'[v] = taken[v]
        /\ faulted \subseteq faulted' /\ queue' \subseteq queue
    BY <1>1, CleanCall DEF JobInv, TypeOK
  <1>4. \A i \in Jobs : w \notin faulted' /\ i \in taken[w] => results[i] # None
    BY <1>2, <1>3 DEF AccountInv, VerdictsLeft, Unreported
  <1>5. CASE ~arrived
    <2>1. taken'[w] = taken[w] /\ taken' = taken
      BY <1>1, <1>5 DEF JobInv, TypeOK
    <2>2. pc'[w] \notin InHand
      BY <1>1, <1>5, CallControl DEF AfterFetch, InHand, JobInv
    <2>3. TakenApart'
      BY <1>2, <1>3, <2>1, <2>2 DEF AccountInv, TakenApart
    <2>4. VerdictsLeft'
      <3>1. pc'[w] \notin Unreported /\ pc'[w] \notin {"report", "release"}
        BY <2>2 DEF InHand, Unreported
      <3> QED
        BY <1>2, <1>3, <1>4, <2>1, <3>1 DEF AccountInv, VerdictsLeft
    <2>5. \A v \in Workers \ faulted' : Tallied(v)'
      BY <1>2, <1>3, <2>1 DEF AccountInv, Tallied
    <2> QED
      BY <2>3, <2>4, <2>5 DEF AccountInv
  <1>6. CASE arrived
    <2>1. o.served /\ pc'[w] = "claim"
      <3>1. o.served
        BY <1>6, AnsweredIsServed
      <3>2. AfterFetch(arrived) = "claim"
        BY <1>6 DEF AfterFetch
      <3> QED
        BY <1>1, <1>6, <3>1, <3>2 DEF Call, Returns, JobInv, TypeOK
    <2>2. /\ j \in queue /\ j \in Jobs /\ j \in submitted /\ results[j] = None
          /\ queue' = queue \ {j} /\ job'[w] = j /\ taken'[w] = taken[w] \cup {j}
      BY <1>1, <1>6, <2>1 DEF JobInv, TypeOK, RunTracksControl, RecordsAgree
    <2>3. \A v \in Workers : j \notin taken[v]
      BY <2>2 DEF AccountInv, TakenApart
    <2>4. TakenApart'
      <3>1. IsFiniteSet(taken'[w])
        BY <2>2, FS_AddElement DEF AccountInv, TakenApart
      <3>2. \A v \in Workers : taken'[v] \subseteq submitted' \ queue' /\ IsFiniteSet(taken'[v])
        <4>1. taken[w] \cup {j} \subseteq submitted \ queue'
          BY <2>2 DEF AccountInv, TakenApart
        <4>2. \A v \in Workers \ {w} : taken[v] \subseteq submitted \ queue'
          BY <1>3 DEF AccountInv, TakenApart
        <4> QED
          BY <1>2, <1>3, <2>2, <3>1, <4>1, <4>2 DEF AccountInv, TakenApart
      <3>3. \A v, u \in Workers : v # u => taken'[v] \cap taken'[u] = {}
        BY <1>3, <2>2, <2>3 DEF AccountInv, TakenApart
      <3>4. \A v \in Workers : pc'[v] \in InHand => job'[v] \in taken'[v]
        BY <1>3, <2>2 DEF AccountInv, TakenApart
      <3> QED
        BY <3>2, <3>3, <3>4 DEF TakenApart
    <2>5. VerdictsLeft'
      <3>1. \A v \in Workers : /\ pc'[v] \in {"report", "release"} => code'[v] # None
                               /\ pc'[v] \in Unreported => results'[job'[v]] = None
        BY <1>2, <1>3, <2>1, <2>2 DEF AccountInv, VerdictsLeft
      <3>2. \A v \in Workers \ faulted', i \in Jobs :
               i \in taken'[v] /\ results'[i] = None => pc'[v] \in Unreported /\ i = job'[v]
        BY <1>2, <1>3, <1>4, <2>1, <2>2 DEF AccountInv, VerdictsLeft, Unreported
      <3> QED
        BY <3>1, <3>2 DEF VerdictsLeft
    <2>6. \A v \in Workers \ faulted' : Tallied(v)'
      <3>1. /\ {i \in taken'[w] : results'[i] = 0} = {i \in taken[w] : results[i] = 0}
            /\ {i \in taken'[w] : results'[i] \notin {0, None}}
                  = {i \in taken[w] : results[i] \notin {0, None}}
        BY <1>2, <2>2
      <3> QED
        BY <1>2, <1>3, <3>1 DEF AccountInv, Tallied
    <2> QED
      BY <2>4, <2>5, <2>6 DEF AccountInv
  <1> QED
    BY <1>5, <1>6

\* job_result: the verdict, if the server hears of it, is the daemon's own, and
\* the counters follow it.
LEMMA ReportAccount ==
    ASSUME JobInv, AccountInv, NEW w \in Workers, Report(w)
    PROVE  AccountInv'
  <1> USE WorkerAssumption
  <1>1. PICK o \in Outcomes(w) :
           /\ Call(w, o, AfterReport(w, o))
           /\ results' = IF o.served THEN [results EXCEPT ![job[w]] = code[w]] ELSE results
           /\ jobs_completed' =
                 [jobs_completed EXCEPT ![w] =
                     IF Returns(o) /\ CountsAsCompleted(code[w]) THEN @ + 1 ELSE @]
           /\ jobs_failed' =
                 [jobs_failed EXCEPT ![w] =
                     IF Returns(o) /\ ~CountsAsCompleted(code[w]) THEN @ + 1 ELSE @]
    BY DEF Report
  <1>2. pc[w] = "report" /\ UNCHANGED <<job, code, submitted, queue, taken>>
    BY DEF Report, histVars
  <1>3. PICK j \in Jobs : /\ j = job[w] /\ j \in taken[w] /\ results[j] = None
                          /\ code[w] # None
    BY <1>2 DEF JobInv, OneHand, TypeOK, InHand, Unreported, AccountInv, TakenApart,
                VerdictsLeft
  <1>4. /\ \A v \in Workers \ {w} : (v \in faulted' <=> v \in faulted) /\ pc'[v] = pc[v]
        /\ faulted \subseteq faulted'
        /\ w \notin faulted' => o.served /\ pc'[w] = "release" /\ Returns(o)
        /\ pc'[w] \notin Unreported
    <2>1. pc'[w] \in {"release", "blocked", "sigpipe"}
      BY <1>1, CallControl DEF JobInv, AfterReport
    <2>2. w \notin faulted' => Returns(o)
      BY <1>1 DEF Call, Returns
    <2> QED
      BY <1>1, <2>1, <2>2, CleanCall DEF JobInv, AfterReport, Unreported
  <1>5. /\ \A i \in Jobs \ {j} : results'[i] = results[i]
        /\ results'[j] = IF o.served THEN code[w] ELSE None
    BY <1>1, <1>3 DEF JobInv, TypeOK
  <1>6. \A v \in Workers \ {w} : /\ j \notin taken[v]
                                 /\ pc[v] \in InHand => job[v] \in Jobs \ {j}
    <2>1. \A v \in Workers \ {w} : j \notin taken[v]
      BY <1>3 DEF AccountInv, TakenApart
    <2>2. \A v \in Workers \ {w} : pc[v] \in InHand => job[v] \in Jobs
      BY DEF JobInv, OneHand, TypeOK
    <2> QED
      BY <2>1, <2>2 DEF AccountInv, TakenApart
  <1>7. TakenApart'
    BY <1>2, <1>4 DEF AccountInv, TakenApart, InHand
  <1>8. VerdictsLeft'
    <2>1. \A v \in Workers : pc'[v] \in {"report", "release"} => code'[v] # None
      BY <1>2, <1>3, <1>4 DEF AccountInv, VerdictsLeft
    <2>2. \A v \in Workers : pc'[v] \in Unreported => results'[job'[v]] = None
      BY <1>2, <1>4, <1>5, <1>6 DEF AccountInv, VerdictsLeft, Unreported, InHand
    <2>3. ASSUME NEW v \in Workers \ faulted', NEW i \in Jobs, i \in taken'[v],
                 results'[i] = None
          PROVE  pc'[v] \in Unreported /\ i = job'[v]
      <3>1. CASE v = w
        <4>1. i # j
          BY <1>3, <1>4, <1>5, <2>3, <3>1
        <4>2. results[i] = None /\ i \in taken[w] /\ w \notin faulted
          BY <1>2, <1>4, <1>5, <2>3, <3>1, <4>1
        <4> QED
          BY <1>3, <4>1, <4>2 DEF AccountInv, VerdictsLeft
      <3>2. CASE v # w
        <4>1. i # j /\ i \in taken[v] /\ v \notin faulted
          BY <1>2, <1>4, <1>6, <2>3, <3>2
        <4> QED
          BY <1>2, <1>4, <1>5, <2>3, <3>2, <4>1 DEF AccountInv, VerdictsLeft
      <3> QED
        BY <3>1, <3>2
    <2> QED
      BY <2>1, <2>2, <2>3 DEF VerdictsLeft
  <1>9. ASSUME NEW v \in Workers \ faulted'
        PROVE  Tallied(v)'
    <2> DEFINE Done(u) == {i \in taken[u] : results[i] = 0}
               Bad(u) == {i \in taken[u] : results[i] \notin {0, None}}
    <2>1. taken[v] \subseteq Jobs /\ IsFiniteSet(taken[v]) /\ v \notin faulted
      BY <1>4 DEF JobInv, TypeOK, AccountInv, TakenApart
    <2>2. jobs_completed[v] = Cardinality(Done(v)) /\ jobs_failed[v] = Cardinality(Bad(v))
      BY <2>1 DEF AccountInv, Tallied
    <2>3. CASE v # w
      <3>1. /\ {i \in taken'[v] : results'[i] = 0} = Done(v)
            /\ {i \in taken'[v] : results'[i] \notin {0, None}} = Bad(v)
        BY <1>2, <1>5, <1>6, <2>1, <2>3
      <3>2. jobs_completed'[v] = jobs_completed[v] /\ jobs_failed'[v] = jobs_failed[v]
        BY <1>1, <2>3 DEF JobInv, TypeOK
      <3> QED
        BY <2>2, <3>1, <3>2 DEF Tallied
    <2>4. CASE v = w
      <3>1. results'[j] = code[w] /\ Returns(o) /\ j \notin Done(w) /\ j \notin Bad(w)
        BY <1>3, <1>4, <1>5, <2>4
      <3>2. IsFiniteSet(Done(w)) /\ IsFiniteSet(Bad(w))
        BY <2>1, <2>4, FS_Subset
      <3>3. CASE code[w] = 0
        <4>1. /\ {i \in taken'[v] : results'[i] = 0} = Done(w) \cup {j}
              /\ {i \in taken'[v] : results'[i] \notin {0, None}} = Bad(w)
          BY <1>2, <1>3, <1>5, <2>1, <2>4, <3>1, <3>3
        <4>2. Cardinality(Done(w) \cup {j}) = Cardinality(Done(w)) + 1
          BY <3>1, <3>2, FS_AddElement
        <4>3. jobs_completed'[w] = jobs_completed[w] + 1 /\ jobs_failed'[w] = jobs_failed[w]
          BY <1>1, <3>1, <3>3 DEF JobInv, TypeOK, CountsAsCompleted
        <4> QED
          BY <2>2, <2>4, <4>1, <4>2, <4>3 DEF Tallied
      <3>4. CASE code[w] # 0
        <4>1. /\ {i \in taken'[v] : results'[i] = 0} = Done(w)
              /\ {i \in taken'[v] : results'[i] \notin {0, None}} = Bad(w) \cup {j}
          BY <1>2, <1>3, <1>5, <2>1, <2>4, <3>1, <3>4
        <4>2. Cardinality(Bad(w) \cup {j}) = Cardinality(Bad(w)) + 1
          BY <3>1, <3>2, FS_AddElement
        <4>3. jobs_completed'[w] = jobs_completed[w] /\ jobs_failed'[w] = jobs_failed[w] + 1
          BY <1>1, <3>1, <3>4 DEF JobInv, TypeOK, CountsAsCompleted
        <4> QED
          BY <2>2, <2>4, <4>1, <4>2, <4>3 DEF Tallied
      <3> QED
        BY <3>3, <3>4
    <2> QED
      BY <2>3, <2>4
  <1> QED
    BY <1>7, <1>8, <1>9 DEF AccountInv

\* Each step keeps the accounts.
LEMMA AccountStep ==
    ASSUME JobInv, AccountInv, [Next]_vars
    PROVE  AccountInv'
  <1> USE WorkerAssumption
  <1>0. TypeOK
    BY DEF JobInv
  <1>1. ASSUME NEW w \in Workers, Connect(w) \/ LoopHead(w) \/ Shutdown(w) \/ Kill9(w)
        PROVE  AccountInv'
    <2>1. /\ pc'[w] \notin InHand /\ \A v \in Workers \ {w} : pc'[v] = pc[v]
          /\ faulted \subseteq faulted'
          /\ pc[w] \in Unreported => w \in faulted'
      BY <1>0, <1>1 DEF TypeOK, Connect, LoopHead, Shutdown, Kill9, InHand, Unreported
    <2>2. UNCHANGED <<job, code, submitted, queue, results, taken, jobs_completed,
                      jobs_failed>>
      BY <1>1 DEF Connect, LoopHead, Shutdown, Kill9, localVars, serverVars, histVars
    <2> QED
      BY <2>1, <2>2, QuietAccount
  <1>2. ASSUME NEW w \in Workers, Register(w)
        PROVE  AccountInv'
    <2>1. PICK o \in Outcomes(w) :
             Call(w, o, IF o.reply = "value" THEN "loop" ELSE "exit1")
      BY <1>2 DEF Register
    <2>2. pc'[w] \notin InHand /\ pc[w] \notin Unreported
      BY <1>0, <1>2, <2>1, CallControl DEF InHand, Register, Unreported
    <2>3. /\ faulted \subseteq faulted' /\ \A v \in Workers \ {w} : pc'[v] = pc[v]
      BY <1>0, <2>1, CleanCall
    <2>4. UNCHANGED <<job, code, submitted, queue, results, taken, jobs_completed,
                      jobs_failed>>
      BY <1>2 DEF Register, localVars, serverVars, histVars
    <2> QED
      BY <2>2, <2>3, <2>4, QuietAccount
  <1>3. ASSUME NEW w \in Workers, Claim(w) \/ Announce(w) \/ Output(w)
        PROVE  AccountInv'
    <2>1. PICK next \in {"announce", "run", "running"}, o \in Outcomes(w) : Call(w, o, next)
      BY <1>3 DEF Claim, Announce, Output, Log, AfterClaim
    <2>2. pc[w] \in Unreported \ {"report"} /\ next \in Unreported \ {"report"}
      BY <1>3 DEF Claim, Announce, Output, Unreported
    <2>3. /\ pc'[w] \in {next, "blocked", "sigpipe"}
          /\ \A v \in Workers \ {w} : pc'[v] = pc[v]
          /\ faulted \subseteq faulted' /\ (w \notin faulted' => pc'[w] = next)
      BY <1>0, <2>1, CallControl, CleanCall
    <2>4. UNCHANGED <<job, code, submitted, queue, results, taken, jobs_completed,
                      jobs_failed>>
      BY <1>3 DEF Claim, Announce, Output, Log, localVars, histVars
    <2> QED
      BY <2>2, <2>3, <2>4, QuietAccount DEF InHand
  <1>4. ASSUME NEW w \in Workers, RunStart(w)
        PROVE  AccountInv'
    <2>1. /\ pc[w] = "run" /\ pc'[w] = "running" /\ faulted' = faulted
          /\ \A v \in Workers \ {w} : pc'[v] = pc[v]
      BY <1>0, <1>4 DEF TypeOK, RunStart
    <2>2. UNCHANGED <<job, code, submitted, queue, results, taken, jobs_completed,
                      jobs_failed>>
      BY <1>4 DEF RunStart, localVars, serverVars
    <2> QED
      BY <2>1, <2>2, QuietAccount DEF Unreported
  <1>5. ASSUME NEW w \in Workers, RunEnd(w)
        PROVE  AccountInv'
    <2>1. /\ pc[w] = "running" /\ pc'[w] = "report" /\ code'[w] # None
          /\ \A v \in Workers \ {w} : pc'[v] = pc[v] /\ code'[v] = code[v]
          /\ UNCHANGED <<job, submitted, queue, results, taken, jobs_completed, jobs_failed,
                         faulted>>
      BY <1>0, <1>5 DEF TypeOK, RunEnd, RunResult, serverVars
    <2>2. TakenApart'
      BY <2>1 DEF AccountInv, TakenApart, InHand
    <2>3. VerdictsLeft'
      BY <2>1 DEF AccountInv, VerdictsLeft, Unreported
    <2>4. \A v \in Workers \ faulted' : Tallied(v)'
      BY <2>1 DEF AccountInv, Tallied
    <2> QED
      BY <2>2, <2>3, <2>4 DEF AccountInv
  <1>6. ASSUME NEW w \in Workers, Release(w)
        PROVE  AccountInv'
    <2>1. PICK o \in Outcomes(w) : Call(w, o, "loop")
      BY <1>6 DEF Release
    <2>2. /\ pc'[w] \notin InHand /\ pc[w] = "release"
          /\ pc'[w] \notin {"report", "release"} /\ pc'[w] \notin Unreported
      BY <1>0, <1>6, <2>1, CallControl DEF InHand, Release, Unreported
    <2>3. /\ faulted \subseteq faulted'
          /\ \A v \in Workers \ {w} : pc'[v] = pc[v] /\ job'[v] = job[v] /\ code'[v] = code[v]
      BY <1>0, <1>6, <2>1, CleanCall DEF Release, TypeOK
    <2>4. UNCHANGED <<submitted, queue, results, taken, jobs_completed, jobs_failed>>
      BY <1>6 DEF Release, histVars
    <2>5. TakenApart'
      BY <2>2, <2>3, <2>4 DEF AccountInv, TakenApart
    <2>6. VerdictsLeft'
      <3>1. pc[w] \notin Unreported
        BY <2>2 DEF Unreported
      <3>2. \A v \in Workers \ faulted', j \in Jobs :
               j \in taken'[v] /\ results'[j] = None => pc'[v] \in Unreported /\ j = job'[v]
        BY <2>3, <2>4, <3>1 DEF AccountInv, VerdictsLeft
      <3>3. \A v \in Workers : /\ pc'[v] \in {"report", "release"} => code'[v] # None
                               /\ pc'[v] \in Unreported => results'[job'[v]] = None
        BY <2>2, <2>3, <2>4 DEF AccountInv, VerdictsLeft
      <3> QED
        BY <3>2, <3>3 DEF VerdictsLeft
    <2>7. \A v \in Workers \ faulted' : Tallied(v)'
      BY <2>3, <2>4 DEF AccountInv, Tallied
    <2> QED
      BY <2>5, <2>6, <2>7 DEF AccountInv
  <1>7. ASSUME NEW w \in Workers, SignalHandler(w)
        PROVE  AccountInv'
    <2>1. UNCHANGED <<pc, job, code, submitted, queue, results, taken, jobs_completed,
                      jobs_failed, faulted>>
      BY <1>7 DEF SignalHandler, serverVars, histVars
    <2> QED
      BY <2>1 DEF AccountInv, TakenApart, VerdictsLeft, Tallied
  <1>8. ASSUME NEW j \in Jobs, Submit(j)
        PROVE  AccountInv'
    <2>1. /\ j \notin submitted /\ submitted' = submitted \cup {j} /\ queue' = queue \cup {j}
          /\ UNCHANGED <<pc, job, code, results, taken, jobs_completed, jobs_failed, faulted>>
      BY <1>8 DEF Submit, localVars, histVars
    <2>2. TakenApart'
      <3>1. \A w \in Workers : taken[w] \subseteq submitted' \ queue'
        BY <2>1 DEF AccountInv, TakenApart
      <3> QED
        BY <2>1, <3>1 DEF AccountInv, TakenApart
    <2>3. VerdictsLeft' /\ \A v \in Workers \ faulted' : Tallied(v)'
      BY <2>1 DEF AccountInv, VerdictsLeft, Tallied
    <2> QED
      BY <2>2, <2>3 DEF AccountInv
  <1>9. CASE UNCHANGED vars
    <2>1. UNCHANGED <<pc, job, code, submitted, queue, results, taken, jobs_completed,
                      jobs_failed, faulted>>
      BY <1>9 DEF vars, localVars, serverVars, histVars
    <2> QED
      BY <2>1 DEF AccountInv, TakenApart, VerdictsLeft, Tallied
  <1> QED
    BY <1>1, <1>2, <1>3, <1>4, <1>5, <1>6, <1>7, <1>8, <1>9, NextAccount, ReportAccount
       DEF Next, MainStep

\* The accounts of the daemons are right in every reachable state.
THEOREM AccountsHold == Spec => []AccountInv
  <1>1. Init => AccountInv
    <2> SUFFICES ASSUME Init PROVE AccountInv
      OBVIOUS
    <2>1. TakenApart
      BY FS_EmptySet DEF Init, TakenApart, InHand
    <2>2. VerdictsLeft
      BY DEF Init, VerdictsLeft, Unreported
    <2>3. \A w \in Workers : Tallied(w)
      <3> SUFFICES ASSUME NEW w \in Workers PROVE Tallied(w)
        OBVIOUS
      <3>1. taken[w] = {} /\ jobs_completed[w] = 0 /\ jobs_failed[w] = 0
        BY DEF Init
      <3>2. /\ {j \in taken[w] : results[j] = 0} = {}
            /\ {j \in taken[w] : results[j] \notin {0, None}} = {}
        BY <3>1
      <3> QED
        BY <3>1, <3>2, FS_EmptySet DEF Tallied
    <2> QED
      BY <2>1, <2>2, <2>3 DEF AccountInv
  <1>2. JobInv /\ AccountInv /\ [Next]_vars => AccountInv'
    BY AccountStep
  <1> QED
    BY <1>1, <1>2, JobInvariant, PTL DEF Spec

\* A daemon that leaves its loop with no failing call has reported every job
\* it took, however signals and the calls of other daemons interleave
\* (main.cpp:209-280).
THEOREM CleanExitReportsAll == Spec => []CleanExitLosesNoJob
  <1>1. JobInv /\ AccountInv => CleanExitLosesNoJob
    BY DEF JobInv, TypeOK, AccountInv, VerdictsLeft, Unreported, CleanExitLosesNoJob
  <1> QED
    BY <1>1, JobInvariant, AccountsHold, PTL

\* The counters agree with the verdicts of the daemon's own jobs, for any
\* number of daemons reporting to the same server (main.cpp:257-271).
THEOREM CountersAgree == Spec => []TalliesMatch
  <1>1. AccountInv => TalliesMatch
    BY DEF AccountInv, Tallied, TalliesMatch
  <1> QED
    BY <1>1, AccountsHold, PTL

-----------------------------------------------------------------------------
(* Claims.                                                                 *)

\* Where main() has claimed its job, and where it has not.
Claimed == {"announce", "run", "running", "report", "release"}
Unclaimed == {"connect", "register", "loop", "fetch", "claim", "exit0"}

\* ClaimTracksRun, from the start of the daemon on.
ClaimInv ==
    \A w \in Workers \ faulted :
        /\ pc[w] \in Claimed => claims[sandbox_id(w)] = job[w]
        /\ pc[w] \in Unclaimed => claims[sandbox_id(w)] = None

\* Every sandbox id names one daemon.
IdsApart == \A v, w \in Workers : sandbox_id(v) = sandbox_id(w) => v = w

\* A step of a daemon that sends neither claim nor release and stays on its
\* side of them.
LEMMA QuietClaim ==
    ASSUME ClaimInv, NEW w \in Workers, UNCHANGED claims, faulted \subseteq faulted',
           \A v \in Workers \ {w} : pc'[v] = pc[v] /\ job'[v] = job[v],
           w \notin faulted' =>
              \/ pc[w] \in Claimed /\ pc'[w] \in Claimed /\ job'[w] = job[w]
              \/ pc[w] \in Unclaimed /\ pc'[w] \in Unclaimed
    PROVE  ClaimInv'
  <1>1. Claimed \cap Unclaimed = {}
    BY DEF Claimed, Unclaimed
  <1> QED
    BY <1>1 DEF ClaimInv

\* A claim or a release changes the entry of the daemon's own id only.
LEMMA OwnClaim ==
    ASSUME TypeOK, IdsApart, ClaimInv, NEW w \in Workers, NEW o \in Outcomes(w), NEW next,
           NEW value, Call(w, o, next),
           claims' = IF o.served THEN [claims EXCEPT ![sandbox_id(w)] = value] ELSE claims,
           \A v \in Workers \ {w} : job'[v] = job[v],
           \/ next \in Claimed /\ value = job'[w]
           \/ next \in Unclaimed /\ value = None
    PROVE  ClaimInv'
  <1>1. /\ \A v \in Workers \ {w} : (v \in faulted' <=> v \in faulted) /\ pc'[v] = pc[v]
        /\ w \notin faulted' => o.served /\ pc'[w] = next
    BY CleanCall
  <1>2. \A v \in Workers : sandbox_id(v) \in Ids
    BY DEF Ids
  <1>3. \A v \in Workers \ {w} : claims'[sandbox_id(v)] = claims[sandbox_id(v)]
    BY <1>2 DEF IdsApart, TypeOK
  <1>4. o.served => claims'[sandbox_id(w)] = value
    BY <1>2 DEF TypeOK
  <1>5. Claimed \cap Unclaimed = {}
    BY DEF Claimed, Unclaimed
  <1> QED
    BY <1>1, <1>3, <1>4, <1>5 DEF ClaimInv

\* Each step keeps the claims.
LEMMA ClaimStep ==
    ASSUME JobInv, IdsApart, ClaimInv, [Next]_vars
    PROVE  ClaimInv'
  <1> USE WorkerAssumption
  <1>0. TypeOK
    BY DEF JobInv
  <1>1. ASSUME NEW w \in Workers, \/ Connect(w) \/ LoopHead(w) \/ Shutdown(w) \/ Kill9(w)
                                  \/ RunStart(w) \/ RunEnd(w)
        PROVE  ClaimInv'
    <2>1. /\ \A v \in Workers \ {w} : pc'[v] = pc[v]
          /\ faulted \subseteq faulted' /\ UNCHANGED <<claims, job>>
          /\ w \notin faulted' => \/ pc[w] \in Claimed /\ pc'[w] \in Claimed
                                  \/ pc[w] \in Unclaimed /\ pc'[w] \in Unclaimed
      BY <1>0, <1>1 DEF TypeOK, Connect, LoopHead, Shutdown, Kill9, RunStart, RunEnd,
         Claimed, Unclaimed, localVars, serverVars
    <2> QED
      BY <2>1, QuietClaim
  <1>2. ASSUME NEW w \in Workers, Register(w)
        PROVE  ClaimInv'
    <2>1. PICK o \in Outcomes(w) :
             Call(w, o, IF o.reply = "value" THEN "loop" ELSE "exit1")
      BY <1>2 DEF Register
    <2>2. /\ \A v \in Workers \ {w} : pc'[v] = pc[v]
          /\ faulted \subseteq faulted' /\ UNCHANGED <<claims, job>>
      BY <1>0, <1>2, <2>1, CleanCall DEF Register, localVars, serverVars
    <2>3. w \notin faulted' => pc[w] = "register" /\ pc'[w] = "loop"
      BY <1>0, <1>2, <2>1 DEF Register, Call, Returns, TypeOK
    <2> QED
      BY <2>2, <2>3, QuietClaim DEF Unclaimed
  <1>3. ASSUME NEW w \in Workers, Announce(w) \/ Output(w) \/ Report(w)
        PROVE  ClaimInv'
    <2>1. PICK next \in {"run", "running", "release"}, o \in Outcomes(w) : Call(w, o, next)
      BY <1>3 DEF Announce, Output, Log, Report, AfterReport
    <2>2. /\ \A v \in Workers \ {w} : pc'[v] = pc[v]
          /\ faulted \subseteq faulted' /\ UNCHANGED <<claims, job>>
          /\ w \notin faulted' => pc'[w] = next
      BY <1>0, <1>3, <2>1, CleanCall DEF Announce, Output, Log, Report, localVars, serverVars
    <2>3. pc[w] \in Claimed /\ next \in Claimed
      BY <1>3 DEF Announce, Output, Report, Claimed
    <2> QED
      BY <2>2, <2>3, QuietClaim
  <1>4. ASSUME NEW w \in Workers, JobNext(w)
        PROVE  ClaimInv'
    <2>1. PICK next \in {"claim", "loop"}, o \in Outcomes(w) : Call(w, o, next)
      BY <1>4 DEF JobNext, AfterFetch
    <2>2. /\ \A v \in Workers \ {w} : pc'[v] = pc[v] /\ job'[v] = job[v]
          /\ faulted \subseteq faulted' /\ UNCHANGED claims
          /\ w \notin faulted' => pc'[w] = next
      BY <1>0, <1>4, <2>1, CleanCall DEF JobNext, TypeOK
    <2>3. pc[w] \in Unclaimed /\ next \in Unclaimed
      BY <1>4 DEF JobNext, Unclaimed
    <2> QED
      BY <2>2, <2>3, QuietClaim
  <1>5. ASSUME NEW w \in Workers, Claim(w)
        PROVE  ClaimInv'
    <2>1. PICK o \in Outcomes(w) :
             /\ Call(w, o, "announce")
             /\ claims' = IF o.served THEN [claims EXCEPT ![sandbox_id(w)] = job[w]]
                          ELSE claims
      BY <1>5 DEF Claim, AfterClaim
    <2>2. job' = job /\ "announce" \in Claimed
      BY <1>5 DEF Claim, localVars, Claimed
    <2> QED
      BY <1>0, <2>1, <2>2, OwnClaim
  <1>6. ASSUME NEW w \in Workers, Release(w)
        PROVE  ClaimInv'
    <2>1. PICK o \in Outcomes(w) :
             /\ Call(w, o, "loop")
             /\ claims' = IF o.served THEN [claims EXCEPT ![sandbox_id(w)] = None]
                          ELSE claims
      BY <1>6 DEF Release
    <2>2. "loop" \in Unclaimed /\ \A v \in Workers \ {w} : job'[v] = job[v]
      BY <1>0, <1>6 DEF Release, TypeOK, Unclaimed
    <2> QED
      BY <1>0, <2>1, <2>2, OwnClaim
  <1>7. CASE UNCHANGED <<pc, job, claims, faulted>>
    BY <1>7 DEF ClaimInv
  <1>8. ASSUME NEW w \in Workers, SignalHandler(w)
        PROVE  UNCHANGED <<pc, job, claims, faulted>>
    BY <1>8 DEF SignalHandler, serverVars
  <1>9. ASSUME NEW j \in Jobs, Submit(j)
        PROVE  UNCHANGED <<pc, job, claims, faulted>>
    BY <1>9 DEF Submit, localVars
  <1>10. UNCHANGED vars => UNCHANGED <<pc, job, claims, faulted>>
    BY DEF vars, localVars, serverVars
  <1> QED
    BY <1>1, <1>2, <1>3, <1>4, <1>5, <1>6, <1>7, <1>8, <1>9, <1>10 DEF Next, MainStep

\* With distinct ids, the claim the server holds for a daemon with no failing
\* call names the job it runs, and none between jobs (main.cpp:236-273).
THEOREM ClaimsTrackRuns ==
    ASSUME IdsApart
    PROVE  Spec => []ClaimTracksRun
  <1>1. Init => ClaimInv
    <2>1. \A w \in Workers : sandbox_id(w) \in Ids
      BY DEF Ids
    <2> QED
      BY <2>1 DEF Init, ClaimInv, Claimed
  <1>2. JobInv /\ ClaimInv /\ [Next]_vars => ClaimInv'
    BY ClaimStep
  <1>3. ClaimInv => ClaimTracksRun
    BY DEF ClaimInv, ClaimTracksRun, ClaimHeldWhileRunning, Claimed, Unclaimed
  <1> QED
    BY <1>1, <1>2, <1>3, JobInvariant, PTL DEF Spec
=============================================================================
