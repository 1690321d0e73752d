----------------------------- MODULE JobWorker -----------------------------
(***************************************************************************)
(* main() of the sandbox daemon (src/sandbox/src/main.cpp) for a set of    *)
(* daemons that share one queue server: connect, register, then the        *)
(* polling loop fetch - claim - log - run - report - release, with the     *)
(* SIGINT/SIGTERM flag read only at the head of the loop.                  *)
(*                                                                         *)
(* A RedisClient call is one request and one reply.  The connection may    *)
(* break before the server serves the request or between serving and       *)
(* replying; main() ignores most of the results.  Sandbox::run is the pair *)
(* RunStart/RunEnd here and is modelled in detail in module Sandbox.       *)
(* The queue server is not part of the repository: its effects are taken   *)
(* from how the client and devops.sh use it.                               *)
(***************************************************************************)
EXTENDS Naturals, FiniteSets

CONSTANTS
    Workers,      \* daemons
    Jobs,         \* job ids; "job submit" never reuses one
    ExitCodes,    \* exit codes a run can end with; 0 is success
    IdOption,     \* IdOption[w]: the Options::sandbox_id of daemon w
    EmptyId,      \* the empty string as a sandbox id
    None,
    Faults,       \* which of AllFaults the environment may inject
    Signals       \* may SIGINT/SIGTERM arrive?

AllFaults == {"refused",      \* connect() fails
              "reset",        \* the peer closes or resets the connection
              "silence",      \* the peer stops answering, no FIN or RST
              "error_reply",  \* an Error tag, or a body that does not parse
              "malformed",    \* "job next" answered by a too short array
              "kill9"}        \* devops.sh stop: SIGKILL 0.3 s after SIGTERM

ASSUME WorkerAssumption ==
    /\ None \notin Jobs
    /\ None \notin ExitCodes \cup {0}
    /\ Faults \subseteq AllFaults
    /\ Signals \in BOOLEAN

\* The id a daemon registers, claims and releases under.  An auto id
\* (cpp-sandbox-<pid>) is unique to its process: the worker stands for it.
sandbox_id(w) == IF IdOption[w] = EmptyId THEN w ELSE IdOption[w]

Ids == {sandbox_id(w) : w \in Workers}

VARIABLES
    pc,           \* pc[w]: where main() of w stands
    conn,         \* conn[w]: "none", "up", "broken" or "closed"
    signalled,    \* workers whose g_running is 0
    job,          \* job[w]: the job in hand
    code,         \* code[w]: result.exit_code of the last run
    jobs_completed,
    jobs_failed,
    submitted,    \* jobs given to the server so far
    queue,        \* server: jobs that "job next" may hand out
    claims,       \* server: the job a sandbox id holds
    joblog,       \* server: kinds of lines logged for a job
    results,      \* server: exit code reported for a job
    taken,        \* history: jobs that reached worker w
    execs,        \* history: number of executions of a job
    outcome,      \* history: exit code its execution ended with
    faulted       \* history: workers with a failed or refused call

serverVars == <<submitted, queue, claims, joblog, results>>
histVars == <<taken, execs, outcome>>
localVars == <<signalled, job, code, jobs_completed, jobs_failed>>
vars == <<pc, conn, localVars, serverVars, histVars, faulted>>

Terminal == {"exit0", "exit1", "sigpipe", "killed"}

\* Where main() has a job in hand.
InHand == {"claim", "announce", "run", "running", "report", "release"}

Control == Terminal \cup InHand
           \cup {"connect", "register", "loop", "fetch", "blocked"}

Init ==
    /\ pc = [w \in Workers |-> "connect"]
    /\ conn = [w \in Workers |-> "none"]
    /\ signalled = {}
    /\ job = [w \in Workers |-> None]
    /\ code = [w \in Workers |-> None]
    /\ jobs_completed = [w \in Workers |-> 0]
    /\ jobs_failed = [w \in Workers |-> 0]
    /\ submitted = {}
    /\ queue = {}
    /\ claims = [i \in Ids |-> None]
    /\ joblog = [j \in Jobs |-> {}]
    /\ results = [j \in Jobs |-> None]
    /\ taken = [w \in Workers |-> {}]
    /\ execs = [j \in Jobs |-> 0]
    /\ outcome = [j \in Jobs |-> None]
    /\ faulted = {}

-----------------------------------------------------------------------------
(* RedisClient::send: write_all, then read_frame.                          *)

\* served: did the server act on the request.  reply: what the caller sees:
\* a value, no value on a connection that stays up (an Error tag, or a body
\* that does not parse), an Err result, no return, or death by SIGPIPE (::send
\* is called with no MSG_NOSIGNAL and SIGPIPE keeps its default).  A refused
\* frame, whose body stays in the stream, is taken for a break; what the calls
\* after it may read is the subject of RedisClient.
Outcomes(w) ==
    IF conn[w] = "up"
    THEN {[served |-> TRUE, reply |-> "value"]}
         \cup (IF "reset" \in Faults
               THEN [served : BOOLEAN, reply : {"err"}] ELSE {})
         \cup (IF "silence" \in Faults
               THEN [served : BOOLEAN, reply : {"none"}] ELSE {})
         \cup (IF "error_reply" \in Faults
               THEN [served : BOOLEAN, reply : {"error_tag"}] ELSE {})
    ELSE [served : {FALSE}, reply : {"err", "sigpipe"}]

Returns(o) == o.reply \in {"value", "error_tag", "err"}

\* Control after a call: on to "next", blocked in recv, or dead.
Call(w, o, next) ==
    /\ pc' = [pc EXCEPT ![w] = IF Returns(o) THEN next
                               ELSE IF o.reply = "none" THEN "blocked"
                               ELSE "sigpipe"]
    /\ conn' = [conn EXCEPT ![w] = IF o.reply = "err" THEN "broken" ELSE @]
    /\ faulted' = IF o.reply = "value" THEN faulted ELSE faulted \cup {w}

-----------------------------------------------------------------------------
(* Where main() goes next, and what it makes of a result.  The operators   *)
(* marked "faulty variant" are bugs this code could have had; no action    *)
(* uses them.                                                              *)

\* Faulty variant: arr.size() <= 5 rejects every job.
AfterFetchRejects(arrived) == "loop"

\* A job in hand, or "continue".
AfterFetch(arrived) == IF arrived THEN "claim" ELSE "loop"

\* Faulty variant: the flag is also read with a job in hand.
AfterClaimStops(w) == IF w \in signalled THEN "loop" ELSE "announce"

\* The answer to sandbox_claim and the flag make no difference.
AfterClaim(w) == "announce"

\* Faulty variant: the default of the field survives a failing run.
RunResultDefault(c) == 0

\* ExecResult::exit_code as main() sees it.
RunResult(c) == c

\* Faulty variant: every run counts as completed.
CountsAlways(c) == TRUE

\* Does the run count as completed (else as failed)?
CountsAsCompleted(c) == c = 0

\* Faulty variant: a job_result that failed sends the job round again.
AfterReportRetries(w, o) == IF o.reply = "err" THEN "run" ELSE "release"

\* Faulty variant: "continue" in the branch of a failed job.
AfterReportContinues(w, o) == IF code[w] = 0 THEN "release" ELSE "loop"

\* Passed or failed, heard by the server or not: on to sandbox_release.
AfterReport(w, o) == "release"

-----------------------------------------------------------------------------
(* main(), in the order of its statements.                                 *)

Connect(w) ==
    /\ pc[w] = "connect"
    /\ \/ /\ pc' = [pc EXCEPT ![w] = "register"]
          /\ conn' = [conn EXCEPT ![w] = "up"]
          /\ UNCHANGED faulted
       \/ /\ "refused" \in Faults
          /\ pc' = [pc EXCEPT ![w] = "exit1"]
          /\ faulted' = faulted \cup {w}
          /\ UNCHANGED conn
    /\ UNCHANGED <<localVars, serverVars, histVars>>

\* sandbox_register: any failure or Error tag ends the daemon with status 1.
Register(w) ==
    /\ pc[w] = "register"
    /\ \E o \in Outcomes(w) :
          Call(w, o, IF o.reply = "value" THEN "loop" ELSE "exit1")
    /\ UNCHANGED <<localVars, serverVars, histVars>>

\* Faulty variant: the loop goes on whatever the flag says.
LoopHeadBlind(w) ==
    /\ pc[w] = "loop"
    /\ pc' = [pc EXCEPT ![w] = "fetch"]
    /\ UNCHANGED <<conn, localVars, serverVars, histVars, faulted>>

\* while (g_running).
LoopHead(w) ==
    /\ pc[w] = "loop"
    /\ w \notin signalled
    /\ pc' = [pc EXCEPT ![w] = "fetch"]
    /\ UNCHANGED <<conn, localVars, serverVars, histVars, faulted>>

\* Past the loop: the monitors are stopped, redis.close() ends the
\* connection.  The server is told nothing.
Shutdown(w) ==
    /\ pc[w] = "loop"
    /\ w \in signalled
    /\ pc' = [pc EXCEPT ![w] = "exit0"]
    /\ conn' = [conn EXCEPT ![w] = "closed"]
    /\ UNCHANGED <<localVars, serverVars, histVars, faulted>>

\* job_next.  A served request takes some job off the queue even when the
\* reply is lost, an Err, or too short to be a job; nil when there is none.
JobNext(w) ==
    /\ pc[w] = "fetch"
    /\ \E o \in Outcomes(w),
          j \in (IF queue = {} THEN {None} ELSE queue),
          short \in (IF "malformed" \in Faults THEN BOOLEAN ELSE {FALSE}) :
          LET arrived == o.reply = "value" /\ j # None /\ ~short
          IN /\ queue' = IF o.served THEN queue \ {j} ELSE queue
             /\ Call(w, o, AfterFetch(arrived))
             /\ job' = [job EXCEPT ![w] = IF arrived THEN j ELSE None]
             /\ taken' = [taken EXCEPT ![w] =
                             IF arrived THEN @ \cup {j} ELSE @]
    /\ UNCHANGED <<signalled, code, jobs_completed, jobs_failed, submitted,
                   claims, joblog, results, execs, outcome>>

\* (void) sandbox_claim: the answer is not looked at.
Claim(w) ==
    /\ pc[w] = "claim"
    /\ \E o \in Outcomes(w) :
          /\ Call(w, o, AfterClaim(w))
          /\ claims' = IF o.served
                       THEN [claims EXCEPT ![sandbox_id(w)] = job[w]]
                       ELSE claims
    /\ UNCHANGED <<localVars, submitted, queue, joblog, results, histVars>>

\* (void) job_log, of a line of the given kind.
Log(w, kind, next) ==
    /\ \E o \in Outcomes(w) :
          /\ Call(w, o, next)
          /\ joblog' = IF o.served
                       THEN [joblog EXCEPT ![job[w]] = @ \cup {kind}]
                       ELSE joblog
    /\ UNCHANGED <<localVars, submitted, queue, claims, results, histVars>>

Announce(w) == pc[w] = "announce" /\ Log(w, "start", "run")

RunStart(w) ==
    /\ pc[w] = "run"
    /\ pc' = [pc EXCEPT ![w] = "running"]
    /\ execs' = [execs EXCEPT ![job[w]] = @ + 1]
    /\ UNCHANGED <<conn, localVars, serverVars, taken, outcome, faulted>>

\* The output callback of Sandbox::run logs what the command printed.
Output(w) == pc[w] = "running" /\ Log(w, "output", "running")

RunEnd(w) ==
    /\ pc[w] = "running"
    /\ \E c \in ExitCodes :
          /\ code' = [code EXCEPT ![w] = RunResult(c)]
          /\ outcome' = [outcome EXCEPT ![job[w]] = c]
    /\ pc' = [pc EXCEPT ![w] = "report"]
    /\ UNCHANGED <<conn, signalled, job, jobs_completed, jobs_failed,
                   serverVars, taken, execs, faulted>>

\* (void) job_result, then the counters, which count the run whether or not
\* the server heard of it.
Report(w) ==
    /\ pc[w] = "report"
    /\ \E o \in Outcomes(w) :
          /\ Call(w, o, AfterReport(w, o))
          /\ results' = IF o.served
                        THEN [results EXCEPT ![job[w]] = code[w]]
                        ELSE results
          /\ jobs_completed' =
                [jobs_completed EXCEPT ![w] =
                    IF Returns(o) /\ CountsAsCompleted(code[w])
                    THEN @ + 1 ELSE @]
          /\ jobs_failed' =
                [jobs_failed EXCEPT ![w] =
                    IF Returns(o) /\ ~CountsAsCompleted(code[w])
                    THEN @ + 1 ELSE @]
    /\ UNCHANGED <<signalled, job, code, submitted, queue, claims, joblog,
                   histVars>>

\* (void) sandbox_release; the job's locals go out of scope.
Release(w) ==
    /\ pc[w] = "release"
    /\ \E o \in Outcomes(w) :
          /\ Call(w, o, "loop")
          /\ claims' = IF o.served
                       THEN [claims EXCEPT ![sandbox_id(w)] = None]
                       ELSE claims
    /\ job' = [job EXCEPT ![w] = None]
    /\ code' = [code EXCEPT ![w] = None]
    /\ UNCHANGED <<signalled, jobs_completed, jobs_failed, submitted, queue,
                   joblog, results, histVars>>

-----------------------------------------------------------------------------
(* The environment.                                                        *)

\* signal_handler: the flag is all it touches; recv, read and waitpid are
\* restarted because signal() installs handlers with SA_RESTART.
SignalHandler(w) ==
    /\ Signals
    /\ pc[w] \notin Terminal
    /\ w \notin signalled
    /\ signalled' = signalled \cup {w}
    /\ UNCHANGED <<pc, conn, job, code, jobs_completed, jobs_failed,
                   serverVars, histVars, faulted>>

\* devops.sh cmd_stop: kill, sleep 0.3, kill -9.
Kill9(w) ==
    /\ "kill9" \in Faults
    /\ w \in signalled
    /\ pc[w] \notin Terminal
    /\ pc' = [pc EXCEPT ![w] = "killed"]
    /\ faulted' = faulted \cup {w}
    /\ UNCHANGED <<conn, localVars, serverVars, histVars>>

\* devops.sh cmd_submit: "job submit" under a fresh job id.
Submit(j) ==
    /\ j \notin submitted
    /\ submitted' = submitted \cup {j}
    /\ queue' = queue \cup {j}
    /\ UNCHANGED <<pc, conn, localVars, claims, joblog, results, histVars,
                   faulted>>

MainStep(w) ==
    \/ Connect(w) \/ Register(w) \/ LoopHead(w) \/ Shutdown(w) \/ JobNext(w)
    \/ Claim(w) \/ Announce(w) \/ RunStart(w) \/ Output(w) \/ RunEnd(w)
    \/ Report(w) \/ Release(w)

Next ==
    \/ \E w \in Workers : MainStep(w) \/ SignalHandler(w) \/ Kill9(w)
    \/ \E j \in Jobs : Submit(j)

Spec == Init /\ [][Next]_vars

\* The main thread of a live daemon keeps running, and every command ends
\* (Sandbox::run has no timeout: nothing in the code forces it to).
FairSpec == Spec /\ \A w \in Workers : WF_vars(MainStep(w)) /\ WF_vars(RunEnd(w))

-----------------------------------------------------------------------------
(* Properties.                                                             *)

\* Every variable of main() and of the server keeps its type.
TypeOK ==
    /\ pc \in [Workers -> Control]
    /\ conn \in [Workers -> {"none", "up", "broken", "closed"}]
    /\ signalled \subseteq Workers
    /\ job \in [Workers -> Jobs \cup {None}]
    /\ code \in [Workers -> ExitCodes \cup {None}]
    /\ jobs_completed \in [Workers -> Nat]
    /\ jobs_failed \in [Workers -> Nat]
    /\ submitted \subseteq Jobs
    /\ queue \subseteq Jobs
    /\ claims \in [Ids -> Jobs \cup {None}]
    /\ joblog \in [Jobs -> SUBSET {"start", "output"}]
    /\ results \in [Jobs -> ExitCodes \cup {None}]
    /\ taken \in [Workers -> SUBSET Jobs]
    /\ execs \in [Jobs -> Nat]
    /\ outcome \in [Jobs -> ExitCodes \cup {None}]
    /\ faulted \subseteq Workers

\* No job is executed twice, whatever calls fail, replies are lost or
\* daemons die between job_next and sandbox_release (main.cpp:209-280).
AtMostOnce == \A j \in Jobs : execs[j] <= 1

\* A verdict on the server is the exit code of the one execution of that
\* job, even when the answers to earlier calls were lost (main.cpp:257).
ReportsOwnRun ==
    \A j \in Jobs : results[j] # None =>
        execs[j] = 1 /\ results[j] = outcome[j]

\* A job in hand was handed out by the server, to one daemon only.
OneHand ==
    /\ \A w \in Workers : pc[w] \in InHand => job[w] \in submitted \ queue
    /\ \A v, w \in Workers :
          v # w /\ pc[v] \in InHand /\ pc[w] \in InHand => job[v] # job[w]

\* How far the execution of a job is follows from where it is: queued and
\* unsubmitted jobs are untouched, a job in hand is as far as its daemon.
RunTracksControl ==
    /\ queue \subseteq submitted
    /\ \A j \in Jobs : j \in queue \/ j \notin submitted => execs[j] = 0
    /\ \A w \in Workers : pc[w] \in {"claim", "announce", "run"}
          => execs[job[w]] = 0
    /\ \A w \in Workers : pc[w] = "running"
          => execs[job[w]] = 1 /\ outcome[job[w]] = None
    /\ \A w \in Workers : pc[w] \in {"report", "release"}
          => execs[job[w]] = 1 /\ code[w] = outcome[job[w]]

\* What is recorded of a job is consistent.
RecordsAgree ==
    \A j \in Jobs :
        /\ execs[j] = 0 => outcome[j] = None
        /\ outcome[j] = None => results[j] = None
        /\ results[j] # None => results[j] = outcome[j]

\* The invariant that carries AtMostOnce and ReportsOwnRun from step to step
\* of main(), whatever faults hit its calls (main.cpp:209-280).
JobInv == TypeOK /\ AtMostOnce /\ OneHand /\ RunTracksControl /\ RecordsAgree

\* The signal flag is read between jobs only (main.cpp:209): a daemon that
\* leaves its loop, and had no failing call, has reported every job it took.
CleanExitLosesNoJob ==
    \A w \in Workers \ faulted : pc[w] = "exit0" =>
        \A j \in taken[w] : results[j] # None

\* Between jobs the counters that feed the metrics (main.cpp:262-271) agree
\* with the verdicts on the server for the jobs this daemon took.
TalliesMatch ==
    \A w \in Workers \ faulted : pc[w] \in {"loop", "fetch", "exit0"} =>
        /\ jobs_completed[w] =
              Cardinality({j \in taken[w] : results[j] = 0})
        /\ jobs_failed[w] =
              Cardinality({j \in taken[w] : results[j] \notin {0, None}})

\* While a job runs the server's claim for this daemon's id names that job
\* (main.cpp:236-273).  It needs the ids of the daemons to be distinct,
\* which print_usage promises: "Sandbox ID (default: auto)" (main.cpp:30).
ClaimHeldWhileRunning ==
    \A w \in Workers \ faulted :
        pc[w] \in {"announce", "run", "running", "report", "release"} =>
            claims[sandbox_id(w)] = job[w]

\* ... and between jobs the server holds no claim for the id, also after a
\* job that failed (main.cpp:273).
ClaimTracksRun ==
    /\ ClaimHeldWhileRunning
    /\ \A w \in Workers \ faulted :
          pc[w] \in {"loop", "fetch", "claim", "exit0"} =>
              claims[sandbox_id(w)] = None

\* A daemon none of whose calls fail reports every job it takes, signalled or
\* not, and one that is not signalled either keeps the queue moving, whatever
\* happens to the other daemons (main.cpp:209-280).
EveryJobReported ==
    /\ \A w \in Workers, j \in Jobs :
          [](w \notin faulted) => (j \in taken[w] ~> results[j] # None)
    /\ (\E w \in Workers : [](w \notin faulted \cup signalled))
          => \A j \in Jobs : j \in queue ~> j \notin queue

\* A signalled daemon ends, also with a broken connection (main.cpp:209-219).
ShutdownCompletes ==
    \A w \in Workers : (w \in signalled) ~> (pc[w] \in Terminal)

\* The phase a job has reached in the abstract ledger.
LedgerPhase(j) ==
    CASE results[j] # None -> "reported"
      [] results[j] = None /\ outcome[j] # None -> "executed"
      [] outcome[j] = None /\ execs[j] > 0 -> "executing"
      [] execs[j] = 0 /\ j \in submitted \ queue -> "assigned"
      [] j \in queue -> "queued"
      [] OTHER -> "new"

Ledger == INSTANCE JobLedger WITH
    phase <- [j \in Jobs |-> LedgerPhase(j)],
    runs <- execs,
    exit <- outcome,
    verdict <- results

\* The daemons and the server together implement JobLedger.
LedgerSpec == Ledger!Spec
=============================================================================
