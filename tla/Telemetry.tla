----------------------------- MODULE Telemetry -----------------------------
(***************************************************************************)
(* main() (src/sandbox/src/main.cpp:114-291) as far as the command line,   *)
(* the log and the metrics are concerned, with the threads on which the    *)
(* supervisor's event callback runs, and a user of the log's other         *)
(* operations.  What main() does with the queue and the sandbox is the     *)
(* subject of JobWorker and Sandbox.                                       *)
(***************************************************************************)
EXTENDS LogAggregator, Metrics, Options

CONSTANTS
    Threads,     \* threads that deliver supervisor events
    EventTypes,  \* types of ProcessEvent
    Lines,       \* chunks of output a job may write
    Args,        \* options the daemon may be started with
    None,
    Codes,       \* exit codes of jobs
    MaxArgs,     \* bound: options on the command line
    MaxJobs,     \* bound: jobs
    MaxLines,    \* bound: chunks of one job
    MaxEvents    \* bound: supervisor events

ASSUME TelemetryAssumption ==
    /\ {MaxArgs, MaxJobs, MaxLines, MaxEvents} \subseteq Nat
    /\ {"running", "PASSED", "FAILED", "pid"} \subseteq Words
    /\ Lines \subseteq Seq(Tokens)
    /\ None \notin EventTypes
    /\ IsFiniteSet(Threads)
    /\ \A a \in Args : /\ a.flag \in DOMAIN Defaults \cup {"H", "?"}
                       /\ a.flag \in {"p", "m", "r"} => a.arg \in Nat \cup {Junk}

VARIABLES
    at,      \* where main() is
    args,    \* the command line
    job,     \* the job in hand: chunks written, exit code
    tally,   \* jobs_completed, jobs_failed
    event,   \* event[t]: the event that t has logged and not counted, or None
    logged   \* history: logged[e]: events of type e that were logged

mainVars == <<at, args, job, tally>>
eventVars == <<event, logged>>
vars == <<logVars, exporterVars, serverVars, mainVars, eventVars>>

Init ==
    /\ LogInit
    /\ MetricsInit
    /\ at = "args"
    /\ args = <<>>
    /\ job = [lines |-> 0, code |-> 0]
    /\ tally = [completed |-> 0, failed |-> 0]
    /\ event = [t \in Threads |-> None]
    /\ logged = [e \in EventTypes |-> 0]

Jobs == tally.completed + tally.failed

Go(from, to) == at = from /\ at' = to

-----------------------------------------------------------------------------
(* Start and end of main().                                                *)

GivenArg ==
    /\ at = "args"
    /\ Len(args) < MaxArgs
    /\ \E a \in Args : args' = Append(args, a)
    /\ UNCHANGED <<logVars, exporterVars, serverVars, at, job, tally, eventVars>>

\* An Error or --help returns before any object exists.
Parse ==
    /\ at = "args"
    /\ at' = IF parse_args(args).returned = "no" THEN "server" ELSE "ended"
    /\ args' = <<>>
    /\ UNCHANGED <<logVars, exporterVars, serverVars, job, tally, eventVars>>

\* main() goes on without the endpoint if it cannot be started.
StartServer ==
    /\ Go("server", "connect")
    /\ start
    /\ UNCHANGED <<logVars, exporterVars, args, job, tally, eventVars>>

\* connect and register succeed, or main() returns.
Connect ==
    /\ Go("connect", "poll") \/ Go("connect", "leave")
    /\ UNCHANGED <<logVars, exporterVars, serverVars, args, job, tally, eventVars>>

\* A signal ends the loop; metrics_server.stop().
Shutdown ==
    /\ Go("poll", "leave")
    /\ stop
    /\ UNCHANGED <<logVars, exporterVars, args, job, tally, eventVars>>

\* ~MetricsServer, and the end of the other objects.
Leave ==
    /\ Go("leave", "ended")
    /\ stop
    /\ clear
    /\ metrics' = <<>>
    /\ event' = [t \in Threads |-> None]
    /\ logged' = [e \in EventTypes |-> 0]
    /\ UNCHANGED <<args, job, tally>>

-----------------------------------------------------------------------------
(* What main() logs and counts of a job, in this order.                    *)

Log(from, to, level, word) ==
    /\ Go(from, to)
    /\ push("scheduler", level, <<word>>)
    /\ UNCHANGED <<exporterVars, serverVars, args, eventVars>>

JobLogged ==
    /\ Jobs < MaxJobs
    /\ Log("poll", "counting", "info", "running")
    /\ UNCHANGED <<job, tally>>

JobCounted ==
    /\ Go("counting", "output")
    /\ counter("jobs_started_total", 1, "target")
    /\ UNCHANGED <<logVars, serverVars, args, job, tally, eventVars>>

\* The output callback.
Output ==
    /\ at = "output"
    /\ job.lines < MaxLines
    /\ \E l \in Lines : push_raw("sandbox", l)
    /\ job' = [job EXCEPT !.lines = @ + 1]
    /\ UNCHANGED <<exporterVars, serverVars, at, args, tally, eventVars>>

Completed ==
    /\ Go("output", "duration")
    /\ \E c \in Codes :
          /\ job' = [lines |-> 0, code |-> c]
          /\ counter("jobs_completed_total", 1, c)
    /\ UNCHANGED <<logVars, serverVars, args, tally, eventVars>>

Duration ==
    /\ Go("duration", "verdict")
    /\ histogram("execution_duration_ms", 1, "")
    /\ UNCHANGED <<logVars, serverVars, args, job, tally, eventVars>>

Tallied ==
    IF job.code = 0 THEN [tally EXCEPT !.completed = @ + 1]
                    ELSE [tally EXCEPT !.failed = @ + 1]

Verdict ==
    /\ tally' = Tallied
    /\ \/ job.code = 0 /\ Log("verdict", "gauge_completed", "info", "PASSED")
       \/ job.code # 0 /\ Log("verdict", "gauge_completed", "error", "FAILED")
    /\ UNCHANGED job

GaugeCompleted ==
    /\ Go("gauge_completed", "gauge_failed")
    /\ gauge("jobs_completed", tally.completed, "")
    /\ UNCHANGED <<logVars, serverVars, args, job, tally, eventVars>>

GaugeFailed ==
    /\ Go("gauge_failed", "poll")
    /\ gauge("jobs_failed", tally.failed, "")
    /\ job' = [lines |-> 0, code |-> 0]
    /\ UNCHANGED <<logVars, serverVars, args, tally, eventVars>>

-----------------------------------------------------------------------------
(* The event callback: two critical sections.  The type of the event is    *)
(* the level of its entry.                                                 *)

Alive == at \notin {"args", "server", "ended"}

EventLogged(t) ==
    /\ Alive
    /\ event[t] = None
    /\ SumFunction(logged) < MaxEvents
    /\ \E e \in EventTypes :
          /\ event' = [event EXCEPT ![t] = e]
          /\ logged' = [logged EXCEPT ![e] = @ + 1]
          /\ push("supervisor", e, <<"pid">>)
    /\ UNCHANGED <<exporterVars, serverVars, mainVars>>

EventCounted(t) ==
    /\ Alive
    /\ event[t] # None
    /\ counter("events_total", 1, event[t])
    /\ event' = [event EXCEPT ![t] = None]
    /\ UNCHANGED <<logVars, serverVars, mainVars, logged>>

\* set_max_entries and clear, which the daemon itself does not use.
LogUser ==
    /\ Alive
    /\ clear \/ \E c \in Capacities \ {max_entries} : set_max_entries(c)
    /\ UNCHANGED <<exporterVars, serverVars, mainVars, eventVars>>

Next ==
    \/ GivenArg \/ Parse \/ StartServer \/ Connect \/ Shutdown \/ Leave
    \/ JobLogged \/ JobCounted \/ Output \/ Completed \/ Duration
    \/ Verdict \/ GaugeCompleted \/ GaugeFailed
    \/ \E t \in Threads : EventLogged(t) \/ EventCounted(t)
    \/ LogUser

Spec == Init /\ [][Next]_vars

-----------------------------------------------------------------------------
(* Properties.                                                             *)

\* What the daemon logs.
Entries == [source : {"scheduler", "sandbox", "supervisor"},
            level : {"info", "error", "warn", "debug"} \cup EventTypes,
            message : Seq(Tokens)]

\* Every variable keeps its type.
TypeOK ==
    /\ entries \in Seq(Entries)
    /\ pushed \in Seq([entry : Entries, raw : Seq(Tokens)])
    /\ {max_entries, low, last} \subseteq Capacities
    /\ server_fd \in BOOLEAN /\ sockets \in Nat
    /\ at \in {"args", "server", "connect", "poll", "leave", "ended", "counting",
               "output", "duration", "verdict", "gauge_completed", "gauge_failed"}
    /\ job \in [lines : 0..MaxLines, code : Codes \cup {0}]
    /\ tally \in [completed : 0..MaxJobs, failed : 0..MaxJobs]
    /\ event \in [Threads -> EventTypes \cup {None}]
    /\ logged \in [EventTypes -> Nat]

\* For every command line, parse_args returns what the options mean: the first
\* wrong option or --help decides, a number is taken as it was typed or refused
\* at the exact bound of its type, and the last option for a field wins
\* (main.cpp:50-112).
OptionsAsMeant ==
    LET result == parse_args(args)
        meant == OptionsMeant(args)
    IN /\ result.returned = meant.returned
       /\ result.returned = "no" => result.o = meant.o

\* search, search_regex, get_by_source and get_recent return the last matches
\* in the order they were logged, up to the limit (log_aggregator.cpp:42-91).
QueriesAgree ==
    \A limit \in 0..Largest :
        /\ LastOnes(get_recent(limit), entries, limit)
        /\ \A s \in {"scheduler", "sandbox"} :
              LastOf(Found("source", {s}, limit),
                     {i \in DOMAIN entries : entries[i].source = s}, limit)
        /\ \A words \in {{"FAILED"}, {"running", "PASSED"}, {}} :
              LastOf(Found("message", words, limit),
                     {i \in DOMAIN entries :
                        \E w \in words : Contains(entries[i].message, w)}, limit)

\* An event is counted exactly once, after it was logged: at any moment the
\* lines of a type are fewer than the log entries by the callbacks that are
\* between the two, on whatever threads (main.cpp:175-187).
EventsAgree ==
    \A e \in EventTypes :
        Cardinality(LinesPrinted("events_total", {e}))
            = logged[e] - Cardinality({t \in Threads : event[t] = e})

\* Whenever the metrics are rendered the job series fit together: no more than
\* one job is started and not completed, a duration belongs to each completed
\* job, and between jobs the last line of each gauge is the number of lines of
\* the jobs that passed, or failed (main.cpp:234, 258-271).  It is the lines
\* that count: a counter never accumulates, each of its lines says 1, and one
\* labelled series has as many lines as jobs or events.
SeriesAgree ==
    LET started == Cardinality(Samples("jobs_started_total"))
        completed(codes) == Cardinality(LinesPrinted("jobs_completed_total", codes))
        timed == Cardinality(Samples("execution_duration_ms"))
        latest(name) == IF Samples(name) = {} THEN 0
                        ELSE metrics[Max(Samples(name))].value
    IN /\ started - completed(Codes) \in {0, 1}
       /\ completed(Codes) - timed \in {0, 1}
       /\ at = "poll" => /\ latest("jobs_completed") = completed(Codes \cap {0})
                         /\ latest("jobs_failed") = completed(Codes \ {0})
       /\ \A i \in DOMAIN metrics : metrics[i].type = "counter" => metrics[i].value = 1

\* The TYPE line of a block is that of every sample below it: no two callers use
\* one name for different types (metrics.cpp:56-77, main.cpp:186, 234, 258-271).
TypesTruthful ==
    \A name \in DOMAIN render_prometheus :
        LET block == render_prometheus[name]
        IN \A i \in block.samples : metrics[i].type = block.type

\* The listening socket is the one in server_fd_, and none is open after main()
\* has returned, on whatever path (metrics.cpp:103-143, main.cpp:168, 193, 201,
\* 284).
NoListenerLeft == sockets = (IF server_fd THEN 1 ELSE 0) /\ (at = "ended" => sockets = 0)

\* The socket is opened once, and a job is only begun below the bound.
Underway ==
    /\ at \in {"args", "server"} => ~server_fd
    /\ at \in {"counting", "output", "duration", "verdict"} => Jobs < MaxJobs

\* Types and NoListenerLeft, at every step of main() from the command line to
\* its end (main.cpp:114-291), with what carries them from step to step.
TelemetryInv == TypeOK /\ NoListenerLeft /\ Underway

\* EventsAgree, SeriesAgree and TypesTruthful: what metrics_ holds, and the
\* exporter would print, between any two steps of any thread (main.cpp:175-187,
\* 234-271, metrics.cpp:56-77).  It says nothing of a scraper: none adds up
\* repeated lines, and no code accepts its connection.
MetricsAgree == EventsAgree /\ SeriesAgree /\ TypesTruthful
=============================================================================
