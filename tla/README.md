# Verification of the job daemon

TLA+ models of the sandbox daemon under `src/sandbox`, checked with TLC; the safety
properties of every component but one (`ParseCorrect`) are also proved with TLAPS.
`PROJECT.json` lists the runs, the mutants that show each property can fail, and for
every definition the source lines it models.

## 1. The system

The daemon polls a queue server (`redisops`, a Redis-like server that is not in
the repository), runs each job as a shell command in a sandbox of namespaces,
cgroup and seccomp filter, and reports output and exit code. `devops.sh` starts
and stops both and submits jobs. Around the loop the daemon owns a process
supervisor, a health monitor, a log aggregator, resource monitors and a metrics
exporter.

| Component | State | Operations | Hard behaviour |
|---|---|---|---|
| main loop (`main.cpp`) | `g_running`, the job in hand, counters, the id | connect, register, fetch, claim, log, run, report, release, shut down | calls whose results are ignored; signals between any two statements; several daemons on one queue |
| `RedisClient` | `fd_` | `connect`, `close`, `send` and its wrappers, `parse_value` | short reads and writes, closes inside a frame, hostile lengths, no receive timeout |
| queue server (external) | queue, claims, logs, results | serves one request at a time | acts on a request and loses the reply |
| `Sandbox` | pipe, child pid, stack, cgroup directory | `run`, `child_entry`, `cleanup` | parent and child on one pipe, background processes, calls that fail and results nobody looks at |
| `ProcessSupervisor` | map of entries under `processes_mutex_`, one monitor thread per entry, watchdog thread | add, remove, start, stop, restart, stop_all, watchdog on/off, destructor | monitors write entries without the mutex; joins under the mutex; restarts from the monitor thread |
| `HealthMonitor` | checks, statuses, one thread | register, start, stop, queries | `lock.~lock_guard()` unlocks the mutex twice per round |
| `LogAggregator` | bounded deque under `mutex_` | push, push_raw, search, search_regex, recent, by source, limits, clear | retention at the limit, a limit lowered later, tags glued to a word |
| `ResourceMonitor` | `running_`, its thread, `prev_cpu_time_`, history, limits, no lock but that of the history | start, stop, set_limit, get_usage, is_over_limit, get_violations | reads of several threads move one CPU counter; start and stop of two threads |
| `ResourceManager` | map of shared monitors under `monitors_mutex_`, alert callback | add (replaces), remove, get_monitor, usage and statistics, destructor | joins under the mutex; shared ownership; destruction beside running threads |
| `MetricsExporter`, `MetricsServer` | list of samples, listening socket | counter, gauge, histogram, render, start, stop | growth of the series; a listener that accepts nothing |
| options (`main.cpp`) | `Options` | `parse_args`, `parse_num` | numbers at the bounds of their types; the default id |
| `devops.sh`, `ci.sh` | - | start, stop, submit, next, logs | SIGKILL 0.3 s after SIGTERM |
| `Seccomp` helper | - | a second allowlist | called by nothing |

**Interaction.** `main()` is one thread that calls `RedisClient` and `Sandbox`
synchronously; the sandbox calls back into `main()` for each chunk of output,
and that callback calls `RedisClient` again. Signals only clear `g_running`,
which is read at the head of the loop. The supervisor, the health monitor and
the resource monitors have threads of their own. The "resources" check of the
health thread calls `ResourceManager::get_global_stats`, and the supervisor's
event callback writes to the log and the metrics of the loop. `main()` itself
registers no process and no monitor and never queries the log: those operations
are there for other users of the objects, and the models have such users. At the
end `main()` destroys the objects in reverse order, after
`health_monitor.stop()` on the normal path and without it on the early returns. Daemons
interact with each other only through the server.

**What makes each part correct.**

- main loop: a job runs at most once; the verdict on the server is the exit code
  of that run; a claim is held exactly while its job runs; a signal never drops a
  job in hand; healthy daemons make progress; a signalled daemon ends.
- `RedisClient`: each reply belongs to its request; requests arrive intact; no
  descriptor leaks; parsing inverts encoding and never reads past the end.
- `Sandbox`: output complete and in order; the exit code is the command's; pipe
  ends closed exactly once; nothing left behind on any path; limits and filter
  set before the command runs; `run()` returns.
- `HealthMonitor`: one thread in the maps at a time; a status is a result of the
  check registered now; shutdown after at most the slice of sleep already decided on;
  every check gets its turn.
- `ResourceMonitor`, `ResourceManager`: each CPU tick reported once; the verdicts
  about a usage agree; a stopped monitor has no thread, a thread has an owner,
  and nothing is used after its end; calls return.
- `LogAggregator`, metrics, options: the log is what was pushed last; queries
  return the last matches; the log, the lines of the counters and the gauges match;
  an option means what was typed; the listening socket is closed.
- `ProcessSupervisor`: at most one live child per process; no live child the
  supervisor has lost; RUNNING entries are real; zombies reaped; calls return;
  the program survives; restarts follow the policy.

## 2. Modules

| Module | Models | Composes |
|---|---|---|
| `JobLedger` | the promise about a job: submitted, assigned, executed once, reported | abstract specification |
| `JobWorker` | `main()` of a set of daemons, the server, `devops.sh` submit and stop | implements `JobLedger` (`LedgerSpec`) |
| `RedisResponse` | the wire format, `parse_value`, the request layout | - |
| `RedisClient` | one client object, the connection, the server's end | extends `RedisResponse` |
| `Sandbox` | `Sandbox::run`, `child_entry`, the command | - |
| `ProcessSupervisor` | API callers, monitors, watchdog, children | - |
| `HealthMonitor` | callers, controller, the monitor thread with its double unlock | - |
| `ResourceMonitor` | one monitor: its thread, its users, the watched process | - |
| `ResourceManager` | users, the health thread, the monitors and the end of `main()` | a round of a monitor is one step here, and a step-by-step matter in `ResourceMonitor` |
| `LogAggregator` | the log and its queries | - |
| `Metrics` | `MetricsExporter`, `MetricsServer` | - |
| `Options` | `parse_args`, and what the options mean | - |
| `Telemetry` | `main()` from the command line to its end, event threads, a user of the log | extends `LogAggregator`, `Metrics`, `Options` |
| `JobWorkerProofs`, `SandboxProofs`, `ProcessSupervisorProofs`, `HealthMonitorProofs`, `ResourceMonitorProofs`, `ResourceManagerProofs`, `TelemetryProofs`, `RedisClientProofs` | the theorems about the module of that name | each extends that module |
| `MC*` | instances for TLC | extend the modules above |

**JobWorker.** `pc[w]` is the statement of `main()` daemon `w` stands at: one
action per call on the client, `RunStart`/`RunEnd` around `Sandbox::run`,
`Output` for its callback. A client call is one step with an outcome
(`Outcomes`): did the server act, and what does the caller see - a value, no value
on a connection that stays up (an Error tag or a body that does not parse), an Err,
no return (no timeout on `recv`), or death by SIGPIPE. A frame that is refused for
its length is taken for a break here; what the calls after it may read is the
subject of `RedisClient`.
`Faults` selects what the environment may do. A broken connection stays broken,
since `main()` never reconnects. `claims`, `queue`, `results` and `joblog` are
the server's. `taken`, `execs`, `outcome` and `faulted` are history. Log lines
are reduced to their kind and metrics are left out: `main()` reads neither back.
`Next` also has `SignalHandler`, `Kill9` (the second half of `devops.sh stop`)
and `Submit`.

**RedisResponse / RedisClient.** A frame is a sequence of cells, each a tag, a
length or a unit of data. `parse_value` is the recursion of the code with its
`need` check, written as a table: `ParseAt` is the body of the function, and
`value[q]`, the value at a later cell `q`, stands for its recursive call. The server's
side of the format, `Encode`, is in `MCRedisClient`. `RedisClient` moves cells in
arbitrary pieces and lets the peer close anywhere. On a connection that is no longer
open `::send` may still take cells, which are lost, or fail, or end the process by
SIGPIPE (`pc = "killed"`): the code passes no `MSG_NOSIGNAL`. `asked` and `heard` are
history: what the server was asked and answered, by number of the request. An array
count that `reserve` cannot satisfy throws in the code and is an Err here, and the
depth of the recursion is not bounded in either.

**Sandbox.** `pc` follows `Sandbox::run`, `stage` the child. `wends` is the set
of processes that have the write end of the pipe open, so end of file is
`wends = {}`. The child is process 1 of its PID namespace: its death kills the
background process. `Faults` lists the calls that may fail: `pipe`, `malloc`, `clone`,
each of the cgroup files alone, the seccomp filter, `exec`, and `waitpid`, which fails
in a daemon started with SIGCHLD ignored and leaves the status 0. `read` does not fail:
the handlers installed with `signal()` restart it. `failed` is the history of the
failures whose result nobody looks at.

**ProcessSupervisor.** A thread is a caller, `Watchdog`, or the process whose
monitor it is. API calls are one step per critical section where the code holds
the mutex and touches nothing a monitor can see half way, and one step per
assignment where a monitor can (`Fork`, `Forked`, `SpawnFlag`, `Join`;
`ExitFlag`, `ExitStatus`, `ExitEvent`). `aborted` stands for `std::terminate`.
The restart policy and its bound are chosen by `add_process` (`Configs`), so that
one run has every policy. `hand[t]` is the child a thread has forked or reaped
and not yet recorded. The timeout of `stop()` may run out wherever the monitor is.
`raced` holds the names for which `handle_exit`, which runs without the mutex, wrote
over a `start()`. There are two ways. The restart logic writes FAILED or RESTARTING
over the RUNNING of a new child, or forks beside the `start()`. Or, whatever the
policy, `stop()` times out after the monitor's `waitpid`, a `start()` follows, and the
monitor then writes STOPPED for the old child over the RUNNING of the new one. Either
way a live child stays unseen and a further `start()` makes a second one; TLC reaches
both. `OneChild` and `Tracked` say that nothing else does this.

**HealthMonitor.** `pc[Monitor]` follows `monitor_loop`, with the call of a check and
the store of its result (`result`) as two steps, and the test of `running_` in the
sleep loop (`SleepLoop`) and `sleep_for` (`Sleep`) as two more, so that `stop()` can
come between them. `late` counts what the thread begins after that. The first unlock
is `Unlock`, the second `EndOfScope`; both free the mutex whoever holds it, as glibc
does. `stolen` records that the second one freed a caller's lock. From then on two
threads may use the maps together, and nothing is claimed about mutual exclusion or
statuses; shutdown and progress are still checked. `main()` never calls a query while
the monitor runs, so the daemon itself does not get there. One thread starts and
stops, as in `main()`.

**ResourceMonitor.** `read_usage` is three steps (read the file, load the
previous value, store the new one) on whatever thread asks, so that two reads
can overlap (`mixed`); the difference is taken modulo `Word`. `crossed` records
that two threads were in `start()` or `stop()` at a time, the only way to a
terminated program or a lost thread (`MonitorInv`). `pids_current` is always 0:
the code compares four characters with "Threads:". The factor from ticks to a
percentage and its cast to 32 bits are left out.

**ResourceManager.** A monitor is owned by its entry and by the callers that got
it from `get_monitor`; the last owner runs the destructor, which stops and joins,
under the mutex when `add_monitor` replaces an entry. The local `shared_ptr` of
`add_monitor` is not an owner of its own: the entry outlives it. `get_all_usage` is
called by the health thread, as in `main()`. `phase` is "torn" after one
of the early returns of `main()`, which destroy the manager under a health thread
that still runs. `tidy` says that the manager died after `health_monitor.stop()`
with every monitor removed and released; only then is the destruction safe,
because the alert callback is destroyed before the monitors.

**Telemetry.** A line of output is a sequence of tokens (tags, `Space`, words), enough
for `push_raw`'s search for the first space. A loop of the code over the arguments or
the entries is a function of the number of turns made; the samples of one name are the
set of their places in `metrics_`, and `LinesPrinted` the lines they become. A counter
called twice has two lines of 1: nothing merges them, and no property adds them up. An
exception in the middle of `search_regex` (a pattern too complex for one of the lines)
would leave the matches so far; here a bad pattern finds nothing. Numbers on the
command line are numbers or `Junk`, with 2^16, 2^32 and 2^64 as constants. The two
halves of the event callback, which lock different mutexes, are two steps. `pushed`,
`low`, `last` and `logged` are history.

## 3. Runs

| Run | Bounds | Shows |
|---|---|---|
| `job_faults` | 2 daemons, 2 jobs, all faults and signals, symmetry | `AtMostOnce`, `ReportsOwnRun`, `CleanExitLosesNoJob`, `TalliesMatch`, `ClaimTracksRun`, and `JobInv`, which the proofs use |
| `job_progress` | 2 daemons, 2 jobs, resets, malformed replies and signals | `EveryJobReported`, `ShutdownCompletes`, and `LedgerSpec`: the system implements `JobLedger` |
| `job_default_id` (violation) | as above, no faults, both daemons with the default id | `ClaimHeldWhileRunning` fails when the second daemon claims |
| `redis_client` | 3 sends, 2 connects, frames of at most 4 cells; `parse_value` alone on every body of up to 5 cells and every small value followed by one | `ClientInv` (types, requests intact, no descriptor lost), `OwnReply`, `ParseCorrect`, `SendReturns` |
| `sandbox_run` | 4 bytes of output, chunks of 2, a pipe of 3, every call of `Faults` may fail | `SandboxInv` (types, pipe ends closed once, nothing left behind), `OutputIntact`, `VerdictIsTheCommands`, `Contained`, `RunReturns` |
| `health_monitor` | 2 callers with 2 calls each, 1 id, 2 starts, intervals of 0 and 2 sleeps | `HealthInv` (types, exclusion, statuses of the registered check), `QuickShutdown`, `StopReturns`, `EveryCheckRuns` |
| `supervisor_api` | 2 callers with 3 calls each, 1 process, 3 forks, every policy, timeouts of `stop()` at any moment | `SupervisorInv` (types, `Tracked`, `RunningIsReal`), `OneChild`, `ExitHandled` (restarts and events follow from the exit), `OnlyKnownAborts` |
| `supervisor_control` | without remove, destroy and crashes, 2 forks | `CallsReturn`, `ZombieReaped` |
| `supervisor_restart` (violation) | 1 process, ON_FAILURE | `Survives` fails at the first restart |
| `telemetry` | command lines of up to 3 options; limits of the log 0 and 2; 1 job with 1 chunk or 2 without (`MCBound`), 2 events on 2 threads, symmetry | `OptionsAsMeant`, `LogKept`, `QueriesAgree`, `MetricsAgree` (lines of the counters, last gauges and log entries), and `TelemetryInv` (types, no listener left open) |
| `resource_monitor` | 2 users, 1 tick, words of 4, a history of 1, limits of 0 and more | `MonitorInv` (types, only crossing calls abort, a stopped monitor is joined), `TicksReportedOnce`, `VerdictsAgree`, `StopReturns` |
| `resource_manager` | 2 users, the health thread, 2 ids, 2 monitors | `ManagerInv` (types, no lost thread, one stopper at a time), `NothingDangles`, `CallsReturn` |

An invariant that ends in `Inv` is a conjunction; each part is a definition of its
own with its own comment.

**Why the bounds are enough.** Two daemons and two jobs give every conflict
between daemons (same queue, same id, one dead and one alive) and a second round
of the loop; the proofs remove the bound for the properties they cover. A third
job or daemon only repeats a pair. Three sends let a reply of the first or
second request be mistaken for that of the third; four cells hold an array with
two elements. Output of 4 with chunks of 2 and a pipe of 3 gives a full pipe, a
short read and several turns of the loop. Two callers, two forks and three calls
cover an old child, its successor, and a call that arrives in between; the third
fork of `supervisor_api` is an automatic restart beside them. Two monitors are one
that is replaced or removed and its successor under the same id, or two ids at
once. One tick already tells a read that saw it from one that did not, and a
history of 1 is full at once. Two events and two threads give both orders of their
four critical sections; two entries make the log overflow; two jobs give a series its
second line and a gauge its second value. `MCBound` lets the second job start only
while nobody has used the log and the endpoint is up: the metrics do not depend on
either.

**Symmetry** is used in `job_faults` (interchangeable daemons and jobs) and in
`telemetry` (threads and event types), with invariants only.

**Fairness.** `WF` on the daemon's own steps: a runnable thread is scheduled.
`WF(RunEnd)` and `WF(CommandExits)`: commands end; `Sandbox::run` has no timeout,
so this is an assumption about jobs, not something the code enforces.
`WF(Serve)`: a server that keeps the connection open answers, needed because
`recv` has no timeout. In the supervisor `SF` on callers and on the watchdog: the
mutex is contended but handed out eventually, since its users sleep 10 ms to
500 ms between sections; `WF(ChildEnds)`: children end. The health monitor has the
same `SF`; an interval below 100 ms makes its loop spin, and then this is an
assumption about the scheduler. The background process
of a command gets no fairness: `RunReturns` holds even if it never ends.
`ResourceMonitor` has `WF` on its threads, alert callbacks included: they are
assumed to return. `ResourceManager` has `SF` on callers for the same reason as the
supervisor: the health thread asks for the mutex every five seconds.

`CHECK_DEADLOCK FALSE` is used where the system may stop: all daemons have
exited, a bound is used up, or the program was terminated.

## 4. Proofs

TLAPS proves the theorems below for every value of the constants that satisfies
the `ASSUME` of the module; TLC evaluates these assumptions on each run. They say
no more than that the sets of threads are apart, that `None` is none of the values
it stands beside, that bounds are numbers and that options and faults have their
types. `ResourceMonitor` has one with content: the word of the CPU counter is
larger than the number of ticks, as it is with 64 bits; `LogAggregator` asks for a
greatest capacity, from which the log starts; `Telemetry` knows the flags
`getopt_long` can return and that a numeric argument is a number or `Junk`;
`RedisClient` asks that the cells of requests and bodies are numbers and that a frame
of one cell is allowed.

| Theorem | Statement | Hypothesis |
|---|---|---|
| `JobWorkerProofs` | | |
| `TypeCorrect`, `JobInvariant` | `[]TypeOK`, `[]JobInv` | |
| `ExecutedAtMostOnce`, `VerdictIsOwnRun` | `[]AtMostOnce`, `[]ReportsOwnRun` | |
| `RecordsFinal` | `[][...]_vars`: a verdict, an exit code and the run of a job that ended never change | |
| `ImplementsLedger` | `Spec => LedgerSpec`, the refinement | |
| `AccountsHold`, `CleanExitReportsAll`, `CountersAgree` | `[]AccountInv`, `[]CleanExitLosesNoJob`, `[]TalliesMatch` | |
| `ClaimsTrackRuns` | `[]ClaimTracksRun` | `IdsApart` |
| `SandboxProofs` | | |
| `SandboxInvariant`, `OutputReadWhole` | `[]SandboxInv`, `[]OutputIntact` | |
| `VerdictOfTheCommand`, `CommandContained` | `[]VerdictIsTheCommands`, `[]Contained` | |
| `ProcessSupervisorProofs` | | |
| `BaseInvariant`, `ExitHandledAlways` | `[]Base`, `[]ExitHandled` | |
| `SupervisorInvariant`, `OneChildAlways` | `[]SupervisorInv`, `[]OneChild` | |
| `OnlyKnownAbortsAlways` | `[]OnlyKnownAborts` | `OneController` |
| `HealthMonitorProofs` | | |
| `HealthInvariant`, `ShutdownIsQuick` | `[]HealthInv`, `[]QuickShutdown` | |
| `ResourceMonitorProofs` | | |
| `MonitorInvariant`, `EachTickReportedOnce`, `VerdictsAlwaysAgree` | `[]MonitorInv`, `[]TicksReportedOnce`, `[]VerdictsAgree` | |
| `ResourceManagerProofs` | | |
| `ManagerInvariant`, `NothingIsUsedAfterItsEnd` | `[]ManagerInv`, `[]NothingDangles` | |
| `TelemetryProofs` | | |
| `TelemetryInvariant`, `LogAlwaysKept`, `RecentAlwaysLast` | `[]TelemetryInv`, `[]LogKept`, and that `get_recent` returns the last entries for every count | |
| `OptionsAlwaysMeant`, `QueriesAlwaysAgree`, `MetricsAlwaysAgree` | `[]OptionsAsMeant`, `[]QueriesAgree`, `[]MetricsAgree` | |
| `RedisClientProofs` | | |
| `ClientIInv`, `ClientSafe`, `RepliesOwned` | `[]IInv`, `[]ClientInv`, `[]OwnReply` | |
| `ParseInside` | `parse_value(buf, pos)` is an error or ends in `(pos + 1)..Len(buf)` | `buf` a sequence of numbers, `pos` in it |

**The hypotheses** are about how the program is used, and the code needs them.
`IdsApart`: no two daemons have one id; the run `job_default_id` shows the property
fail otherwise. `OneController`: one thread calls `start_watchdog` and
`stop_watchdog`, which use `watchdog_thread_` without a lock; two of them can assign
to it twice. Each is true of the instances of the passing runs.

**JobWorker.** `AtMostOnce` is not inductive: a second `RunStart` is excluded only
because the job in hand has not been run, and that follows only from how it came
into the hand. `JobInv` adds three parts. `OneHand`: a job in hand has left the
queue and is in one hand only. `RunTracksControl`: jobs queued or not submitted
have not run, and the execution of a job in hand is exactly as far as its daemon's
`pc`. `RecordsAgree`: outcome and verdict are only there after a run and agree.
`CallControl` states where a client call can lead (on, blocked, dead), so that a
fault never moves a daemon to another place with a job in hand; `LocalStep` covers
the steps that keep `job`, `execs` and the records, when control moves within a
stretch (`Stretches`) over which the invariant says the same; the others have a
step each in `JobStep`. The refinement maps each of these steps to a step of
`JobLedger` or to none, through what `PhaseTold` says of a job at each step.
The accounts need `AccountInv`: the jobs that reached a daemon are its own
(`TakenApart`), the only one of them without a verdict is the one in hand
(`VerdictsLeft`), and the counters are cardinalities of sets of verdicts
(`Tallied`). A signal can then arrive anywhere, since the loop is left only where
nothing is in hand.

**Sandbox.** `RunHolds` says which ends of the pipe, pid, stack and directory
`run()` holds at each statement, `ChildLives` what exists of the child and its
processes at each stage; together they make `SandboxInv` inductive. `OutputIntact`
follows from `Conserved` (what was read and what is in the pipe is what was
printed) and from the pipe being empty with no writer when the loop ends.
`Contained` needs `SetUp`, what each step of `child_entry` leaves for the next.

**ProcessSupervisor.** The monitors hold no lock, so the invariant says for each
thread what the others cannot take from it. `Base` holds for raced names, too. `Placed`
and `MutexHeld`: where each thread can be, and that the owner of the mutex is the
thread inside a call, whose entry nobody can erase. `PidsOwned` and `EntryKept`: a
child belongs to one name and to the entry or to the thread that forked it.
`Handling`: who is in `handle_exit` has a reaped child of its own, knows its exit
code, and monitor and watchdog are never there for the same process. `Restarting`
and `ReportedIsReaped` carry the restart logic and the reports. A step in which
no thread forks, reaps or handles an exit keeps all of it (`QuietBase`), so
that only the others are proved conjunct by conjunct. `OneChild` and `Tracked` need
`Agreed(n)`: what a caller in `start()` or `stop()` relies on while the monitor may
write (`CallerRelies`), and `TrackedYet`; `CalmAgreed` disposes of the steps that touch
neither. A monitor relies on nothing: when it writes a status while the entry names
another child than its own, the name is raced from then on.
`OnlyKnownAborts` needs `DogInv`: the destructor runs alone, and the flag
and the thread of the watchdog agree wherever its controller stands.

**HealthMonitor.** `ThreadLife` (the thread lives from `start()` to the end of
`stop()`), `OwnerInside` (who uses the maps owns the mutex, until the second unlock
has freed a lock of another thread) and `ResultInHand` make exclusion inductive. With
`ThreadLife` `QuickShutdown` is inductive, too: its second part says that a thread
which has read `running_` before `stop()` cleared it has begun nothing since.

**ResourceMonitor.** `Places`, `FlagIsThread` and `ReadsAlone`: unless two
calls crossed, the flag and the thread agree; unless two reads overlapped, a read in
progress is the only one, so the difference is never taken from a stale value.

**ResourceManager.** `CallShape` and `CallsFitPhase` say what a call has in hand at
each statement and that its owner holds the mutex; `LastOwner`, that who ends a
monitor is its last owner; `FlagIsThread`, `DeadIsGone` and `Numbered`, that the
thread of a monitor ends before it does and that numbers are not used again.

**Telemetry.** A step of the daemon is one operation on the log or none
(`NextIsLogStep`). `SuffixByElement` says what it is to be a suffix,
`TrimmedFacts` that `pop_front` keeps one, `MessageFits` what `push_raw` makes
of any line, with the first space as the smallest position of one (`Smallest`).
`TelemetryInv` adds `Underway`: the socket is opened once, before anything else.
`OptionsAsMeant` is about `parse_args` alone: `ParseTurns` says that the loop has a
state after each option and `ReadMore` what one more option adds. The queries are
the same kind of argument over the entries, taken from the newest (`FoundTurns`,
`LastOfMore`). `MetricsAgree` needs what the series say at every step of `main()`, not
only between jobs: `SeriesInv`, with the sample the job in hand still owes, and
`EventSums`: the counter of a type is behind the log by the threads between the two
halves of the callback. A step adds one sample or none, and `LinesMore`,
`PlacesMore` and `LatestMore` say what is then printed.

**RedisClient.** `IInv` adds four parts to `ClientInv` and `OwnReply`. `OnWire`: the
cells on their way to the server, followed by those `write_all` has still to send, are
the requests not yet served, whole and in order; `Carries` says this of a stream by the
places it is cut at, so that a piece of any length can move. `Pending`: a request not
yet served is the one `send()` waits for, or its answer will not be believed.
`Loops`: what `write_all` and `read_exact` have done of their frame. `Clean`: until a
frame is refused, what comes back is the rest of one frame, the answer to the last
request. That the server decodes what `send()` encoded is a fact about `Request` and
`ReadArgs`, for arguments of any number and length. `ParseInside` goes through the body
from its end: a value depends only on the values behind it (`ValueSame`), so the table
exists (`ParsedExists`), and it stays within the body if they do (`ValueWithin`).

**Induction over data.** The induction theorems of the library take an operator as a
parameter, which the provers here cannot instantiate. The proofs use sets instead: a
set of naturals has a least element (`LeastNat` and `Smallest`, from `WFMin`), so a
set that holds 0 and, with each number below `n`, the next one, holds `0..n`
(`ByInduction`); and a loop has a value after each turn (`LoopExists`), which
justifies the recursive function that models it.

**Only model-checked.**

- Liveness (`EveryJobReported`, `ShutdownCompletes`, `SendReturns`, `RunReturns`,
  `CallsReturn`, `ZombieReaped`, `StopReturns`, `EveryCheckRuns`): fairness and
  `ENABLED` are beyond the prover.
- `ParseCorrect`: the reference `Encode` recurs over the nesting of a value, a
  structure the induction above does not reach, and is a `RECURSIVE` operator.
  `ParseInside` is the part of it that needs no reference.

## 5. What the runs found

With a run each (`findings` in `PROJECT.json`): the default id is a literal, not
"auto", so a second daemon's claim replaces that of the first; an automatic restart
joins the monitor thread from itself.

Said exactly by a property that holds:

- the watchdog decodes the wait status twice, so it reports a crash as STOPPED
  with code 0 and never restarts (`ExitReported`: only the watchdog does);
- an exit event may carry the pid of the next child (`ExitReported`: only a
  monitor's, and only of the same process);
- `handle_exit` may hide a live child and let a second one in, under policy NEVER,
  too (`OneChild`, `Tracked`: only if it wrote over a `start()`);
- a call on a connection the server has closed may kill the process by SIGPIPE
  (`SendReturns`: only while it writes), and a failed `waitpid` passes for exit code 0
  (`VerdictIsTheCommands`);
- removing or destroying a process that was ever started ends the program
  (`OnlyKnownAborts`);
- concurrent reads of a resource monitor report ticks twice or a wrapped
  difference, and `get_global_stats` judges the CPU after its own first read has
  used up the ticks (`TicksReportedOnce`);
- the manager dies safely only after the health thread has stopped and all
  monitors are gone (`NothingDangles`); the early returns of `main()` do not wait;
- a raw line whose tag is glued to a word loses that word (`RawKept`).

Met while modelling: the health monitor's second unlock can free the lock of another
thread; `remove_process` of a RUNNING process waits for its own mutex; a graceful
`stop()` as a rule runs to its timeout; policy ALWAYS does not restart after exit code
0; output callbacks get chunks, not lines, and pass on 1000 bytes of each; a cgroup or
seccomp set-up that fails is ignored (`Contained` says when); a refused frame leaves
its body in the stream; a silent server, or a command that never ends, blocks the
daemon for ever; an array count in a reply is reserved before it is checked; the
supervisor delivers STARTED and the watchdog's events, and the manager joins a thread
that may be in an alert callback, under a mutex the callback must therefore not want;
`pids_current` is never read, so no limit on processes is ever exceeded, and
`get_violations` does not know the resource; samples are never merged, so a counter is
many lines of 1, which a scraper does not add up; nothing accepts a connection on the
metrics port that `main()` announces; `--max-restarts` is parsed and used by nothing.

## 6. Not modelled, and why

- `MetricsServer::handle_client` and `build_response`: private, and no code calls
  them. `render_json`, `render_labels`: layout. `ResourceMonitor::get_history`,
  `count()`, and the supervisor's getters only read; `on_event` is
  called once, before any process is started, and `on_alert` of the manager by
  nothing.
- Disk, network and uptime figures of a usage: compared with no limit. The text of
  the files under `/proc`, where a program name with a blank shifts the fields.
- An alert or event callback that calls back into the object that calls it.
- `start()`/`stop()` of the health monitor and `start_watchdog()` from two threads:
  the same hazard is modelled in `ResourceMonitor` (`crossed`).
- `Seccomp` helper: nothing calls it. The list of allowed system calls: data.
- `devops.sh` build, logs, clean, and `ci.sh`: sequences of external commands.
- 32-bit wrap of a request longer than 4 GiB; move construction of the client.
- `memory_bytes` and resource limits of supervised children.

## 7. Plan

All components with state are modelled, and their safety properties are proved.
What is left:

1. The other half of `ParseCorrect`, the inverse of an encoding, as a relation between
   a value and the cells it occupies instead of a recursive operator.
2. Liveness, if a prover for fairness becomes available; the runs of section 3 are its
   specification.
