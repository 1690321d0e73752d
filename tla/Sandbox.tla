------------------------------ MODULE Sandbox ------------------------------
(***************************************************************************)
(* One Sandbox object (src/sandbox/src/sandbox.cpp): Sandbox::run in the   *)
(* daemon, child_entry in the cloned process, the pipe between them, and   *)
(* what the command may do: print, close its output, leave a process in    *)
(* the background, exit or be killed.  Parent, child and background        *)
(* process interleave at every system call.                                *)
(*                                                                         *)
(* Output is a sequence of characters of two kinds, so that loss and       *)
(* reordering can be told apart.                                           *)
(***************************************************************************)
EXTENDS Integers, Sequences, SequencesExt

CONSTANTS
    Chunk,          \* sizeof(buf) - 1: bytes one read() can return
    PipeCap,        \* capacity of the pipe
    MaxOut,         \* bound: bytes the sandboxed processes print
    ExitCodes,      \* exit codes of the command
    enable_network, \* SandboxConfig
    enable_seccomp,
    Faults          \* system calls that may fail

AllFaults == {"pipe", "malloc", "clone", "cgroup", "seccomp", "exec", "waitpid"}

ASSUME SandboxAssumption ==
    /\ {Chunk, PipeCap} \subseteq Nat \ {0}
    /\ MaxOut \in Nat
    /\ ExitCodes \subseteq 0..255
    /\ {enable_network, enable_seccomp} \subseteq BOOLEAN
    /\ Faults \subseteq AllFaults

SIGKILL == 9
SIGSYS == 31
Chars == {"x", "y"}
Limits == {"memory.max", "cpu.max", "pids.max", "cgroup.procs"}

VARIABLES
    pc,         \* Sandbox::run
    pipe_fd,    \* pipe_fd_: "rd" and "wr" hold a descriptor (TRUE) or -1
    closes,     \* history: close() calls of the daemon on each end
    stack,      \* is the child's stack allocated?
    exit_code,  \* ExecResult::exit_code
    out,        \* ExecResult::out
    status,     \* int status of run(), None until waitpid returns
    stage,      \* how far the child is
    death,      \* wait status the kernel keeps for the child
    flags,      \* namespaces of the child
    wends,      \* processes with the write end of the pipe open
    pipe,       \* bytes in the pipe
    printed,    \* history: bytes printed by the sandboxed processes
    background, \* is a process of the command other than sh alive?
    cgroup,     \* does the cgroup directory exist?
    limits,     \* files of the cgroup that were written
    filter,     \* is the seccomp filter loaded?
    failed      \* history: calls that failed and whose result nobody looks at

parentVars == <<pc, pipe_fd, closes, stack, exit_code, out, status>>
setupVars == <<limits, filter, failed>>
childVars == <<stage, death, flags, printed, background, setupVars>>
vars == <<parentVars, childVars, wends, pipe, cgroup>>

None == -2
Ends == {"rd", "wr"}
NoEnds == [e \in Ends |-> FALSE]

Init ==
    /\ pc = "pipe"
    /\ pipe_fd = NoEnds
    /\ closes = [e \in Ends |-> 0]
    /\ stack = FALSE
    /\ exit_code = 0
    /\ out = <<>>
    /\ status = None
    /\ stage = "none"
    /\ death = None
    /\ flags = {}
    /\ wends = {}
    /\ pipe = <<>>
    /\ printed = <<>>
    /\ background = FALSE
    /\ cgroup = FALSE
    /\ limits = {}
    /\ filter = FALSE
    /\ failed = {}

-----------------------------------------------------------------------------
(* Wait statuses as the kernel encodes them, and what run() makes of them. *)
(* The operators marked "faulty variant" are bugs this code could have     *)
(* had; no action uses them.                                               *)

Exited(c) == 256 * c
Signaled(s) == s

\* The wait statuses the child can leave.
Statuses == {Exited(c) : c \in ExitCodes \cup {127}}
            \cup {Signaled(s) : s \in {SIGKILL, SIGSYS}}

WIFEXITED(s) == s % 128 = 0
WEXITSTATUS(s) == (s \div 256) % 256
WTERMSIG(s) == s % 128

\* Faulty variant: WEXITSTATUS with no look at WIFEXITED.
DecodeUnchecked(s) == WEXITSTATUS(s)

\* The exit code of a status waitpid can return with no WUNTRACED.
Decode(s) == IF WIFEXITED(s) THEN WEXITSTATUS(s) ELSE 128 + WTERMSIG(s)

CloneFlags == {"NEWPID"} \cup (IF enable_network THEN {} ELSE {"NEWNET"})

\* Faulty variant: a read shorter than the buffer is taken for the last one.
ShortReadEnds(n) == n = Chunk

\* Does the loop go on after read() returned n > 0?
ReadAgain(n) == TRUE

\* pipe_fd_[1] = -1.
ForgetWriteEnd == [pipe_fd EXCEPT !["wr"] = FALSE]

\* Faulty variant: execl runs before the limits and the filter are set.
ExecFirst == <<"dup", "exec", "cgroup", "seccomp">>

\* The order of child_entry.
ChildOrder == <<"cgroup", "seccomp", "dup", "exec">>

\* The stage of the child after stage s.
After(s) == LET i == CHOOSE k \in 1..4 : ChildOrder[k] = s
            IN IF s = "exec" THEN "command" ELSE ChildOrder[i + 1]

-----------------------------------------------------------------------------
(* Sandbox::run.                                                           *)

\* rmdir of a cgroup with no process in it, then close what is open.
cleanup ==
    /\ cgroup' = IF stage \in {"none", "reaped"} /\ ~background
                 THEN FALSE ELSE cgroup
    /\ closes' = [e \in Ends |-> closes[e] + (IF pipe_fd[e] THEN 1 ELSE 0)]
    /\ pipe_fd' = NoEnds
    /\ wends' = wends \ {"daemon"}

Fail == pc' = "done" /\ exit_code' = -1

\* pipe(): a failure returns with nothing to clean up.
Pipe ==
    /\ pc = "pipe"
    /\ \/ /\ pipe_fd' = [e \in Ends |-> TRUE]
          /\ wends' = {"daemon"}
          /\ pc' = "malloc"
          /\ UNCHANGED exit_code
       \/ /\ "pipe" \in Faults
          /\ Fail
          /\ UNCHANGED <<pipe_fd, wends>>
    /\ UNCHANGED <<closes, stack, out, status, childVars, pipe, cgroup>>

\* malloc() of the child's stack.
Malloc ==
    /\ pc = "malloc"
    /\ \/ /\ stack' = TRUE
          /\ pc' = "clone"
          /\ UNCHANGED <<pipe_fd, closes, wends, cgroup, exit_code>>
       \/ /\ "malloc" \in Faults
          /\ Fail
          /\ cleanup
          /\ UNCHANGED stack
    /\ UNCHANGED <<out, status, childVars, pipe>>

\* Faulty variant: the stack of a clone() that failed is not freed.
CloneFailedLeaks == Fail /\ cleanup /\ UNCHANGED stack

\* clone() < 0: free(stack), cleanup(), return.
CloneFailed == Fail /\ cleanup /\ stack' = FALSE

\* clone(): the child gets a copy of both ends of the pipe.
Clone ==
    /\ pc = "clone"
    /\ \/ /\ stage' = ChildOrder[1]
          /\ flags' = CloneFlags
          /\ wends' = wends \cup {"sh"}
          /\ pc' = "close"
          /\ UNCHANGED <<pipe_fd, closes, stack, cgroup, exit_code>>
       \/ /\ "clone" \in Faults
          /\ CloneFailed
          /\ UNCHANGED <<stage, flags>>
    /\ UNCHANGED <<out, status, death, printed, background, setupVars, pipe>>

\* Faulty variant: the daemon keeps the write end while it reads.
KeepsWriteEndOpen ==
    /\ pc = "close"
    /\ pc' = "read"
    /\ UNCHANGED <<pipe_fd, closes, stack, exit_code, out, status, childVars,
                   wends, pipe, cgroup>>

\* close(pipe_fd_[1]), without which the read loop would never see EOF.
CloseWriteEnd ==
    /\ pc = "close"
    /\ closes' = [closes EXCEPT !["wr"] = @ + 1]
    /\ pipe_fd' = ForgetWriteEnd
    /\ wends' = wends \ {"daemon"}
    /\ pc' = "read"
    /\ UNCHANGED <<stack, exit_code, out, status, childVars, pipe,
                   cgroup>>

SmallerOf(a, b) == IF a < b THEN a ELSE b

\* One turn of the read loop: a chunk goes to output_fn (Output of module
\* JobWorker) and is appended to result.out.
Read ==
    /\ pc = "read"
    /\ pipe # <<>>
    /\ LET n == SmallerOf(Chunk, Len(pipe))
           chunk == SubSeq(pipe, 1, n)
       IN /\ pipe' = SubSeq(pipe, n + 1, Len(pipe))
          /\ out' = out \o chunk
          /\ pc' = IF ReadAgain(n) THEN "read" ELSE "wait"
    /\ UNCHANGED <<pipe_fd, closes, stack, exit_code, status, childVars,
                   wends, cgroup>>

\* read() returns 0: the pipe is empty and nobody can write to it.
ReadEOF ==
    /\ pc = "read"
    /\ pipe = <<>>
    /\ wends = {}
    /\ pc' = "wait"
    /\ UNCHANGED <<pipe_fd, closes, stack, exit_code, out, status,
                   childVars, wends, pipe, cgroup>>

\* waitpid(child_pid_, &status, 0).  Its result is not looked at: in a daemon
\* that was started with SIGCHLD ignored it waits for the child, which the
\* kernel reaps, and fails with ECHILD; status is then the 0 it began with.
Wait ==
    /\ pc = "wait"
    /\ stage = "zombie"
    /\ stage' = "reaped"
    /\ \/ status' = death /\ UNCHANGED failed
       \/ /\ "waitpid" \in Faults
          /\ status' = Exited(0)
          /\ failed' = failed \cup {"waitpid"}
    /\ pc' = "finish"
    /\ UNCHANGED <<pipe_fd, closes, stack, exit_code, out, death, flags,
                   printed, background, limits, filter, wends, pipe, cgroup>>

\* free(stack), decode the status, cleanup(), return.
Finish ==
    /\ pc = "finish"
    /\ stack' = FALSE
    /\ exit_code' = Decode(status)
    /\ cleanup
    /\ pc' = "done"
    /\ UNCHANGED <<out, status, childVars, pipe>>

\* ~Sandbox() at the end of main()'s loop body calls cleanup() once more.
Destructor ==
    /\ pc = "done"
    /\ cleanup
    /\ pc' = "destroyed"
    /\ UNCHANGED <<stack, exit_code, out, status, childVars, pipe>>

Run == Pipe \/ Malloc \/ Clone \/ CloseWriteEnd \/ Read \/ ReadEOF \/ Wait
       \/ Finish \/ Destructor

-----------------------------------------------------------------------------
(* child_entry.                                                            *)

\* mkdir and the four write_file calls; no result is looked at, and any of
\* them may fail alone.
ChildCgroup ==
    /\ stage = "cgroup"
    /\ stage' = After(stage)
    /\ \E written \in IF "cgroup" \in Faults THEN SUBSET Limits ELSE {Limits} :
          /\ limits' = written
          /\ failed' = failed \cup (Limits \ written)
          /\ cgroup' \in IF written = {} THEN BOOLEAN ELSE {TRUE}
    /\ UNCHANGED <<parentVars, death, flags, printed, background, filter,
                   wends, pipe>>

\* seccomp_init, install_allowlist, seccomp_load; no result is looked at.
ChildSeccomp ==
    /\ stage = "seccomp"
    /\ stage' = After(stage)
    /\ \/ /\ filter' = enable_seccomp
          /\ UNCHANGED failed
       \/ /\ enable_seccomp
          /\ "seccomp" \in Faults
          /\ filter' = FALSE
          /\ failed' = failed \cup {"seccomp"}
    /\ UNCHANGED <<parentVars, death, flags, printed, background, limits,
                   wends, pipe, cgroup>>

\* dup2 onto stdout and stderr, close the original: "sh" in wends stands
\* for whichever of the three the child has.
ChildDup ==
    /\ stage = "dup"
    /\ stage' = After(stage)
    /\ UNCHANGED <<parentVars, death, flags, printed, background, setupVars,
                   wends, pipe, cgroup>>

\* The child ends with a wait status.  It is process 1 of its namespace:
\* the kernel kills the rest of the namespace first.
Die(s) ==
    /\ stage' = "zombie"
    /\ death' = s
    /\ background' = (background /\ "NEWPID" \notin flags)
    /\ wends' = wends \ ({"sh"} \cup (IF background' THEN {} ELSE {"bg"}))

\* execl("/bin/sh", ...), or _exit(127) when it fails.
ChildExec ==
    /\ stage = "exec"
    /\ \/ /\ stage' = After(stage)
          /\ UNCHANGED <<death, background, wends>>
       \/ /\ "exec" \in Faults
          /\ Die(Exited(127))
    /\ UNCHANGED <<parentVars, flags, printed, setupVars, pipe, cgroup>>

ChildEntry == ChildCgroup \/ ChildSeccomp \/ ChildDup \/ ChildExec

-----------------------------------------------------------------------------
(* The command, from what sh and its children may do.                      *)

\* A process with the write end prints one character.
WriteByte(p) ==
    /\ stage = "command" \/ p = "bg"
    /\ p \in wends
    /\ Len(printed) < MaxOut
    /\ Len(pipe) < PipeCap
    /\ \E c \in Chars :
          /\ pipe' = Append(pipe, c)
          /\ printed' = Append(printed, c)
    /\ UNCHANGED <<parentVars, stage, death, flags, background, setupVars,
                   wends, cgroup>>

\* "exec >&- 2>&-": sh, or the background process, closes its output.
CloseOutput(p) ==
    /\ stage = "command" \/ p = "bg"
    /\ p \in wends
    /\ wends' = wends \ {p}
    /\ UNCHANGED <<parentVars, childVars, pipe, cgroup>>

\* "... &": a process that inherits the output of sh.
StartBackground ==
    /\ stage = "command"
    /\ ~background
    /\ background' = TRUE
    /\ wends' = wends \cup (IF "sh" \in wends THEN {"bg"} ELSE {})
    /\ UNCHANGED <<parentVars, stage, death, flags, printed, setupVars,
                   pipe, cgroup>>

BackgroundExits ==
    /\ background
    /\ background' = FALSE
    /\ wends' = wends \ {"bg"}
    /\ UNCHANGED <<parentVars, stage, death, flags, printed, setupVars,
                   pipe, cgroup>>

CommandExits ==
    /\ stage = "command"
    /\ \E c \in ExitCodes : Die(Exited(c))
    /\ UNCHANGED <<parentVars, flags, printed, setupVars, pipe, cgroup>>

\* The OOM killer or an operator at any time; the filter once it is loaded.
Killed ==
    /\ stage \in ToSet(ChildOrder) \cup {"command"}
    /\ \E s \in {SIGKILL} \cup (IF filter THEN {SIGSYS} ELSE {}) :
          Die(Signaled(s))
    /\ UNCHANGED <<parentVars, flags, printed, setupVars, pipe, cgroup>>

Command ==
    \/ \E p \in {"sh", "bg"} : WriteByte(p) \/ CloseOutput(p)
    \/ StartBackground \/ BackgroundExits \/ CommandExits \/ Killed

\* Nothing is left to happen once the object is gone and no process lives.
Over ==
    /\ pc = "destroyed"
    /\ ~background
    /\ UNCHANGED vars

Next == Run \/ ChildEntry \/ Command \/ Over

Spec == Init /\ [][Next]_vars

\* The daemon and the child are scheduled, and sh ends sooner or later (run
\* has no timeout: nothing in the code forces it to).  Nothing is assumed
\* of the background process.
FairSpec == Spec /\ WF_vars(Run) /\ WF_vars(ChildEntry) /\ WF_vars(CommandExits)

-----------------------------------------------------------------------------
(* Properties.                                                             *)

\* Every variable keeps its type; exit_code is -1 or fits in a byte.
TypeOK ==
    /\ pc \in {"pipe", "malloc", "clone", "close", "read", "wait", "finish",
               "done", "destroyed"}
    /\ pipe_fd \in [Ends -> BOOLEAN]
    /\ closes \in [Ends -> Nat]
    /\ {stack, background, cgroup, filter} \subseteq BOOLEAN
    /\ exit_code \in -1..255
    /\ {status, death} \subseteq Statuses \cup {Exited(0), None}
    /\ stage \in ToSet(ChildOrder) \cup {"none", "command", "zombie", "reaped"}
    /\ flags \subseteq {"NEWPID", "NEWNET"}
    /\ wends \subseteq {"daemon", "sh", "bg"}
    /\ {out, pipe, printed} \subseteq Seq(Chars)
    /\ limits \subseteq Limits
    /\ failed \subseteq Limits \cup {"seccomp", "waitpid"}

Returned == pc \in {"done", "destroyed"}

\* result.out is what the command and its background processes printed, in
\* order and to the last byte, although they print, close and die in any
\* order while run() reads (sandbox.cpp:156-169).
OutputIntact ==
    /\ out \o pipe = printed
    /\ Returned => out = printed

\* What run() takes the child's wait status to be.
Waited == IF "waitpid" \in failed THEN Exited(0) ELSE death

\* run() returns 0 only for a command that exited with 0, and tells a
\* killed command from every exit code it did not use (sandbox.cpp:177-183);
\* the one exception is a waitpid that failed, after which every command has
\* passed (sandbox.cpp:168-169).
VerdictIsTheCommands ==
    Returned => \/ exit_code = -1 /\ stage = "none"
                \/ exit_code = 0 /\ "waitpid" \in failed
                \/ \E c \in ExitCodes \cup {127} : death = Exited(c) /\ exit_code = c
                \/ \E s \in {SIGKILL, SIGSYS} :
                      death = Signaled(s) /\ exit_code = 128 + s

\* Each end of the pipe is closed once and never a second time, when its
\* number may belong to another thread's file (sandbox.cpp:34-37, 156-157),
\* on the success path and on every early return.
ClosedOnce ==
    \A e \in Ends :
        /\ closes[e] <= 1
        /\ Returned => ~pipe_fd[e]
        /\ (Returned /\ closes[e] = 0) => closes = [x \in Ends |-> 0]

\* After run() no stack, zombie, process or cgroup of the job is left,
\* whichever call failed (sandbox.cpp:126-154, 174-185).
NothingLeftBehind ==
    Returned => /\ ~stack
                /\ stage \in {"none", "reaped"}
                /\ ~background
                /\ ~cgroup

\* Ends of the pipe, all of them open or closed n times.
AllOpen == [e \in Ends |-> TRUE]
AllClosed(n) == [e \in Ends |-> n]

\* What run() holds at each of its statements (sandbox.cpp:120-187).
RunHolds ==
    /\ pc = "pipe" => pipe_fd = NoEnds /\ closes = AllClosed(0)
    /\ pc \in {"malloc", "clone", "close"} => pipe_fd = AllOpen /\ closes = AllClosed(0)
    /\ pc \in {"read", "wait", "finish"} =>
          /\ pipe_fd = [AllOpen EXCEPT !["wr"] = FALSE]
          /\ closes = [AllClosed(0) EXCEPT !["wr"] = 1]
    /\ Returned => pipe_fd = NoEnds /\ closes \in {AllClosed(0), AllClosed(1)}
    /\ pc \in {"clone", "close", "read", "wait", "finish"} => stack = TRUE
    /\ pc \in {"pipe", "malloc"} \/ Returned => stack = FALSE
    /\ "daemon" \in wends <=> pc \in {"malloc", "clone", "close"}
    /\ pc \in {"wait", "finish"} \/ Returned => pipe = <<>> /\ wends = {}
    /\ pc \in {"pipe", "malloc", "clone"} => stage = "none"
    /\ pc \in {"close", "read", "wait"} => stage \notin {"none", "reaped"}
    /\ "waitpid" \in failed => pc = "finish" \/ Returned
    /\ pc = "finish" => stage = "reaped" /\ status = Waited
    /\ Returned => \/ stage = "none" /\ exit_code = -1
                   \/ stage = "reaped" /\ exit_code = Decode(Waited)

\* What there is of the child and of its processes at each of its stages.
ChildLives ==
    /\ stage = "none" => printed = <<>> /\ pipe = <<>> /\ out = <<>>
    /\ stage # "none" => flags = CloneFlags
    /\ background => stage = "command"
    /\ "bg" \in wends => background
    /\ "sh" \in wends => stage \in ToSet(ChildOrder) \cup {"command"}
    /\ stage \in {"zombie", "reaped"} => death \in Statuses
    /\ cgroup => ~Returned /\ stage \notin {"none", "cgroup"}

\* Types, ClosedOnce and NothingLeftBehind: what run() takes from the system it
\* gives back once, on every path; with what carries them from step to step
\* (sandbox.cpp:27-39, 120-187).
SandboxInv == TypeOK /\ ClosedOnce /\ NothingLeftBehind /\ RunHolds /\ ChildLives

\* The command runs only inside its namespaces, with every limit written
\* and the filter loaded ("Enforces strict memory limits", README.md:8),
\* unless the very call that sets it up failed: child_entry does not look
\* (sandbox.cpp:91-118).  The failure of one limit excuses no other.
Contained ==
    stage = "command" =>
        /\ Limits \ limits \subseteq failed
        /\ filter = enable_seccomp \/ "seccomp" \in failed
        /\ "NEWPID" \in flags /\ ("NEWNET" \in flags \/ enable_network)

\* run() returns once sh has ended, even if a background process would go
\* on for ever with the pipe open (sandbox.cpp:134, 156-169).
RunReturns == <>(pc = "destroyed")
=============================================================================
