--------------------------- MODULE SandboxProofs ---------------------------
(***************************************************************************)
(* Proofs about Sandbox, for any chunk size, pipe capacity and amount of   *)
(* output, any exit codes, every configuration and every set of faults.    *)
(***************************************************************************)
EXTENDS Sandbox, SequenceTheorems, TLAPS

\* The stages of child_entry.
LEMMA EntryStages == ToSet(ChildOrder) = {"cgroup", "seccomp", "dup", "exec"}
  <1>1. DOMAIN ChildOrder = 1..4
    BY DEF ChildOrder
  <1> QED
    BY <1>1 DEF ToSet, ChildOrder

\* The order of child_entry.
LEMMA AfterValues ==
    /\ After("cgroup") = "seccomp" /\ After("seccomp") = "dup"
    /\ After("dup") = "exec" /\ After("exec") = "command"
  <1>1. \A k \in 1..4 : k \in {1, 2, 3, 4}
    OBVIOUS
  <1>2. /\ ChildOrder[1] = "cgroup" /\ ChildOrder[2] = "seccomp"
        /\ ChildOrder[3] = "dup" /\ ChildOrder[4] = "exec"
    BY DEF ChildOrder
  <1>3. ASSUME NEW s \in {"cgroup", "seccomp", "dup"}
        PROVE  LET i == CHOOSE k \in 1..4 : ChildOrder[k] = s
               IN i \in {1, 2, 3, 4} /\ ChildOrder[i] = s
    <2>1. \E k \in 1..4 : ChildOrder[k] = s
      BY <1>2
    <2> QED
      BY <1>1, <2>1
  <1>4. After("cgroup") = "seccomp"
    BY <1>2, <1>3 DEF After
  <1>5. After("seccomp") = "dup"
    BY <1>2, <1>3 DEF After
  <1>6. After("dup") = "exec"
    BY <1>2, <1>3 DEF After
  <1> QED
    BY <1>4, <1>5, <1>6 DEF After

\* What run() makes of the wait status of an exit and of a kill.
LEMMA DecodeExited == \A c \in 0..255 : Decode(Exited(c)) = c
  BY DEF Decode, Exited, WIFEXITED, WEXITSTATUS

LEMMA DecodeSignaled ==
    \A s \in {SIGKILL, SIGSYS} : Decode(Signaled(s)) = 128 + s
  BY DEF Decode, Signaled, WIFEXITED, WEXITSTATUS, WTERMSIG, SIGKILL, SIGSYS

\* The code run() makes of a wait status fits in a byte.
LEMMA DecodeTypes ==
    ASSUME NEW s \in Statuses
    PROVE  Decode(s) \in 0..255
  <1>1. ExitCodes \cup {127} \subseteq 0..255
    BY SandboxAssumption
  <1>2. ASSUME NEW c \in ExitCodes \cup {127}, s = Exited(c)
        PROVE  Decode(s) \in 0..255
    <2>1. c \in 0..255
      BY <1>1
    <2>2. Decode(Exited(c)) = c
      BY <2>1, DecodeExited
    <2> QED
      BY <1>2, <2>1, <2>2
  <1>3. ASSUME NEW t \in {SIGKILL, SIGSYS}, s = Signaled(t)
        PROVE  Decode(s) \in 0..255
    <2>1. 128 + t \in 0..255
      BY DEF SIGKILL, SIGSYS
    <2>2. Decode(Signaled(t)) = 128 + t
      BY DecodeSignaled
    <2> QED
      BY <1>3, <2>1, <2>2
  <1> QED
    BY <1>2, <1>3 DEF Statuses

-----------------------------------------------------------------------------
(* SandboxInv.                                                             *)

\* Its inductive part.
Core == TypeOK /\ RunHolds /\ ChildLives

\* The child is dead: nothing but the daemon has the pipe, and its namespace
\* is empty.
LEMMA DieEffect ==
    ASSUME Core, NEW s \in Statuses, Die(s), stage \notin {"none", "zombie", "reaped"}
    PROVE  /\ stage' = "zombie" /\ death' = s /\ background' = FALSE
           /\ wends' = wends \ {"sh", "bg"}
  <1>1. "NEWPID" \in flags
    BY DEF Core, ChildLives, CloneFlags
  <1> QED
    BY <1>1 DEF Die

\* The two ends of the pipe.
LEMMA EndFacts ==
    /\ AllOpen \in [Ends -> BOOLEAN] /\ NoEnds \in [Ends -> BOOLEAN]
    /\ [AllOpen EXCEPT !["wr"] = FALSE] \in [Ends -> BOOLEAN]
    /\ AllClosed(0) \in [Ends -> Nat] /\ AllClosed(1) \in [Ends -> Nat]
    /\ [AllClosed(0) EXCEPT !["wr"] = 1] \in [Ends -> Nat]
    /\ AllClosed(0)["wr"] = 0
  <1>1. AllOpen \in [Ends -> BOOLEAN] /\ NoEnds \in [Ends -> BOOLEAN] /\ "wr" \in Ends
    BY DEF AllOpen, NoEnds, Ends
  <1>2. [AllOpen EXCEPT !["wr"] = FALSE] \in [Ends -> BOOLEAN]
    BY <1>1
  <1>3. /\ AllClosed(0) \in [Ends -> Nat] /\ AllClosed(1) \in [Ends -> Nat]
        /\ [AllClosed(0) EXCEPT !["wr"] = 1] \in [Ends -> Nat]
        /\ AllClosed(0)["wr"] = 0
    BY <1>1 DEF AllClosed
  <1> QED
    BY <1>1, <1>2, <1>3

\* cleanup() closes what is open, and removes the cgroup if no process is in it.
LEMMA CleanupEffect ==
    ASSUME cleanup
    PROVE  /\ pipe_fd' = NoEnds /\ wends' = wends \ {"daemon"}
           /\ pipe_fd = NoEnds /\ closes \in [Ends -> Nat] => closes' = closes
           /\ pipe_fd = AllOpen /\ closes = AllClosed(0) => closes' = AllClosed(1)
           /\ (/\ pipe_fd = [AllOpen EXCEPT !["wr"] = FALSE]
               /\ closes = [AllClosed(0) EXCEPT !["wr"] = 1])
                 => closes' = AllClosed(1)
           /\ stage \in {"none", "reaped"} /\ ~background => cgroup' = FALSE
  <1>1. closes' = [e \in Ends |-> closes[e] + (IF pipe_fd[e] THEN 1 ELSE 0)]
    BY DEF cleanup
  <1>2. ASSUME pipe_fd = NoEnds, closes \in [Ends -> Nat]
        PROVE  closes' = closes
    BY <1>1, <1>2 DEF NoEnds
  <1>3. ASSUME pipe_fd = AllOpen, closes = AllClosed(0)
        PROVE  closes' = AllClosed(1)
    BY <1>1, <1>3 DEF AllOpen, AllClosed
  <1>4. ASSUME pipe_fd = [AllOpen EXCEPT !["wr"] = FALSE],
               closes = [AllClosed(0) EXCEPT !["wr"] = 1]
        PROVE  closes' = AllClosed(1)
    <2>1. pipe_fd["rd"] = TRUE /\ pipe_fd["wr"] = FALSE
      BY <1>4 DEF AllOpen, Ends
    <2>2. closes["rd"] = 0 /\ closes["wr"] = 1
      BY <1>4 DEF AllClosed, Ends
    <2>3. \A e \in Ends : closes[e] + (IF pipe_fd[e] THEN 1 ELSE 0) = 1
      BY <2>1, <2>2 DEF Ends
    <2> QED
      BY <1>1, <2>3 DEF AllClosed
  <1>5. /\ pipe_fd' = NoEnds /\ wends' = wends \ {"daemon"}
        /\ stage \in {"none", "reaped"} /\ ~background => cgroup' = FALSE
    BY DEF cleanup
  <1> QED
    BY <1>2, <1>3, <1>4, <1>5

\* pipe().
LEMMA PipeStep ==
    ASSUME Core, Pipe
    PROVE  Core'
  <1> USE EndFacts DEF Core
  <1>1. /\ pc = "pipe" /\ stage = "none" /\ stack = FALSE /\ pipe_fd = NoEnds
        /\ closes = AllClosed(0) /\ "daemon" \notin wends
    BY DEF Pipe, RunHolds
  <1>2. UNCHANGED <<closes, stack, out, status, stage, death, flags, printed, background,
                    limits, filter, failed, pipe, cgroup>>
    BY DEF Pipe, childVars, setupVars
  <1>3. wends = {}
    BY <1>1, EntryStages DEF TypeOK, ChildLives
  <1>4. CASE pipe_fd' = AllOpen /\ wends' = {"daemon"} /\ pc' = "malloc" /\ UNCHANGED exit_code
    <2>1. TypeOK'
      BY <1>2, <1>4 DEF TypeOK
    <2>2. RunHolds'
      BY <1>1, <1>2, <1>4 DEF RunHolds, Returned
    <2>3. ChildLives'
      BY <1>1, <1>2, <1>4 DEF ChildLives, Returned
    <2> QED
      BY <2>1, <2>2, <2>3
  <1>5. CASE Fail /\ UNCHANGED <<pipe_fd, wends>>
    <2>1. pc' = "done" /\ exit_code' = -1
      BY <1>5 DEF Fail
    <2>2. TypeOK'
      BY <1>2, <1>5, <2>1 DEF TypeOK
    <2>3. RunHolds'
      BY <1>1, <1>2, <1>3, <1>5, <2>1 DEF RunHolds, Returned, ChildLives
    <2>4. ChildLives'
      BY <1>1, <1>2, <1>5, <2>1 DEF ChildLives, Returned
    <2> QED
      BY <2>2, <2>3, <2>4
  <1> QED
    BY <1>4, <1>5 DEF Pipe, AllOpen

\* While the child is alive run() is between clone() and waitpid().
LEMMA ChildFrame ==
    ASSUME Core, stage \notin {"none", "zombie", "reaped"}, UNCHANGED parentVars,
           stage' \notin {"none", "reaped"},
           ("daemon" \in wends') <=> ("daemon" \in wends),
           pipe = <<>> /\ wends = {} => pipe' = <<>> /\ wends' = {},
           "waitpid" \in failed' => "waitpid" \in failed
    PROVE  RunHolds' /\ pc \in {"close", "read", "wait"} /\ ~Returned /\ ~Returned'
  <1>1. pc \in {"close", "read", "wait"}
    BY DEF Core, TypeOK, RunHolds, Returned
  <1>2. UNCHANGED <<pc, pipe_fd, closes, stack, exit_code, out, status>>
    BY DEF parentVars
  <1>3. RunHolds'
    BY <1>1, <1>2 DEF Core, RunHolds, Returned
  <1> QED
    BY <1>1, <1>2, <1>3 DEF Returned

\* The cgroup and the limits.
LEMMA ChildCgroupStep ==
    ASSUME Core, ChildCgroup
    PROVE  Core'
  <1>1. stage = "cgroup" /\ stage' = "seccomp"
    BY AfterValues DEF ChildCgroup
  <1>2. UNCHANGED <<parentVars, death, flags, printed, background, filter, wends, pipe>>
    BY DEF ChildCgroup
  <1>3. UNCHANGED <<pc, pipe_fd, closes, stack, exit_code, out, status>>
    BY <1>2 DEF parentVars
  <1>4. /\ cgroup' \in BOOLEAN /\ limits' \subseteq Limits
        /\ failed' \subseteq Limits \cup {"seccomp", "waitpid"}
        /\ "waitpid" \in failed' => "waitpid" \in failed
    <2>1. failed \subseteq Limits \cup {"seccomp", "waitpid"}
      BY DEF Core, TypeOK
    <2> QED
      BY <2>1 DEF ChildCgroup, Limits
  <1>5. RunHolds' /\ ~Returned'
    BY <1>1, <1>2, <1>4, ChildFrame
  <1>6. TypeOK'
    BY <1>1, <1>2, <1>3, <1>4, EntryStages DEF Core, TypeOK
  <1>7. ChildLives'
    BY <1>1, <1>2, <1>3, <1>5, EntryStages DEF Core, ChildLives
  <1> QED
    BY <1>5, <1>6, <1>7 DEF Core

\* The filter.
LEMMA ChildSeccompStep ==
    ASSUME Core, ChildSeccomp
    PROVE  Core'
  <1>1. stage = "seccomp" /\ stage' = "dup"
    BY AfterValues DEF ChildSeccomp
  <1>2. UNCHANGED <<parentVars, death, flags, printed, background, limits, wends, pipe, cgroup>>
    BY DEF ChildSeccomp
  <1>3. UNCHANGED <<pc, pipe_fd, closes, stack, exit_code, out, status>>
    BY <1>2 DEF parentVars
  <1>4. /\ filter' \in BOOLEAN
        /\ failed' \subseteq Limits \cup {"seccomp", "waitpid"}
        /\ "waitpid" \in failed' => "waitpid" \in failed
    <2>1. failed \subseteq Limits \cup {"seccomp", "waitpid"}
      BY DEF Core, TypeOK
    <2>2. enable_seccomp \in BOOLEAN
      BY SandboxAssumption
    <2> QED
      BY <2>1, <2>2 DEF ChildSeccomp
  <1>5. RunHolds' /\ ~Returned' /\ ~Returned
    BY <1>1, <1>2, <1>4, ChildFrame
  <1>6. TypeOK'
    BY <1>1, <1>2, <1>3, <1>4, EntryStages DEF Core, TypeOK
  <1>7. ChildLives'
    BY <1>1, <1>2, <1>3, <1>5, EntryStages DEF Core, ChildLives
  <1> QED
    BY <1>5, <1>6, <1>7 DEF Core

\* The output.
LEMMA ChildDupStep ==
    ASSUME Core, ChildDup
    PROVE  Core'
  <1>1. stage = "dup" /\ stage' = "exec"
    BY AfterValues DEF ChildDup
  <1>2. UNCHANGED <<parentVars, death, flags, printed, background, setupVars, wends, pipe, cgroup>>
    BY DEF ChildDup
  <1>3. UNCHANGED <<pc, pipe_fd, closes, stack, exit_code, out, status, limits, filter, failed>>
    BY <1>2 DEF parentVars, setupVars
  <1>4. RunHolds' /\ ~Returned'
    BY <1>1, <1>2, <1>3, ChildFrame
  <1>5. TypeOK'
    BY <1>1, <1>2, <1>3, EntryStages DEF Core, TypeOK
  <1>6. ChildLives'
    BY <1>1, <1>2, <1>3, <1>4, EntryStages DEF Core, ChildLives
  <1> QED
    BY <1>4, <1>5, <1>6 DEF Core

\* The end of the child, whatever ends it.
LEMMA DieStep ==
    ASSUME Core, NEW s \in Statuses, Die(s), stage \notin {"none", "zombie", "reaped"},
           UNCHANGED <<parentVars, flags, printed, setupVars, pipe, cgroup>>
    PROVE  Core'
  <1>1. /\ stage' = "zombie" /\ death' = s /\ background' = FALSE
        /\ wends' = wends \ {"sh", "bg"}
    BY DieEffect
  <1>2. UNCHANGED <<pc, pipe_fd, closes, stack, exit_code, out, status, flags, printed,
                    limits, filter, failed, pipe, cgroup>>
    BY DEF parentVars, setupVars
  <1>4. RunHolds' /\ ~Returned'
    BY <1>1, <1>2, ChildFrame
  <1>5. TypeOK'
    <2>1. death' \in Statuses
      BY <1>1
    <2>2. ({stack, background, cgroup, filter} \subseteq BOOLEAN)'
      <3>1. {stack, cgroup, filter} \subseteq BOOLEAN
        BY DEF Core, TypeOK
      <3> QED
        BY <1>1, <1>2, <3>1
    <2>3. (wends \subseteq {"daemon", "sh", "bg"})'
      BY <1>1 DEF Core, TypeOK
    <2> QED
      BY <1>1, <1>2, <2>1, <2>2, <2>3 DEF Core, TypeOK
  <1>6. ChildLives'
    BY <1>1, <1>2, <1>4 DEF Core, ChildLives
  <1> QED
    BY <1>4, <1>5, <1>6 DEF Core

\* execl, or _exit(127).
LEMMA ChildExecStep ==
    ASSUME Core, ChildExec
    PROVE  Core'
  <1>1. stage = "exec" /\ UNCHANGED <<parentVars, flags, printed, setupVars, pipe, cgroup>>
    BY DEF ChildExec
  <1>2. CASE stage' = After(stage) /\ UNCHANGED <<death, background, wends>>
    <2>1. stage' = "command"
      BY <1>1, <1>2, AfterValues
    <2>2. UNCHANGED <<pc, pipe_fd, closes, stack, exit_code, out, status, limits, filter, failed>>
      BY <1>1 DEF parentVars, setupVars
    <2>3. RunHolds' /\ ~Returned'
      BY <1>1, <1>2, <2>1, <2>2, ChildFrame
    <2>4. TypeOK'
      BY <1>1, <1>2, <2>1, <2>2 DEF Core, TypeOK
    <2>5. ChildLives'
      BY <1>1, <1>2, <2>1, <2>2, <2>3 DEF Core, ChildLives
    <2> QED
      BY <2>3, <2>4, <2>5 DEF Core
  <1>3. CASE Die(Exited(127))
    <2>1. Exited(127) \in Statuses
      BY DEF Statuses
    <2> QED
      BY <1>1, <1>3, <2>1, DieStep
  <1> QED
    BY <1>2, <1>3 DEF ChildExec

\* A process of the command prints.
LEMMA WriteByteStep ==
    ASSUME Core, NEW p \in {"sh", "bg"}, WriteByte(p)
    PROVE  Core'
  <1>1. stage = "command" /\ wends # {}
    BY DEF WriteByte, Core, ChildLives
  <1>2. UNCHANGED <<parentVars, stage, death, flags, background, setupVars, wends, cgroup>>
    BY DEF WriteByte
  <1>3. UNCHANGED <<pc, pipe_fd, closes, stack, exit_code, out, status, limits, filter, failed>>
    BY <1>2 DEF parentVars, setupVars
  <1>4. pipe' \in Seq(Chars) /\ printed' \in Seq(Chars)
    <2>1. pipe \in Seq(Chars) /\ printed \in Seq(Chars)
      BY DEF Core, TypeOK
    <2> QED
      BY <2>1 DEF WriteByte
  <1>5. RunHolds' /\ ~Returned'
    BY <1>1, <1>2, <1>3, ChildFrame
  <1>6. TypeOK'
    BY <1>1, <1>2, <1>3, <1>4 DEF Core, TypeOK
  <1>7. ChildLives'
    BY <1>1, <1>2, <1>3, <1>5 DEF Core, ChildLives
  <1> QED
    BY <1>5, <1>6, <1>7 DEF Core

\* A process of the command closes its output.
LEMMA CloseOutputStep ==
    ASSUME Core, NEW p \in {"sh", "bg"}, CloseOutput(p)
    PROVE  Core'
  <1>1. stage = "command" /\ wends # {} /\ wends' = wends \ {p}
    BY DEF CloseOutput, Core, ChildLives
  <1>2. UNCHANGED <<parentVars, stage, death, flags, printed, background, setupVars, pipe, cgroup>>
    BY DEF CloseOutput, childVars
  <1>3. UNCHANGED <<pc, pipe_fd, closes, stack, exit_code, out, status, limits, filter, failed>>
    BY <1>2 DEF parentVars, setupVars
  <1>4. RunHolds' /\ ~Returned'
    BY <1>1, <1>2, <1>3, ChildFrame
  <1>5. TypeOK'
    BY <1>1, <1>2, <1>3 DEF Core, TypeOK
  <1>6. ChildLives'
    BY <1>1, <1>2, <1>3, <1>4 DEF Core, ChildLives
  <1> QED
    BY <1>4, <1>5, <1>6 DEF Core

\* A background process starts, or ends.
LEMMA BackgroundStep ==
    ASSUME Core, StartBackground \/ BackgroundExits
    PROVE  Core'
  <1>1. UNCHANGED <<parentVars, stage, death, flags, printed, setupVars, pipe, cgroup>>
    BY DEF StartBackground, BackgroundExits
  <1>2. UNCHANGED <<pc, pipe_fd, closes, stack, exit_code, out, status, limits, filter, failed>>
    BY <1>1 DEF parentVars, setupVars
  <1>3. /\ stage = "command"
        /\ \/ background' = TRUE /\ "sh" \in wends /\ wends' = wends \cup {"bg"}
           \/ background' = TRUE /\ wends' = wends
           \/ background' = FALSE /\ wends' = wends \ {"bg"}
    BY DEF StartBackground, BackgroundExits, Core, ChildLives
  <1>4. RunHolds' /\ ~Returned'
    BY <1>1, <1>2, <1>3, ChildFrame
  <1>5. TypeOK'
    <2>1. ({stack, background, cgroup, filter} \subseteq BOOLEAN)'
      <3>1. {stack, cgroup, filter} \subseteq BOOLEAN
        BY DEF Core, TypeOK
      <3>2. background' \in BOOLEAN
        BY <1>3
      <3> QED
        BY <1>1, <1>2, <3>1, <3>2
    <2>2. (wends \subseteq {"daemon", "sh", "bg"})'
      <3>1. wends \subseteq {"daemon", "sh", "bg"}
        BY DEF Core, TypeOK
      <3>2. wends' \subseteq wends \cup {"bg"}
        BY <1>3
      <3> QED
        BY <3>1, <3>2
    <2> QED
      BY <1>1, <1>2, <2>1, <2>2 DEF Core, TypeOK
  <1>6. ChildLives'
    <2>1. ("bg" \in wends => background)'
      <3>2. CASE background' = FALSE /\ wends' = wends \ {"bg"}
        BY <3>2
      <3> QED
        BY <1>3, <3>2
    <2>2. ("sh" \in wends => stage \in ToSet(ChildOrder) \cup {"command"})'
      BY <1>1, <1>3
    <2> QED
      BY <1>1, <1>2, <1>3, <1>4, <2>1, <2>2 DEF Core, ChildLives
  <1> QED
    BY <1>4, <1>5, <1>6 DEF Core

\* sh exits.
LEMMA CommandExitsStep ==
    ASSUME Core, CommandExits
    PROVE  Core'
  <1>1. stage = "command" /\ UNCHANGED <<parentVars, flags, printed, setupVars, pipe, cgroup>>
    BY DEF CommandExits
  <1>2. PICK c \in ExitCodes : Die(Exited(c))
    BY DEF CommandExits
  <1>3. Exited(c) \in Statuses
    BY DEF Statuses
  <1> QED
    BY <1>1, <1>2, <1>3, DieStep

\* The child is killed.
LEMMA KilledStep ==
    ASSUME Core, Killed
    PROVE  Core'
  <1>1. /\ stage \notin {"none", "zombie", "reaped"}
        /\ UNCHANGED <<parentVars, flags, printed, setupVars, pipe, cgroup>>
    BY EntryStages DEF Killed
  <1>2. PICK s \in {SIGKILL, SIGSYS} : Die(Signaled(s))
    BY DEF Killed
  <1>3. Signaled(s) \in Statuses
    BY DEF Statuses
  <1> QED
    BY <1>1, <1>2, <1>3, DieStep

\* An early return with the pipe open: malloc() or clone() failed.
LEMMA FailStep ==
    ASSUME Core, pc \in {"malloc", "clone"}, Fail, cleanup, stack' = FALSE,
           UNCHANGED <<out, status, childVars, pipe>>
    PROVE  Core'
  <1>1. /\ stage = "none" /\ pipe_fd = AllOpen /\ closes = AllClosed(0)
        /\ background = FALSE /\ wends \subseteq {"daemon"} /\ pipe = <<>>
    <2>1. stage = "none" /\ pipe_fd = AllOpen /\ closes = AllClosed(0)
      BY DEF Core, RunHolds
    <2>2. background \in BOOLEAN /\ wends \subseteq {"daemon", "sh", "bg"}
      BY DEF Core, TypeOK
    <2>3. background = FALSE
      BY <2>1, <2>2 DEF Core, ChildLives
    <2> QED
      BY <2>1, <2>2, <2>3, EntryStages DEF Core, ChildLives
  <1>2. /\ pipe_fd' = NoEnds /\ wends' = {} /\ closes' = AllClosed(1) /\ cgroup' = FALSE
        /\ pc' = "done" /\ exit_code' = -1
    BY <1>1, CleanupEffect DEF Fail
  <1>3. UNCHANGED <<out, status, stage, death, flags, printed, background, limits, filter,
                    failed, pipe>>
    BY DEF childVars, setupVars
  <1>4. TypeOK'
    <2>1. ({stack, background, cgroup, filter} \subseteq BOOLEAN)'
      <3>1. {background, filter} \subseteq BOOLEAN
        BY DEF Core, TypeOK
      <3> QED
        BY <1>2, <1>3, <3>1
    <2>2. pipe_fd' \in [Ends -> BOOLEAN] /\ closes' \in [Ends -> Nat]
      BY <1>2, EndFacts
    <2>3. exit_code' \in -1..255
      BY <1>2
    <2> QED
      BY <1>2, <1>3, <2>1, <2>2, <2>3 DEF Core, TypeOK
  <1>5. RunHolds'
    BY <1>1, <1>2, <1>3 DEF RunHolds, Returned
  <1>6. ChildLives'
    BY <1>1, <1>2, <1>3 DEF Core, ChildLives
  <1> QED
    BY <1>4, <1>5, <1>6 DEF Core

\* malloc().
LEMMA MallocStep ==
    ASSUME Core, Malloc
    PROVE  Core'
  <1>1. pc = "malloc" /\ stack = FALSE /\ UNCHANGED <<out, status, childVars, pipe>>
    BY DEF Malloc, Core, RunHolds
  <1>2. CASE stack' = TRUE /\ pc' = "clone" /\ UNCHANGED <<pipe_fd, closes, wends, cgroup, exit_code>>
    <2>1. UNCHANGED <<stage, death, flags, printed, background, limits, filter, failed>>
      BY <1>1 DEF childVars, setupVars
    <2>2. TypeOK'
      BY <1>1, <1>2, <2>1 DEF Core, TypeOK
    <2>3. RunHolds'
      BY <1>1, <1>2, <2>1 DEF Core, RunHolds, Returned
    <2>4. ChildLives'
      BY <1>1, <1>2, <2>1 DEF Core, ChildLives, Returned
    <2> QED
      BY <2>2, <2>3, <2>4 DEF Core
  <1>3. CASE Fail /\ cleanup /\ UNCHANGED stack
    BY <1>1, <1>3, FailStep
  <1> QED
    BY <1>2, <1>3 DEF Malloc

\* clone().
LEMMA CloneStep ==
    ASSUME Core, Clone
    PROVE  Core'
  <1>1. /\ pc = "clone"
        /\ UNCHANGED <<out, status, death, printed, background, limits, filter, failed, pipe>>
    BY DEF Clone, setupVars
  <1>2. CASE /\ stage' = ChildOrder[1] /\ flags' = CloneFlags
             /\ wends' = wends \cup {"sh"} /\ pc' = "close"
             /\ UNCHANGED <<pipe_fd, closes, stack, cgroup, exit_code>>
    <2>1. stage = "none" /\ stage' = "cgroup"
      BY <1>1, <1>2 DEF Core, RunHolds, ChildOrder
    <2>2. flags' \subseteq {"NEWPID", "NEWNET"} /\ wends' \subseteq {"daemon", "sh", "bg"}
      BY <1>2 DEF CloneFlags, Core, TypeOK
    <2>3. TypeOK'
      BY <1>1, <1>2, <2>1, <2>2, EntryStages DEF Core, TypeOK
    <2>4. RunHolds'
      BY <1>1, <1>2, <2>1 DEF Core, RunHolds, Returned
    <2>5. ChildLives'
      BY <1>1, <1>2, <2>1, EntryStages DEF Core, ChildLives, Returned
    <2> QED
      BY <2>3, <2>4, <2>5 DEF Core
  <1>3. CASE CloneFailed /\ UNCHANGED <<stage, flags>>
    <2>1. Fail /\ cleanup /\ stack' = FALSE /\ UNCHANGED <<out, status, childVars, pipe>>
      BY <1>1, <1>3 DEF CloneFailed, childVars, setupVars
    <2> QED
      BY <1>1, <2>1, FailStep
  <1> QED
    BY <1>2, <1>3 DEF Clone

\* close(pipe_fd_[1]).
LEMMA CloseWriteEndStep ==
    ASSUME Core, CloseWriteEnd
    PROVE  Core'
  <1>1. /\ pc = "close" /\ pc' = "read" /\ wends' = wends \ {"daemon"}
        /\ pipe_fd = AllOpen /\ closes = AllClosed(0)
        /\ stage \notin {"none", "reaped"} /\ stack = TRUE
    BY DEF CloseWriteEnd, Core, RunHolds
  <1>2. /\ pipe_fd' = [AllOpen EXCEPT !["wr"] = FALSE]
        /\ closes' = [AllClosed(0) EXCEPT !["wr"] = 1]
    BY <1>1, EndFacts DEF CloseWriteEnd, ForgetWriteEnd
  <1>3. UNCHANGED <<stack, exit_code, out, status, stage, death, flags, printed, background,
                    limits, filter, failed, pipe, cgroup>>
    BY DEF CloseWriteEnd, childVars, setupVars
  <1>4. TypeOK'
    <2>1. pipe_fd' \in [Ends -> BOOLEAN] /\ closes' \in [Ends -> Nat]
      BY <1>2, EndFacts
    <2> QED
      BY <1>1, <1>3, <2>1 DEF Core, TypeOK
  <1>5. RunHolds'
    BY <1>1, <1>2, <1>3 DEF Core, RunHolds, Returned
  <1>6. ChildLives'
    BY <1>1, <1>3 DEF Core, ChildLives, Returned
  <1> QED
    BY <1>4, <1>5, <1>6 DEF Core

\* One read() moves the front of the pipe to the end of result.out.
LEMMA ReadMoves ==
    ASSUME Core, Read
    PROVE  /\ pc = "read" /\ pc' = "read"
           /\ pipe' \in Seq(Chars) /\ out' \in Seq(Chars)
           /\ out' \o pipe' = out \o pipe
  <1>1. out \in Seq(Chars) /\ pipe \in Seq(Chars) /\ pipe # <<>>
    BY DEF Core, TypeOK, Read
  <1> DEFINE n == SmallerOf(Chunk, Len(pipe))
  <1>2. n \in 1..Len(pipe)
    <2>1. Chunk \in Nat \ {0}
      BY SandboxAssumption
    <2>2. Len(pipe) \in Nat \ {0}
      BY <1>1
    <2> QED
      BY <2>1, <2>2 DEF SmallerOf
  <1>3. /\ pc = "read" /\ pc' = "read"
        /\ pipe' = SubSeq(pipe, n + 1, Len(pipe))
        /\ out' = out \o SubSeq(pipe, 1, n)
    BY DEF Read, ReadAgain
  <1> HIDE DEF n
  <1> DEFINE front == SubSeq(pipe, 1, n)
             back == SubSeq(pipe, n + 1, Len(pipe))
  <1>4. front \in Seq(Chars) /\ back \in Seq(Chars)
    BY <1>1, <1>2
  <1>5. front \o back = pipe
    <2>1. front \o back = SubSeq(pipe, 1, Len(pipe))
      BY <1>1, <1>2, ConcatAdjacentSubSeq
    <2> QED
      BY <1>1, <2>1, SubSeqFull
  <1> HIDE DEF front, back
  <1>6. (out \o front) \o back = out \o (front \o back)
    BY <1>1, <1>4, ConcatAssociative
  <1>7. out \o front \in Seq(Chars)
    BY <1>1, <1>4
  <1>8. pipe' = back /\ out' = out \o front
    BY <1>3, Zenon DEF front, back
  <1>9. out' \o pipe' = out \o pipe
    BY <1>5, <1>6, <1>8, Zenon
  <1> QED
    BY <1>3, <1>4, <1>7, <1>8, <1>9, Zenon

\* One turn of the read loop.
LEMMA ReadStep ==
    ASSUME Core, Read
    PROVE  Core'
  <1>1. pc = "read" /\ pc' = "read" /\ pipe' \in Seq(Chars) /\ out' \in Seq(Chars)
    BY ReadMoves
  <1>2. UNCHANGED <<pipe_fd, closes, stack, exit_code, status, stage, death, flags, printed,
                    background, limits, filter, failed, wends, cgroup>>
    BY DEF Read, childVars, setupVars
  <1>3. stage # "none"
    BY <1>1 DEF Core, RunHolds
  <1>4. TypeOK'
    BY <1>1, <1>2 DEF Core, TypeOK
  <1>5. RunHolds'
    BY <1>1, <1>2 DEF Core, RunHolds, Returned
  <1>6. ChildLives'
    BY <1>1, <1>2, <1>3 DEF Core, ChildLives, Returned
  <1> QED
    BY <1>4, <1>5, <1>6 DEF Core

\* The end of the read loop.
LEMMA ReadEOFStep ==
    ASSUME Core, ReadEOF
    PROVE  Core'
  <1>1. pc = "read" /\ pc' = "wait" /\ pipe = <<>> /\ wends = {}
    BY DEF ReadEOF
  <1>2. UNCHANGED <<pipe_fd, closes, stack, exit_code, out, status, stage, death, flags,
                    printed, background, limits, filter, failed, wends, pipe, cgroup>>
    BY DEF ReadEOF, childVars, setupVars
  <1>3. TypeOK'
    BY <1>1, <1>2 DEF Core, TypeOK
  <1>4. RunHolds'
    BY <1>1, <1>2 DEF Core, RunHolds, Returned
  <1>5. ChildLives'
    BY <1>1, <1>2 DEF Core, ChildLives, Returned
  <1> QED
    BY <1>3, <1>4, <1>5 DEF Core

\* waitpid().
LEMMA WaitStep ==
    ASSUME Core, Wait
    PROVE  Core'
  <1>1. /\ pc = "wait" /\ pc' = "finish" /\ stage = "zombie" /\ stage' = "reaped"
        /\ death \in Statuses
    BY DEF Wait, Core, ChildLives
  <1>2. UNCHANGED <<pipe_fd, closes, stack, exit_code, out, death, flags, printed,
                    background, limits, filter, wends, pipe, cgroup>>
    BY DEF Wait
  <1>3. \/ status' = death /\ failed' = failed /\ "waitpid" \notin failed
        \/ status' = Exited(0) /\ failed' = failed \cup {"waitpid"}
    BY DEF Wait, Core, RunHolds
  <1>4. TypeOK' /\ RunHolds'
    <2>1. TypeOK'
      BY <1>1, <1>2, <1>3 DEF Core, TypeOK
    <2>2. status' = Waited'
      BY <1>2, <1>3 DEF Waited
    <2>3. RunHolds'
      BY <1>1, <1>2, <2>2 DEF Core, RunHolds, Returned
    <2> QED
      BY <2>1, <2>3
  <1>5. ChildLives'
    BY <1>1, <1>2, EntryStages DEF Core, ChildLives, Returned
  <1> QED
    BY <1>4, <1>5 DEF Core

\* The return of run().
LEMMA FinishStep ==
    ASSUME Core, Finish
    PROVE  Core'
  <1>1. /\ pc = "finish" /\ pc' = "done" /\ stack' = FALSE /\ exit_code' = Decode(Waited)
        /\ stage = "reaped" /\ wends = {} /\ pipe = <<>>
    BY DEF Finish, Core, RunHolds
  <1>2. background = FALSE /\ death \in Statuses /\ Waited \in {Exited(0), death}
    <2>1. background \in BOOLEAN
      BY DEF Core, TypeOK
    <2> QED
      BY <1>1, <2>1 DEF Core, ChildLives, Waited
  <1>3. /\ pipe_fd = [AllOpen EXCEPT !["wr"] = FALSE]
        /\ closes = [AllClosed(0) EXCEPT !["wr"] = 1]
    BY <1>1 DEF Core, RunHolds
  <1>4. pipe_fd' = NoEnds /\ wends' = {} /\ closes' = AllClosed(1) /\ cgroup' = FALSE
    <2>1. cleanup
      BY DEF Finish
    <2> QED
      BY <1>1, <1>2, <1>3, <2>1, CleanupEffect
  <1>5. UNCHANGED <<out, status, stage, death, flags, printed, background, limits, filter,
                    failed, pipe>>
    BY DEF Finish, childVars, setupVars
  <1>6. TypeOK'
    <2>1. ({stack, background, cgroup, filter} \subseteq BOOLEAN)'
      <3>1. {background, filter} \subseteq BOOLEAN
        BY DEF Core, TypeOK
      <3> QED
        BY <1>1, <1>4, <1>5, <3>1
    <2>2. pipe_fd' \in [Ends -> BOOLEAN] /\ closes' \in [Ends -> Nat]
      BY <1>4, EndFacts
    <2>3. exit_code' \in -1..255
      <3>1. Decode(Waited) \in 0..255
        <4>1. Decode(death) \in 0..255 /\ Decode(Exited(0)) = 0
          BY <1>2, DecodeTypes, DecodeExited
        <4> QED
          BY <1>2, <4>1
      <3> QED
        BY <1>1, <3>1
    <2> QED
      BY <1>1, <1>4, <1>5, <2>1, <2>2, <2>3 DEF Core, TypeOK
  <1>7. RunHolds'
    BY <1>1, <1>4, <1>5 DEF RunHolds, Returned, Waited
  <1>8. ChildLives'
    BY <1>1, <1>2, <1>4, <1>5 DEF Core, ChildLives, Returned
  <1> QED
    BY <1>6, <1>7, <1>8 DEF Core

\* ~Sandbox().
LEMMA DestructorStep ==
    ASSUME Core, Destructor
    PROVE  Core'
  <1>1. /\ pc = "done" /\ pc' = "destroyed" /\ pipe_fd = NoEnds /\ wends = {}
        /\ stage \in {"none", "reaped"} /\ closes \in [Ends -> Nat] /\ stack = FALSE
    BY DEF Destructor, Core, RunHolds, Returned, TypeOK
  <1>2. background = FALSE
    <2>1. background \in BOOLEAN
      BY DEF Core, TypeOK
    <2> QED
      BY <1>1, <2>1 DEF Core, ChildLives
  <1>3. pipe_fd' = NoEnds /\ wends' = {} /\ closes' = closes /\ cgroup' = FALSE
    <2>1. cleanup
      BY DEF Destructor
    <2> QED
      BY <1>1, <1>2, <2>1, CleanupEffect
  <1>4. UNCHANGED <<stack, exit_code, out, status, stage, death, flags, printed, background,
                    limits, filter, failed, pipe>>
    BY DEF Destructor, childVars, setupVars
  <1>5. TypeOK'
    <2>1. ({stack, background, cgroup, filter} \subseteq BOOLEAN)'
      <3>1. {stack, background, filter} \subseteq BOOLEAN
        BY DEF Core, TypeOK
      <3> QED
        BY <1>3, <1>4, <3>1
    <2>2. pipe_fd' \in [Ends -> BOOLEAN] /\ closes' \in [Ends -> Nat]
      BY <1>1, <1>3, EndFacts
    <2> QED
      BY <1>1, <1>3, <1>4, <2>1, <2>2 DEF Core, TypeOK
  <1>6. RunHolds'
    BY <1>1, <1>3, <1>4 DEF Core, RunHolds, Returned, Waited
  <1>7. ChildLives'
    BY <1>1, <1>2, <1>3, <1>4 DEF Core, ChildLives, Returned
  <1> QED
    BY <1>5, <1>6, <1>7 DEF Core

\* The initial state.
LEMMA InitCore == Init => Core
  <1> SUFFICES ASSUME Init PROVE Core
    OBVIOUS
  <1>1. TypeOK
    <2>1. {stack, background, cgroup, filter} \subseteq BOOLEAN
      BY DEF Init
    <2>2. closes \in [Ends -> Nat] /\ pipe_fd \in [Ends -> BOOLEAN]
      BY EndFacts DEF Init, AllClosed
    <2>3. exit_code \in -1..255 /\ {status, death} \subseteq Statuses \cup {None}
      BY DEF Init
    <2>4. {out, pipe, printed} \subseteq Seq(Chars)
      BY DEF Init
    <2> QED
      BY <2>1, <2>2, <2>3, <2>4 DEF Init, TypeOK
  <1>2. RunHolds
    BY DEF Init, RunHolds, Returned, AllClosed
  <1>3. ChildLives
    BY DEF Init, ChildLives
  <1> QED
    BY <1>1, <1>2, <1>3 DEF Core

\* Every step.
LEMMA CoreStep == Core /\ [Next]_vars => Core'
  <1> SUFFICES ASSUME Core, [Next]_vars PROVE Core'
    OBVIOUS
  <1>1. CASE Run
    BY <1>1, PipeStep, MallocStep, CloneStep, CloseWriteEndStep, ReadStep, ReadEOFStep,
       WaitStep, FinishStep, DestructorStep DEF Run
  <1>2. CASE ChildEntry
    BY <1>2, ChildCgroupStep, ChildSeccompStep, ChildDupStep, ChildExecStep DEF ChildEntry
  <1>3. CASE Command
    BY <1>3, WriteByteStep, CloseOutputStep, BackgroundStep, CommandExitsStep, KilledStep
       DEF Command
  <1>4. CASE UNCHANGED vars
    BY <1>4 DEF vars, parentVars, childVars, setupVars, Core, TypeOK, RunHolds, ChildLives,
                Returned, Waited
  <1> QED
    BY <1>1, <1>2, <1>3, <1>4 DEF Next, Over

\* What run() promises follows from what it holds at each statement.
LEMMA CorePromises == Core => ClosedOnce /\ NothingLeftBehind
  <1> SUFFICES ASSUME Core PROVE ClosedOnce /\ NothingLeftBehind
    OBVIOUS
  <1>1. \/ closes = AllClosed(0)
        \/ closes = AllClosed(1)
        \/ ~Returned /\ closes = [AllClosed(0) EXCEPT !["wr"] = 1]
    BY DEF Core, TypeOK, RunHolds, Returned
  <1>2. \A e \in Ends : AllClosed(0)[e] = 0 /\ AllClosed(1)[e] = 1 /\ ~NoEnds[e]
    BY DEF AllClosed, NoEnds
  <1>3. \A e \in Ends : [AllClosed(0) EXCEPT !["wr"] = 1][e] \in {0, 1}
    BY DEF AllClosed
  <1>4. ClosedOnce
    <2> SUFFICES ASSUME NEW e \in Ends
                 PROVE  /\ closes[e] <= 1
                        /\ Returned => ~pipe_fd[e]
                        /\ (Returned /\ closes[e] = 0) => closes = AllClosed(0)
      BY DEF ClosedOnce, AllClosed
    <2>1. closes[e] <= 1
      <3>1. closes[e] \in {0, 1}
        BY <1>1, <1>2, <1>3
      <3> QED
        BY <3>1
    <2>2. Returned => ~pipe_fd[e]
      BY <1>2 DEF Core, RunHolds
    <2>3. (Returned /\ closes[e] = 0) => closes = AllClosed(0)
      BY <1>1, <1>2
    <2> QED
      BY <2>1, <2>2, <2>3
  <1>5. NothingLeftBehind
    BY DEF NothingLeftBehind, Core, RunHolds, ChildLives, Returned
  <1> QED
    BY <1>4, <1>5

\* What Sandbox::run() takes from the system (descriptors, the stack, the
\* child, the cgroup) it gives back exactly once on every path, and no end of
\* the pipe is closed twice (sandbox.cpp:27-39, 120-187).
THEOREM SandboxInvariant == Spec => []SandboxInv
  <1>1. Core => SandboxInv
    BY CorePromises DEF Core, SandboxInv
  <1> QED
    BY <1>1, InitCore, CoreStep, PTL DEF Spec

-----------------------------------------------------------------------------
(* OutputIntact.                                                           *)

\* What was read and what is in the pipe is what was printed.
Conserved == out \o pipe = printed

\* A step that leaves the bytes alone.
LEMMA ConservedFrame ==
    ASSUME Conserved, UNCHANGED <<out, pipe, printed>>
    PROVE  Conserved'
  BY DEF Conserved

\* A byte that is printed enters the pipe behind the others.
LEMMA ConservedWrite ==
    ASSUME Core, Conserved, NEW p \in {"sh", "bg"}, WriteByte(p)
    PROVE  Conserved'
  <1>1. out \in Seq(Chars) /\ pipe \in Seq(Chars) /\ printed \in Seq(Chars)
    BY DEF Core, TypeOK
  <1>2. PICK c \in Chars : pipe' = Append(pipe, c) /\ printed' = Append(printed, c)
    BY DEF WriteByte
  <1>3. out' = out
    BY DEF WriteByte, parentVars
  <1>4. <<c>> \in Seq(Chars)
    BY <1>2
  <1>5. Append(pipe, c) = pipe \o <<c>> /\ Append(printed, c) = printed \o <<c>>
    BY <1>1, <1>2, AppendIsConcat
  <1>6. (out \o pipe) \o <<c>> = out \o (pipe \o <<c>>)
    BY <1>1, <1>4, ConcatAssociative
  <1>7. out' \o pipe' = printed'
    BY <1>2, <1>3, <1>5, <1>6, Zenon DEF Conserved
  <1> QED
    BY <1>7 DEF Conserved

LEMMA ConservedStep == Core /\ Conserved /\ [Next]_vars => Conserved'
  <1> SUFFICES ASSUME Core, Conserved, [Next]_vars PROVE Conserved'
    OBVIOUS
  <1>1. CASE Read
    <2>1. out' \o pipe' = out \o pipe /\ printed' = printed
      BY <1>1, ReadMoves DEF Read, childVars
    <2> QED
      BY <2>1 DEF Conserved
  <1>2. CASE Run /\ ~Read
    <2>1. UNCHANGED <<out, pipe, printed>>
      BY <1>2 DEF Run, Pipe, Malloc, Clone, CloseWriteEnd, ReadEOF, Wait, Finish, Destructor,
                  childVars
    <2> QED
      BY <2>1, ConservedFrame
  <1>3. CASE ChildEntry
    <2>1. UNCHANGED <<out, pipe, printed>>
      BY <1>3 DEF ChildEntry, ChildCgroup, ChildSeccomp, ChildDup, ChildExec, parentVars
    <2> QED
      BY <2>1, ConservedFrame
  <1>4. CASE \E p \in {"sh", "bg"} : WriteByte(p)
    BY <1>4, ConservedWrite
  <1>5. CASE (\E p \in {"sh", "bg"} : CloseOutput(p)) \/ StartBackground \/ BackgroundExits
             \/ CommandExits \/ Killed
    <2>1. UNCHANGED <<out, pipe, printed>>
      BY <1>5 DEF CloseOutput, StartBackground, BackgroundExits, CommandExits, Killed,
                  parentVars, childVars
    <2> QED
      BY <2>1, ConservedFrame
  <1>6. CASE UNCHANGED vars
    <2>1. UNCHANGED <<out, pipe, printed>>
      BY <1>6 DEF vars, parentVars, childVars
    <2> QED
      BY <2>1, ConservedFrame
  <1> QED
    BY <1>1, <1>2, <1>3, <1>4, <1>5, <1>6 DEF Next, Command, Over

\* Not a byte of the output is lost, repeated or moved, whatever the sizes of
\* the pipe and of the buffer: when run() returns, result.out is all that was
\* printed (sandbox.cpp:156-169).
THEOREM OutputReadWhole == Spec => []OutputIntact
  <1>1. Init => Conserved
    BY DEF Init, Conserved
  <1>2. Core /\ Conserved => OutputIntact
    <2> SUFFICES ASSUME Core, Conserved PROVE OutputIntact
      OBVIOUS
    <2>1. Returned => pipe = <<>>
      BY DEF Core, RunHolds
    <2>2. out \in Seq(Chars)
      BY DEF Core, TypeOK
    <2>3. out \o <<>> = out
      BY <2>2
    <2>4. Returned => out = printed
      BY <2>1, <2>3, Zenon DEF Conserved
    <2> QED
      BY <2>4 DEF OutputIntact, Conserved
  <1> QED
    BY <1>1, <1>2, InitCore, CoreStep, ConservedStep, PTL DEF Spec

-----------------------------------------------------------------------------
(* VerdictIsTheCommands.                                                   *)

\* The exit code run() returns is that of the command, or 128 and the signal
\* that killed it, or -1 if there was no child, or 0 if waitpid failed
\* (sandbox.cpp:168-183).
THEOREM VerdictOfTheCommand == Spec => []VerdictIsTheCommands
  <1>1. Core => VerdictIsTheCommands
    <2> SUFFICES ASSUME Core, Returned
                 PROVE  \/ exit_code = -1 /\ stage = "none"
                        \/ exit_code = 0 /\ "waitpid" \in failed
                        \/ \E c \in ExitCodes \cup {127} : death = Exited(c) /\ exit_code = c
                        \/ \E s \in {SIGKILL, SIGSYS} :
                              death = Signaled(s) /\ exit_code = 128 + s
      BY DEF VerdictIsTheCommands
    <2>1. CASE stage = "none" /\ exit_code = -1
      BY <2>1
    <2>2. CASE stage = "reaped" /\ exit_code = Decode(death) /\ "waitpid" \notin failed
      <3>1. death \in Statuses
        BY <2>2 DEF Core, ChildLives
      <3>2. CASE \E c \in ExitCodes \cup {127} : death = Exited(c)
        <4>1. PICK c \in ExitCodes \cup {127} : death = Exited(c)
          BY <3>2
        <4>2. c \in 0..255
          BY SandboxAssumption
        <4>3. exit_code = c
          <5>1. Decode(Exited(c)) = c
            BY <4>2, DecodeExited
          <5> QED
            BY <2>2, <4>1, <5>1
        <4> QED
          BY <4>1, <4>3
      <3>3. CASE \E s \in {SIGKILL, SIGSYS} : death = Signaled(s)
        <4>1. PICK s \in {SIGKILL, SIGSYS} : death = Signaled(s)
          BY <3>3
        <4>2. exit_code = 128 + s
          <5>1. Decode(Signaled(s)) = 128 + s
            BY DecodeSignaled
          <5> QED
            BY <2>2, <4>1, <5>1
        <4> QED
          BY <4>1, <4>2
      <3> QED
        BY <3>1, <3>2, <3>3 DEF Statuses
    <2>3. CASE exit_code = Decode(Exited(0)) /\ "waitpid" \in failed
      BY <2>3, DecodeExited
    <2> QED
      BY <2>1, <2>2, <2>3 DEF Core, RunHolds, Waited
  <1> QED
    BY <1>1, InitCore, CoreStep, PTL DEF Spec

-----------------------------------------------------------------------------
(* Contained.                                                              *)

\* What each step of child_entry leaves set for the ones behind it.
SetUp ==
    /\ stage \in {"seccomp", "dup", "exec", "command"} => Limits \ limits \subseteq failed
    /\ stage \in {"dup", "exec", "command"} => filter = enable_seccomp \/ "seccomp" \in failed

\* A step that leaves what is set alone, and the child where it is or at its
\* start or end.
LEMMA SetUpFrame ==
    ASSUME SetUp, UNCHANGED <<limits, filter>>, failed \subseteq failed',
           \/ stage' = stage
           \/ stage' \in {"cgroup", "zombie", "reaped"}
           \/ stage = "dup" /\ stage' = "exec"
           \/ stage = "exec" /\ stage' = "command"
    PROVE  SetUp'
  BY DEF SetUp

LEMMA SetUpStep == SetUp /\ [Next]_vars => SetUp'
  <1> SUFFICES ASSUME SetUp, [Next]_vars PROVE SetUp'
    OBVIOUS
  <1>1. CASE Run
    <2>1. UNCHANGED <<limits, filter>> /\ failed \subseteq failed'
      BY <1>1 DEF Run, Pipe, Malloc, Clone, CloseWriteEnd, Read, ReadEOF, Wait, Finish,
                  Destructor, childVars, setupVars
    <2>2. stage' = stage \/ stage' \in {"cgroup", "reaped"}
      BY <1>1 DEF Run, Pipe, Malloc, Clone, CloseWriteEnd, Read, ReadEOF, Wait, Finish,
                  Destructor, childVars, ChildOrder
    <2> QED
      BY <2>1, <2>2, SetUpFrame
  <1>2. CASE ChildCgroup
    <2>1. stage' = "seccomp" /\ Limits \ limits' \subseteq failed'
      BY <1>2, AfterValues DEF ChildCgroup
    <2> QED
      BY <2>1 DEF SetUp
  <1>3. CASE ChildSeccomp
    <2>1. /\ stage = "seccomp" /\ stage' = "dup" /\ limits' = limits
          /\ failed \subseteq failed'
          /\ filter' = enable_seccomp \/ "seccomp" \in failed'
      BY <1>3, AfterValues DEF ChildSeccomp
    <2> QED
      BY <2>1 DEF SetUp
  <1>4. CASE ChildDup \/ ChildExec
    <2>1. /\ UNCHANGED <<limits, filter, failed>>
          /\ \/ stage = "dup" /\ stage' = "exec"
             \/ stage = "exec" /\ stage' = "command"
             \/ stage' = "zombie"
      BY <1>4, AfterValues DEF ChildDup, ChildExec, Die, setupVars
    <2> QED
      BY <2>1, SetUpFrame
  <1>5. CASE Command
    <2>1. /\ UNCHANGED <<limits, filter, failed>>
          /\ stage' = stage \/ stage' = "zombie"
      BY <1>5 DEF Command, WriteByte, CloseOutput, StartBackground, BackgroundExits,
                  CommandExits, Killed, Die, childVars, setupVars
    <2> QED
      BY <2>1, SetUpFrame
  <1>6. CASE UNCHANGED vars
    BY <1>6 DEF vars, childVars, setupVars, SetUp
  <1> QED
    BY <1>1, <1>2, <1>3, <1>4, <1>5, <1>6 DEF Next, ChildEntry, Over

\* The command never runs outside its namespaces, nor without a limit or the
\* filter whose set-up succeeded (sandbox.cpp:91-118).
THEOREM CommandContained == Spec => []Contained
  <1>1. Init => SetUp
    BY DEF Init, SetUp
  <1>2. Core /\ SetUp => Contained
    <2> SUFFICES ASSUME Core, SetUp, stage = "command"
                 PROVE  /\ Limits \ limits \subseteq failed
                        /\ filter = enable_seccomp \/ "seccomp" \in failed
                        /\ "NEWPID" \in flags /\ ("NEWNET" \in flags \/ enable_network)
      BY DEF Contained
    <2>1. flags = CloneFlags
      BY DEF Core, ChildLives
    <2> QED
      BY <2>1 DEF SetUp, CloneFlags
  <1> QED
    BY <1>1, <1>2, InitCore, CoreStep, SetUpStep, PTL DEF Spec
=============================================================================
