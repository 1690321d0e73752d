SPECIFICATION FairSpec
CONSTANTS
    Chunk = 2
    PipeCap = 3
    MaxOut = 4
    ExitCodes <- MCExitCodes
    enable_network = FALSE
    enable_seccomp = TRUE
    Faults = {"pipe", "malloc", "clone", "cgroup", "seccomp", "exec", "waitpid"}
INVARIANTS SandboxInv OutputIntact VerdictIsTheCommands Contained
PROPERTY RunReturns
