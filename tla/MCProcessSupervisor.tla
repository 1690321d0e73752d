------------------------ MODULE MCProcessSupervisor ------------------------
(* Instances of ProcessSupervisor for TLC.                                 *)
EXTENDS ProcessSupervisor, TLC

CONSTANTS c1, c2, n1

\* exit(0) and exit(1); SIGKILL comes from the supervisor itself.
MCExits == {Exited(0), Exited(1)}
MCClean == {Exited(0)}

MCOpsApi == (c1 :> AllOps \ {"stop", "restart", "stop_all"})
            @@ (c2 :> {"start", "stop", "stop_all"})
MCOpsControl == (c1 :> {"add", "start", "restart", "start_watchdog", "stop_watchdog"})
                @@ (c2 :> {"start", "stop", "stop_all"})
MCOpsStartOnly == (c1 :> {"add", "start"})

Config(policy, max) == [restart_policy |-> policy, max_restarts |-> max]

\* One configuration per branch of the restart logic.
MCConfigs == {Config("NEVER", 1), Config("ON_FAILURE", 1), Config("ALWAYS", 0)}
MCNever == {Config("NEVER", 1)}
MCOnFailure == {Config("ON_FAILURE", 1)}
=============================================================================
