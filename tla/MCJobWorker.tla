---------------------------- MODULE MCJobWorker ----------------------------
(* Instances of JobWorker for TLC: two daemons, two jobs.                  *)
EXTENDS JobWorker, TLC

CONSTANTS w1, w2, DefaultId

\* One exit code for success, one for every failure.
MCExitCodes == {0, 1}

\* Both daemons started with --id "": ids come from getpid().
MCAutoIds == (w1 :> EmptyId) @@ (w2 :> EmptyId)

\* Both daemons started without --id: Options::sandbox_id is a literal.
MCDefaultIds == (w1 :> DefaultId) @@ (w2 :> DefaultId)

\* Daemons and jobs are interchangeable.
MCSymmetry == Permutations(Workers) \cup Permutations(Jobs)
=============================================================================
