----------------------- MODULE MCJobRunnerScheduler -----------------------
(* Small instances of JobRunnerScheduler for TLC. *)
EXTENDS JobRunnerScheduler, TLC

Callers == Permutations(Caller)
=============================================================================
