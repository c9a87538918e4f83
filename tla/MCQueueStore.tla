---------------------------- MODULE MCQueueStore ----------------------------
(* Small instances of QueueStore for TLC. *)
EXTENDS QueueStore, TLC

Item(key, kind, input, session, thread, partition, max, sequenceTo) ==
    [key |-> key, kind |-> kind, input |-> input, session |-> session, thread |-> thread,
     partition |-> partition, priority |-> IF input = "interrupt_control" THEN 100 ELSE 0,
     max |-> max, sequenceTo |-> sequenceTo]

Message(key, th, n) == Item(key, "runtime_input", "messages", "s", th, "session:s", 1, n)
InterruptOf(key, th, n) ==
    Item(key, "runtime_input", "interrupt_control", "s", th, "session:s", 1, n)
Recovery == Item("recovery", "runtime_recovery", "none", "s", "a", "session:s", 1, 0)
ConfigUpdate == Item("config", "runtime_config_update", "none", "s", "", "session:s", 0, 0)
DeleteCleanup == Item("delete", "session_delete_cleanup", "none", "s", "", "session:s", 1, 0)
Build == Item("build", "environment_build", "none", "none", "", "environment:e", 1, 0)
Activate == Item("activate", "sandbox", "none", "none", "", "sandbox:x", 1, 0)
Release == Item("release", "sandbox", "none", "none", "", "sandbox:x", 1, 0)

\* One Thread with a message and an interrupt, the Session's config update and
\* what outlives the Session: the cleanup of its deletion.
SessionWork == {Message("m1", "a", 1), InterruptOf("i", "a", 2), ConfigUpdate, DeleteCleanup}

\* One Thread with an input, the recovery of a lost Runtime and an interrupt.
WedgeWork == {Message("m1", "a", 1), Recovery, InterruptOf("i", "a", 2)}

\* Two jobs of one logical Sandbox and an Environment build.
PartitionWork == {Activate, Release, Build}

Symmetry == Permutations(JobId) \cup Permutations(Token)
=============================================================================
