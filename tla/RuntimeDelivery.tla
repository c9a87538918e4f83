-------------------------- MODULE RuntimeDelivery ---------------------------
(***************************************************************************)
(* The delivery of one user message from its Queue row to a Runtime        *)
(* (services/job-runner/job_runner.go and runtime_delivery.go), with the   *)
(* commit by Bridge (services/bridge/bridge_api_inputs.go) and the repair  *)
(* of a lost Runtime (runtime_pod_lost.go, input_custody.go).              *)
(*                                                                         *)
(* A step is one committed transaction, one Queue call or one Runtime      *)
(* call.  A runner goes on after its lease has expired until it notices:   *)
(* most steps on a message do not look at the lease.                       *)
(***************************************************************************)
EXTENDS Integers, FiniteSets

CONSTANTS
    Runner,         \* jobs in execution; each is the token of its lease
    MaxAttempts,    \* queue_jobs.max_attempts
    MaxReentries,   \* maxRuntimePreparationReentries
    MaxGeneration,  \* bound: Runtimes that can be placed
    MaxFaults,      \* bound: crashes of runners and leases lost under them
    NoRunner

ASSUME DeliveryAssumption ==
    /\ IsFiniteSet(Runner) /\ NoRunner \notin Runner
    /\ MaxAttempts \in Nat \ {0} /\ MaxReentries \in Nat
    /\ MaxGeneration \in Nat /\ MaxFaults \in Nat

VARIABLES
    row,        \* the input's newest queue_jobs row: [status, token, live, attempt]
    inbox,      \* its session_runtime_inbox row: [status, binding, kind]
    processed,  \* processed_at of the source events is set
    exhausted,  \* the exhaustion event exists
    binding,    \* generation of session_runtime_bindings, 0 without a row
    placed,     \* last value of session_runtime_binding_generation_seq
    process,    \* how the bound Runtime process is classified
    held,       \* generations whose Runtime is at work on the command
    run,        \* [Runner -> [pc, attempted, final, reentries]]
    faults      \* crashes and lost leases so far

vars == <<row, inbox, processed, exhausted, binding, placed, process, held, run, faults>>
events == <<processed, exhausted>>
runtimes == <<binding, placed, process>>

Generation == 1 .. MaxGeneration
Active == row.status \in {"pending", "leased"}
Owned(r) == row.status = "leased" /\ row.token = r /\ row.live
Lost == process \in {"lost", "retired"}

\* A runner that has returned; its token is never presented again.
Idle == [pc |-> "idle", attempted |-> 0, final |-> FALSE, reentries |-> 0]
Goto(r, pc) == run' = [run EXCEPT ![r].pc = pc]
Return(r) == run' = [run EXCEPT ![r] = Idle]

\* A Rejected result of DeliverRuntimeJob, and what processRuntimeJob does next.
Rejected(r, retryable, attempted) ==
    run' = [run EXCEPT ![r].pc = IF retryable /\ ~run[r].final THEN "retry" ELSE "finalize",
                       ![r].attempted = attempted]

Fresh == [status |-> "pending", token |-> NoRunner, live |-> FALSE, attempt |-> 0]
Unleased(status) == [row EXCEPT !.status = status, !.token = NoRunner, !.live = FALSE]

-----------------------------------------------------------------------------
(* The Queue, as far as this row goes (QueueStore has the whole of it).    *)

\* Attempts beyond the budget differ from the budget nowhere in this code.
Lease(r) ==
    /\ row.status = "pending" /\ run[r].pc = "idle"
    /\ LET attempt == IF row.attempt = MaxAttempts THEN MaxAttempts ELSE row.attempt + 1
       IN /\ row' = [status |-> "leased", token |-> r, live |-> TRUE, attempt |-> attempt]
          /\ run' = [run EXCEPT ![r] = [Idle EXCEPT !.pc = "replay", !.final = attempt = MaxAttempts]]
    /\ UNCHANGED <<inbox, events, runtimes, held, faults>>

\* A lease expires by itself once its runner returned; under a working
\* runner only when heartbeats fail or stall.
ExpireAbandoned ==
    /\ Owned(row.token) /\ run[row.token].pc = "idle"
    /\ row' = [row EXCEPT !.live = FALSE]
    /\ UNCHANGED <<inbox, events, runtimes, held, run, faults>>

ExpireUnderRunner ==
    /\ Owned(row.token) /\ run[row.token].pc # "idle"
    /\ faults < MaxFaults /\ faults' = faults + 1
    /\ row' = [row EXCEPT !.live = FALSE]
    /\ UNCHANGED <<inbox, events, runtimes, held, run>>

\* Mutant of ReclaimExpiredLeases: a row whose attempts are spent stays leased.
ReclaimWithinBudget ==
    /\ row.status = "leased" /\ ~row.live /\ row.attempt < MaxAttempts
    /\ row' = Unleased("pending")
    /\ UNCHANGED <<inbox, events, runtimes, held, run, faults>>

ReclaimExpiredLeases ==
    /\ row.status = "leased" /\ ~row.live
    /\ row' = Unleased("pending")
    /\ UNCHANGED <<inbox, events, runtimes, held, run, faults>>

Settle(r, status) ==
    /\ row' = IF Owned(r) THEN Unleased(status) ELSE row
    /\ Return(r)
    /\ UNCHANGED <<inbox, events, runtimes, held, faults>>

Ack(r) == run[r].pc = "ack" /\ Settle(r, "acknowledged")

Retry(r) ==
    /\ run[r].pc = "retry"
    /\ Settle(r, IF row.attempt < MaxAttempts THEN "pending" ELSE "dead_lettered")

DeadLetter(r) == run[r].pc = "dead_letter" /\ Settle(r, "dead_lettered")

-----------------------------------------------------------------------------
(* processRuntimeJob: replay, heartbeat, deliver, settle.                  *)

\* What replayRuntimeDeliveryFinalizationTx finds leads straight to the Queue.
Replayed == inbox.status \in {"committed", "dead_lettered"}
ReplayTarget == IF inbox.status = "committed" THEN "ack" ELSE "dead_letter"

Replay(r) ==
    /\ run[r].pc = "replay"
    /\ Goto(r, IF Replayed THEN ReplayTarget ELSE "heartbeat")
    /\ UNCHANGED <<row, inbox, events, runtimes, held, faults>>

StartHeartbeat(r) ==
    /\ run[r].pc = "heartbeat"
    /\ IF Owned(r) THEN Goto(r, "prepare") ELSE Return(r)
    /\ UNCHANGED <<row, inbox, events, runtimes, held, faults>>

\* A failed heartbeat ends the work; stopHeartbeat reports it at the latest.
HeartbeatLost(r) ==
    /\ run[r].pc \in {"prepare", "repair", "send", "convert", "mark", "ack", "retry", "finalize"}
    /\ ~Owned(r)
    /\ Return(r)
    /\ UNCHANGED <<row, inbox, events, runtimes, held, faults>>

Crash(r) ==
    /\ run[r].pc # "idle" /\ faults < MaxFaults
    /\ faults' = faults + 1
    /\ Return(r)
    /\ UNCHANGED <<row, inbox, events, runtimes, held>>

-----------------------------------------------------------------------------
(* prepareRuntimeCommand: one transaction, repeated after a repair.        *)

PrepareStale(r) ==
    /\ run[r].pc = "prepare" /\ processed
    /\ Goto(r, "ack")
    /\ UNCHANGED <<row, inbox, events, runtimes, held, faults>>

Preparing(r) == run[r].pc = "prepare" /\ ~processed

\* No visibility, no candidate, a process that admits no delivery, MCP not
\* ready: retryable, and the result names no attempted binding.
PrepareFails(r) ==
    /\ Preparing(r)
    /\ Rejected(r, TRUE, 0)
    /\ UNCHANGED <<row, inbox, events, runtimes, held, faults>>

MayReenter(r) == run[r].reentries < MaxReentries

PrepareLost(r) ==
    /\ Preparing(r) /\ binding # 0 /\ Lost
    /\ IF MayReenter(r)
       THEN run' = [run EXCEPT ![r].pc = "repair", ![r].attempted = binding]
       ELSE Rejected(r, FALSE, 0)
    /\ UNCHANGED <<row, inbox, events, runtimes, held, faults>>

\* ResolveRuntimeTarget: the bound process if it accepts, or a new binding.
Target == IF binding = 0 THEN placed + 1 ELSE binding
Resolvable ==
    IF binding = 0 THEN placed < MaxGeneration ELSE process = "accepting"

Claimable(g) ==
    inbox.status = "queued" \/ (inbox.status = "delivering" /\ inbox.binding = g)

\* claimRuntimeInboxDeliveryTx binds the input in the transaction that places
\* the Runtime; a refused claim rolls the placement back.
PrepareClaim(r) ==
    /\ Preparing(r) /\ Resolvable
    /\ IF Claimable(Target)
       THEN /\ inbox' = [inbox EXCEPT !.status = "delivering", !.binding = Target]
            /\ binding' = Target
            /\ placed' = IF binding = 0 THEN Target ELSE placed
            /\ process' = "accepting"
            /\ run' = [run EXCEPT ![r].pc = "send", ![r].attempted = Target]
       ELSE /\ Rejected(r, FALSE, 0)
            /\ UNCHANGED <<inbox, runtimes>>
    /\ UNCHANGED <<row, events, held, faults>>

-----------------------------------------------------------------------------
(* Repair of a lost binding, for a runner and for the proactive worker.    *)

\* A delivering input keeps its row and lease; an accepted one returns to a
\* row nobody holds.
HandBackRow ==
    IF inbox.status = "delivering" THEN row
    ELSE IF Active THEN Unleased("pending") ELSE Fresh

\* Mutant of BoundInput: only accepted inputs are handed back.
BoundInputAccepted == inbox.status = "accepted" /\ inbox.binding = binding

BoundInput == inbox.status \in {"delivering", "accepted"} /\ inbox.binding = binding

\* mutateLostRuntimeBinding; handBackRuntimeInputsTx refuses a delivering
\* input without an active row, and the whole repair with it (CustodyKept
\* says that this never happens).
Repairable == Lost /\ ~(BoundInput /\ inbox.status = "delivering" /\ ~Active)

RepairTx ==
    /\ row' = IF BoundInput THEN HandBackRow ELSE row
    /\ inbox' = IF BoundInput THEN [inbox EXCEPT !.status = "queued", !.binding = 0] ELSE inbox
    /\ binding' = 0 /\ process' = "none"
    /\ UNCHANGED <<events, placed, held, faults>>

RepairByRunner(r) ==
    /\ run[r].pc = "repair" /\ binding = run[r].attempted /\ Repairable
    /\ RepairTx
    /\ run' = [run EXCEPT ![r].pc = "prepare", ![r].attempted = 0, ![r].reentries = @ + 1]

\* The binding changed, or its process was reported alive again.
RepairStale(r) ==
    /\ run[r].pc = "repair" /\ ~(binding = run[r].attempted /\ Lost)
    /\ Rejected(r, TRUE, 0)
    /\ UNCHANGED <<row, inbox, events, runtimes, held, faults>>

\* The Session is active: it runs, or an accepted input waits on the binding.
RepairProactively ==
    /\ binding # 0 /\ Repairable
    /\ RepairTx
    /\ UNCHANGED run

-----------------------------------------------------------------------------
(* The Runtime commits a command through Bridge and only then admits and   *)
(* answers it (commitAcceptedBeforeHotAdmission).                          *)

Reachable(g) == ~(g = binding /\ process = "retired")

\* The Runtime works on, whether or not the runner goes on waiting; a command
\* that is sent again meanwhile joins the call in flight.
SendArrives(r) ==
    LET g == run[r].attempted
    IN /\ run[r].pc = "send" /\ Reachable(g) /\ g \notin held
       /\ held' = held \cup {g}
       /\ UNCHANGED <<row, inbox, events, runtimes, run, faults>>

\* Mutant of Answerable: the command is admitted and answered uncommitted.
AnswerableUncommitted(g) == g \in held

\* "current", the commit is there, or "stale", the scope was superseded.
Answerable(g) ==
    /\ g \in held
    /\ (inbox.status = "committed" /\ inbox.binding = g) \/ binding # g \/ process = "retired"

\* Accepted, or duplicate when the scope is stale: the runner treats them alike.
SendAccepted(r) ==
    /\ run[r].pc = "send" /\ Answerable(run[r].attempted)
    /\ held' = held \ {run[r].attempted}
    /\ Goto(r, "mark")
    /\ UNCHANGED <<row, inbox, events, runtimes, faults>>

\* A transport error says nothing about what the Runtime did and will do; a
\* retryable refusal comes before or after the commit.
SendUnknown(r) ==
    /\ run[r].pc = "send"
    /\ held' \in {held, held \ {run[r].attempted}}
    /\ Rejected(r, TRUE, run[r].attempted)
    /\ UNCHANGED <<row, inbox, events, runtimes, faults>>

\* Refused for good, by the Runtime or, for a command that is too large,
\* before it is sent: a contract failure may become a rejection notice, an
\* internal invariant failure may not.
SendRefused(r) ==
    /\ run[r].pc = "send"
    /\ held' \in {held, held \ {run[r].attempted}}
    /\ \/ Goto(r, "convert")
       \/ Rejected(r, FALSE, run[r].attempted)
    /\ UNCHANGED <<row, inbox, events, runtimes, faults>>

\* PrepareRuntimeInputRejection, then delivery from the beginning.
ConvertToRejection(r) ==
    /\ run[r].pc = "convert"
    /\ IF inbox.kind = "messages" /\ inbox.status = "delivering"
       THEN /\ inbox' = [inbox EXCEPT !.kind = "rejection"]
            /\ run' = [run EXCEPT ![r].pc = "prepare", ![r].attempted = 0, ![r].reentries = 0]
       ELSE /\ Rejected(r, FALSE, run[r].attempted)
            /\ UNCHANGED inbox
    /\ UNCHANGED <<row, events, runtimes, held, faults>>

MarkFence(g) == binding = g

\* Mutant of MarkedStatus: an acceptance overwrites the commit that overtook it.
MarkedStatusOverwrites == "accepted"

MarkedStatus == IF inbox.status = "committed" THEN "committed" ELSE "accepted"

MarkRuntimeInputAccepted(r) ==
    LET g == run[r].attempted
        bound == inbox.binding = g /\ inbox.status \in {"delivering", "accepted", "committed"}
    IN /\ run[r].pc = "mark"
       /\ IF MarkFence(g) /\ process # "retired" /\ bound
          THEN /\ inbox' = [inbox EXCEPT !.status = MarkedStatus]
               /\ Goto(r, "ack")
          ELSE /\ Rejected(r, MarkFence(g), g)
               /\ UNCHANGED inbox
       /\ UNCHANGED <<row, events, runtimes, held, faults>>

\* Mutant of Committable: the status of the inbox row is not looked at.
CommittableAnyStatus(g) == binding = g /\ process # "retired" /\ inbox.binding = g

Committable(g) ==
    /\ binding = g /\ process # "retired"
    /\ inbox.binding = g /\ inbox.status \in {"delivering", "accepted"}

\* Bridge's CommitInputs; a repeated call replays its receipt.
CommitInputs ==
    /\ \E g \in held : Committable(g)
    /\ inbox' = [inbox EXCEPT !.status = "committed"]
    /\ processed' = TRUE
    /\ UNCHANGED <<row, exhausted, runtimes, held, run, faults>>

-----------------------------------------------------------------------------
(* FinalizeRuntimeDelivery and ReplaceMalformedRuntimeInputCustody.        *)

\* validateRuntimeFinalizationBindingTx
FinalizationMatches(g) ==
    /\ inbox.binding = g
    /\ g # 0 => binding = g

FinalizeReplayed(r) ==
    /\ run[r].pc = "finalize" /\ Replayed
    /\ Goto(r, ReplayTarget)
    /\ UNCHANGED <<row, inbox, events, runtimes, held, faults>>

FinalizeInvalid(r) ==
    /\ run[r].pc = "finalize" /\ ~Replayed /\ ~FinalizationMatches(run[r].attempted)
    /\ Goto(r, "replace")
    /\ UNCHANGED <<row, inbox, events, runtimes, held, faults>>

\* A process that is no longer current is an error that leaves the lease.
FinalizeFails(r) ==
    /\ run[r].pc = "finalize" /\ ~Replayed /\ FinalizationMatches(run[r].attempted)
    /\ run[r].attempted # 0 /\ process = "retired"
    /\ Return(r)
    /\ UNCHANGED <<row, inbox, events, runtimes, held, faults>>

FinalizeRuntimeDelivery(r) ==
    /\ run[r].pc = "finalize" /\ ~Replayed /\ FinalizationMatches(run[r].attempted)
    /\ ~(run[r].attempted # 0 /\ process = "retired")
    /\ inbox' = [inbox EXCEPT !.status = "dead_lettered"]
    /\ processed' = TRUE /\ exhausted' = TRUE
    /\ Goto(r, "dead_letter")
    /\ UNCHANGED <<row, runtimes, held, faults>>

\* The row ends and, with the input still queued, a new one takes its place.
ReplaceMalformed(r) ==
    /\ run[r].pc = "replace"
    /\ row' = IF ~Owned(r) THEN row
              ELSE IF inbox.status = "queued" THEN Fresh ELSE Unleased("dead_lettered")
    /\ inbox' = IF Owned(r) /\ inbox.status \in {"delivering", "accepted"}
                THEN [inbox EXCEPT !.status = "dead_lettered"] ELSE inbox
    /\ Return(r)
    /\ UNCHANGED <<events, runtimes, held, faults>>

-----------------------------------------------------------------------------
(* How classifyRuntimeProcess sees the bound process.  A process that was  *)
(* replaced on its Pod never comes back; a silent one may report again.    *)
Reclassify ==
    /\ binding # 0 /\ process # "retired"
    /\ process' \in {"accepting", "unavailable", "lost", "retired"} \ {process}
    /\ UNCHANGED <<row, inbox, events, binding, placed, held, run, faults>>

\* The producer commits inbox row, events and Queue row together.
Init ==
    /\ row = Fresh
    /\ inbox = [status |-> "queued", binding |-> 0, kind |-> "messages"]
    /\ processed = FALSE /\ exhausted = FALSE
    /\ binding = 0 /\ placed = 0 /\ process = "none" /\ held = {}
    /\ run = [r \in Runner |-> Idle] /\ faults = 0

Deliver(r) ==
    \/ Replay(r) \/ StartHeartbeat(r)
    \/ PrepareStale(r) \/ PrepareFails(r) \/ PrepareLost(r) \/ PrepareClaim(r)
    \/ RepairByRunner(r) \/ RepairStale(r)
    \/ SendArrives(r) \/ SendAccepted(r) \/ SendUnknown(r) \/ SendRefused(r) \/ ConvertToRejection(r)
    \/ MarkRuntimeInputAccepted(r)
    \/ FinalizeReplayed(r) \/ FinalizeInvalid(r) \/ FinalizeFails(r) \/ FinalizeRuntimeDelivery(r)
    \/ ReplaceMalformed(r)
    \/ Ack(r) \/ Retry(r) \/ DeadLetter(r)

Next ==
    \/ \E r \in Runner : Lease(r) \/ Deliver(r) \/ HeartbeatLost(r) \/ Crash(r)
    \/ ExpireAbandoned \/ ExpireUnderRunner \/ ReclaimExpiredLeases
    \/ RepairProactively \/ CommitInputs \/ Reclassify

Spec == Init /\ [][Next]_vars

\* Runners poll and run, and maintenance reclaims.  No Runtime has to commit,
\* no lost binding to be repaired proactively: a call that goes unanswered
\* reaches its deadline.
FairSpec ==
    /\ Spec
    /\ WF_vars(\E r \in Runner : Lease(r))
    /\ \A r \in Runner : WF_vars(Deliver(r) \/ HeartbeatLost(r))
    /\ WF_vars(ExpireAbandoned) /\ WF_vars(ReclaimExpiredLeases)

\* The Queue row of a message outlives every state from which the message has
\* still to be delivered; above all, it is not acknowledged on the word of a
\* Runtime that has not committed the message, because nobody would deliver it
\* again.  Rows are ended by Ack, Retry, DeadLetter, the repair and
\* ReplaceMalformedRuntimeInputCustody, each unaware of the others' progress.
CustodyKept == inbox.status \in {"queued", "delivering", "accepted"} => Active

\* A delivering or accepted input is bound to the current binding: else no
\* claim, no acceptance and no repair would ever match it again.
BoundToCurrent == inbox.status \in {"delivering", "accepted"} => inbox.binding = binding

\* A message the Runtime committed is never also reported as exhausted, and an
\* exhaustion is never reported for an input that can still be delivered.
OneOutcome ==
    /\ inbox.status = "committed" => processed /\ ~exhausted
    /\ exhausted => inbox.status = "dead_lettered"

\* Delivery implements the promise of InputCustody: a message is at the Queue
\* or at one Runtime, only that Runtime commits it, and a Runtime it was taken
\* from never has it again.
Custody == INSTANCE InputCustody WITH
    at <- CASE inbox.status = "queued" -> "queue"
            [] inbox.status \in {"delivering", "accepted"} -> "runtime"
            [] OTHER -> inbox.status,
    last <- IF inbox.status \in {"delivering", "accepted"} THEN inbox.binding ELSE placed,
    reported <- exhausted
ImplementsCustody == Custody!Spec

\* Every input is committed or dead-lettered in the end, although runners
\* crash, leases expire, answers are lost and Runtimes disappear.
InputEnds == <>(inbox.status \in {"committed", "dead_lettered"})

\* "FinalizeRuntimeDelivery turns an exhausted runtime-input delivery into its
\* durable terminal result before the Queue job is closed"
\* (runtime_delivery.go:1465): a dead-lettered input has its source events
\* processed and the exhaustion event that reports it.
ExhaustionReported == inbox.status = "dead_lettered" => processed /\ exhausted
=============================================================================
