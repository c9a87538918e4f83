----------------------- MODULE RuntimeDelivery_proofs -----------------------
(***************************************************************************)
(* Proofs about RuntimeDelivery, for any number of runners, attempts,      *)
(* Runtimes and faults.                                                    *)
(***************************************************************************)
EXTENDS RuntimeDelivery, TLAPS

Ended == inbox.status \in {"committed", "dead_lettered"}

RowType ==
    [status : {"pending", "leased", "acknowledged", "dead_lettered"},
     token : Runner \cup {NoRunner}, live : BOOLEAN, attempt : Nat]
InboxType ==
    [status : {"queued", "delivering", "accepted", "committed", "dead_lettered"},
     binding : Nat, kind : {"messages", "rejection"}]
PC ==
    {"idle", "replay", "heartbeat", "prepare", "repair", "send", "convert", "mark", "finalize",
     "replace", "ack", "retry", "dead_letter"}
RunType == [pc : PC, attempted : Nat, final : BOOLEAN, reentries : Nat]

Typed ==
    /\ row \in RowType /\ row.attempt <= MaxAttempts
    /\ inbox \in InboxType
    /\ binding \in Nat /\ placed \in Nat /\ exhausted \in BOOLEAN
    /\ run \in [Runner -> RunType]

\* The rows of the message and of its binding.  Without acceptance of what is
\* not committed there is no accepted message; a placement and its claim are
\* one transaction, a hand back and the end of its binding another.
RowsAgree ==
    /\ inbox.status # "accepted"
    /\ inbox.status \in {"queued", "delivering"} => Active
    /\ inbox.status = "delivering" => inbox.binding = binding /\ binding # 0
    /\ inbox.status = "queued" => binding = 0
    /\ binding \in {0, placed}
    /\ inbox.status = "committed" => processed /\ ~exhausted
    /\ processed => Ended
    /\ exhausted => inbox.status = "dead_lettered"

\* What the Runtime's answer is worth when the runner acts on it.
Answered(g) ==
    /\ g # 0
    /\ (inbox.status = "committed" /\ inbox.binding = g) \/ binding # g \/ process = "retired"

\* What a runner may rely on at each point, whatever the others have done.
RunnerKnows(r) ==
    /\ run[r].attempted <= placed
    /\ run[r].pc \in {"repair", "send"} => run[r].attempted # 0
    /\ run[r].pc = "mark" => Answered(run[r].attempted)
    /\ run[r].pc = "ack" => Ended
    /\ run[r].pc = "dead_letter" => inbox.status = "dead_lettered"
    /\ run[r].pc = "retry" => ~run[r].final
    /\ row.status = "leased" /\ row.token = r /\ run[r].pc # "idle" =>
         (run[r].final <=> row.attempt = MaxAttempts)

IInv == Typed /\ RowsAgree /\ \A r \in Runner : RunnerKnows(r)

-----------------------------------------------------------------------------
(* The local state of a runner.                                            *)

\* Runner r took a step; the local state of the others is theirs.
Moved(r) ==
    /\ run' \in [Runner -> RunType]
    /\ \A q \in Runner \ {r} : run'[q] = run[q]

\* A runner that returned has a local state again.
LEMMA IdleType == Idle \in RunType
  BY DEF Idle, RunType, PC

\* processRuntimeJob returns.
LEMMA ReturnMoves ==
    ASSUME Typed, NEW r \in Runner, Return(r)
    PROVE  Moved(r) /\ run'[r].pc = "idle" /\ run'[r].attempted = 0
  BY IdleType DEF Typed, Return, Moved, Idle

\* The runner goes on to its next step.
LEMMA GotoMoves ==
    ASSUME Typed, NEW r \in Runner, NEW pc \in PC, Goto(r, pc)
    PROVE  /\ Moved(r) /\ run'[r].pc = pc
           /\ run'[r].attempted = run[r].attempted /\ run'[r].final = run[r].final
  BY DEF Typed, Goto, Moved, RunType

\* After a rejected result the runner retries, unless this was its last attempt.
LEMMA RejectedMoves ==
    ASSUME Typed, NEW r \in Runner, NEW retryable \in BOOLEAN, NEW g \in Nat,
           Rejected(r, retryable, g)
    PROVE  /\ Moved(r) /\ run'[r].attempted = g /\ run'[r].final = run[r].final
           /\ run'[r].pc \in {"retry", "finalize"}
           /\ run'[r].pc = "retry" => ~run'[r].final
<1> DEFINE pc == IF retryable /\ ~run[r].final THEN "retry" ELSE "finalize"
<1>1. pc \in PC
  BY DEF PC
<1>2. run' = [run EXCEPT ![r].pc = pc, ![r].attempted = g]
  BY DEF Rejected
<1>3. Moved(r) /\ run'[r].pc = pc /\ run'[r].attempted = g /\ run'[r].final = run[r].final
  <2> HIDE DEF pc
  <2> QED BY <1>1, <1>2 DEF Typed, Moved, RunType
<1> QED BY <1>3

\* A step of r alone, on its own local state.
LEMMA LocalStep ==
    ASSUME IInv, NEW r \in Runner, Moved(r), RunnerKnows(r)',
           UNCHANGED <<row, inbox, events, runtimes>>
    PROVE  IInv'
<1>1. Typed' /\ RowsAgree'
  BY DEF IInv, Typed, RowsAgree, Moved, events, runtimes, Active, Ended
<1>2. ASSUME NEW q \in Runner, q # r PROVE RunnerKnows(q)'
  BY <1>2 DEF IInv, RunnerKnows, Moved, events, runtimes, Answered, Ended
<1> QED BY <1>1, <1>2 DEF IInv

\* What lets the knowledge of a runner survive the steps of others: outcomes
\* are final, bindings are never reused, and a lease keeps its attempt.
Stable ==
    /\ Ended => inbox'.status = inbox.status /\ inbox'.binding = inbox.binding
    /\ placed' \in {placed, placed + 1}
    /\ binding' \in {binding, 0} \/ binding' = placed + 1
    /\ binding' = binding => (process = "retired" => process' = "retired")
    /\ row'.status = "leased" => row.status = "leased" /\ row'.token = row.token /\ row'.attempt = row.attempt

\* Under Stable, a runner that did not move still knows what it knew.
LEMMA KnowledgeKept ==
    ASSUME IInv, Stable, NEW q \in Runner, run'[q] = run[q]
    PROVE  RunnerKnows(q)'
<1>1. run[q].attempted \in Nat /\ placed \in Nat
  BY DEF IInv, Typed, RunType
<1>2. run[q].attempted # 0 /\ Answered(run[q].attempted) => Answered(run[q].attempted)'
  BY <1>1 DEF IInv, RunnerKnows, Answered, Stable, Ended
<1> QED BY <1>1, <1>2 DEF IInv, RunnerKnows, Stable, Answered, Ended

\* A rejected delivery changes nothing but the runner's next step.
LEMMA RejectedKeeps ==
    ASSUME IInv, NEW r \in Runner, run[r].pc # "idle",
           NEW retryable \in BOOLEAN, NEW g \in Nat, g <= placed,
           Rejected(r, retryable, g), UNCHANGED <<row, inbox, events, runtimes>>
    PROVE  IInv'
<1>1. /\ Moved(r) /\ run'[r].attempted = g /\ run'[r].final = run[r].final
      /\ run'[r].pc \in {"retry", "finalize"}
      /\ run'[r].pc = "retry" => ~run'[r].final
  BY RejectedMoves DEF IInv
<1>2. RunnerKnows(r)'
  BY <1>1 DEF IInv, RunnerKnows, events, runtimes
<1> QED BY <1>1, <1>2, LocalStep

\* A preparation that fails has no attempted binding to report.
LEMMA PrepareFailsKeeps ==
    ASSUME IInv, NEW r \in Runner, PrepareFails(r)
    PROVE  IInv'
<1> 0 \in Nat /\ 0 <= placed
  BY DEF IInv, Typed
<1> QED BY RejectedKeeps DEF PrepareFails, Preparing

\* Nor has one whose binding is no longer the lost one.
LEMMA RepairStaleKeeps ==
    ASSUME IInv, NEW r \in Runner, RepairStale(r)
    PROVE  IInv'
<1> 0 \in Nat /\ 0 <= placed
  BY DEF IInv, Typed
<1> QED BY RejectedKeeps DEF RepairStale

\* A lost binding is repaired, or the delivery is rejected for good.
LEMMA PrepareLostKeeps ==
    ASSUME IInv, NEW r \in Runner, PrepareLost(r)
    PROVE  IInv'
<1>1. CASE MayReenter(r)
  <2>1. run' = [run EXCEPT ![r].pc = "repair", ![r].attempted = binding]
    BY <1>1 DEF PrepareLost
  <2>2. /\ Moved(r) /\ run'[r].pc = "repair" /\ run'[r].attempted = binding
        /\ run'[r].final = run[r].final
    BY <2>1 DEF IInv, Typed, Moved, RunType, PC
  <2>3. RunnerKnows(r)'
    BY <2>2 DEF IInv, Typed, RowsAgree, RunnerKnows, PrepareLost, Preparing, events, runtimes
  <2> QED BY <2>2, <2>3, LocalStep DEF PrepareLost
<1>2. CASE ~MayReenter(r)
  <2> 0 \in Nat /\ 0 <= placed
    BY DEF IInv, Typed
  <2> QED BY <1>2, RejectedKeeps DEF PrepareLost, Preparing
<1> QED BY <1>1, <1>2

\* A new lease starts a runner with the attempt it counted.
LEMMA LeaseKeeps ==
    ASSUME IInv, NEW r \in Runner, Lease(r)
    PROVE  IInv'
<1> DEFINE attempt == IF row.attempt = MaxAttempts THEN MaxAttempts ELSE row.attempt + 1
           final == attempt = MaxAttempts
<1>1. attempt \in Nat /\ attempt <= MaxAttempts
  BY DeliveryAssumption DEF IInv, Typed, RowType
<1>2. row' = [status |-> "leased", token |-> r, live |-> TRUE, attempt |-> attempt]
  BY DEF Lease
<1>3. run' = [run EXCEPT ![r] = [Idle EXCEPT !.pc = "replay", !.final = final]]
  BY DEF Lease
<1>4. final \in BOOLEAN
  OBVIOUS
<1>5. /\ Moved(r) /\ run'[r].pc = "replay" /\ run'[r].attempted = 0
      /\ run'[r].final = final
  <2> HIDE DEF final
  <2> QED BY <1>3, <1>4 DEF IInv, Typed, Moved, RunType, PC, Idle
<1>6. Typed'
  <2> HIDE DEF attempt
  <2> QED BY <1>1, <1>2, <1>5 DEF IInv, Typed, RowType, Moved, Lease, events, runtimes
<1>7. RowsAgree'
  BY <1>2 DEF IInv, RowsAgree, Lease, Active, Ended, events, runtimes
<1>8. RunnerKnows(r)'
  <2>1. run'[r].final <=> row'.attempt = MaxAttempts
    BY <1>2, <1>5
  <2> QED BY <1>5, <2>1 DEF IInv, Typed, RunnerKnows, Lease, runtimes
<1>9. ASSUME NEW q \in Runner, q # r PROVE RunnerKnows(q)'
  BY <1>2, <1>5, <1>9 DEF IInv, RunnerKnows, Moved, Lease, Answered, Ended, events, runtimes
<1> QED BY <1>6, <1>7, <1>8, <1>9 DEF IInv

\* The end of a lease by its holder, at the Queue; status as in Settle.
LEMMA SettleKeeps ==
    ASSUME IInv, NEW r \in Runner, NEW status \in {"pending", "acknowledged", "dead_lettered"},
           Settle(r, status), Owned(r) /\ status # "pending" => Ended
    PROVE  IInv'
<1>1. Moved(r) /\ run'[r].pc = "idle" /\ run'[r].attempted = 0
  BY ReturnMoves DEF IInv, Settle
<1>2. row' = IF Owned(r) THEN Unleased(status) ELSE row
  BY DEF Settle
<1>3. Typed'
  BY <1>1, <1>2 DEF IInv, Typed, RowType, Unleased, Moved, Settle, events, runtimes
<1>4. RowsAgree'
  BY <1>2 DEF IInv, Typed, RowType, RowsAgree, Unleased, Settle, Active, Ended, events, runtimes
<1>5. RunnerKnows(r)'
  BY <1>1, <1>3 DEF Typed, RunnerKnows
<1>6. Stable
  BY <1>2 DEF IInv, Typed, RowType, Stable, Unleased, Settle, runtimes
<1>7. ASSUME NEW q \in Runner, q # r PROVE RunnerKnows(q)'
  BY <1>1, <1>6, <1>7, KnowledgeKept DEF Moved
<1> QED BY <1>3, <1>4, <1>5, <1>7 DEF IInv

\* Ack and DeadLetter end a row whose message has ended; Retry ends none.
LEMMA QueueKeeps ==
    ASSUME IInv, NEW r \in Runner, Ack(r) \/ Retry(r) \/ DeadLetter(r)
    PROVE  IInv'
<1>1. CASE Ack(r)
  BY <1>1, SettleKeeps DEF Ack, IInv, RunnerKnows
<1>2. CASE Retry(r)
  <2>1. Owned(r) => row.attempt < MaxAttempts
    BY <1>2, DeliveryAssumption DEF Retry, Owned, IInv, Typed, RowType, RunnerKnows
  <2>2. CASE row.attempt < MaxAttempts
    BY <1>2, <2>2, SettleKeeps DEF Retry
  <2>3. CASE ~(row.attempt < MaxAttempts)
    BY <1>2, <2>1, <2>3, SettleKeeps DEF Retry
  <2> QED BY <2>2, <2>3
<1>3. CASE DeadLetter(r)
  BY <1>3, SettleKeeps DEF DeadLetter, IInv, RunnerKnows, Ended
<1> QED BY <1>1, <1>2, <1>3

\* The steps that change nothing but the local state of one runner.
LEMMA LocalActionsKeep ==
    ASSUME IInv, NEW r \in Runner,
           \/ Replay(r) \/ StartHeartbeat(r) \/ PrepareStale(r)
           \/ SendAccepted(r) \/ SendUnknown(r) \/ SendRefused(r)
           \/ FinalizeReplayed(r) \/ FinalizeInvalid(r) \/ FinalizeFails(r)
           \/ HeartbeatLost(r) \/ Crash(r)
    PROVE  IInv'
<1> USE DEF IInv, RunnerKnows, events, runtimes
<1>1. CASE Replay(r)
  <2>1. Moved(r) /\ RunnerKnows(r)'
    BY <1>1, GotoMoves DEF Replay, Replayed, ReplayTarget, PC, Ended
  <2> QED BY <1>1, <2>1, LocalStep DEF Replay
<1>2. CASE StartHeartbeat(r)
  <2>1. Moved(r) /\ RunnerKnows(r)'
    <3>1. CASE Goto(r, "prepare")
      BY <1>2, <3>1, GotoMoves DEF StartHeartbeat, PC
    <3>2. CASE Return(r)
      <4>1. placed \in Nat
        BY DEF Typed
      <4> QED BY <1>2, <3>2, <4>1, ReturnMoves DEF StartHeartbeat
    <3> QED BY <1>2, <3>1, <3>2 DEF StartHeartbeat
  <2> QED BY <1>2, <2>1, LocalStep DEF StartHeartbeat
<1>3. CASE PrepareStale(r)
  <2>1. Moved(r) /\ RunnerKnows(r)'
    BY <1>3, GotoMoves DEF PrepareStale, RowsAgree, Ended, PC
  <2> QED BY <1>3, <2>1, LocalStep DEF PrepareStale
<1>4. CASE SendAccepted(r)
  <2>1. Moved(r) /\ RunnerKnows(r)'
    BY <1>4, GotoMoves DEF SendAccepted, Answerable, Answered, PC
  <2> QED BY <1>4, <2>1, LocalStep DEF SendAccepted
<1>5. CASE SendUnknown(r)
  <2>1. run[r].attempted \in Nat
    BY DEF Typed, RunType
  <2> QED BY <1>5, <2>1, RejectedKeeps DEF SendUnknown
<1>6. CASE SendRefused(r)
  <2>1. run[r].attempted \in Nat
    BY DEF Typed, RunType
  <2>2. CASE Goto(r, "convert")
    <3>1. Moved(r) /\ RunnerKnows(r)'
      BY <1>6, <2>2, GotoMoves DEF SendRefused, PC
    <3> QED BY <1>6, <3>1, LocalStep DEF SendRefused
  <2>3. CASE Rejected(r, FALSE, run[r].attempted)
    BY <1>6, <2>1, <2>3, RejectedKeeps DEF SendRefused
  <2> QED BY <1>6, <2>2, <2>3 DEF SendRefused
<1>7. CASE FinalizeReplayed(r)
  <2>1. Moved(r) /\ RunnerKnows(r)'
    BY <1>7, GotoMoves DEF FinalizeReplayed, Replayed, ReplayTarget, PC, Ended
  <2> QED BY <1>7, <2>1, LocalStep DEF FinalizeReplayed
<1>8. CASE FinalizeInvalid(r)
  <2>1. Moved(r) /\ RunnerKnows(r)'
    BY <1>8, GotoMoves DEF FinalizeInvalid, PC
  <2> QED BY <1>8, <2>1, LocalStep DEF FinalizeInvalid
<1>9. CASE FinalizeFails(r) \/ HeartbeatLost(r) \/ Crash(r)
  <2>1. Return(r) /\ UNCHANGED <<row, inbox, events, runtimes>>
    BY <1>9 DEF FinalizeFails, HeartbeatLost, Crash
  <2>2. Moved(r) /\ RunnerKnows(r)'
    BY <2>1, ReturnMoves DEF Typed
  <2> QED BY <2>1, <2>2, LocalStep
<1> QED BY <1>1, <1>2, <1>3, <1>4, <1>5, <1>6, <1>7, <1>8, <1>9

\* A claim binds the message to the Runtime that it places or finds.
LEMMA PrepareClaimKeeps ==
    ASSUME IInv, NEW r \in Runner, PrepareClaim(r)
    PROVE  IInv'
<1>1. CASE Claimable(Target)
  <2>1. Target \in Nat /\ Target # 0 /\ Target \in {placed, placed + 1} /\ ~Ended
    BY <1>1 DEF IInv, Typed, RowsAgree, Target, Claimable, Ended
  <2>2. /\ inbox' = [inbox EXCEPT !.status = "delivering", !.binding = Target]
        /\ binding' = Target /\ placed' = (IF binding = 0 THEN Target ELSE placed)
        /\ process' = "accepting"
        /\ run' = [run EXCEPT ![r].pc = "send", ![r].attempted = Target]
        /\ UNCHANGED <<row, events>>
    BY <1>1 DEF PrepareClaim
  <2>3. /\ Moved(r) /\ run'[r].pc = "send" /\ run'[r].attempted = Target
        /\ run'[r].final = run[r].final
    BY <2>1, <2>2 DEF IInv, Typed, Moved, RunType, PC
  <2>4. placed' = Target /\ placed' >= placed
    BY <2>1, <2>2 DEF IInv, Typed, RowsAgree, Target
  <2>5. Typed'
    BY <2>1, <2>2, <2>3, <2>4 DEF IInv, Typed, InboxType, Moved, events
  <2>6. RowsAgree'
    BY <1>1, <2>1, <2>2, <2>4 DEF IInv, Typed, InboxType, RowsAgree, Claimable, Active, Ended, events
  <2>7. RunnerKnows(r)'
    BY <2>1, <2>2, <2>3, <2>4, <2>5 DEF Typed, IInv, RunnerKnows, PrepareClaim, Preparing
  <2>8. Stable
    BY <1>1, <2>1, <2>2, <2>4 DEF IInv, Typed, RowsAgree, Stable, PrepareClaim, Preparing, Resolvable, Target
  <2>9. ASSUME NEW q \in Runner, q # r PROVE RunnerKnows(q)'
    BY <2>3, <2>8, <2>9, KnowledgeKept DEF Moved
  <2> QED BY <2>5, <2>6, <2>7, <2>9 DEF IInv
<1>2. CASE ~Claimable(Target)
  <2> 0 \in Nat /\ 0 <= placed
    BY DEF IInv, Typed
  <2> QED BY <1>2, RejectedKeeps DEF PrepareClaim, Preparing
<1> QED BY <1>1, <1>2

\* The repair takes the message back together with the binding.
LEMMA RepairTxKeeps ==
    ASSUME IInv, RepairTx, binding # 0
    PROVE  /\ row' = row /\ row' \in RowType /\ inbox' \in InboxType
           /\ binding' = 0 /\ placed' = placed /\ exhausted' = exhausted
           /\ RowsAgree' /\ Stable
<1>1. row' = row
  BY DEF IInv, RowsAgree, RepairTx, BoundInput, HandBackRow
<1>2. inbox' \in InboxType
  BY DEF IInv, Typed, InboxType, RepairTx
<1>3. RowsAgree'
  BY <1>1 DEF IInv, Typed, InboxType, RowsAgree, RepairTx, BoundInput, Active, Ended, events
<1>4. Stable
  BY <1>1 DEF IInv, Typed, Stable, RepairTx, BoundInput, Ended
<1> QED BY <1>1, <1>2, <1>3, <1>4 DEF IInv, Typed, RepairTx, events

\* By a runner that then prepares again, or by the worker.
LEMMA RepairKeeps ==
    ASSUME IInv, RepairProactively \/ \E r \in Runner : RepairByRunner(r)
    PROVE  IInv'
<1>1. CASE RepairProactively
  <2>1. RepairTx /\ binding # 0 /\ run' = run
    BY <1>1 DEF RepairProactively
  <2>2. Typed' /\ RowsAgree'
    BY <2>1, RepairTxKeeps DEF IInv, Typed
  <2>3. ASSUME NEW q \in Runner PROVE RunnerKnows(q)'
    BY <2>1, RepairTxKeeps, KnowledgeKept
  <2> QED BY <2>2, <2>3 DEF IInv
<1>2. CASE \E r \in Runner : RepairByRunner(r)
  <2>1. PICK r \in Runner : RepairByRunner(r)
    BY <1>2
  <2>2. RepairTx /\ binding # 0
    BY <2>1 DEF RepairByRunner, IInv, RunnerKnows
  <2>3. /\ Moved(r) /\ run'[r].pc = "prepare" /\ run'[r].attempted = 0
        /\ run'[r].final = run[r].final
    <3> DEFINE reentries == run[r].reentries + 1
    <3>1. reentries \in Nat
      BY DEF IInv, Typed, RunType
    <3>2. run' = [run EXCEPT ![r].pc = "prepare", ![r].attempted = 0, ![r].reentries = reentries]
      BY <2>1 DEF RepairByRunner
    <3> HIDE DEF reentries
    <3> QED BY <3>1, <3>2 DEF IInv, Typed, Moved, RunType, PC
  <2>4. Typed' /\ RowsAgree'
    BY <2>2, <2>3, RepairTxKeeps DEF IInv, Typed, Moved
  <2>5. RunnerKnows(r)'
    <3>1. row' = row /\ placed' \in Nat /\ run[r].pc = "repair"
      BY <2>1, <2>2, RepairTxKeeps DEF RepairByRunner, IInv, Typed
    <3> QED BY <2>3, <3>1 DEF IInv, RunnerKnows
  <2>6. ASSUME NEW q \in Runner, q # r PROVE RunnerKnows(q)'
    BY <2>2, <2>3, <2>6, RepairTxKeeps, KnowledgeKept DEF Moved
  <2> QED BY <2>4, <2>5, <2>6 DEF IInv
<1> QED BY <1>1, <1>2

\* Only the message's kind changes, or the runner's next step.
LEMMA ConvertKeeps ==
    ASSUME IInv, NEW r \in Runner, ConvertToRejection(r)
    PROVE  IInv'
<1>1. CASE inbox.kind = "messages" /\ inbox.status = "delivering"
  <2>1. /\ inbox' = [inbox EXCEPT !.kind = "rejection"]
        /\ run' = [run EXCEPT ![r].pc = "prepare", ![r].attempted = 0, ![r].reentries = 0]
        /\ UNCHANGED <<row, events, runtimes>>
    BY <1>1 DEF ConvertToRejection
  <2>2. /\ Moved(r) /\ run'[r].pc = "prepare" /\ run'[r].attempted = 0
        /\ run'[r].final = run[r].final
    BY <2>1 DEF IInv, Typed, Moved, RunType, PC
  <2>3. Typed' /\ RowsAgree'
    BY <2>1, <2>2 DEF IInv, Typed, InboxType, Moved, RowsAgree, Active, Ended, events, runtimes
  <2>4. RunnerKnows(r)'
    BY <2>1, <2>2, <2>3 DEF Typed, IInv, RunnerKnows, ConvertToRejection, runtimes
  <2>5. Stable
    BY <2>1 DEF IInv, Typed, InboxType, Stable, runtimes
  <2>6. ASSUME NEW q \in Runner, q # r PROVE RunnerKnows(q)'
    BY <2>2, <2>5, <2>6, KnowledgeKept DEF Moved
  <2> QED BY <2>3, <2>4, <2>6 DEF IInv
<1>2. CASE ~(inbox.kind = "messages" /\ inbox.status = "delivering")
  <2> run[r].attempted \in Nat /\ run[r].attempted <= placed
    BY DEF IInv, Typed, RunType, RunnerKnows
  <2> QED BY <1>2, RejectedKeeps DEF ConvertToRejection
<1> QED BY <1>1, <1>2

\* The record of an acceptance finds the commit already there: what the runner
\* knows of the answer rules out the status accepted.
LEMMA MarkKeeps ==
    ASSUME IInv, NEW r \in Runner, MarkRuntimeInputAccepted(r)
    PROVE  IInv'
<1> DEFINE g == run[r].attempted
           bound == inbox.binding = g /\ inbox.status \in {"delivering", "accepted", "committed"}
<1>1. run[r].pc = "mark" /\ Answered(g) /\ g \in Nat /\ g <= placed
  BY DEF MarkRuntimeInputAccepted, IInv, Typed, RunType, RunnerKnows
<1>2. CASE MarkFence(g) /\ process # "retired" /\ bound
  <2>1. inbox.status = "committed"
    BY <1>1, <1>2 DEF Answered, MarkFence
  <2>2. inbox' = inbox /\ Goto(r, "ack") /\ UNCHANGED <<row, events, runtimes>>
    BY <1>2, <2>1 DEF MarkRuntimeInputAccepted, MarkedStatus, IInv, Typed, InboxType
  <2>3. Moved(r) /\ RunnerKnows(r)'
    BY <1>1, <2>1, <2>2, GotoMoves DEF IInv, RunnerKnows, Ended, PC, runtimes
  <2> QED BY <2>2, <2>3, LocalStep
<1>3. CASE ~(MarkFence(g) /\ process # "retired" /\ bound)
  <2>1. Rejected(r, MarkFence(g), g) /\ UNCHANGED <<row, inbox, events, runtimes>>
    BY <1>3 DEF MarkRuntimeInputAccepted
  <2>2. MarkFence(g) \in BOOLEAN
    BY DEF MarkFence
  <2> QED BY <1>1, <2>1, <2>2, RejectedKeeps
<1> QED BY <1>2, <1>3

\* The finalization ends a message that had not ended.
LEMMA FinalizeKeeps ==
    ASSUME IInv, NEW r \in Runner, FinalizeRuntimeDelivery(r)
    PROVE  IInv'
<1>1. ~Ended
  BY DEF FinalizeRuntimeDelivery, Replayed, Ended
<1>2. /\ inbox' = [inbox EXCEPT !.status = "dead_lettered"] /\ processed' /\ exhausted'
      /\ Goto(r, "dead_letter") /\ UNCHANGED <<row, runtimes>>
  BY DEF FinalizeRuntimeDelivery
<1>3. /\ Moved(r) /\ run'[r].pc = "dead_letter" /\ run'[r].attempted = run[r].attempted
      /\ run'[r].final = run[r].final
  BY <1>2, GotoMoves DEF IInv, PC
<1>4. Typed' /\ RowsAgree'
  BY <1>2, <1>3 DEF IInv, Typed, InboxType, Moved, RowsAgree, Ended, runtimes
<1>5. RunnerKnows(r)'
  BY <1>2, <1>3 DEF IInv, Typed, InboxType, RunnerKnows, FinalizeRuntimeDelivery, runtimes
<1>6. Stable
  BY <1>1, <1>2 DEF IInv, Typed, Stable, runtimes
<1>7. ASSUME NEW q \in Runner, q # r PROVE RunnerKnows(q)'
  BY <1>3, <1>6, <1>7, KnowledgeKept DEF Moved
<1> QED BY <1>4, <1>5, <1>7 DEF IInv

\* The replaced row is followed by a new one, or its message ends with it.
LEMMA ReplaceKeeps ==
    ASSUME IInv, NEW r \in Runner, ReplaceMalformed(r)
    PROVE  IInv'
<1>1. Moved(r) /\ run'[r].pc = "idle" /\ run'[r].attempted = 0
  BY ReturnMoves DEF IInv, ReplaceMalformed
<1>2. CASE ~Owned(r)
  <2>1. UNCHANGED <<row, inbox, events, runtimes>>
    BY <1>2 DEF ReplaceMalformed
  <2>2. RunnerKnows(r)'
    BY <1>1, <2>1 DEF IInv, Typed, RunnerKnows, runtimes
  <2> QED BY <1>1, <2>1, <2>2, LocalStep
<1>3. CASE Owned(r)
  <2>1. /\ row' = IF inbox.status = "queued" THEN Fresh ELSE Unleased("dead_lettered")
        /\ inbox' = IF inbox.status \in {"delivering", "accepted"}
                    THEN [inbox EXCEPT !.status = "dead_lettered"] ELSE inbox
        /\ UNCHANGED <<events, runtimes>>
    BY <1>3 DEF ReplaceMalformed
  <2>2. row' \in RowType /\ row'.attempt <= MaxAttempts
    <3>1. Fresh \in RowType /\ Fresh.attempt <= MaxAttempts
      BY DeliveryAssumption DEF Fresh, RowType
    <3>2. /\ Unleased("dead_lettered") \in RowType
          /\ Unleased("dead_lettered").attempt <= MaxAttempts
      BY DEF IInv, Typed, RowType, Unleased
    <3> QED BY <2>1, <3>1, <3>2
  <2>3. inbox' \in InboxType
    BY <2>1 DEF IInv, Typed, InboxType
  <2>4. Typed'
    BY <1>1, <2>1, <2>2, <2>3 DEF IInv, Typed, Moved, events, runtimes
  <2>5. RowsAgree'
    BY <2>1 DEF IInv, Typed, InboxType, RowType, RowsAgree, Fresh, Unleased, Active, Ended, events, runtimes
  <2>6. RunnerKnows(r)'
    BY <1>1, <2>4 DEF Typed, RunnerKnows
  <2>7. Stable
    BY <2>1 DEF IInv, Typed, RowType, Stable, Fresh, Unleased, Ended, runtimes
  <2>8. ASSUME NEW q \in Runner, q # r PROVE RunnerKnows(q)'
    BY <1>1, <2>7, <2>8, KnowledgeKept DEF Moved
  <2> QED BY <2>4, <2>5, <2>6, <2>8 DEF IInv
<1> QED BY <1>2, <1>3

\* The steps of the Queue, of Bridge and of the world, of which no runner knows.
LEMMA OutsideKeeps ==
    ASSUME IInv,
           \/ ExpireAbandoned \/ ExpireUnderRunner \/ ReclaimExpiredLeases
           \/ CommitInputs \/ Reclassify \/ \E r \in Runner : SendArrives(r)
    PROVE  IInv'
<1>1. CASE ExpireAbandoned \/ ExpireUnderRunner \/ ReclaimExpiredLeases
  <2>1. /\ row' \in {[row EXCEPT !.live = FALSE], Unleased("pending")}
        /\ row.status = "leased" /\ UNCHANGED <<inbox, events, runtimes, run>>
    BY <1>1 DEF ExpireAbandoned, ExpireUnderRunner, ReclaimExpiredLeases, Owned
  <2>2. Typed'
    BY <2>1 DEF IInv, Typed, RowType, Unleased, events, runtimes
  <2>3. RowsAgree' /\ Stable
    BY <2>1 DEF IInv, Typed, RowType, RowsAgree, Stable, Unleased, Active, Ended, events, runtimes
  <2> QED BY <2>1, <2>2, <2>3, KnowledgeKept DEF IInv
<1>2. CASE CommitInputs
  <2>1. /\ inbox.status = "delivering" /\ inbox' = [inbox EXCEPT !.status = "committed"]
        /\ processed' /\ UNCHANGED <<row, exhausted, runtimes, run>>
    BY <1>2 DEF CommitInputs, Committable, IInv, RowsAgree
  <2>2. Typed'
    BY <2>1 DEF IInv, Typed, InboxType, runtimes
  <2>3. RowsAgree' /\ Stable
    BY <2>1 DEF IInv, Typed, InboxType, RowsAgree, Stable, Ended, runtimes
  <2> QED BY <2>1, <2>2, <2>3, KnowledgeKept DEF IInv
<1>3. CASE Reclassify
  <2>1. Typed' /\ RowsAgree' /\ Stable
    BY <1>3 DEF Reclassify, IInv, Typed, RowsAgree, Stable, Active, Ended, events
  <2> QED BY <1>3, <2>1, KnowledgeKept DEF IInv, Reclassify
<1>4. CASE \E r \in Runner : SendArrives(r)
  <2>1. UNCHANGED <<row, inbox, events, runtimes, run>>
    BY <1>4 DEF SendArrives
  <2>2. Typed' /\ RowsAgree' /\ Stable
    BY <2>1 DEF IInv, Typed, RowsAgree, Stable, Active, Ended, events, runtimes
  <2> QED BY <2>1, <2>2, KnowledgeKept DEF IInv
<1> QED BY <1>1, <1>2, <1>3, <1>4

-----------------------------------------------------------------------------
(* The invariant, and what follows from it.                                *)

\* The producer's transaction establishes the invariant.
LEMMA InitIInv == Init => IInv
<1> SUFFICES ASSUME Init PROVE IInv
  OBVIOUS
<1>1. Fresh \in RowType /\ Fresh.attempt <= MaxAttempts
  BY DeliveryAssumption DEF Fresh, RowType
<1>2. Typed
  BY <1>1, IdleType DEF Init, Typed, InboxType
<1>3. RowsAgree
  BY DEF Init, RowsAgree, Fresh, Active, Ended
<1>4. ASSUME NEW r \in Runner PROVE RunnerKnows(r)
  BY DEF Init, RunnerKnows, Idle, Fresh
<1> QED BY <1>2, <1>3, <1>4 DEF IInv

\* Every step keeps the invariant.
LEMMA NextIInv == IInv /\ [Next]_vars => IInv'
<1> SUFFICES ASSUME IInv, [Next]_vars PROVE IInv'
  OBVIOUS
<1>1. CASE UNCHANGED vars
  BY <1>1 DEF vars, IInv, Typed, RowsAgree, RunnerKnows, Answered, Active, Ended
<1>2. ASSUME NEW r \in Runner, Deliver(r) PROVE IInv'
  <2>1. CASE \/ Replay(r) \/ StartHeartbeat(r) \/ PrepareStale(r)
             \/ SendAccepted(r) \/ SendUnknown(r) \/ SendRefused(r)
             \/ FinalizeReplayed(r) \/ FinalizeInvalid(r) \/ FinalizeFails(r)
    BY <2>1, LocalActionsKeep
  <2>2. CASE PrepareFails(r) \/ PrepareLost(r) \/ PrepareClaim(r)
    BY <2>2, PrepareFailsKeeps, PrepareLostKeeps, PrepareClaimKeeps
  <2>3. CASE RepairByRunner(r) \/ RepairStale(r)
    BY <2>3, RepairKeeps, RepairStaleKeeps
  <2>4. CASE SendArrives(r)
    BY <2>4, OutsideKeeps
  <2>5. CASE ConvertToRejection(r) \/ MarkRuntimeInputAccepted(r)
    BY <2>5, ConvertKeeps, MarkKeeps
  <2>6. CASE FinalizeRuntimeDelivery(r) \/ ReplaceMalformed(r)
    BY <2>6, FinalizeKeeps, ReplaceKeeps
  <2>7. CASE Ack(r) \/ Retry(r) \/ DeadLetter(r)
    BY <2>7, QueueKeeps
  <2> QED BY <1>2, <2>1, <2>2, <2>3, <2>4, <2>5, <2>6, <2>7 DEF Deliver
<1>3. ASSUME NEW r \in Runner, Lease(r) \/ HeartbeatLost(r) \/ Crash(r) PROVE IInv'
  BY <1>3, LeaseKeeps, LocalActionsKeep
<1>4. CASE ExpireAbandoned \/ ExpireUnderRunner \/ ReclaimExpiredLeases \/ CommitInputs \/ Reclassify
  BY <1>4, OutsideKeeps
<1>5. CASE RepairProactively
  BY <1>5, RepairKeeps
<1> QED BY <1>1, <1>2, <1>3, <1>4, <1>5 DEF Next

\* The rows agree and every runner's knowledge is sound, in every reachable state.
THEOREM Invariance == Spec => []IInv
  BY InitIInv, NextIInv, PTL DEF Spec

\* No step of any runner, of the repair or of the Queue ends the Queue row of a
\* message that has still to be delivered: neither Ack, which acts on answers the
\* Runtime gives after its commit, nor Retry, which is never called on the last
\* attempt, nor the repair.
THEOREM CustodyKeptHolds == Spec => []CustodyKept
<1>1. IInv => CustodyKept
  BY DEF IInv, RowsAgree, CustodyKept
<1> QED BY <1>1, Invariance, PTL

\* A message being delivered is bound to the current binding: claim and placement
\* are one transaction, and so are hand back and repair.
THEOREM BoundToCurrentHolds == Spec => []BoundToCurrent
<1>1. IInv => BoundToCurrent
  BY DEF IInv, RowsAgree, BoundToCurrent
<1> QED BY <1>1, Invariance, PTL

\* The commit by Bridge and the finalization by a runner that outlived its lease
\* exclude each other.
THEOREM OneOutcomeHolds == Spec => []OneOutcome
<1>1. IInv => OneOutcome
  BY DEF IInv, RowsAgree, OneOutcome
<1> QED BY <1>1, Invariance, PTL

-----------------------------------------------------------------------------
(* The refinement.                                                         *)

\* What InputCustody sees of a state.
Seen == <<inbox.status, inbox.binding, placed, exhausted>>

\* A step that changes nothing InputCustody sees is no step of it.
LEMMA SeenStutters == UNCHANGED Seen => UNCHANGED Custody!vars
  BY DEF Seen, Custody!vars

\* Most steps of delivery are no step of custody.
LEMMA Stutters ==
    ASSUME IInv, NEW r \in Runner,
           \/ Lease(r) \/ HeartbeatLost(r) \/ Crash(r)
           \/ Replay(r) \/ StartHeartbeat(r) \/ PrepareStale(r) \/ PrepareFails(r) \/ PrepareLost(r)
           \/ RepairStale(r) \/ SendArrives(r) \/ SendAccepted(r) \/ SendUnknown(r) \/ SendRefused(r)
           \/ ConvertToRejection(r) \/ MarkRuntimeInputAccepted(r)
           \/ FinalizeReplayed(r) \/ FinalizeInvalid(r) \/ FinalizeFails(r)
           \/ Ack(r) \/ Retry(r) \/ DeadLetter(r)
    PROVE  UNCHANGED Custody!vars
<1>1. CASE MarkRuntimeInputAccepted(r)
  <2>1. run[r].pc = "mark" /\ Answered(run[r].attempted)
    BY <1>1 DEF MarkRuntimeInputAccepted, IInv, RunnerKnows
  <2>2. inbox' = inbox /\ UNCHANGED <<events, runtimes>>
    BY <1>1, <2>1 DEF MarkRuntimeInputAccepted, MarkFence, MarkedStatus, Answered, IInv, Typed, InboxType
  <2> QED BY <2>2, SeenStutters DEF Seen, events, runtimes
<1>2. CASE ConvertToRejection(r)
  <2>1. inbox'.status = inbox.status /\ inbox'.binding = inbox.binding /\ UNCHANGED <<events, runtimes>>
    BY <1>2 DEF ConvertToRejection, IInv, Typed, InboxType
  <2> QED BY <2>1, SeenStutters DEF Seen, events, runtimes
<1>3. CASE ~MarkRuntimeInputAccepted(r) /\ ~ConvertToRejection(r)
  <2>1. inbox' = inbox /\ placed' = placed /\ exhausted' = exhausted
    BY <1>3 DEF Lease, HeartbeatLost, Crash, Replay, StartHeartbeat, PrepareStale, PrepareFails,
       PrepareLost, RepairStale, SendArrives, SendAccepted, SendUnknown, SendRefused,
       FinalizeReplayed, FinalizeInvalid, FinalizeFails, Ack, Retry, DeadLetter, Settle,
       events, runtimes
  <2> QED BY <2>1, SeenStutters DEF Seen
<1> QED BY <1>1, <1>2, <1>3

\* A first claim binds the message to a new Runtime, a repeated one changes nothing.
LEMMA ClaimBinds ==
    ASSUME IInv, NEW r \in Runner, PrepareClaim(r)
    PROVE  Custody!Bind \/ UNCHANGED Custody!vars
<1>1. CASE inbox.status = "queued"
  <2>1. binding = 0 /\ Target = placed + 1 /\ placed \in Nat /\ Claimable(Target)
    BY <1>1 DEF IInv, Typed, RowsAgree, Target, Claimable
  <2>2. /\ inbox'.status = "delivering" /\ inbox'.binding = placed + 1
        /\ placed' = placed + 1 /\ exhausted' = exhausted
    BY <2>1 DEF PrepareClaim, IInv, Typed, InboxType, events
  <2> QED BY <1>1, <2>1, <2>2 DEF Custody!Bind
<1>2. CASE inbox.status # "queued"
  <2>1. UNCHANGED Seen
    BY <1>2 DEF PrepareClaim, Claimable, Target, IInv, Typed, InboxType, RowsAgree, Seen, events, runtimes
  <2> QED BY <2>1, SeenStutters
<1> QED BY <1>1, <1>2

\* The repair hands a bound message back to the Queue.
LEMMA RepairHandsBack ==
    ASSUME IInv, RepairTx, binding # 0
    PROVE  Custody!HandBack \/ UNCHANGED Custody!vars
<1>1. CASE BoundInput
  <2>1. /\ inbox.status = "delivering" /\ inbox.binding = placed
        /\ inbox'.status = "queued" /\ placed' = placed /\ exhausted' = exhausted
    BY <1>1 DEF RepairTx, BoundInput, IInv, Typed, InboxType, RowsAgree, events
  <2> QED BY <2>1 DEF Custody!HandBack
<1>2. CASE ~BoundInput
  BY <1>2, SeenStutters DEF RepairTx, Seen, events
<1> QED BY <1>1, <1>2

\* Commit, finalization and replacement end a message that had not ended.
LEMMA EndsOnce ==
    ASSUME IInv, CommitInputs \/ \E r \in Runner : FinalizeRuntimeDelivery(r) \/ ReplaceMalformed(r)
    PROVE  Custody!Commit \/ Custody!Fail \/ UNCHANGED Custody!vars
<1>1. CASE CommitInputs
  <2>1. /\ inbox.status = "delivering" /\ inbox.binding = placed /\ inbox'.status = "committed"
        /\ placed' = placed /\ exhausted' = exhausted
    BY <1>1 DEF CommitInputs, Committable, IInv, Typed, InboxType, RowsAgree, runtimes
  <2> QED BY <2>1 DEF Custody!Commit
<1>2. ASSUME NEW r \in Runner, FinalizeRuntimeDelivery(r)
      PROVE  Custody!Fail
  <2>1. /\ inbox.status \in {"queued", "delivering"}
        /\ inbox.status = "delivering" => inbox.binding = placed
        /\ inbox'.status = "dead_lettered" /\ placed' = placed /\ exhausted' = TRUE
    BY <1>2 DEF FinalizeRuntimeDelivery, Replayed, IInv, Typed, InboxType, RowsAgree, runtimes
  <2> QED BY <2>1 DEF Custody!Fail
<1>3. ASSUME NEW r \in Runner, ReplaceMalformed(r)
      PROVE  Custody!Fail \/ UNCHANGED Custody!vars
  <2>1. placed' = placed /\ exhausted' = exhausted /\ exhausted \in BOOLEAN
    BY <1>3 DEF ReplaceMalformed, IInv, Typed, events, runtimes
  <2>2. CASE inbox' = inbox
    BY <2>1, <2>2, SeenStutters DEF Seen
  <2>3. CASE inbox' # inbox
    <3>1. inbox.status = "delivering" /\ inbox.binding = placed /\ inbox'.status = "dead_lettered"
      BY <1>3, <2>3 DEF ReplaceMalformed, IInv, Typed, InboxType, RowsAgree
    <3> QED BY <2>1, <3>1 DEF Custody!Fail
  <2> QED BY <2>2, <2>3
<1> QED BY <1>1, <1>2, <1>3

\* Every step of delivery is a step of custody, or none.
LEMMA StepRefines == IInv /\ [Next]_vars => [Custody!Next]_Custody!vars
<1> SUFFICES ASSUME IInv, [Next]_vars PROVE Custody!Next \/ UNCHANGED Custody!vars
  OBVIOUS
<1>1. CASE UNCHANGED vars
  BY <1>1, SeenStutters DEF vars, Seen
<1>2. ASSUME NEW r \in Runner, Deliver(r) \/ Lease(r) \/ HeartbeatLost(r) \/ Crash(r)
      PROVE  Custody!Next \/ UNCHANGED Custody!vars
  <2>1. CASE PrepareClaim(r)
    BY <2>1, ClaimBinds DEF Custody!Next
  <2>2. CASE RepairByRunner(r)
    <3>1. RepairTx /\ binding # 0
      BY <2>2 DEF RepairByRunner, IInv, RunnerKnows
    <3> QED BY <3>1, RepairHandsBack DEF Custody!Next
  <2>3. CASE FinalizeRuntimeDelivery(r) \/ ReplaceMalformed(r)
    BY <2>3, EndsOnce DEF Custody!Next
  <2>4. CASE ~(PrepareClaim(r) \/ RepairByRunner(r) \/ FinalizeRuntimeDelivery(r) \/ ReplaceMalformed(r))
    BY <1>2, <2>4, Stutters DEF Deliver
  <2> QED BY <2>1, <2>2, <2>3, <2>4
<1>3. CASE ExpireAbandoned \/ ExpireUnderRunner \/ ReclaimExpiredLeases \/ Reclassify
  <2>1. inbox' = inbox /\ placed' = placed /\ exhausted' = exhausted
    BY <1>3 DEF ExpireAbandoned, ExpireUnderRunner, ReclaimExpiredLeases, Reclassify, events, runtimes
  <2> QED BY <2>1, SeenStutters DEF Seen
<1>4. CASE RepairProactively
  BY <1>4, RepairHandsBack DEF RepairProactively, Custody!Next
<1>5. CASE CommitInputs
  BY <1>5, EndsOnce DEF Custody!Next
<1> QED BY <1>1, <1>2, <1>3, <1>4, <1>5 DEF Next

\* Delivery implements InputCustody: only the Runtime that has the message commits
\* it, a Runtime it was taken from never gets it again, and an outcome is final.
THEOREM DeliveryImplementsCustody == Spec => ImplementsCustody
<1>1. Init => Custody!Init
  BY DEF Init, Custody!Init
<1> QED BY <1>1, StepRefines, Invariance, PTL DEF Spec, ImplementsCustody, Custody!Spec
=============================================================================
