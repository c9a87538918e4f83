----------------------------- MODULE QueueStore -----------------------------
(***************************************************************************)
(* The durable job queue of internal/queue/postgresql_store.go: the rows   *)
(* of queue_jobs and queue_partition_counters in one workspace, and the    *)
(* transactions that the Queue service, the producers, the Session store   *)
(* and the maintenance loop run on them.                                   *)
(*                                                                         *)
(* Every action is one committed transaction.  Session-scoped writers      *)
(* serialise on the Session arbitration lock, partition-scoped leases on   *)
(* the leased-partition unique index, and enqueues on the locked counter   *)
(* row, so a committed transaction is one step of the table.               *)
(*                                                                         *)
(* Time is kept in the rows: "left" is what remains of leased_until and    *)
(* "delay" what remains until available_at, both counted down by Tick.     *)
(* A consumer's knowledge of a lease is its claim on a token; a claim      *)
(* outlives the lease it came from, which is how a late call reaches the   *)
(* table with a stale token.                                               *)
(***************************************************************************)
EXTENDS Integers, FiniteSets

CONSTANTS
    JobId,              \* identities a queue_jobs row can have
    Work,               \* the durable work items producers may enqueue
    Token,              \* lease tokens
    NoToken,            \* lease_token IS NULL
    NoJob,              \* the job of a token nobody claims
    Session,            \* sessions rows
    NoSession,          \* causal_session_id IS NULL
    LeaseKinds,         \* the kinds the callers of Lease request
    DefaultMaxAttempts, \* RetryPolicy.MaxAttempts
    LeaseDuration,      \* ticks a lease or a heartbeat grants
    BaseDelay,          \* RetryPolicy.BaseDelay in ticks
    MaxDelay,           \* RetryPolicy.MaxDelay in ticks
    PollInterval,       \* EnvironmentBuildPollInterval in ticks
    MaxSeq,             \* bound: sequences one partition counter hands out
    MaxAttempt,         \* bound: attempts of one row
    MaxDefers           \* bound: deferrals of one row

VARIABLES
    jobs,       \* [JobId -> Row]: queue_jobs
    counter,    \* [Partition -> Nat]: queue_partition_counters, 0 when absent
    sessions,   \* [Session -> SessionState]: lifecycle_state and status
    claims      \* [Token -> Claim]: what the consumers hold

vars == <<jobs, counter, sessions, claims>>

-----------------------------------------------------------------------------
(* Work items: the columns an enqueue derives from the canonical payload.  *)

\* The five kinds Job Runner serves (IsJobRunnerKind).
RunnerKind == {"runtime_input", "runtime_recovery", "runtime_config_update",
               "cleanup_session", "session_delete_cleanup"}

\* "sandbox" stands for the ten Sandbox kinds, which the queue treats alike.
Kind == RunnerKind \cup {"environment_build", "environment_ready_fanout", "sandbox"}

\* deriveQueueDeliveryAuthority: the delivery scope of a work item.
Scope(w) ==
    CASE w.kind \in {"runtime_input", "runtime_recovery"} -> "thread"
      [] w.kind \in {"runtime_config_update", "cleanup_session",
                     "session_delete_cleanup"} -> "session"
      [] OTHER -> "partition"

\* deriveQueueDeliveryAuthority: the control class of a work item.
Control(w) ==
    CASE w.kind = "runtime_input" /\ w.input = "interrupt_control" -> "interrupt"
      [] w.kind = "runtime_input" /\ w.input = "agent_mail" -> "agent_mail"
      [] OTHER -> "ordinary"

Interrupt(w) == Control(w) = "interrupt"

\* The effective budget: the row's max_attempts, or the policy's when unset.
EffectiveMax(w) == IF w.max = 0 THEN DefaultMaxAttempts ELSE w.max

Partition == {w.partition : w \in Work}

\* What admission (validateCanonicalQueueShape) and the derived columns give:
\* a dedupe key names one work item, runtime work lives in its Session's
\* partition, and only partition-scoped work has no Session.
CanonicalShape ==
    /\ \A w \in Work :
          /\ w.kind \in Kind
          /\ w.max \in Nat /\ w.priority \in Nat /\ w.sequenceTo \in Nat
          /\ w.session \in Session \cup {NoSession}
          /\ (Scope(w) = "partition") <=> (w.session = NoSession)
    /\ \A v, w \in Work :
          /\ v.key = w.key => v = w
          /\ Scope(v) # "partition" /\ Scope(w) # "partition" =>
                ((v.session = w.session) <=> (v.partition = w.partition))
          /\ Scope(v) = "partition" /\ Scope(w) # "partition" => v.partition # w.partition

ASSUME WorkAssumption == Work # {} /\ CanonicalShape

ASSUME BoundsAssumption ==
    /\ DefaultMaxAttempts \in Nat \ {0}
    /\ LeaseDuration \in Nat \ {0}
    /\ BaseDelay \in Nat /\ MaxDelay \in Nat /\ PollInterval \in Nat
    /\ MaxSeq \in Nat /\ MaxAttempt \in Nat /\ MaxDefers \in Nat

ASSUME NullAssumption ==
    NoToken \notin Token /\ NoJob \notin JobId /\ NoSession \notin Session

-----------------------------------------------------------------------------
(* Rows.                                                                   *)

Active == {"pending", "leased"}
Terminal == {"acknowledged", "cancelled", "dead_lettered"}
Status == Active \cup Terminal \cup {"absent"}

\* lease_previous_attempt_count IS NULL
NoPrevious == -1

Row == [work: Work, status: Status, seq: Nat, token: Token \cup {NoToken},
        left: Nat, delay: Nat, attempt: Nat,
        previous: Nat \cup {NoPrevious}, defers: Nat]

AbsentRow ==
    [work |-> CHOOSE w \in Work : TRUE, status |-> "absent", seq |-> 0,
     token |-> NoToken, left |-> 0, delay |-> 0, attempt |-> 0,
     previous |-> NoPrevious, defers |-> 0]

\* "missing" is a causal_session_id without a sessions row.
SessionState == {"active", "terminated", "deleted", "missing"}

\* A consumer works under a token it was given, and once it has sent a
\* settlement it only has calls in flight.
Claim == [job: JobId \cup {NoJob}, phase: {"free", "working", "called"}]
NoClaim == [job |-> NoJob, phase |-> "free"]

W(j) == jobs[j].work
Is(j, status) == jobs[j].status = status
Due(j) == jobs[j].delay = 0
Before(i, j) == jobs[i].seq < jobs[j].seq
SameSession(i, j) == W(i).session = W(j).session
SameThread(i, j) == SameSession(i, j) /\ W(i).thread = W(j).thread

\* Mutant of Unleased: the token stays in the row.
UnleasedKeepsToken(row, status) ==
    [row EXCEPT !.status = status, !.left = 0, !.previous = NoPrevious]

\* Mutant of Unleased: the direct-lease provenance stays in the row.
UnleasedKeepsPrevious(row, status) ==
    [row EXCEPT !.status = status, !.token = NoToken, !.left = 0]

\* Custody columns cleared by every transition off leased.
Unleased(row, status) ==
    [row EXCEPT !.status = status, !.token = NoToken, !.left = 0, !.previous = NoPrevious]

Readmitted(row, wait) == [Unleased(row, "pending") EXCEPT !.delay = wait]

-----------------------------------------------------------------------------
(* leaseEligibilityPredicate.                                              *)

\* Session lifecycle: delete cleanup needs a deleted Session, every other
\* kind rejects a deleted or terminated one and admits a missing one.
LifecycleAdmits(c) ==
    \/ W(c).session = NoSession
    \/ /\ W(c).session # NoSession
       /\ IF W(c).kind = "session_delete_cleanup"
          THEN sessions[W(c).session] = "deleted"
          ELSE sessions[W(c).session] \in {"active", "missing"}

\* Mutant of Excludes: an interrupt ignores every lease of its Session.
ExcludesNoInterrupt(l, c) ==
    \/ /\ Scope(c) = "partition" /\ Scope(l) = "partition"
       /\ l.partition = c.partition
    \/ /\ Scope(c) # "partition" /\ Scope(l) # "partition"
       /\ l.session = c.session /\ ~Interrupt(c)
       /\ "session" \in {Scope(c), Scope(l)} \/ l.thread = c.thread

\* Leased custody of work l excludes leasing work c.
Excludes(l, c) ==
    \/ /\ Scope(c) = "partition" /\ Scope(l) = "partition"
       /\ l.partition = c.partition
    \/ /\ Scope(c) = "thread" /\ Scope(l) # "partition"
       /\ l.session = c.session
       /\ ~(Interrupt(c) /\ l.kind = "runtime_config_update")
       /\ Scope(l) = "session" \/ l.thread = c.thread
    \/ /\ Scope(c) = "session" /\ Scope(l) # "partition"
       /\ l.session = c.session

\* Mutant of PrecedesInPartition: equal priority blocks in both directions.
PrecedesOnTie(p, c) ==
    /\ Scope(W(c)) = "partition" /\ Scope(W(p)) = "partition"
    /\ W(p).partition = W(c).partition
    /\ Due(p)
    /\ W(p).priority >= W(c).priority

\* A pending row p that candidate c has to wait for.
PrecedesInPartition(p, c) ==
    /\ Scope(W(c)) = "partition" /\ Scope(W(p)) = "partition"
    /\ W(p).partition = W(c).partition
    /\ Due(p)
    /\ \/ W(p).priority > W(c).priority
       \/ W(p).priority = W(c).priority /\ Before(p, c)

PrecedesSessionWork(p, c) ==
    /\ Scope(W(c)) = "session" /\ Scope(W(p)) # "partition"
    /\ SameSession(p, c)
    /\ W(c).kind = "session_delete_cleanup" => W(p).kind = "session_delete_cleanup"
    /\ Due(p)
    /\ Before(p, c)

\* Mutant of PrecedesThreadWork: a row in backoff lets its successors pass.
PrecedesWhenDue(p, c) ==
    /\ Scope(W(c)) = "thread" /\ Scope(W(p)) # "partition"
    /\ SameSession(p, c) /\ Due(p)
    /\ \/ Scope(W(p)) = "session" /\ Before(p, c) /\ ~Interrupt(W(c))
       \/ Scope(W(p)) = "thread" /\ SameThread(p, c) /\ Interrupt(W(p)) /\ ~Interrupt(W(c))
       \/ Scope(W(p)) = "thread" /\ SameThread(p, c) /\ Before(p, c) /\ ~Interrupt(W(c))

\* Mutant of PrecedesThreadWork: an interrupt waits for earlier ordinary work.
PrecedesInterrupt(p, c) ==
    /\ Scope(W(c)) = "thread" /\ Scope(W(p)) # "partition"
    /\ SameSession(p, c)
    /\ \/ Before(p, c) /\ (Scope(W(p)) = "session" \/ SameThread(p, c))
       \/ Scope(W(p)) = "thread" /\ SameThread(p, c) /\ Interrupt(W(p)) /\ ~Interrupt(W(c))

PrecedesThreadWork(p, c) ==
    /\ Scope(W(c)) = "thread" /\ Scope(W(p)) # "partition"
    /\ SameSession(p, c)
    /\ ~(W(c).kind = "runtime_recovery" /\ Interrupt(W(p)))
    /\ \/ /\ Scope(W(p)) = "session" /\ Before(p, c)
          /\ ~(Interrupt(W(c)) /\ W(p).kind = "runtime_config_update")
       \/ /\ Scope(W(p)) = "thread" /\ SameThread(p, c)
          /\ \/ W(p).kind = "runtime_recovery" /\ Interrupt(W(c))
             \/ Interrupt(W(p)) /\ (~Interrupt(W(c)) \/ Before(p, c))
             \/ ~Interrupt(W(c)) /\ ~Interrupt(W(p)) /\ Before(p, c)

Precedes(p, c) ==
    PrecedesInPartition(p, c) \/ PrecedesSessionWork(p, c) \/ PrecedesThreadWork(p, c)

Eligible(c) ==
    /\ Is(c, "pending") /\ Due(c)
    /\ LifecycleAdmits(c)
    /\ \A l \in JobId \ {c} : Is(l, "leased") => ~Excludes(W(l), W(c))
    /\ \A p \in JobId \ {c} : Is(p, "pending") => ~Precedes(p, c)

\* Mutant of LeasedAttempt: every lease counts.
LeasedAttemptUnclamped(row) == row.attempt + 1

\* leaseAttemptCountExpression: finalization leases stay at their budget.
LeasedAttempt(row) ==
    LET w == row.work
    IN  IF \/ (Interrupt(w) \/ w.kind = "cleanup_session") /\ row.attempt >= EffectiveMax(w)
           \/ Control(w) = "agent_mail" /\ row.attempt >= EffectiveMax(w) + 1
        THEN row.attempt
        ELSE row.attempt + 1

-----------------------------------------------------------------------------
(* Producers.                                                              *)

NewRow(w, seq, wait) ==
    [work |-> w, status |-> "pending", seq |-> seq, token |-> NoToken, left |-> 0,
     delay |-> wait, attempt |-> 0, previous |-> NoPrevious, defers |-> 0]

\* existingActiveDedupeJob finds no pending or leased row with the dedupe key.
NoActive(table, w) ==
    \A j \in JobId : table[j].work = w => table[j].status \notin Active

\* The locked counter advances and the row is inserted with its value.  An
\* active row with the dedupe key is returned instead, which changes nothing.
InsertInto(table, j, w, wait) ==
    /\ NoActive(table, w)
    /\ table[j].status = "absent"
    /\ counter[w.partition] < MaxSeq
    /\ counter' = [counter EXCEPT ![w.partition] = @ + 1]
    /\ jobs' = [table EXCEPT ![j] = NewRow(w, counter[w.partition] + 1, wait)]

\* EnqueueTx in a producer's transaction, which holds an admitted Session.
Enqueue(w, j, wait) ==
    /\ w.kind # "session_delete_cleanup"
    /\ w.session # NoSession => sessions[w.session] = "active"
    /\ InsertInto(jobs, j, w, wait)
    /\ UNCHANGED <<sessions, claims>>

\* CancelTx: one exact pending row, in its owner's transaction.
CancelTx(j) ==
    /\ Is(j, "pending")
    /\ jobs' = [jobs EXCEPT ![j].status = "cancelled"]
    /\ UNCHANGED <<counter, sessions, claims>>

\* DeadLetterExhaustedTx, after the Sandbox over-budget census
\* (ListPendingAtOrOverBudget) observed the row.
DeadLetterExhausted(j) ==
    /\ Is(j, "pending") /\ W(j).kind = "sandbox"
    /\ W(j).max > 0 /\ jobs[j].attempt > 0 /\ jobs[j].attempt >= W(j).max
    /\ jobs' = [jobs EXCEPT ![j].status = "dead_lettered"]
    /\ UNCHANGED <<counter, sessions, claims>>

\* Cancel: pending message inputs of a Thread below an interrupt's fence.
Fenced(j, i) ==
    /\ Is(j, "pending") /\ W(j).kind = "runtime_input" /\ W(j).input = "messages"
    /\ W(j).session = i.session /\ W(j).thread = i.thread
    /\ W(j).sequenceTo < i.sequenceTo

Cancel(i) ==
    /\ Interrupt(i)
    /\ \E j \in JobId : Fenced(j, i)
    /\ jobs' = [j \in JobId |->
                  IF Fenced(j, i) THEN [jobs[j] EXCEPT !.status = "cancelled"] ELSE jobs[j]]
    /\ UNCHANGED <<counter, sessions, claims>>

-----------------------------------------------------------------------------
(* Leasing.                                                                *)

\* NewLeaseToken is random: no row and no consumer knows the token.
Fresh(t) == claims[t] = NoClaim /\ \A j \in JobId : jobs[j].token # t

Mint(c, t, previous) ==
    /\ Eligible(c) /\ Fresh(t)
    /\ LeasedAttempt(jobs[c]) <= MaxAttempt
    /\ jobs' = [jobs EXCEPT ![c].status = "leased", ![c].token = t,
                            ![c].left = LeaseDuration, ![c].previous = previous,
                            ![c].attempt = LeasedAttempt(jobs[c])]
    /\ claims' = [claims EXCEPT ![t] = [job |-> c, phase |-> "working"]]
    /\ UNCHANGED <<counter, sessions>>

\* Lease: one candidate of the workspace-scoped method (leaseCandidate).
Lease(c, t) == W(c).kind \in LeaseKinds /\ Mint(c, t, NoPrevious)

\* LeaseJobRunnerJobs: one candidate transaction of the direct method, which
\* alone records the attempt count the lease started from.
LeaseJobRunnerCandidate(c, t) ==
    W(c).kind \in RunnerKind /\ Mint(c, t, jobs[c].attempt)

-----------------------------------------------------------------------------
(* Lease-fenced calls of a consumer.                                       *)

\* Mutant of Owns: the token is not compared.
OwnsAnyToken(t, j) == Is(j, "leased") /\ jobs[j].left > 0

\* lease_token = $3 AND status = 'leased' AND leased_until > clock_timestamp()
Owns(t, j) == Is(j, "leased") /\ jobs[j].token = t /\ jobs[j].left > 0

Called(t) == claims' = [claims EXCEPT ![t].phase = "called"]

\* A settlement through token t that leaves its row as "row".
Settle(t, j, row) ==
    /\ claims[t].phase # "free" /\ claims[t].job = j
    /\ Owns(t, j)
    /\ jobs' = [jobs EXCEPT ![j] = row]
    /\ Called(t)
    /\ UNCHANGED <<counter, sessions>>

Heartbeat(t, j) ==
    /\ claims[t].phase = "working" /\ claims[t].job = j
    /\ Owns(t, j)
    /\ jobs' = [jobs EXCEPT ![j].left = LeaseDuration]
    /\ UNCHANGED <<counter, sessions, claims>>

Ack(t, j) == Settle(t, j, Unleased(jobs[j], "acknowledged"))

DeadLetter(t, j) == Settle(t, j, Unleased(jobs[j], "dead_lettered"))

\* queueRetryDelay before its jitter: min(MaxDelay, BaseDelay * 2^(count-1)).
RetryCap[n \in Nat] ==
    LET cap == IF n <= 1 THEN BaseDelay ELSE 2 * RetryCap[n - 1]
    IN  IF cap > MaxDelay THEN MaxDelay ELSE cap

\* Work whose exhausted lease is re-leased for finalization, not dead-lettered.
Finalized(w) == Interrupt(w) \/ Control(w) = "agent_mail" \/ w.kind = "cleanup_session"

Exhausted(row) == row.attempt >= EffectiveMax(row.work)

Retry(t, j, wait) ==
    LET row == jobs[j]
    IN  /\ wait \in 0 .. RetryCap[row.attempt]
        /\ Settle(t, j,
          IF ~Exhausted(row) THEN Readmitted(row, wait)
          ELSE IF Finalized(row.work) THEN Readmitted(row, 0)
          ELSE Unleased(row, "dead_lettered"))

\* Defer: an observation, not an attempt; the lease attempt is refunded.
Defer(t, j, wait) ==
    /\ W(j).kind \in {"runtime_config_update", "environment_build"}
    /\ jobs[j].attempt >= 1 /\ jobs[j].defers < MaxDefers
    /\ wait \in IF W(j).kind = "environment_build"
               THEN {PollInterval} ELSE 0 .. RetryCap[jobs[j].defers + 1]
    /\ Settle(t, j, [Readmitted(jobs[j], wait) EXCEPT !.attempt = @ - 1, !.defers = @ + 1])

\* ReleaseUnstartedJob: a direct lease that was never dispatched.
ReleaseUnstartedJob(t, j) ==
    /\ W(j).kind \in RunnerKind /\ jobs[j].previous # NoPrevious
    /\ Settle(t, j, [Readmitted(jobs[j], 0) EXCEPT !.attempt = jobs[j].previous])

\* The consumer crashes, or nothing it sent is in flight any more.
Abandon(t) ==
    /\ claims[t] # NoClaim
    /\ claims' = [claims EXCEPT ![t] = NoClaim]
    /\ UNCHANGED <<jobs, counter, sessions>>

-----------------------------------------------------------------------------
(* Session lifecycle.                                                      *)

\* The runtime custody that a deleted or terminated Session revokes: pending
\* and leased rows alike, without their tokens.
Revoked(s) ==
    [j \in JobId |->
        IF /\ W(j).session = s /\ jobs[j].status \in Active
           /\ W(j).kind # "session_delete_cleanup"
        THEN Unleased(jobs[j], "cancelled") ELSE jobs[j]]

\* DeleteSession: revoke custody, then enqueue the Session's delete cleanup.
DeleteSession(s, w, j) ==
    /\ sessions[s] \in {"active", "terminated"}
    /\ w.kind = "session_delete_cleanup" /\ w.session = s
    /\ sessions' = [sessions EXCEPT ![s] = "deleted"]
    /\ InsertInto(Revoked(s), j, w, 0)
    /\ UNCHANGED claims

\* Main-thread termination (cancelRuntimeTerminationInputsTx, sessionWide).
TerminateSession(s) ==
    /\ sessions[s] = "active"
    /\ sessions' = [sessions EXCEPT ![s] = "terminated"]
    /\ jobs' = Revoked(s)
    /\ UNCHANGED <<counter, claims>>

-----------------------------------------------------------------------------
(* Maintenance and time.                                                   *)

\* Mutant of ReclaimExpiredLease: a lease over its budget is left alone.
ReclaimWithinBudget(j) ==
    /\ Is(j, "leased") /\ jobs[j].left = 0 /\ ~Exhausted(jobs[j])
    /\ jobs' = [jobs EXCEPT ![j] = Readmitted(jobs[j], 0)]
    /\ UNCHANGED <<counter, sessions, claims>>

ReclaimExpiredLease(j) ==
    /\ Is(j, "leased") /\ jobs[j].left = 0
    /\ jobs' = [jobs EXCEPT ![j] = Readmitted(jobs[j], 0)]
    /\ UNCHANGED <<counter, sessions, claims>>

\* SweepSandboxTerminalJobs and PruneJobRunnerTerminalJobs; the retention age
\* is any time after the row became terminal.  Environment rows are kept.
PruneTerminal(j) ==
    /\ jobs[j].status \in Terminal
    /\ W(j).kind \in RunnerKind \cup {"sandbox"}
    /\ jobs' = [jobs EXCEPT ![j] = AbsentRow]
    /\ UNCHANGED <<counter, sessions, claims>>

\* Mutant of Empty: terminal rows do not count.
EmptyOfActive(p) == \A j \in JobId : jobs[j].status \in Active => W(j).partition # p

\* The partition p has no row of any status.
Empty(p) == \A j \in JobId : ~Is(j, "absent") => W(j).partition # p

SweepEmptyPartitionCounter(p) ==
    /\ counter[p] > 0 /\ Empty(p)
    /\ counter' = [counter EXCEPT ![p] = 0]
    /\ UNCHANGED <<jobs, sessions, claims>>

Down(n) == IF n = 0 THEN 0 ELSE n - 1

Tick ==
    /\ \E j \in JobId : jobs[j].left > 0 \/ jobs[j].delay > 0
    /\ jobs' = [j \in JobId |->
                  [jobs[j] EXCEPT !.left = Down(@), !.delay = Down(@)]]
    /\ UNCHANGED <<counter, sessions, claims>>

-----------------------------------------------------------------------------
Init ==
    /\ jobs = [j \in JobId |-> AbsentRow]
    /\ counter = [p \in Partition |-> 0]
    /\ sessions = [s \in Session |-> "active"]
    /\ claims = [t \in Token |-> NoClaim]

Produce ==
    \/ \E w \in Work, j \in JobId, wait \in 0 .. MaxDelay : Enqueue(w, j, wait)
    \/ \E j \in JobId : CancelTx(j)
    \/ \E j \in JobId : DeadLetterExhausted(j)
    \/ \E i \in Work : Cancel(i)

Acquire ==
    \/ \E c \in JobId, t \in Token : Lease(c, t)
    \/ \E c \in JobId, t \in Token : LeaseJobRunnerCandidate(c, t)

Consume ==
    \/ \E t \in Token, j \in JobId : Heartbeat(t, j)
    \/ \E t \in Token, j \in JobId : Ack(t, j)
    \/ \E t \in Token, j \in JobId : DeadLetter(t, j)
    \/ \E t \in Token, j \in JobId, wait \in 0 .. MaxDelay : Retry(t, j, wait)
    \/ \E t \in Token, j \in JobId, wait \in 0 .. (MaxDelay + PollInterval) : Defer(t, j, wait)
    \/ \E t \in Token, j \in JobId : ReleaseUnstartedJob(t, j)
    \/ \E t \in Token : Abandon(t)

EndSession ==
    \/ \E s \in Session, w \in Work, j \in JobId : DeleteSession(s, w, j)
    \/ \E s \in Session : TerminateSession(s)

Maintain ==
    \/ \E j \in JobId : ReclaimExpiredLease(j)
    \/ \E j \in JobId : PruneTerminal(j)
    \/ \E p \in Partition : SweepEmptyPartitionCounter(p)

Next == Produce \/ Acquire \/ Consume \/ EndSession \/ Maintain \/ Tick

Spec == Init /\ [][Next]_vars

\* Time passes; the maintenance loop visits every expired lease and the Sandbox
\* census every pending row over its budget; consumers
\* poll, so a row that keeps becoming eligible is leased; a consumer finishes
\* the work it holds or its process ends, and its calls do not stay in flight.
Fairness ==
    /\ WF_vars(Tick)
    /\ \A j \in JobId : WF_vars(ReclaimExpiredLease(j)) /\ WF_vars(DeadLetterExhausted(j))
    /\ \A c \in JobId : SF_vars(\E t \in Token : Lease(c, t) \/ LeaseJobRunnerCandidate(c, t))
    /\ \A t \in Token : WF_vars(Abandon(t))

FairSpec == Spec /\ Fairness

-----------------------------------------------------------------------------
(* Properties.                                                             *)

TypeOK ==
    /\ jobs \in [JobId -> Row]
    /\ counter \in [Partition -> Nat]
    /\ sessions \in [Session -> SessionState]
    /\ claims \in [Token -> Claim]

\* Two leases in flight are compatible: one per partition, one per Session
\* Thread, one Session-exclusive per Session, and a Session-exclusive lease
\* beside a Thread lease only when an interrupt crossed a config update.
\* Retry, reclaim, release, revocation and both lease methods may come in any
\* order in between.
LeaseExclusion ==
    \A i, j \in JobId :
        i # j /\ Is(i, "leased") /\ Is(j, "leased") =>
          /\ Scope(W(i)) = "partition" /\ Scope(W(j)) = "partition" =>
                W(i).partition # W(j).partition
          /\ Scope(W(i)) = "thread" /\ Scope(W(j)) = "thread" => ~SameThread(i, j)
          /\ Scope(W(i)) = "session" /\ Scope(W(j)) = "session" => ~SameSession(i, j)
          /\ Scope(W(i)) = "session" /\ Scope(W(j)) = "thread" /\ SameSession(i, j) =>
                W(i).kind = "runtime_config_update" /\ Interrupt(W(j))

\* One live holder per row: no token is in two rows, and a row carries a token
\* exactly while it is leased, so a stale token can match no row but its own.
TokenCustody ==
    /\ \A j \in JobId : Is(j, "leased") <=> jobs[j].token # NoToken
    /\ \A i, j \in JobId :
          jobs[i].token = jobs[j].token /\ jobs[i].token # NoToken => i = j

\* Sequences of a partition are unique and below its counter although sweeping
\* an empty counter restarts it at one (idx_queue_jobs_partition_sequence).
SequenceCustody ==
    \A i \in JobId : ~Is(i, "absent") =>
        /\ jobs[i].seq \in 1 .. counter[W(i).partition]
        /\ \A j \in JobId \ {i} :
              ~Is(j, "absent") /\ W(i).partition = W(j).partition => jobs[i].seq # jobs[j].seq

\* Ordinary Thread work (recovery included) starts in causal order: once a row
\* is leased or acknowledged, every earlier ordinary row of its Thread and
\* every earlier Session-exclusive row of its Session is terminal.  A retry in
\* backoff or a deferred config update is never overtaken.
LaneOrder ==
    \A i, j \in JobId :
        /\ jobs[j].status \in {"leased", "acknowledged"} /\ Scope(W(j)) = "thread"
        /\ ~Interrupt(W(j))
        /\ ~Is(i, "absent") /\ Before(i, j)
        /\ \/ Scope(W(i)) = "session" /\ SameSession(i, j)
           \/ Scope(W(i)) = "thread" /\ SameThread(i, j) /\ ~Interrupt(W(i))
        => jobs[i].status \in Terminal

\* Direct-lease provenance survives nothing but the live lease that wrote it
\* and says exactly what to refund: one attempt, or none for a finalization
\* lease already at its budget (ReleaseUnstartedJob).
ProvenanceExact ==
    \A j \in JobId : jobs[j].previous # NoPrevious =>
        /\ Is(j, "leased") /\ W(j).kind \in RunnerKind
        /\ jobs[j].attempt = LeasedAttempt([jobs[j] EXCEPT !.attempt = jobs[j].previous])

\* Finalization leases can be re-leased for ever without running past their
\* budget: the budget for interrupt and cleanup, one more for agent mail.
FinalizationBudget ==
    \A j \in JobId :
        /\ Interrupt(W(j)) \/ W(j).kind = "cleanup_session" =>
              jobs[j].attempt <= EffectiveMax(W(j))
        /\ Control(W(j)) = "agent_mail" => jobs[j].attempt <= EffectiveMax(W(j)) + 1

\* Whatever work a due, lease-free Session has, some of it can be leased:
\* pending rows never all wait for one another.
NoCircularWait ==
    \A s \in Session :
        LET rows == {j \in JobId : W(j).session = s /\ jobs[j].status \in Active}
        IN  /\ sessions[s] = "active" /\ rows # {}
            /\ \A j \in rows : Is(j, "pending") /\ Due(j)
            => \E c \in rows : Eligible(c)

\* A live lease ends by its own holder's call or by the end of its Session;
\* anyone else has to wait for it to expire.
LeaseEndsByHolder ==
    [][\A j \in JobId :
          /\ Is(j, "leased") /\ jobs[j].left > 0
          /\ jobs'[j].token # jobs[j].token
          => \/ claims[jobs[j].token].job = j /\ claims'[jobs[j].token].phase = "called"
             \/ W(j).session # NoSession /\ sessions'[W(j).session] # "active"]_vars

\* A lease whose holder is gone is given back: the row is pending again or
\* settled, and the next holder gets another token.
AbandonedLeaseEnds ==
    \A j \in JobId, t \in Token :
        (jobs[j].token = t /\ claims[t].phase = "free") ~> (jobs[j].token # t)

\* No row waits for ever in its partition: it is leased or closed in the end,
\* whatever its predecessors do with their leases.
EventuallyServed ==
    \A j \in JobId :
        (Is(j, "pending") /\ jobs[j].attempt < MaxAttempt) ~> ~Is(j, "pending")

=============================================================================
