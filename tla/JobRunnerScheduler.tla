------------------------- MODULE JobRunnerScheduler -------------------------
(***************************************************************************)
(* The tenant rotation behind LeaseJobRunnerJobs                           *)
(* (internal/queue/job_runner_lease.go): concurrent calls share one cursor *)
(* over the workspaces with pending Runner work and one pass per workspace *)
(* over its rows; a cleanup worker drops passes and quiesce ends it all.   *)
(*                                                                         *)
(* Rows are scan keys in index order.  Whether a row is eligible is        *)
(* QueueStore's subject: an attempt on a pending row leases it or misses.  *)
(* The mutex sections and the database statements of a call are its steps. *)
(* Generations are compared only for equality with an earlier snapshot, so *)
(* a snapshot is marked stale instead.  The retry-after hint is left out.  *)
(***************************************************************************)
EXTENDS Integers, FiniteSets

CONSTANTS
    Tenants,        \* number of workspaces, in workspace_id order
    Keys,           \* number of scan keys of one workspace, in index order
    Caller,         \* concurrent LeaseJobRunnerJobs calls
    MaxJobs,        \* request.MaxJobs
    Turns,          \* jobRunnerCallTurns
    RawCandidates,  \* jobRunnerCallRawCandidates
    LeaseTxs,       \* jobRunnerCallLeaseTransactions
    Window          \* jobRunnerTenantWindow

ASSUME BudgetAssumption ==
    /\ Tenants \in Nat /\ Keys \in Nat
    /\ {MaxJobs, Turns, RawCandidates, LeaseTxs, Window} \subseteq Nat \ {0}

VARIABLES
    row,        \* the scanned rows of queue_jobs: pending, leased by a call that
                \* has not returned, or out of the scan
    cursor,     \* lastWorkspace, 0 before the first turn
    passes,     \* per tenant, the continuation of its pass
    calls,      \* [Caller -> Call]
    probe,      \* tenants the cleanup worker saw absent with an unchanged pass
    closed,     \* the scheduler rejects new calls
    quiesced    \* quiesce has joined the calls and cleared the passes

vars == <<row, cursor, passes, calls, probe, closed, quiesced>>

Tenant == 1 .. Tenants
Key == 1 .. Keys

Pending(t) == {k \in Key : row[<<t, k>>] = "pending"}
Smallest(S) == CHOOSE x \in S : \A y \in S : x <= y
Largest(S) == CHOOSE x \in S : \A y \in S : x >= y

\* after = 0 is hasAfter = false; known are the rows due and admitted at passNow.
NoPass == [present |-> FALSE, busy |-> FALSE, started |-> FALSE, upper |-> 0, after |-> 0,
           known |-> {}]
NewPass == [NoPass EXCEPT !.present = TRUE]

NoCall == [pc |-> "idle", tenant |-> 0, stale |-> FALSE, visited |-> {}, turns |-> 0,
           raw |-> 0, txs |-> 0, jobs |-> {}, pass |-> NoPass, window |-> {}, full |-> FALSE]

Call(c) == calls[c]
Go(c, call) == calls' = [calls EXCEPT ![c] = call]

\* The call leaves its turn: what was local to the turn is gone.
LeaveTurn(call, pc) ==
    [call EXCEPT !.pc = pc, !.tenant = 0, !.stale = FALSE, !.pass = NoPass, !.window = {},
                 !.full = FALSE]

-----------------------------------------------------------------------------
(* lease: admission, the budgeted loop, the result.                        *)

Admit(c) ==
    /\ Call(c).pc = "idle" /\ ~closed
    /\ Go(c, [NoCall EXCEPT !.pc = "loop", !.turns = Turns, !.raw = RawCandidates,
                            !.txs = LeaseTxs])
    /\ UNCHANGED <<row, cursor, passes, probe, closed, quiesced>>

Exhausted(call) == call.turns = 0 \/ call.raw = 0 \/ call.txs = 0

\* The call has its jobs, its budget is spent, or quiesce ended its context.
LoopStops(c) ==
    /\ Call(c).pc = "loop"
    /\ Cardinality(Call(c).jobs) >= MaxJobs \/ Exhausted(Call(c)) \/ closed
    /\ Go(c, [Call(c) EXCEPT !.pc = "return"])
    /\ UNCHANGED <<row, cursor, passes, probe, closed, quiesced>>

\* Mutant of Return: a failure hides what the call committed before.
ReturnHides(c) ==
    /\ Call(c).pc \in {"return", "failed"}
    /\ row' = [r \in Tenant \X Key |->
                 IF r \in Call(c).jobs /\ Call(c).pc = "return" THEN "out" ELSE row[r]]
    /\ Go(c, NoCall)
    /\ UNCHANGED <<cursor, passes, probe, closed, quiesced>>

\* Every committed token reaches the caller, after a later failure too.
Return(c) ==
    /\ Call(c).pc \in {"return", "failed"}
    /\ row' = [r \in Tenant \X Key |-> IF r \in Call(c).jobs THEN "out" ELSE row[r]]
    /\ Go(c, NoCall)
    /\ UNCHANGED <<cursor, passes, probe, closed, quiesced>>

-----------------------------------------------------------------------------
(* turn: propose a tenant, move the shared cursor, own the tenant's pass.  *)

\* jobRunnerSeekTenant from the cursor snapshot; 0 when nothing is pending.
NextTenant ==
    LET busyTenants == {t \in Tenant : Pending(t) # {}}
        later == {t \in busyTenants : t > cursor}
    IN  IF busyTenants = {} THEN 0
        ELSE IF later # {} THEN Smallest(later) ELSE Smallest(busyTenants)

Seek(c) ==
    /\ Call(c).pc = "loop"
    /\ Cardinality(Call(c).jobs) < MaxJobs /\ ~Exhausted(Call(c))
    /\ Go(c, [Call(c) EXCEPT !.pc = "proposed", !.turns = @ - 1, !.tenant = NextTenant,
                             !.stale = FALSE])
    /\ UNCHANGED <<row, cursor, passes, probe, closed, quiesced>>

\* Another call moved the cursor: the proposal has consumed its turn.
ProposalStale(c) ==
    /\ Call(c).pc = "proposed" /\ Call(c).stale
    /\ Go(c, LeaveTurn(Call(c), "loop"))
    /\ UNCHANGED <<row, cursor, passes, probe, closed, quiesced>>

\* No tenant is left for this call.
DiscoveryEnds(c) ==
    /\ Call(c).pc = "proposed" /\ ~Call(c).stale
    /\ Call(c).tenant = 0 \/ Call(c).tenant \in Call(c).visited
    /\ Go(c, LeaveTurn(Call(c), "return"))
    /\ UNCHANGED <<row, cursor, passes, probe, closed, quiesced>>

\* Mutant of Vacant: the busy flag is not looked at.
VacantAlways(t) == t \in Tenant

Vacant(t) == ~passes[t].busy

\* The cursor moves, and the pass is taken unless a concurrent call has it.
MoveCursor(c) ==
    LET t == Call(c).tenant
        pass == IF passes[t].present THEN passes[t] ELSE NewPass
        own == Vacant(t)
        visit == [Call(c) EXCEPT !.visited = @ \cup {t}]
        mine == IF own THEN [visit EXCEPT !.pc = "turn", !.pass = pass]
                       ELSE LeaveTurn(visit, "loop")
    IN  /\ Call(c).pc = "proposed" /\ ~Call(c).stale
        /\ t # 0 /\ t \notin Call(c).visited
        /\ cursor' = t
        /\ passes' = IF own THEN [passes EXCEPT ![t] = [pass EXCEPT !.busy = TRUE]] ELSE passes
        /\ calls' = [d \in Caller |-> IF d = c THEN mine
                                 ELSE [calls[d] EXCEPT !.stale = calls[d].pc = "proposed"]]
        /\ UNCHANGED <<row, probe, closed, quiesced>>

-----------------------------------------------------------------------------
(* tenantTurn: one window of the pass, at most one commit.                 *)

\* The pass ends or is put back, and the cleanup worker's snapshot is void.
PutBack(c, pass, complete) ==
    LET t == Call(c).tenant
    IN  /\ passes' = [passes EXCEPT ![t] =
                        IF complete THEN NoPass ELSE [pass EXCEPT !.busy = FALSE]]
        /\ probe' = probe \ {t}

\* Mutant of StartPass: a continued pass takes new bounds.
StartPassAgain(c) ==
    LET t == Call(c).tenant
        pending == Pending(t)
    IN  /\ Call(c).pc = "turn" /\ pending # {}
        /\ Go(c, [Call(c) EXCEPT !.pass.started = TRUE, !.pass.upper = Largest(pending),
                                 !.pass.known = pending])
        /\ UNCHANGED <<row, cursor, passes, probe, closed, quiesced>>

\* jobRunnerStartPass fixes the upper key and the time of the pass.
StartPass(c) ==
    LET t == Call(c).tenant
        pending == Pending(t)
    IN  /\ Call(c).pc = "turn" /\ ~Call(c).pass.started /\ pending # {}
        /\ Go(c, [Call(c) EXCEPT !.pass.started = TRUE, !.pass.upper = Largest(pending),
                                 !.pass.known = pending])
        /\ UNCHANGED <<row, cursor, passes, probe, closed, quiesced>>

StartPassEmpty(c) ==
    /\ Call(c).pc = "turn" /\ ~Call(c).pass.started /\ Pending(Call(c).tenant) = {}
    /\ PutBack(c, Call(c).pass, TRUE)
    /\ Go(c, LeaveTurn(Call(c), "loop"))
    /\ UNCHANGED <<row, cursor, closed, quiesced>>

\* A discovery statement times out or fails: the call ends with what it
\* committed, and the pass stays where it was.
SeekFails(c, how) ==
    /\ Call(c).pc = "loop"
    /\ Cardinality(Call(c).jobs) < MaxJobs /\ ~Exhausted(Call(c))
    /\ Go(c, [Call(c) EXCEPT !.pc = how])
    /\ UNCHANGED <<row, cursor, passes, probe, closed, quiesced>>

DiscoveryFails(c, how) ==
    /\ Call(c).pc = "turn"
    /\ PutBack(c, Call(c).pass, FALSE)
    /\ Go(c, LeaveTurn(Call(c), how))
    /\ UNCHANGED <<row, cursor, closed, quiesced>>

\* The first n of the pending keys in (after, upper].
FirstKeys(t, pass, n) ==
    LET range == {k \in Pending(t) : pass.after < k /\ k <= pass.upper}
    IN  {k \in range : Cardinality({i \in range : i <= k}) <= n}

FetchWindow(c) ==
    LET limit == IF Window < Call(c).raw THEN Window ELSE Call(c).raw
        window == FirstKeys(Call(c).tenant, Call(c).pass, limit)
    IN  /\ Call(c).pc = "turn" /\ Call(c).pass.started
        /\ Go(c, [Call(c) EXCEPT !.pc = "examine", !.window = window,
                                 !.raw = @ - Cardinality(window),
                                 !.full = Cardinality(window) = limit])
        /\ UNCHANGED <<row, cursor, passes, probe, closed, quiesced>>

CanExamine(c) == Call(c).pc = "examine" /\ Call(c).window # {} /\ Call(c).txs > 0

Candidate(c) == <<Call(c).tenant, Smallest(Call(c).window)>>

\* The cursor of the pass moves past the candidate.
Past(c) == [Call(c) EXCEPT !.window = @ \ {Smallest(@)}, !.pass.after = Smallest(Call(c).window)]

\* Due or admitted after the pass began: left to the next pass.
SkipLater(c) ==
    /\ CanExamine(c) /\ Smallest(Call(c).window) \notin Call(c).pass.known
    /\ Go(c, Past(c))
    /\ UNCHANGED <<row, cursor, passes, probe, closed, quiesced>>

\* leaseJobRunnerCandidate commits; one commit ends the turn.
CommitLease(c) ==
    /\ CanExamine(c) /\ Smallest(Call(c).window) \in Call(c).pass.known
    /\ row[Candidate(c)] = "pending"
    /\ row' = [row EXCEPT ![Candidate(c)] = "leased"]
    /\ Go(c, [Past(c) EXCEPT !.pc = "release", !.txs = @ - 1, !.jobs = @ \cup {Candidate(c)}])
    /\ UNCHANGED <<cursor, passes, probe, closed, quiesced>>

\* Ineligible, contended, gone, or over a local timeout: examined all the same.
MissLease(c) ==
    /\ CanExamine(c) /\ Smallest(Call(c).window) \in Call(c).pass.known
    /\ Go(c, [Past(c) EXCEPT !.txs = @ - 1])
    /\ UNCHANGED <<row, cursor, passes, probe, closed, quiesced>>

\* Any other error stops the call; the candidate was not examined.  Its
\* transaction may have committed without the call learning of it.
FailLease(c, committed) ==
    /\ CanExamine(c) /\ Smallest(Call(c).window) \in Call(c).pass.known
    /\ committed => row[Candidate(c)] = "pending"
    /\ row' = IF committed THEN [row EXCEPT ![Candidate(c)] = "out"] ELSE row
    /\ PutBack(c, Call(c).pass, FALSE)
    /\ Go(c, LeaveTurn([Call(c) EXCEPT !.txs = @ - 1], "failed"))
    /\ UNCHANGED <<cursor, closed, quiesced>>

\* The window is examined, or a budget ended the turn.
EndWindow(c) ==
    /\ Call(c).pc = "examine" /\ (Call(c).window = {} \/ Call(c).txs = 0 \/ closed)
    /\ Go(c, [Call(c) EXCEPT !.pc = "release"])
    /\ UNCHANGED <<row, cursor, passes, probe, closed, quiesced>>

\* Mutant of PassComplete: a turn that examined its window completes the pass.
PassCompleteOnCommit(call) == call.pass.after > 0

\* The pass is complete when its window was examined and was its last.
PassComplete(call) ==
    call.window = {} /\ (~call.full \/ call.pass.after = call.pass.upper)

ReleaseTurn(c) ==
    /\ Call(c).pc = "release"
    /\ PutBack(c, Call(c).pass, PassComplete(Call(c)))
    /\ Go(c, LeaveTurn(Call(c), "loop"))
    /\ UNCHANGED <<row, cursor, closed, quiesced>>

\* The call's time is over while it examines: the pass keeps what was examined.
Deadline(c) ==
    /\ Call(c).pc = "examine"
    /\ PutBack(c, Call(c).pass, PassComplete(Call(c)))
    /\ Go(c, LeaveTurn(Call(c), "return"))
    /\ UNCHANGED <<row, cursor, closed, quiesced>>

-----------------------------------------------------------------------------
(* Cleanup and quiesce.                                                    *)

\* One probe of the retained passes; at most 128 are in the map here.
CleanupProbe ==
    /\ ~closed /\ probe = {}
    /\ probe' = {t \in Tenant : passes[t].present /\ Pending(t) = {}}
    /\ UNCHANGED <<row, cursor, passes, calls, closed, quiesced>>

\* Mutant of CleanupDelete: the worker forgets its probe when the scheduler closes.
CleanupDeleteOpen ==
    /\ probe # {} /\ ~closed
    /\ passes' = [t \in Tenant |->
                    IF t \in probe /\ ~passes[t].busy THEN NoPass ELSE passes[t]]
    /\ probe' = {}
    /\ UNCHANGED <<row, cursor, calls, closed, quiesced>>

CleanupDelete ==
    /\ probe # {}
    /\ passes' = [t \in Tenant |->
                    IF t \in probe /\ ~passes[t].busy THEN NoPass ELSE passes[t]]
    /\ probe' = {}
    /\ UNCHANGED <<row, cursor, calls, closed, quiesced>>

\* The probe fails or ends with the scheduler: nothing is removed.
CleanupFails ==
    /\ probe # {} /\ probe' = {}
    /\ UNCHANGED <<row, cursor, passes, calls, closed, quiesced>>

Close ==
    /\ ~closed /\ closed' = TRUE
    /\ UNCHANGED <<row, cursor, passes, calls, probe, quiesced>>

\* The calls and the worker are joined, then the passes are cleared.
Quiesced ==
    /\ closed /\ ~quiesced
    /\ \A c \in Caller : Call(c).pc = "idle"
    /\ probe = {}
    /\ quiesced' = TRUE
    /\ passes' = [t \in Tenant |-> NoPass]
    /\ UNCHANGED <<row, cursor, calls, probe, closed>>

\* Producers, retries and expired leases make a row pending under a key; a
\* cancelled row leaves the index.
Arrive(r) ==
    /\ row[r] = "out"
    /\ row' = [row EXCEPT ![r] = "pending"]
    /\ UNCHANGED <<cursor, passes, calls, probe, closed, quiesced>>

Leave(r) ==
    /\ row[r] = "pending"
    /\ row' = [row EXCEPT ![r] = "out"]
    /\ UNCHANGED <<cursor, passes, calls, probe, closed, quiesced>>

-----------------------------------------------------------------------------
Init ==
    /\ row = [r \in Tenant \X Key |-> "out"]
    /\ cursor = 0
    /\ passes = [t \in Tenant |-> NoPass]
    /\ calls = [c \in Caller |-> NoCall]
    /\ probe = {} /\ closed = FALSE /\ quiesced = FALSE

Advance(c) ==
    \/ LoopStops(c) \/ Return(c) \/ Seek(c) \/ ProposalStale(c) \/ DiscoveryEnds(c)
    \/ MoveCursor(c) \/ StartPass(c) \/ StartPassEmpty(c) \/ FetchWindow(c)
    \/ SkipLater(c) \/ CommitLease(c) \/ MissLease(c) \/ EndWindow(c) \/ ReleaseTurn(c)

Fail(c) ==
    \/ \E how \in {"return", "failed"} : SeekFails(c, how) \/ DiscoveryFails(c, how)
    \/ \E committed \in BOOLEAN : FailLease(c, committed)
    \/ Deadline(c)

Worker == CleanupProbe \/ CleanupDelete \/ CleanupFails

Next ==
    \/ \E c \in Caller : Admit(c) \/ Advance(c) \/ Fail(c)
    \/ Worker \/ Close \/ Quiesced
    \/ \E r \in Tenant \X Key : Arrive(r) \/ Leave(r)

Spec == Init /\ [][Next]_vars

\* The row with the worst key of the last workspace.
LastRow == <<Tenants, Keys>>

\* Runners keep calling, calls and the worker run on, quiesce waits for them.
\* Discovery of a workspace does not time out, and the attempt on a candidate
\* does not fail or come too late, every time.  Only the last row is sure not to be missed every
\* time; all others may stay blocked for good.
Fairness ==
    /\ \A c \in Caller : WF_vars(Admit(c)) /\ WF_vars(Advance(c))
    /\ WF_vars(CleanupDelete) /\ WF_vars(Quiesced)
    /\ SF_vars(\E c \in Caller : Seek(c))
    /\ \A t \in Tenant :
          SF_vars(\E c \in Caller : Call(c).tenant = t /\ StartPass(c))
    /\ \A t \in Tenant :
          SF_vars(\E c \in Caller : Call(c).tenant = t /\ FetchWindow(c))
    /\ \A r \in Tenant \X Key :
          SF_vars(\E c \in Caller : CanExamine(c) /\ Candidate(c) = r
                                      /\ (CommitLease(c) \/ MissLease(c) \/ SkipLater(c)))
    /\ SF_vars(\E c \in Caller : CanExamine(c) /\ Candidate(c) = LastRow /\ CommitLease(c))

FairSpec == Spec /\ Fairness

-----------------------------------------------------------------------------
(* Properties.                                                             *)

Working(c) == Call(c).pc \in {"turn", "examine", "release"}

\* A tenant's turn has one owner, and the owner's pass is in the map: neither
\* another call nor the cleanup worker takes it away.
OneOwner ==
    \A t \in Tenant :
        Cardinality({c \in Caller : Working(c) /\ Call(c).tenant = t})
          = IF passes[t].busy THEN 1 ELSE 0

\* A lease that a call committed and knows of stays with it until it is handed
\* to the caller, through budget stops, timeouts and failures.
NothingHidden ==
    \A r \in Tenant \X Key :
        row[r] = "leased" <=> \E c \in Caller : r \in Call(c).jobs

\* A pass goes forward: until it ends, its bounds stay and its cursor does not
\* move back, whichever calls continue it.
PassGoesForward ==
    [][\A t \in Tenant : passes[t].started /\ passes'[t].present =>
          /\ passes'[t].upper = passes[t].upper /\ passes'[t].known = passes[t].known
          /\ passes'[t].after >= passes[t].after]_vars

\* Nobody starves: the row with the worst key of the last workspace is leased
\* although better rows and other workspaces keep arriving and being leased, or
\* stay blocked: a pass leaves to the next one what arrives behind its start.
NoStarvation == (row[LastRow] = "pending") ~> (row[LastRow] # "pending" \/ closed)

\* Quiesce ends whatever the calls were doing.
QuiesceEnds == closed ~> quiesced

=============================================================================
