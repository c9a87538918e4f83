------------------------------ MODULE Sandbox -------------------------------
(***************************************************************************)
(* The Sandbox service of one Session, composed: the workers of            *)
(* SandboxWorkers with everything that acts on the same database from      *)
(* outside.  The Bridge accepts Tool calls and interrupts them, the        *)
(* Runtime's end consumes them, the API changes resources and deletes the  *)
(* Session, the Job Runner delivers the delete's cleanup, and the          *)
(* Environment builder settles artifacts.                                  *)
(***************************************************************************)
EXTENDS SandboxWorkers

Init ==
  /\ \E a \in {"building", "ready"} :
       db = [session |-> "live",
             bnd |-> Unbound,
             desired |-> 1, artifact |-> <<a>>, ops |-> << >>,
             ex |-> [e \in Tools |-> Execution], q |-> [p \in Partitions |-> << >>]]
  /\ w = [p \in Partitions |-> Idle]
  /\ cleanup = [pc |-> "idle", last |-> FALSE]
  /\ provider = << >>
  /\ late = {}
  /\ sent = [run |-> [e \in Tools |-> 0], cancel |-> [e \in Tools |-> 0], release |-> << >>]
  /\ left = [faults |-> MaxFaults, requests |-> MaxRequests]

-----------------------------------------------------------------------------
(* The Bridge and the Runtime.                                             *)

\* AcceptSandboxExecution
Accept(e) ==
  /\ db.session = "live"
  /\ db.ex[e].state = "none"
  /\ db' = Enqueue(SetEx(db, e, [db.ex[e] EXCEPT !.state = "pending", !.gen = 1]), Exec(e), 1)
  /\ UNCHANGED <<w, External, left>>

Interrupt ==
  /\ \E S \in SUBSET Open(db) : S # {} /\ db' = ReadyReleases(InterruptTools(db, S))
  /\ Request("interrupt")
  /\ UNCHANGED <<w, External>>

\* SettleRuntimeTerminationTx, and the loss of the Runtime's pod.
Terminate ==
  /\ Open(db) # {}
  /\ Request("interrupt")
  /\ db' = ReadyReleases(ConsumeAll(db))
  /\ UNCHANGED <<w, External>>

-----------------------------------------------------------------------------
(* The API.  It changes and deletes only a Session that is not running,    *)
(* and an open execution belongs to a running turn.                        *)

\* RecordSessionResourceMutation
Mutate ==
  LET d1 == [db EXCEPT !.desired = @ + 1] IN
  /\ db.session = "live"
  /\ Open(db) = {}
  /\ Request("mutation")
  /\ db' = IF db.bnd.handle # 0 /\ ~db.bnd.release THEN EnsureMaterialization(d1) ELSE d1
  /\ UNCHANGED <<w, External>>

Delete ==
  /\ db.session = "live"
  /\ Open(db) = {}
  /\ Request("delete")
  /\ db' = EnsureSessionDelete([db EXCEPT !.session = "deleted"], db.bnd.handle)
  /\ UNCHANGED <<w, External>>

-----------------------------------------------------------------------------
(* The delivery of the delete's cleanup.  Its last attempt only looks.     *)

\* The delivery goes on, or is retried; after its last attempt it is rejected.
Cleaned(d, last, pc) ==
  /\ db' = IF pc = "idle" /\ last THEN [d EXCEPT !.session = "rejected"] ELSE d
  /\ cleanup' = [pc |-> pc, last |-> last /\ pc # "idle"]

\* The Runtime binding, while the Session has one, has its executions expired.
CleanupEnsures ==
  /\ cleanup.pc = "idle"
  /\ db.session = "deleted"
  /\ \E d \in {db, ConsumeAll(db)} :
       LET d1 == EnsureSessionDelete(d, d.bnd.handle)
           d2 == EnsureFailedSessionDelete(d1)
       IN \/ Cleaned(d2, FALSE, IF ReleaseComplete(d) /\ d2 = d1 THEN "custody" ELSE "idle")
          \/ Cleaned(d, TRUE, IF ReleaseComplete(d) THEN "custody" ELSE "idle")
  /\ UNCHANGED <<w, provider, late, sent, left>>

\* Mutant of IncompleteReleases: a release that a successor replaced still counts.
IncompleteReleasesAll(d) ==
  {r \in OpIds(d) : d.ops[r].kind = "release" /\ d.ops[r].state # "completed"}

IncompleteReleases(d) ==
  {r \in OpIds(d) : d.ops[r].kind = "release" /\ ~d.ops[r].sup /\ d.ops[r].state # "completed"}

\* A background task has its own open job until it ends.
OpenJobs(d) ==
  \/ \E p \in Partitions \ {Fanout} : d.q[p] # << >>
  \/ \E e \in Tools : d.ex[e].task # 0

CleanupChecks ==
  /\ cleanup.pc = "custody"
  /\ Cleaned(db, cleanup.last, IF IncompleteReleases(db) = {} /\ ~OpenJobs(db) THEN "rows" ELSE "idle")
  /\ UNCHANGED <<w, provider, late, sent, left>>

CleanupDeletes ==
  /\ cleanup.pc = "rows"
  /\ Cleaned([db EXCEPT !.session = "purged", !.bnd = Unbound,
                        !.ops = [o \in OpIds(db) |-> [db.ops[o] EXCEPT !.state = "deleted"]],
                        !.ex = [e \in Tools |-> Execution]], FALSE, "idle")
  /\ UNCHANGED <<w, provider, late, sent, left>>

-----------------------------------------------------------------------------
(* The Environment: a new generation, and the end of a generation's build. *)

NewGeneration ==
  /\ Request("rebuild")
  /\ db' = [db EXCEPT !.artifact = Append(@, "building")]
  /\ UNCHANGED <<w, External>>

BuildEnds ==
  /\ \E g \in DOMAIN db.artifact :
       /\ db.artifact[g] = "building"
       /\ \/ db' = MarkEnvironmentBuildReady(db, g) /\ UNCHANGED left
          \/ Fault("failure") /\ db' = MarkEnvironmentBuildTerminalFailure(db, g)
  /\ UNCHANGED <<w, External>>

-----------------------------------------------------------------------------
(* A worker's own steps; the faults around them are left out.              *)
LifeStep ==
  \/ ClaimLifecycle \/ LookForActivation \/ CallActivate \/ CallActivateFails
  \/ ConfirmActivation \/ CommitActivation \/ LookForMaterialization \/ CallMaterialize
  \/ CallMaterializeFails \/ ParkRelease \/ LookForRelease \/ CallRelease \/ CommitRelease

ExecStep(e) ==
  \/ LoadExecution(e) \/ InspectForExecution(e) \/ Depend(e) \/ BeginPreparing(e)
  \/ AuthorizeRunning(e) \/ PreparationFails(e) \/ ExecuteTool(e) \/ ToolReplies(e) \/ ObserveTool(e)

CancelStep(e) == ClaimCancellation(e) \/ CallCancel(e)

QueueStep(p) == Lease(p) \/ Finish(p) \/ Exhausted(p) \/ Retry(p) \/ BackoffEnds(p)

CleanupStep == CleanupEnsures \/ CleanupChecks \/ CleanupDeletes

Work ==
  \/ LifeStep \/ FanoutReady
  \/ \E e \in Tools : ExecStep(e) \/ CancelStep(e)
  \/ \E p \in Partitions : QueueStep(p)

Disturbance ==
  \/ InspectionFails \/ CallReleaseFails
  \/ LateEffect \/ Stops \/ Loses
  \/ \E p \in Partitions : LoseLease(p) \/ OverLimit(p)

Demand ==
  \/ Interrupt \/ Terminate \/ Mutate \/ Delete \/ CleanupStep
  \/ NewGeneration \/ BuildEnds
  \/ \E e \in Tools : Accept(e) \/ DeadlinePasses(e) \/ TaskEnds(e)

Next == Work \/ Disturbance \/ Demand

Spec == Init /\ [][Next]_vars

\* The program counters at which a worker has a step of its own.
WorkerPcs == {"start", "park", "again", "look", "call", "confirm", "commit", "need_activation",
              "need_creation", "need_materialization", "prepare", "authorize", "submit", "reply", "observe"}

QueueReady(p) ==
  IF At(p, "idle") THEN db.q[p] # << >> ELSE w[p].pc \in {"done", "retry", "exhausted"}

\* At least then a delivery of the cleanup changes something.
CleanupReady ==
  \/ cleanup.pc # "idle"
  \/ db.session = "deleted" /\ (ReleaseComplete(db) \/ FailedReleases(db) # {})

\* Every worker goes on, the Queue leases what is due and lets backoffs end,
\* time passes, background commands and builds end, and the delete's cleanup is
\* delivered again and again.  Nothing that goes wrong has to.
Fairness ==
  /\ []<>(w[Life].pc \notin WorkerPcs) \/ []<><<LifeStep>>_vars
  /\ []<>(~At(Fanout, "start")) \/ []<><<FanoutReady>>_vars
  /\ \A e \in Tools :
       /\ []<>(w[Exec(e)].pc \notin WorkerPcs) \/ []<><<ExecStep(e)>>_vars
       /\ []<>(w[Cancel(e)].pc \notin WorkerPcs) \/ []<><<CancelStep(e)>>_vars
       /\ []<>(db.ex[e].state # "preparing" \/ db.ex[e].late) \/ []<><<DeadlinePasses(e)>>_vars
       /\ []<>(db.ex[e].task = 0) \/ []<><<TaskEnds(e)>>_vars
  /\ \A p \in Partitions : []<>(~QueueReady(p)) \/ []<><<QueueStep(p)>>_vars
  /\ []<>(\A g \in DOMAIN db.artifact : db.artifact[g] # "building") \/ []<><<BuildEnds>>_vars
  /\ []<>(~CleanupReady) \/ []<><<CleanupStep>>_vars

FairSpec == Spec /\ Fairness

-----------------------------------------------------------------------------
(* Safety.                                                                 *)

\* A Tool call that is reported as failed before it started, or as not started
\* by an interrupt, was never sent to the provider, whichever of the worker's
\* settlement, the exhausted budget, the interrupt and the deletion came first.
HonestOutcome ==
  \A e \in Tools : db.ex[e].out \in {"failed", "notstarted"} => sent.run[e] = 0

\* A command is sent to the provider at most once, and so is its cancellation,
\* through redeliveries of a job whose worker was lost after sending.
SubmittedOnce ==
  \A e \in Tools : sent.run[e] <= 1 /\ sent.cancel[e] <= 1

\* One release operation calls the provider's release at most once; a delivery
\* that finds it submitted only observes.
NoBlindSecondRelease ==
  \A i, j \in DOMAIN sent.release : sent.release[i] = sent.release[j] => i = j

\* From the moment a release is authorized no execution is authorized on its
\* handle and no background command runs there: the release fence, the blocker
\* check of the claim and the authorization of executions exclude each other
\* although each is a transaction of its own.
ReleaseExclusive ==
  \A r \in OpIds(db) :
    LET op == db.ops[r] IN
    op.kind = "release" /\ (op.bound \in {"submitted", "outcome_unknown"} \/ op.state = "completed")
    => \A e \in Tools : /\ db.ex[e].task # op.target
                        /\ db.ex[e].state \in {"preparing", "running"} => db.ex[e].auth # op.target

\* Concurrent executions share one unfinished activation, one unfinished
\* materialization and one current release of a handle, whatever each of them
\* observed before.
SingleFlight ==
  /\ Cardinality(UnfinishedActivation(db)) <= 1
  /\ Cardinality(UnfinishedMaterialization(db)) <= 1
  /\ \A h \in DOMAIN provider : Cardinality(CurrentReleases(db, h)) <= 1

\* A pending release that nothing blocks has a job: a release gives its job up
\* while it is blocked, and the transaction that removes the last blocker makes
\* the next one (lifecycle_release.go: a later maintenance pass is not a
\* substitute for custody).
ReleaseCustody ==
  \A r \in OpIds(db) : PendingRelease(db, r) /\ ~Blocked(db, r) => HasJob(db, Life, r)

\* Somebody is going to continue every unfinished activation and
\* materialization: a job, the build or fanout it waits for, or the activation
\* it waits for.  No worker acknowledges a job and leaves its operation open.
OperationCustody ==
  \A o \in OpIds(db) :
    LET op == db.ops[o] IN
    op.kind # "release" =>
      /\ op.state \in {"pending", "running"} => HasJob(db, Life, o)
      /\ op.state = "waiting_artifact" =>
           db.artifact[op.env] = "building" \/ HasJob(db, Fanout, op.env)
      /\ op.state = "waiting_activation" => op.wait \in UnfinishedActivation(db)

\* An execution that is not waiting has a job of its current attempt
\* generation, although the job of the generation before may still be leased.
ExecutionCustody ==
  \A e \in Tools : db.ex[e].state \in InFlightStates => HasJob(db, Exec(e), db.ex[e].gen)

\* The operation a waiting execution waits for is unfinished: whoever completes,
\* fails or replaces an operation moves its waiters in the same transaction.
NoStrandedWaiter ==
  \A e \in Tools : db.ex[e].state \in Waiting =>
    db.ex[e].op \in UnfinishedActivation(db) \cup UnfinishedMaterialization(db)

\* A sandbox that was ever recorded in the binding and still exists is bound or
\* somebody's to release: replacement, deletion and the purge of the Session's
\* rows forget none.
HandleCustody ==
  \A o \in OpIds(db) :
    db.ops[o].made \in Alive =>
      \/ db.bnd.handle = db.ops[o].made
      \/ \E r \in CurrentReleases(db, db.ops[o].made) : db.ops[r].state \in {"pending", "running", "failed"}

-----------------------------------------------------------------------------
(* Liveness.                                                               *)

\* Every accepted Tool call ends: it is settled or consumed, through stopped
\* and lost sandboxes, lost workers and every operation it has to wait for.
ExecutionEnds == \A e \in Tools : (e \in Open(db)) ~> (e \notin Open(db))

\* A creation that may have left a sandbox nobody can name.
UnknownCreation(d) ==
  \E o \in OpIds(d) : /\ d.ops[o].kind \in {"create", "replace"}
                      /\ d.ops[o].state = "failed" /\ d.ops[o].bound = "outcome_unknown"

\* A deleted Session is purged, or its cleanup is rejected on its last attempt;
\* until then failed releases get successors.  Only a creation whose outcome
\* stays unknown keeps it waiting.
DeleteEnds ==
  (db.session = "deleted") ~> (db.session \in {"purged", "rejected"} \/ UnknownCreation(db))
=============================================================================
