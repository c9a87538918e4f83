---------------------------- MODULE SandboxStore ----------------------------
(***************************************************************************)
(* The durable side of the Sandbox service for one Session: the Sandbox    *)
(* binding, the lifecycle operations (create, start, replace, materialize, *)
(* release), the Tool executions that wait on them, and the Queue          *)
(* partitions that carry their jobs.  A transaction of the service is an   *)
(* operator from a database to a database; SandboxWorkers.tla says which   *)
(* worker runs which of them, and when.                                    *)
(*                                                                         *)
(* A database is a record                                                  *)
(*   session   "live", "deleted" (delete accepted) or "purged"             *)
(*   bnd       the binding: exists, handle (0: none), rev (revision), mat  *)
(*             (materialized resource revision, 0: none), release          *)
(*   desired   the Session's resource revision                             *)
(*   artifact  the artifacts of the Environment's generations, the last of *)
(*             them current: "building", "ready" or "failed"               *)
(*   ops       the lifecycle operations, by insertion; an operation's id   *)
(*             is its position, job says it has a Queue identity, made is  *)
(*             the handle it recorded in the binding (kept for properties) *)
(*   ex        the Tool executions                                         *)
(*   q         the Queue, as one sequence of jobs for each partition; a    *)
(*             job names an operation or an attempt generation             *)
(***************************************************************************)
EXTENDS Naturals, Sequences, FiniteSets

CONSTANTS Tools,     \* the Sandbox Tool uses of the Session
          Attempts   \* Queue attempts of a job (activation has one more)

ASSUME AttemptsAssumption == Attempts \in Nat \ {0}

Life == <<"life">>
Fanout == <<"fanout">>
Exec(e) == <<"exec", e>>
Cancel(e) == <<"cancel", e>>
Partitions == {Life, Fanout} \cup {Exec(e) : e \in Tools} \cup {Cancel(e) : e \in Tools}

ActivationKinds == {"create", "start", "replace"}
Terminal == {"completed", "failed", "abandoned", "skipped_cold"}

OpIds(d) == 1..Len(d.ops)
SetOp(d, o, op) == [d EXCEPT !.ops[o] = op]
SetEx(d, e, x) == [d EXCEPT !.ex[e] = x]
SetBnd(d, b) == [d EXCEPT !.bnd = b]

Execution == [state |-> "none", gen |-> 0, op |-> 0, auth |-> 0, arev |-> 0, ref |-> FALSE,
              task |-> 0, out |-> "none", cancel |-> "none", late |-> FALSE]

Unbound == [exists |-> FALSE, handle |-> 0, rev |-> 0, mat |-> 0, release |-> FALSE]

-----------------------------------------------------------------------------
(* Queue jobs.  Enqueueing dedupes on the work a live job already names.   *)

\* The elements of a finite set of numbers in ascending order, its smallest
\* element, and the subsequence of s at the positions I.
InOrder(S) == [i \in 1..Cardinality(S) |-> CHOOSE x \in S : Cardinality({y \in S : y < x}) = i - 1]
Smallest(S) == CHOOSE x \in S : \A y \in S : x <= y
Kept(s, I) == [i \in 1..Cardinality(I) |-> s[InOrder(I)[i]]]

Job(r) == [ref |-> r, st |-> "due", att |-> 0]

Named(s, r) == \E i \in DOMAIN s : s[i].ref = r
HasJob(d, p, r) == Named(d.q[p], r)

Added(s, r) == IF Named(s, r) THEN s ELSE Append(s, Job(r))

Enqueue(d, p, r) == [d EXCEPT !.q[p] = Added(d.q[p], r)]

RemoveJob(d, p, r) ==
  [d EXCEPT !.q[p] = Kept(d.q[p], {i \in DOMAIN d.q[p] : d.q[p][i].ref # r})]

SetJob(d, p, r, st) ==
  [d EXCEPT !.q[p] = [i \in DOMAIN d.q[p] |-> IF d.q[p][i].ref = r THEN [d.q[p][i] EXCEPT !.st = st]
                                              ELSE d.q[p][i]]]

\* CancelTx reaches a job nobody has leased.
CancelPending(d, p, R) ==
  [d EXCEPT !.q[p] = Kept(d.q[p], {i \in DOMAIN d.q[p] : \/ d.q[p][i].ref \notin R
                                                         \/ d.q[p][i].st = "leased"})]

\* The operations of S get a job each, in the order of their insertion.
QueueOps(d, S) ==
  LET new == InOrder({o \in S : ~HasJob(d, Life, o)})
  IN [d EXCEPT !.ops = [o \in OpIds(d) |-> IF o \in S THEN [d.ops[o] EXCEPT !.job = TRUE]
                                           ELSE d.ops[o]],
               !.q[Life] = d.q[Life] \o [i \in DOMAIN new |-> Job(new[i])]]

Operation(d, kind, target) ==
  [kind |-> kind, state |-> "pending", bound |-> "none", rev |-> d.bnd.rev,
   target |-> target, env |-> 0, res |-> 0, wait |-> 0, reason |-> "none",
   job |-> FALSE, sup |-> FALSE, made |-> 0]

InsertOp(d, op) ==
  LET d1 == [d EXCEPT !.ops = Append(d.ops, op)]
  IN IF op.state = "waiting_artifact" THEN d1 ELSE QueueOps(d1, {Len(d1.ops)})

UnfinishedActivation(d) ==
  {o \in OpIds(d) : /\ d.ops[o].kind \in ActivationKinds
                    /\ d.ops[o].state \in {"pending", "waiting_artifact", "running"}}

UnfinishedMaterialization(d) ==
  {o \in OpIds(d) : /\ d.ops[o].kind = "materialize"
                    /\ d.ops[o].state \in {"pending", "waiting_activation", "running"}}

-----------------------------------------------------------------------------
(* Releases.  A release waits for every use of its handle; the transaction *)
(* that ends the last use gives the release its next job.                  *)

\* Mutant of Blocked: background commands are forgotten.
BlockedNoTasks(d, r) ==
  \/ \E e \in Tools : /\ d.ex[e].state \in {"preparing", "running"}
                      /\ d.ex[e].auth = d.ops[r].target
  \/ \E o \in OpIds(d) \ {r} : d.ops[o].kind # "release" /\ d.ops[o].state = "running"

Blocked(d, r) ==
  \/ \E e \in Tools : /\ d.ex[e].state \in {"preparing", "running"}
                      /\ d.ex[e].auth = d.ops[r].target
  \/ \E e \in Tools : d.ex[e].task = d.ops[r].target
  \/ \E o \in OpIds(d) \ {r} : d.ops[o].kind # "release" /\ d.ops[o].state = "running"

PendingRelease(d, r) ==
  d.ops[r].kind = "release" /\ d.ops[r].state = "pending" /\ ~d.ops[r].sup

ReadyReleases(d) ==
  QueueOps(d, {r \in OpIds(d) : PendingRelease(d, r) /\ ~Blocked(d, r) /\ ~HasJob(d, Life, r)})

\* Once the released handle of a deleted Session is gone, the binding lets go of it.
ApplyPostcondition(d, h, reason) ==
  IF h = d.bnd.handle /\ reason = "session_delete"
  THEN SetBnd(d, [d.bnd EXCEPT !.handle = 0, !.rev = @ + 1, !.mat = 0])
  ELSE d

CurrentReleases(d, h) ==
  {r \in OpIds(d) : d.ops[r].kind = "release" /\ d.ops[r].target = h /\ ~d.ops[r].sup}

NewRelease(d, h, reason) ==
  InsertOp(d, [Operation(d, "release", h) EXCEPT !.reason = reason])

StrongerReason(stored, reason) == IF reason = "session_delete" THEN reason ELSE stored

\* Each of the releases S gets a successor, which supersedes it.
Supersede(d, S, reason) ==
  LET old == InOrder(S)
      next(i) == [Operation(d, "release", d.ops[old[i]].target)
                    EXCEPT !.reason = StrongerReason(d.ops[old[i]].reason, reason)]
      n == Len(d.ops)
      d1 == [d EXCEPT !.ops = [o \in OpIds(d) |-> IF o \in S THEN [d.ops[o] EXCEPT !.sup = TRUE]
                                                  ELSE d.ops[o]]
                              \o [i \in DOMAIN old |-> next(i)]]
  IN QueueOps(d1, (n + 1)..(n + Len(old)))

EnsureRelease(d, h, reason) ==
  LET R == CurrentReleases(d, h)
      r == CHOOSE x \in R : TRUE
      op == [d.ops[r] EXCEPT !.reason = StrongerReason(@, reason)]
      d1 == SetOp(d, r, op)
  IN CASE R = {} -> NewRelease(d, h, reason)
       [] R # {} /\ op.state = "completed" -> ApplyPostcondition(d, h, op.reason)
       [] R # {} /\ op.state = "failed" -> Supersede(d, {r}, reason)
       [] OTHER -> QueueOps(d1, {x \in {r} : /\ PendingRelease(d1, r) /\ ~Blocked(d1, r)
                                             /\ ~HasJob(d1, Life, r)})

\* A creation whose effect is not settled may still leave a sandbox behind.
UnresolvedCreation(d) ==
  \E o \in OpIds(d) : /\ d.ops[o].kind \in {"create", "replace"}
                      /\ \/ d.ops[o].state = "running"
                         \/ d.ops[o].state = "failed" /\ d.ops[o].bound = "outcome_unknown"

ReleaseComplete(d) ==
  IF d.bnd.handle = 0 THEN ~UnresolvedCreation(d)
  ELSE \E r \in CurrentReleases(d, d.bnd.handle) : d.ops[r].state = "completed"

-----------------------------------------------------------------------------
(* Tool executions and their waits.                                        *)

Waiting == {"waiting_activation", "waiting_materialization"}

InFlightStates == {"pending", "preparing", "running"}

Waiters(d, o) == {e \in Tools : d.ex[e].state \in Waiting /\ d.ex[e].op = o}

SettleRow(x, out) == [x EXCEPT !.state = "terminal", !.out = out, !.op = 0, !.auth = 0]

SettleRows(d, W) ==
  [d EXCEPT !.ex = [e \in Tools |-> IF e \in W THEN SettleRow(d.ex[e], "failed") ELSE d.ex[e]]]

SettleWaiters(d, S) == SettleRows(d, {e \in Tools : \E o \in S : e \in Waiters(d, o)})

\* The result of a job of attempt generation g is recorded only while the row
\* is still that generation's and not settled.
Settle(d, e, g, out) ==
  IF d.ex[e].gen = g /\ d.ex[e].state \notin {"terminal", "consumed"}
  THEN ReadyReleases(SetEx(d, e, SettleRow(d.ex[e], out)))
  ELSE d

ReleaseRow(x) == [x EXCEPT !.state = "pending", !.gen = @ + 1, !.op = 0]

\* Mutant of ReleaseWaiters: the waiter keeps its attempt generation.
ReleaseWaitersSameGeneration(d, W) ==
  [d EXCEPT !.ex = [e \in Tools |-> IF e \in W THEN [ReleaseRow(d.ex[e]) EXCEPT !.gen = d.ex[e].gen]
                                    ELSE d.ex[e]],
            !.q = [p \in Partitions |-> IF \E e \in W : p = Exec(e) THEN Added(d.q[p], d.ex[p[2]].gen)
                                        ELSE d.q[p]]]

\* Each released waiter gets a new attempt generation and its job.
ReleaseWaiters(d, W) ==
  [d EXCEPT !.ex = [e \in Tools |-> IF e \in W THEN ReleaseRow(d.ex[e]) ELSE d.ex[e]],
            !.q = [p \in Partitions |-> IF \E e \in W : p = Exec(e)
                                        THEN Added(d.q[p], d.ex[p[2]].gen + 1) ELSE d.q[p]]]

\* Mutant of EnsureMaterialization: every caller gets an operation of its own.
EnsureMaterializationAlways(d) ==
  InsertOp(d, [Operation(d, "materialize", d.bnd.handle) EXCEPT !.res = d.desired])

\* An unfinished materialization is reused whatever it was built for.
EnsureMaterialization(d) ==
  IF UnfinishedMaterialization(d) # {} THEN d
  ELSE InsertOp(d, [Operation(d, "materialize", d.bnd.handle) EXCEPT !.res = d.desired])

AttachRow(x, m) == [x EXCEPT !.state = "waiting_materialization", !.op = m]

AttachToMaterialization(d, W) ==
  LET d1 == EnsureMaterialization(d)
      m == CHOOSE x \in UnfinishedMaterialization(d1) : TRUE
  IN [d1 EXCEPT !.ex = [e \in Tools |-> IF e \in W THEN AttachRow(d.ex[e], m) ELSE d.ex[e]]]

Dependents(d, o) == {m \in OpIds(d) : d.ops[m].state = "waiting_activation" /\ d.ops[m].wait = o}

\* The operations of S go to another state.
SetStates(d, S, state) ==
  [d EXCEPT !.ops = [o \in OpIds(d) |-> IF o \in S THEN [d.ops[o] EXCEPT !.state = state]
                                        ELSE d.ops[o]]]

FailDependents(d, S) ==
  LET M == {m \in OpIds(d) : \E o \in S : m \in Dependents(d, o)}
  IN SettleWaiters(SetStates(d, M, "failed"), M)

\* Mutant of FailOp: nobody tells the waiters.
FailOpQuietly(d, o, bound) ==
  ReadyReleases(SetOp(d, o, [d.ops[o] EXCEPT !.state = "failed", !.bound = bound]))

FailOps(d, S, bound) ==
  LET d1 == [d EXCEPT !.ops = [o \in OpIds(d) |->
                                 IF o \in S THEN [d.ops[o] EXCEPT !.state = "failed", !.bound = bound]
                                 ELSE d.ops[o]]]
      d2 == SettleWaiters(d1, S)
  IN IF \A o \in S : d.ops[o].kind = "release" THEN d2
     ELSE ReadyReleases(FailDependents(d2, {o \in S : d.ops[o].kind \in ActivationKinds}))

FailOp(d, o, bound) == FailOps(d, {o}, bound)

WaitingArtifact(d, g) == {o \in OpIds(d) : d.ops[o].state = "waiting_artifact" /\ d.ops[o].env = g}

FailWaitingArtifact(d, g) == FailOps(d, WaitingArtifact(d, g), "proved_not_started")

AbandonOp(d, o) == ReadyReleases(SetStates(d, {o}, "abandoned"))

SettleSessionWaiters(d) == SettleRows(d, {e \in Tools : d.ex[e].state \in Waiting \cup {"pending"}})

\* Operations that nobody has claimed are given up, with their jobs.
AbandonDependencies(d) ==
  LET S == {o \in OpIds(d) : /\ d.ops[o].kind # "release"
                             /\ d.ops[o].state \in {"pending", "waiting_artifact", "waiting_activation"}}
  IN CancelPending(SetStates(d, S, "abandoned"), Life, S)

\* No new work is authorized from now on.
RequestRelease(d) ==
  AbandonDependencies(SettleSessionWaiters(SetBnd(d, [d.bnd EXCEPT !.release = TRUE])))

\* The release of a deleted Session.
EnsureSessionDelete(d, h) ==
  CASE ~d.bnd.exists -> d
    [] d.bnd.exists /\ h = 0 -> RequestRelease(d)
    [] OTHER -> EnsureRelease(RequestRelease(d), h, "session_delete")

FailedReleases(d) ==
  {r \in OpIds(d) : d.ops[r].kind = "release" /\ d.ops[r].state = "failed" /\ ~d.ops[r].sup}

\* All of them at once what EnsureSessionDelete does for one handle.
EnsureFailedSessionDelete(d) ==
  IF ~d.bnd.exists \/ FailedReleases(d) = {} THEN d
  ELSE Supersede(RequestRelease(d), FailedReleases(d), "session_delete")

-----------------------------------------------------------------------------
(* Transactions of the lifecycle workers.  Each yields the new database    *)
(* and what its worker does next: a program counter of SandboxWorkers, or  *)
(* "error" when the transaction rolls back and the lease is left to run    *)
(* out.                                                                    *)

Then(d, pc) == [db |-> d, pc |-> pc]

Generation(d) == Len(d.artifact)

\* Mutant of Claimed: a claim forgets what a previous delivery submitted.
ClaimedAfresh(d, o) == SetOp(d, o, [d.ops[o] EXCEPT !.state = "running", !.bound = "none"])

Claimed(d, o) == SetOp(d, o, [d.ops[o] EXCEPT !.state = "running"])

\* The common shape of the two guarded claims.  Work that has become stale is
\* abandoned if a previous delivery had claimed it, else just acknowledged.
Claim(d, o, stale) ==
  LET op == d.ops[o] IN
  IF op.state \notin {"pending", "running"} \/ ~op.job THEN Then(d, "done")
  ELSE IF op.state = "pending" /\ stale THEN Then(d, "done")
  ELSE IF op.state = "running" /\ op.bound = "none" /\ stale THEN Then(AbandonOp(d, o), "done")
  ELSE Then(Claimed(d, o), "look")

ClaimActivation(d, o) ==
  LET op == d.ops[o] IN
  IF op.kind # "start" /\ d.artifact[op.env] # "ready" THEN Then(d, "retry")
  ELSE Claim(d, o, \/ op.rev # d.bnd.rev
                   \/ d.bnd.release
                   \/ op.target # 0 /\ op.target # d.bnd.handle)

ClaimMaterialization(d, o) ==
  Claim(d, o, \/ d.bnd.handle = 0
              \/ d.bnd.release
              \/ d.ops[o].rev # d.bnd.rev
              \/ d.ops[o].target # d.bnd.handle)

\* A materialization that waited is bound to what its activation made.
Rebound(d, o) ==
  [d EXCEPT !.ops = [m \in OpIds(d) |->
     IF m \in Dependents(d, o)
     THEN [d.ops[m] EXCEPT !.state = "pending", !.wait = 0, !.rev = d.bnd.rev, !.target = d.bnd.handle]
     ELSE d.ops[m]]]

\* Mutant of RequeueMaterializations: the job they gave up is not made again.
RequeueMaterializationsJobless(d, o) == Rebound(d, o)

RequeueMaterializations(d, o) == QueueOps(Rebound(d, o), Dependents(d, o))

CompleteActivation(d, o, h) ==
  LET op == d.ops[o]
      old == d.bnd.handle
      W == Waiters(d, o)
      kept == op.kind = "start" /\ old = h
      d1 == SetOp(d, o, [op EXCEPT !.state = "completed"])
      d2 == SetBnd(SetOp(d, o, [op EXCEPT !.state = "completed", !.bound = "none", !.made = h]),
                   [d.bnd EXCEPT !.handle = h, !.rev = @ + 1, !.mat = IF kept THEN @ ELSE 0])
      d3 == IF op.kind = "replace" /\ old \notin {0, h}
            THEN EnsureRelease(d2, old, "replaced_handle") ELSE d2
      d4 == RequeueMaterializations(d3, o)
  IN ReadyReleases(
       CASE op.rev # d.bnd.rev -> IF d.bnd.release THEN d1 ELSE ReleaseWaiters(d1, W)
         [] op.rev = d.bnd.rev /\ d.bnd.release -> EnsureSessionDelete(d3, h)
         [] OTHER -> IF W = {} THEN d4
                     ELSE IF d4.bnd.mat = d4.desired THEN ReleaseWaiters(d4, W)
                     ELSE AttachToMaterialization(d4, W))

\* The sandbox a start meant to wake no longer exists: the same operation goes
\* on as a replacement, if it may still be submitted.
ReplaceMissingActivation(d, o) ==
  LET op == d.ops[o]
      replace == [op EXCEPT !.kind = "replace", !.target = 0, !.env = Generation(d), !.bound = "none"]
      artifact == d.artifact[Generation(d)]
  IN IF op.bound = "none" /\ (op.rev # d.bnd.rev \/ op.target # d.bnd.handle \/ d.bnd.release)
     THEN Then(AbandonOp(d, o), "done")
     ELSE IF artifact = "building"
     THEN Then(ReadyReleases(SetOp(d, o, [replace EXCEPT !.state = "waiting_artifact", !.job = FALSE])),
               "done")
     ELSE IF artifact = "failed"
     THEN Then(FailOp(SetOp(d, o, [replace EXCEPT !.job = FALSE]), o, "proved_not_started"), "done")
     ELSE Then(SetOp(d, o, replace), "look")

\* An unknown creation is recorded once; a delivery that finds the record
\* already made has nothing to do.
ObserveUnknownActivation(d, o) ==
  IF d.ops[o].bound = "none"
  THEN Then(SetOp(d, o, [d.ops[o] EXCEPT !.bound = "outcome_unknown"]), "retry")
  ELSE Then(d, "done")

\* The sandbox is not running: a materialization with waiters waits for an
\* activation, one without is not worth waking it.
EnsureActivation(d, kind) ==
  IF UnfinishedActivation(d) # {} THEN d
  ELSE InsertOp(d, IF kind = "start" THEN Operation(d, "start", d.bnd.handle)
                   ELSE [Operation(d, "replace", 0) EXCEPT !.env = Generation(d)])

WaitMaterializationForActivation(d, m, kind) ==
  LET d1 == EnsureActivation(d, kind)
      a == CHOOSE x \in UnfinishedActivation(d1) : TRUE
      d2 == IF Waiters(d, m) = {}
            THEN SetOp(d, m, [d.ops[m] EXCEPT !.state = "skipped_cold", !.job = FALSE])
            ELSE SetOp(d1, m, [d.ops[m] EXCEPT !.state = "waiting_activation", !.wait = a, !.job = FALSE])
  IN RemoveJob(ReadyReleases(d2), Life, m)

CompleteMaterialization(d, m) ==
  LET op == d.ops[m]
      W == Waiters(d, m)
      d1 == SetOp(d, m, [op EXCEPT !.state = "completed"])
      d2 == SetBnd(d1, [d.bnd EXCEPT !.mat = op.res])
  IN ReadyReleases(
       CASE op.rev # d.bnd.rev \/ op.target # d.bnd.handle ->
              IF d.bnd.release THEN d1 ELSE ReleaseWaiters(d1, W)
         [] OTHER -> IF d.bnd.release THEN d2
                     ELSE IF d.desired > op.res THEN AttachToMaterialization(d2, W)
                     ELSE ReleaseWaiters(d2, W))

-----------------------------------------------------------------------------
(* Release transactions.                                                   *)

ClaimRelease(d, r, blocked) ==
  LET op == d.ops[r] IN
  IF op.state \notin {"pending", "running"} \/ ~op.job THEN Then(d, "done")
  ELSE IF Blocked(d, r) THEN Then(d, blocked)
  ELSE Then(Claimed(d, r), "look")

\* A blocked release gives its job up and keeps only the pending operation.
\* One that was unblocked since, or that a previous delivery had claimed, is
\* claimed once more instead.
ParkBlockedRelease(d, r) ==
  IF d.ops[r].state = "pending" /\ d.ops[r].job /\ Blocked(d, r)
  THEN Then(RemoveJob(SetOp(d, r, [d.ops[r] EXCEPT !.job = FALSE]), Life, r), "idle")
  ELSE Then(d, "again")

ObserveOnly(d, r) == d.ops[r].bound \in {"submitted", "outcome_unknown"}

SetBound(d, r, bound) == SetOp(d, r, [d.ops[r] EXCEPT !.bound = bound])

AuthorizeRelease(d, r) ==
  IF d.ops[r].bound = "none" THEN Then(SetBound(d, r, "submitted"), "call")
  ELSE Then(d, "done")

\* A failure proved to have had no effect makes the release submittable again.
RearmRelease(d, r) ==
  CASE d.ops[r].bound = "submitted" -> Then(SetBound(d, r, "none"), "retry")
    [] d.ops[r].bound = "none" -> Then(d, "retry")
    [] OTHER -> Then(d, "error")

CompleteRelease(d, r) ==
  ApplyPostcondition(SetStates(d, {r}, "completed"), d.ops[r].target, d.ops[r].reason)

\* The attempt budget of operation o is spent, or its job cannot be read.
FinalizeExhaustedLifecycle(d, o) ==
  LET op == d.ops[o] IN
  IF op.state \in Terminal \cup {"waiting_activation"} \/ ~op.job THEN d
  ELSE IF op.kind = "release"
  THEN SetOp(d, o, [op EXCEPT !.state = "failed", !.bound = IF ObserveOnly(d, o) THEN "outcome_unknown"
                                                            ELSE "proved_not_started"])
  ELSE FailOp(d, o, IF op.bound = "outcome_unknown" THEN "outcome_unknown" ELSE "proved_not_started")

-----------------------------------------------------------------------------
(* Execution transactions.  o is what the worker observed when it loaded   *)
(* the execution: the binding (exists, h, rev) it inspected.               *)

Current(d, o) == d.bnd.exists /\ d.bnd.rev = o.rev /\ d.bnd.handle = o.h

NewActivation(d, need) ==
  IF d.bnd.handle # 0 /\ need # "creation" THEN Operation(d, "start", d.bnd.handle)
  ELSE [Operation(d, IF d.bnd.handle = 0 THEN "create" ELSE "replace", 0) EXCEPT !.env = Generation(d)]

\* An unfinished activation is joined only if it answers what was observed.
Joins(d, a, need) ==
  LET op == d.ops[a] IN
  /\ op.rev = d.bnd.rev
  /\ CASE op.kind = "start" -> need = "activation" /\ op.target = d.bnd.handle
       [] op.kind = "create" -> need = "creation" /\ d.bnd.handle = 0 /\ op.env = Generation(d)
       [] op.kind = "replace" -> need = "creation" /\ d.bnd.handle # 0 /\ op.env = Generation(d)

WaitForActivation(d, e, g, o, need) ==
  LET d1 == IF d.bnd.exists THEN d ELSE SetBnd(d, [d.bnd EXCEPT !.exists = TRUE, !.rev = 1])
      A == UnfinishedActivation(d1)
      op == NewActivation(d1, need)
      artifact == IF op.kind = "start" THEN "ready" ELSE d.artifact[Generation(d)]
      d2 == IF A # {} THEN d1
            ELSE InsertOp(d1, [op EXCEPT !.state = IF artifact = "ready" THEN "pending"
                                                   ELSE "waiting_artifact"])
      a == IF A # {} THEN CHOOSE x \in A : TRUE ELSE Len(d2.ops)
  IN IF o.exists /\ ~Current(d, o) THEN Then(d, "retry")
     ELSE IF d1.bnd.release THEN Then(Settle(d, e, g, "failed"), "done")
     ELSE IF A # {} /\ ~Joins(d1, a, need) THEN Then(d, "retry")
     ELSE IF A = {} /\ ~o.exists /\ d.bnd.exists THEN Then(d, "retry")
     ELSE IF A = {} /\ artifact = "failed" THEN Then(Settle(d1, e, g, "failed"), "done")
     ELSE IF d.ex[e].gen # g \/ d.ex[e].state \notin {"pending", "preparing"} THEN Then(d, "error")
     ELSE Then(ReadyReleases(SetEx(d2, e, [d.ex[e] EXCEPT !.state = "waiting_activation", !.op = a,
                                                          !.auth = 0, !.late = FALSE])), "done")

WaitForMaterialization(d, e, g, o) ==
  LET M == UnfinishedMaterialization(d)
      m == CHOOSE x \in M : TRUE
      stale == \/ d.ops[m].rev # d.bnd.rev
               \/ d.ops[m].target # d.bnd.handle
               \/ d.ops[m].res > d.desired
  IN IF ~Current(d, o) THEN Then(d, "retry")
     ELSE IF d.bnd.release THEN Then(Settle(d, e, g, "failed"), "done")
     ELSE IF M # {} /\ stale THEN Then(d, "retry")
     ELSE IF d.ex[e].gen # g \/ d.ex[e].state # "pending" THEN Then(d, "error")
     ELSE Then(ReadyReleases(AttachToMaterialization(d, {e})), "done")

\* BeginPreparing and AuthorizeRunning: the step from one state to the next is
\* taken only while everything it was decided on still holds.
Transition(d, e, g, o, from, to) ==
  LET x == d.ex[e]
      current == Current(d, o) /\ d.bnd.mat = d.desired
      authorized == x.auth = d.bnd.handle /\ x.arev = d.bnd.rev
      pc == IF to = "preparing" THEN "authorize" ELSE "submit"
  IN IF x.gen # g THEN Then(d, "done")
     ELSE IF x.cancel # "none" \/ d.bnd.release \/ (x.state = "preparing" /\ x.late)
     THEN Then(Settle(d, e, g, "failed"), "done")
     ELSE IF ~current
     THEN Then(ReadyReleases(IF x.state = "preparing"
                             THEN SetEx(d, e, [x EXCEPT !.state = "pending", !.auth = 0, !.late = FALSE])
                             ELSE d), "retry")
     ELSE IF x.state = "preparing" /\ ~authorized THEN Then(ReadyReleases(d), "retry")
     ELSE IF x.state = "preparing" /\ to = "preparing" THEN Then(ReadyReleases(d), pc)
     ELSE IF x.state # from THEN Then(ReadyReleases(d), "done")
     ELSE Then(ReadyReleases(SetEx(d, e, IF to = "preparing"
                                         THEN [x EXCEPT !.state = to, !.auth = d.bnd.handle,
                                                        !.arev = d.bnd.rev, !.late = FALSE]
                                         ELSE [x EXCEPT !.state = to])), pc)

\* A command that outlives its Tool call goes on as a background task.
SettleBackground(d, e, g) ==
  LET h == d.ex[e].auth
      d1 == Settle(d, e, g, "ran")
  IN IF d1 = d THEN d ELSE SetEx(d1, e, [d1.ex[e] EXCEPT !.task = h])

ClearCancellation(d, e) == SetEx(d, e, [d.ex[e] EXCEPT !.cancel = "none", !.ref = FALSE])

RecordProviderCommandReference(d, e, g) ==
  IF d.ex[e].gen = g /\ d.ex[e].state = "running"
  THEN Then(SetEx(d, e, [d.ex[e] EXCEPT !.ref = TRUE]), "observe")
  ELSE Then(d, "done")

\* The budget of an execute job is spent.  A preparing execution is left until
\* its deadline; one that was submitted has an unknown outcome.
FinalizeExhaustedExecution(d, e, g) ==
  LET x == d.ex[e] IN
  IF x.gen # g \/ x.state \notin {"pending", "preparing", "running"} THEN Then(d, "done")
  ELSE IF x.state = "preparing" /\ ~x.late THEN Then(d, "error")
  ELSE Then(Settle(d, e, g, IF x.state = "running" THEN "unknown" ELSE "failed"), "done")

-----------------------------------------------------------------------------
(* Transactions of the Bridge, the Runtime's end and the Environment.      *)

Open(d) == {e \in Tools : d.ex[e].state \notin {"none", "terminal", "consumed"}}

\* A terminal event other than the Tool's own result takes the execution; a
\* result that comes later is dropped.
Consume(x, out) == [x EXCEPT !.state = "consumed", !.out = out, !.op = 0, !.auth = 0]

\* Mutant of InterruptRow: whatever was sent, the call counts as not started.
InterruptRowNotStarted(x) == Consume(x, "notstarted")

\* A command the provider can name is cancelled there.
Cancellable(x) == x.state = "running" /\ x.ref

InterruptRow(x) ==
  [Consume(x, IF x.state = "running" THEN "unknown" ELSE "notstarted")
     EXCEPT !.cancel = IF Cancellable(x) THEN "pending" ELSE @]

\* The Tools of an interrupted Thread.
InterruptTools(d, S) ==
  [d EXCEPT !.ex = [e \in Tools |-> IF e \in S THEN InterruptRow(d.ex[e]) ELSE d.ex[e]],
            !.q = [p \in Partitions |-> IF \E e \in S : p = Cancel(e) /\ Cancellable(d.ex[e])
                                        THEN Added(d.q[p], 1) ELSE d.q[p]]]

ConsumeAll(d) ==
  [d EXCEPT !.ex = [e \in Tools |-> IF e \in Open(d) THEN Consume(d.ex[e], "expired") ELSE d.ex[e]]]

MarkEnvironmentBuildReady(d, g) == Enqueue([d EXCEPT !.artifact[g] = "ready"], Fanout, g)

MarkEnvironmentBuildTerminalFailure(d, g) ==
  FailWaitingArtifact([d EXCEPT !.artifact[g] = "failed"], g)
=============================================================================
