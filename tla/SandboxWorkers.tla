--------------------------- MODULE SandboxWorkers ---------------------------
(***************************************************************************)
(* The workers of the Sandbox service over the database of SandboxStore    *)
(* and the sandbox provider.  A worker is the holder of a Queue lease; a   *)
(* partition has at most one.  Each action is one transaction or one       *)
(* provider call of a worker, in the order the runners make them, so that  *)
(* every other worker, the API, the Bridge and the provider itself may act *)
(* between any two.  An answer of the provider that changed nothing there  *)
(* is read in the transaction that uses it.                                *)
(*                                                                         *)
(* A worker that loses its lease vanishes: the transactions it could still *)
(* attempt all end with a check of the lease and roll back, and the lease  *)
(* guard cancels its provider calls.  What it already sent may take effect *)
(* later, which is what late records.                                      *)
(***************************************************************************)
EXTENDS SandboxStore

CONSTANTS FaultKinds, MaxFaults,      \* what goes wrong, and how often in all
          RequestKinds, MaxRequests   \* what else is asked for, and how often in all

ASSUME BoundsAssumption ==
  /\ FaultKinds \subseteq {"crash", "failure", "stop", "loss"}
  /\ RequestKinds \subseteq {"interrupt", "mutation", "rebuild", "delete"}
  /\ MaxFaults \in Nat /\ MaxRequests \in Nat

VARIABLES db,        \* the database
          w,         \* the worker of each partition
          cleanup,   \* the delivery of the delete's cleanup
          provider,  \* the sandboxes created, by handle: started, stopped or gone
          late,      \* provider calls sent whose effect may yet happen
          sent,      \* calls that may have had an effect: how often the command of each
                     \* Tool was run and cancelled, and the releases called, in order
          left       \* what is left of MaxFaults and MaxRequests

vars == <<db, w, cleanup, provider, late, sent, left>>

\* Where a worker is, the job it leased, and what it has read: the sandbox it
\* works with and, for an execution, the binding it observed.
Idle == [pc |-> "idle", ref |-> 0, att |-> 0, h |-> 0, exists |-> FALSE, rev |-> 0, ready |-> FALSE]

Observed(v, d, pc) ==
  [v EXCEPT !.pc = pc, !.exists = d.bnd.exists, !.h = d.bnd.handle, !.rev = d.bnd.rev,
            !.ready = d.bnd.mat = d.desired /\ ~d.bnd.release]

At(p, pc) == w[p].pc = pc
Ref(p) == w[p].ref
Op(p) == db.ops[Ref(p)]

Holds(pc, kinds) == At(Life, pc) /\ Op(Life).kind \in kinds

\* The worker of p commits a transaction and goes on, gives its lease back, or
\* lets it run out.
Commit(p, t) ==
  /\ db' = IF t.pc = "error" THEN SetJob(t.db, p, Ref(p), "due") ELSE t.db
  /\ w' = [w EXCEPT ![p] = IF t.pc \in {"idle", "error"} THEN Idle ELSE [@ EXCEPT !.pc = t.pc]]

Goto(p, pc) == Commit(p, Then(db, pc))

SentRun(e) == [sent EXCEPT !.run[e] = @ + 1]
SentCancel(e) == [sent EXCEPT !.cancel[e] = @ + 1]
SentRelease(r) == [sent EXCEPT !.release = Append(@, r)]

Fault(k) == k \in FaultKinds /\ left.faults > 0 /\ left' = [left EXCEPT !.faults = @ - 1]
Request(k) == k \in RequestKinds /\ left.requests > 0 /\ left' = [left EXCEPT !.requests = @ - 1]

External == <<cleanup, provider, late, sent>>

-----------------------------------------------------------------------------
(* The Queue as the workers see it.                                        *)

MaxAttempts(p, r) ==
  IF p = Life /\ db.ops[r].kind \in ActivationKinds THEN Attempts + 1 ELSE Attempts

\* Mutant of Attempt: a lease does not count.
AttemptUncounted(p, j) == 1

\* A lease past the budget only serves to finalize the job.
Attempt(p, j) == Smallest({j.att + 1, MaxAttempts(p, j.ref) + 1})

\* The first due job of a partition, if none of its jobs is leased.
Lease(p) ==
  LET D == {i \in DOMAIN db.q[p] : db.q[p][i].st = "due"}
      i == Smallest(D)
      j == db.q[p][i]
      att == Attempt(p, j)
  IN /\ At(p, "idle")
     /\ D # {}
     /\ db' = [db EXCEPT !.q[p] = [@ EXCEPT ![i] = [j EXCEPT !.st = "leased", !.att = att]]]
     /\ w' = [w EXCEPT ![p] = [Idle EXCEPT !.pc = IF att > MaxAttempts(p, j.ref) THEN "exhausted" ELSE "start",
                                           !.ref = j.ref, !.att = att]]
     /\ UNCHANGED <<External, left>>

\* A call in flight when its worker is lost may still take effect.
InFlight(p) ==
  IF p # Life \/ w[p].pc # "call" THEN {}
  ELSE CASE Op(p).kind = "release" -> {<<"release", Op(p).target>>}
         [] Op(p).kind = "materialize" -> {}
         [] OTHER -> {<<IF w[p].h = 0 THEN "create" ELSE "start", w[p].h>>}

\* The worker crashes, or its heartbeats fail until the lease runs out.
LoseLease(p) ==
  /\ ~At(p, "idle")
  /\ Fault("crash")
  /\ db' = SetJob(db, p, Ref(p), "due")
  /\ w' = [w EXCEPT ![p] = Idle]
  /\ late' = late \cup InFlight(p)
  /\ sent' = CASE p = Life /\ Holds("call", {"release"}) -> SentRelease(Ref(p))
                [] p[1] = "cancel" /\ At(p, "call") -> SentCancel(p[2])
                [] OTHER -> sent
  /\ UNCHANGED <<cleanup, provider>>

\* Ack and DeadLetter.
Finish(p) ==
  /\ At(p, "done")
  /\ db' = RemoveJob(db, p, Ref(p))
  /\ w' = [w EXCEPT ![p] = Idle]
  /\ UNCHANGED <<External, left>>

\* What becomes of the work when its attempt budget is spent.
Finalize(d, p, r) ==
  CASE p = Life -> Then(FinalizeExhaustedLifecycle(d, r), "done")
    [] p = Fanout -> Then(FailWaitingArtifact(d, r), "done")
    [] p[1] = "exec" -> FinalizeExhaustedExecution(d, p[2], r)
    [] p[1] = "cancel" -> Then(ClearCancellation(d, p[2]), "done")

Exhausted(p) ==
  /\ At(p, "exhausted")
  /\ Commit(p, Finalize(db, p, Ref(p)))
  /\ UNCHANGED <<External, left>>

Retry(p) ==
  /\ At(p, "retry")
  /\ IF w[p].att >= MaxAttempts(p, Ref(p)) THEN Commit(p, Finalize(db, p, Ref(p)))
     ELSE Commit(p, Then(SetJob(db, p, Ref(p), "backoff"), "idle"))
  /\ UNCHANGED <<External, left>>

BackoffEnds(p) ==
  /\ \E i \in DOMAIN db.q[p] :
       /\ db.q[p][i].st = "backoff"
       /\ db' = SetJob(db, p, db.q[p][i].ref, "due")
  /\ UNCHANGED <<w, External, left>>

\* The over-limit reconciler closes a job nobody holds in one transaction.
OverLimit(p) ==
  /\ \E i \in DOMAIN db.q[p] :
       LET j == db.q[p][i]
           t == Finalize(db, p, j.ref)
       IN /\ j.st # "leased"
          /\ j.att >= MaxAttempts(p, j.ref)
          /\ t.pc # "error"
          /\ db' = RemoveJob(t.db, p, j.ref)
  /\ UNCHANGED <<w, External, left>>

-----------------------------------------------------------------------------
(* The provider.  The stable name of the logical sandbox lets at most one  *)
(* of its sandboxes exist.                                                 *)

Alive == {h \in DOMAIN provider : provider[h] # "gone"}

\* The effect of a create, start or release call; a create is refused while a
\* sandbox of that name exists, the others need theirs to exist.
Effective(c) ==
  CASE c[1] = "create" -> Alive = {}
    [] c[1] = "start" -> provider[c[2]] = "stopped"
    [] c[1] = "release" -> c[2] \in Alive

Effect(c) ==
  CASE c[1] = "create" -> Append(provider, "started")
    [] c[1] = "start" -> [provider EXCEPT ![c[2]] = "started"]
    [] c[1] = "release" -> [provider EXCEPT ![c[2]] = "gone"]

LateEffect ==
  /\ \E c \in late : /\ Effective(c)
                     /\ provider' = Effect(c)
                     /\ late' = late \ {c}
  /\ UNCHANGED <<db, w, cleanup, sent, left>>

\* The provider stops an idle sandbox, or loses one.
Stops ==
  /\ \E h \in DOMAIN provider : provider[h] = "started" /\ provider' = [provider EXCEPT ![h] = "stopped"]
  /\ Fault("stop")
  /\ UNCHANGED <<db, w, cleanup, late, sent>>

Loses ==
  /\ \E h \in Alive : provider' = [provider EXCEPT ![h] = "gone"]
  /\ Fault("loss")
  /\ UNCHANGED <<db, w, cleanup, late, sent>>

-----------------------------------------------------------------------------
(* The lifecycle workers, all in the partition of the logical sandbox.     *)

ClaimLifecycle ==
  /\ At(Life, "start")
  /\ Commit(Life, CASE Op(Life).kind \in ActivationKinds -> ClaimActivation(db, Ref(Life))
                    [] Op(Life).kind = "materialize" -> ClaimMaterialization(db, Ref(Life))
                    [] Op(Life).kind = "release" -> ClaimRelease(db, Ref(Life), "park"))
  /\ UNCHANGED <<External, left>>

ParkRelease ==
  /\ At(Life, "park") \/ At(Life, "again")
  /\ Commit(Life, IF At(Life, "park") THEN ParkBlockedRelease(db, Ref(Life))
                  ELSE ClaimRelease(db, Ref(Life), "error"))
  /\ UNCHANGED <<External, left>>

\* A failed inspection is retried, or ends the operation.  A release that was
\* submitted before is thereby made submittable again.
InspectionFails ==
  LET o == Ref(Life) IN
  /\ At(Life, "look") \/ Holds("confirm", ActivationKinds)
  /\ Fault("failure")
  /\ \/ Commit(Life, IF Op(Life).kind = "release" THEN RearmRelease(db, o) ELSE Then(db, "retry"))
     \/ Commit(Life, Then(FailOp(db, o, "proved_not_started"), "done"))
  /\ UNCHANGED External

UseHandle(p, pc, h) == UNCHANGED db /\ w' = [w EXCEPT ![p] = [@ EXCEPT !.pc = pc, !.h = h]]

\* ResolveActivation and InspectForExecution; s is the sandbox they find.
LookForActivation ==
  LET op == Op(Life)
      o == Ref(Life)
      s == IF op.kind = "start" THEN op.target
           ELSE IF Alive = {} THEN 0 ELSE CHOOSE h \in Alive : TRUE
  IN /\ Holds("look", ActivationKinds)
     /\ CASE s # 0 /\ provider[s] = "started" -> UseHandle(Life, "commit", s)
          [] s # 0 /\ provider[s] = "stopped" -> UseHandle(Life, "call", s)
          [] s # 0 /\ provider[s] = "gone" -> Commit(Life, ReplaceMissingActivation(db, o))
          [] s = 0 /\ op.bound = "outcome_unknown" -> Goto(Life, "retry")
          [] s = 0 /\ op.bound # "outcome_unknown" /\ w[Life].att > Attempts ->
               Commit(Life, Then(FailOp(db, o, "proved_not_started"), "done"))
          [] OTHER -> UseHandle(Life, "call", 0)
     /\ UNCHANGED <<External, left>>

ActivationCall == <<IF w[Life].h = 0 THEN "create" ELSE "start", w[Life].h>>

CallActivate ==
  /\ Holds("call", ActivationKinds)
  /\ Effective(ActivationCall)
  /\ provider' = Effect(ActivationCall)
  /\ UseHandle(Life, "confirm", IF w[Life].h = 0 THEN Len(provider') ELSE w[Life].h)
  /\ UNCHANGED <<cleanup, late, sent, left>>

\* No answer, or one that leaves open whether the call took effect.
ActivationUnknown ==
  Commit(Life, IF Op(Life).kind = "start" THEN Then(db, "retry")
               ELSE ObserveUnknownActivation(db, Ref(Life)))

CallActivateFails ==
  /\ Holds("call", ActivationKinds)
  /\ \/ ~Effective(ActivationCall) /\ ActivationUnknown /\ UNCHANGED <<late, left>>
     \/ Fault("failure") /\ ActivationUnknown /\ late' = late \cup {ActivationCall}
     \/ Fault("failure") /\ Goto(Life, "retry") /\ UNCHANGED late
     \/ /\ Fault("failure")
        /\ Commit(Life, Then(FailOp(db, Ref(Life), "proved_not_started"), "done"))
        /\ UNCHANGED late
  /\ UNCHANGED <<cleanup, provider, sent>>

ConfirmActivation ==
  /\ Holds("confirm", ActivationKinds)
  /\ Goto(Life, IF provider[w[Life].h] = "started" THEN "commit" ELSE "retry")
  /\ UNCHANGED <<External, left>>

CommitActivation ==
  /\ Holds("commit", ActivationKinds)
  /\ Commit(Life, Then(CompleteActivation(db, Ref(Life), w[Life].h), "done"))
  /\ UNCHANGED <<External, left>>

LookForMaterialization ==
  LET s == provider[Op(Life).target] IN
  /\ Holds("look", {"materialize"})
  /\ IF s = "started" THEN Goto(Life, "call")
     ELSE Commit(Life, Then(WaitMaterializationForActivation(db, Ref(Life),
                              IF s = "stopped" THEN "start" ELSE "replace"), "idle"))
  /\ UNCHANGED <<External, left>>

CallMaterialize ==
  /\ Holds("call", {"materialize"})
  /\ provider[Op(Life).target] = "started"
  /\ Commit(Life, Then(CompleteMaterialization(db, Ref(Life)), "done"))
  /\ UNCHANGED <<External, left>>

CallMaterializeFails ==
  /\ Holds("call", {"materialize"})
  /\ IF provider[Op(Life).target] = "started" THEN Fault("failure") ELSE UNCHANGED left
  /\ \/ Goto(Life, "retry")
     \/ Commit(Life, Then(FailOp(db, Ref(Life), "submitted"), "done"))
  /\ UNCHANGED External

\* Mutant of LookForRelease: a sandbox that is not running counts as absent.
LookForReleaseRunning ==
  LET r == Ref(Life) IN
  /\ Holds("look", {"release"})
  /\ Commit(Life, CASE provider[Op(Life).target] # "started" -> Then(CompleteRelease(db, r), "done")
                    [] provider[Op(Life).target] = "started" /\ ObserveOnly(db, r) -> Then(db, "retry")
                    [] OTHER -> AuthorizeRelease(db, r))
  /\ UNCHANGED <<External, left>>

LookForRelease ==
  LET r == Ref(Life) IN
  /\ Holds("look", {"release"})
  /\ Commit(Life, CASE Op(Life).target \notin Alive -> Then(CompleteRelease(db, r), "done")
                    [] Op(Life).target \in Alive /\ ObserveOnly(db, r) -> Then(db, "retry")
                    [] OTHER -> AuthorizeRelease(db, r))
  /\ UNCHANGED <<External, left>>

ReleaseCall == <<"release", Op(Life).target>>

\* A sandbox that is already gone counts as released.
CallRelease ==
  /\ Holds("call", {"release"})
  /\ provider' = IF Effective(ReleaseCall) THEN Effect(ReleaseCall) ELSE provider
  /\ sent' = SentRelease(Ref(Life))
  /\ Goto(Life, "commit")
  /\ UNCHANGED <<cleanup, late, left>>

CommitRelease ==
  /\ Holds("commit", {"release"})
  /\ Commit(Life, Then(CompleteRelease(db, Ref(Life)), "done"))
  /\ UNCHANGED <<External, left>>

CallReleaseFails ==
  LET r == Ref(Life) IN
  /\ Holds("call", {"release"})
  /\ Fault("failure")
  /\ \/ /\ Commit(Life, Then(SetBound(db, r, "outcome_unknown"), "retry"))
        /\ late' = late \cup {ReleaseCall}
        /\ sent' = SentRelease(r)
     \/ Commit(Life, RearmRelease(db, r)) /\ UNCHANGED <<late, sent>>
     \/ Commit(Life, Then(FailOp(db, r, "proved_not_started"), "done")) /\ UNCHANGED <<late, sent>>
  /\ UNCHANGED <<cleanup, provider>>

\* Operations that waited for the artifact of generation g become claimable.
FanoutReady ==
  LET g == Ref(Fanout)
      S == WaitingArtifact(db, g)
  IN /\ At(Fanout, "start")
     /\ Commit(Fanout,
          IF \E o \in S : HasJob(db, Life, o) THEN Then(db, "retry")
          ELSE Then(QueueOps(SetStates(db, S, "pending"), S), "done"))
     /\ UNCHANGED <<External, left>>

-----------------------------------------------------------------------------
(* The execution worker of Tool e.                                         *)

LoadExecution(e) ==
  LET p == Exec(e)
      x == db.ex[e]
  IN /\ At(p, "start")
     /\ CASE x.gen # Ref(p) \/ x.state \notin InFlightStates -> Goto(p, "done")
          [] x.gen = Ref(p) /\ x.state = "running" /\ x.ref ->
               UseHandle(p, "observe", x.auth)
          \* Only the custody of its media can still show what a command returned.
          [] x.gen = Ref(p) /\ x.state = "running" /\ ~x.ref ->
               \E out \in {"unknown"} \cup (IF sent.run[e] > 0 THEN {"ran"} ELSE {}) :
                 Commit(p, Then(Settle(db, e, Ref(p), out), "done"))
          [] OTHER -> /\ UNCHANGED db
                      /\ w' = [w EXCEPT ![p] = Observed(@, db, IF db.bnd.handle = 0 THEN "need_creation"
                                                               ELSE "look")]
     /\ UNCHANGED <<External, left>>

InspectForExecution(e) ==
  LET p == Exec(e)
      s == provider[w[p].h]
  IN /\ At(p, "look")
     /\ Goto(p, CASE s = "stopped" -> "need_activation"
                  [] s = "gone" -> "need_creation"
                  [] OTHER -> IF w[p].ready THEN "prepare" ELSE "need_materialization")
     /\ UNCHANGED <<External, left>>

Depend(e) ==
  LET p == Exec(e) IN
  /\ \/ /\ At(p, "need_activation")
        /\ Commit(p, WaitForActivation(db, e, Ref(p), w[p], "activation"))
     \/ /\ At(p, "need_creation")
        /\ Commit(p, WaitForActivation(db, e, Ref(p), w[p], "creation"))
     \/ /\ At(p, "need_materialization")
        /\ Commit(p, WaitForMaterialization(db, e, Ref(p), w[p]))
  /\ UNCHANGED <<External, left>>

BeginPreparing(e) ==
  LET p == Exec(e) IN
  /\ At(p, "prepare")
  /\ Commit(p, Transition(db, e, Ref(p), w[p], "pending", "preparing"))
  /\ UNCHANGED <<External, left>>

\* PrepareTool, then AuthorizeRunning.  Some Tools are answered by PrepareTool.
AuthorizeRunning(e) ==
  LET p == Exec(e) IN
  /\ At(p, "authorize")
  /\ IF provider[w[p].h] = "gone" THEN Goto(p, "need_creation")
     ELSE /\ provider[w[p].h] = "started"
          /\ \/ Commit(p, Transition(db, e, Ref(p), w[p], "preparing", "running"))
             \/ Commit(p, Then(Settle(db, e, Ref(p), "answered"), "done"))
  /\ UNCHANGED <<External, left>>

\* The inspection or the preparation fails before anything was submitted.
PreparationFails(e) ==
  LET p == Exec(e) IN
  /\ At(p, "look") \/ At(p, "authorize")
  /\ IF At(p, "authorize") /\ provider[w[p].h] = "stopped" THEN UNCHANGED left ELSE Fault("failure")
  /\ \/ Goto(p, "retry")
     \/ Commit(p, Then(Settle(db, e, Ref(p), "failed"), "done"))
  /\ UNCHANGED External

ExecuteTool(e) ==
  LET p == Exec(e) IN
  /\ At(p, "submit")
  /\ sent' = SentRun(e)
  /\ Goto(p, "reply")
  /\ UNCHANGED <<cleanup, provider, late, left>>

ToolReplies(e) ==
  LET p == Exec(e) IN
  /\ At(p, "reply")
  /\ \/ /\ provider[w[p].h] = "started"
        /\ \/ Commit(p, Then(Settle(db, e, Ref(p), "ran"), "done"))
           \/ Commit(p, Then(SettleBackground(db, e, Ref(p)), "done"))
           \/ Commit(p, RecordProviderCommandReference(db, e, Ref(p)))
        /\ UNCHANGED left
     \/ /\ IF provider[w[p].h] = "started" THEN Fault("failure") ELSE UNCHANGED left
        /\ Commit(p, Then(Settle(db, e, Ref(p), "unknown"), "done"))
  /\ UNCHANGED External

ObserveTool(e) ==
  LET p == Exec(e) IN
  /\ At(p, "observe")
  /\ \/ /\ provider[w[p].h] = "started"
        /\ Commit(p, Then(Settle(db, e, Ref(p), "ran"), "done"))
        /\ UNCHANGED left
     \/ /\ IF provider[w[p].h] = "started" THEN Fault("failure") ELSE UNCHANGED left
        /\ \/ Goto(p, "retry")
           \/ Commit(p, Then(Settle(db, e, Ref(p), "unknown"), "done"))
  /\ UNCHANGED External

\* The deadline of a preparing execution passes.
DeadlinePasses(e) ==
  /\ db.ex[e].state = "preparing" /\ ~db.ex[e].late
  /\ db' = SetEx(db, e, [db.ex[e] EXCEPT !.late = TRUE])
  /\ UNCHANGED <<w, External, left>>

\* Mutant of TaskEnds: the release that waited for the task is not woken.
TaskEndsQuietly(e) ==
  /\ db.ex[e].task # 0
  /\ db' = SetEx(db, e, [db.ex[e] EXCEPT !.task = 0])
  /\ UNCHANGED <<w, External, left>>

\* A background task ends, is reconciled or is cancelled for a release.
TaskEnds(e) ==
  /\ db.ex[e].task # 0
  /\ db' = ReadyReleases(SetEx(db, e, [db.ex[e] EXCEPT !.task = 0]))
  /\ UNCHANGED <<w, External, left>>

-----------------------------------------------------------------------------
(* The cancellation worker of Tool e.  The cancellation is marked before   *)
(* it is sent, and one found marked is not sent again.                     *)

\* Mutant of ClaimCancellation: the mark is not looked at.
ClaimCancellationAgain(e) ==
  LET p == Cancel(e) IN
  /\ At(p, "start")
  /\ IF db.ex[e].cancel = "none" THEN Goto(p, "done")
     ELSE Commit(p, Then(SetEx(db, e, [db.ex[e] EXCEPT !.cancel = "submitted"]), "call"))
  /\ UNCHANGED <<External, left>>

ClaimCancellation(e) ==
  LET p == Cancel(e) IN
  /\ At(p, "start")
  /\ CASE db.ex[e].cancel = "pending" -> Commit(p, Then(SetEx(db, e, [db.ex[e] EXCEPT !.cancel = "submitted"]), "call"))
       [] db.ex[e].cancel = "submitted" -> Commit(p, Then(ClearCancellation(db, e), "done"))
       [] OTHER -> Goto(p, "done")
  /\ UNCHANGED <<External, left>>

CallCancel(e) ==
  LET p == Cancel(e) IN
  /\ At(p, "call")
  /\ sent' = SentCancel(e)
  /\ Commit(p, Then(ClearCancellation(db, e), "done"))
  /\ UNCHANGED <<cleanup, provider, late, left>>
=============================================================================
