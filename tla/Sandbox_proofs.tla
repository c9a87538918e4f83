--------------------------- MODULE Sandbox_proofs ---------------------------
(***************************************************************************)
(* Theorems about Sandbox, for any set of Tools, any attempt budget and    *)
(* any bounds on faults and requests: ExecutionInv is an invariant, and    *)
(* the properties of the executions follow from it; CustodyInv is one, and *)
(* the custody of releases follows from it.                                *)
(* Also proved here is OrderFacts, on which the facts of                   *)
(* SandboxStore_proofs and SandboxWorkers_proofs rest.                     *)
(***************************************************************************)
EXTENDS Sandbox, SandboxWorkers_proofs, FiniteSetTheorems

USE ZenonT(60)

-----------------------------------------------------------------------------
(* Steps without a worker: timers, lost leases, the provider and the       *)
(* Bridge.                                                                 *)

\* The database changes, and nobody moves.
QuietStep ==
  /\ ExecutionInv
  /\ w' = w
  /\ UNCHANGED External
  /\ Sound(db, db')
  =>
    ExecutionInv'

\* A step without a worker that concerns one execution.
OwnQuietStep ==
  \A e \in Tools :
    /\ ExecutionInv
    /\ w' = w
    /\ UNCHANGED External
    /\ Others(db, db', e)
    /\ RightTool(e)'
    =>
      ExecutionInv'

\* The end of a backoff keeps the invariant.
BackoffEndsKeeps ==
  \A p \in Partitions :
    /\ ExecutionInv
    /\ BackoffEnds(p)
    =>
      ExecutionInv'

\* The over-limit reconciler keeps the invariant.
OverLimitKeepsInv ==
  \A p \in Partitions :
    /\ ExecutionInv
    /\ OverLimit(p)
    =>
      ExecutionInv'

\* The loss of a worker keeps the invariant, wherever it was.
LoseLeaseKeeps ==
  \A p \in Partitions :
    /\ ExecutionInv
    /\ LoseLease(p)
    =>
      ExecutionInv'

\* Only the provider and what is on the way to it change.
ProviderStep ==
  /\ ExecutionInv
  /\ db' = db
  /\ w' = w
  /\ cleanup' = cleanup
  /\ sent' = sent
  /\ provider' \in Seq({"started", "stopped", "gone"})
  /\ late' \subseteq late
  =>
    ExecutionInv'

\* A sandbox changes its state.
ProviderTyped ==
  \A h \in DOMAIN provider, s \in {"started", "stopped", "gone"} :
    ExecutionInv =>
      [provider EXCEPT ![h] = s] \in Seq({"started", "stopped", "gone"})

\* A late effect keeps the invariant.
LateEffectKeeps ==
  /\ ExecutionInv
  /\ LateEffect
  =>
    ExecutionInv'

\* A stopped sandbox keeps the invariant.
StopsKeeps ==
  /\ ExecutionInv
  /\ Stops
  =>
    ExecutionInv'

\* A lost sandbox keeps the invariant.
LosesKeeps ==
  /\ ExecutionInv
  /\ Loses
  =>
    ExecutionInv'

\* Accepting a Tool call keeps the invariant.
AcceptKeepsInv ==
  \A e \in Tools :
    /\ ExecutionInv
    /\ Accept(e)
    =>
      ExecutionInv'

\* A change of an execution that nothing here depends on.
TouchKeeps ==
  \A e \in Tools, y \in ExRow :
    /\ ExecutionInv
    /\ OwnTx(db, db', e)
    /\ db'.ex[e] = y
    /\ w' = w
    /\ UNCHANGED External
    /\ db.ex[e].state # "none"
    /\ y.state = db.ex[e].state
    /\ y.gen = db.ex[e].gen
    /\ y.out = db.ex[e].out
    /\ y.cancel = db.ex[e].cancel
    =>
      ExecutionInv'

\* A deadline keeps the invariant.
DeadlinePassesKeeps ==
  \A e \in Tools :
    /\ ExecutionInv
    /\ DeadlinePasses(e)
    =>
      ExecutionInv'

\* The end of a background task keeps the invariant.
TaskEndsKeeps ==
  \A e \in Tools :
    /\ ExecutionInv
    /\ TaskEnds(e)
    =>
      ExecutionInv'

\* The steps without a worker keep the invariant.
LossSteps ==
  /\ QuietStep /\ OwnQuietStep /\ BackoffEndsKeeps /\ OverLimitKeepsInv /\ LoseLeaseKeeps
  /\ ProviderStep /\ ProviderTyped /\ LateEffectKeeps /\ StopsKeeps /\ LosesKeeps /\ AcceptKeepsInv
  /\ TouchKeeps /\ DeadlinePassesKeeps /\ TaskEndsKeeps

\* These facts hold.
LEMMA LossStepsHold == ASSUME OrderFacts PROVE LossSteps
<1>QuietStep. QuietStep
  <2> SUFFICES
      ASSUME ExecutionInv, w' = w, UNCHANGED External, Sound(db, db')
      PROVE  ExecutionInv'
    BY DEF QuietStep
  <2>1. /\ cleanup' = cleanup /\ provider' = provider /\ late' = late /\ sent' = sent
    BY DEF External
  <2>2. OpIds(db) \subseteq OpIds(db')
    <3>1. Len(db.ops) \in Nat /\ Len(db'.ops) \in Nat
      BY RowFactsHold DEF Sound, ExecutionInv, Typed, RowFacts, DBFields
    <3> QED BY <3>1, SMTT(30) DEF OpIds, Sound
  <2>3. Typed
    BY DEF ExecutionInv
  <2> QED BY <2>1, <2>2, <2>3, StepFactsHold DEF Typed, StepFacts, SoundStep
<1>OwnQuietStep. OwnQuietStep
  <2> SUFFICES
      ASSUME ExecutionInv, NEW e \in Tools, w' = w, UNCHANGED External, Others(db, db', e), RightTool(e)'
      PROVE  ExecutionInv'
    BY DEF OwnQuietStep
  <2>1. /\ cleanup' = cleanup /\ provider' = provider /\ late' = late /\ sent' = sent
    BY DEF External
  <2>2. Typed
    BY DEF ExecutionInv
  <2> QED BY <2>1, <2>2, StepFactsHold DEF Typed, StepFacts, OwnStep
<1>BackoffEndsKeeps. BackoffEndsKeeps
  <2> SUFFICES
      ASSUME ExecutionInv, NEW p \in Partitions, BackoffEnds(p)
      PROVE  ExecutionInv'
    BY DEF BackoffEndsKeeps
  <2>1. PICK r : db' = SetJob(db, p, r, "due") /\ w' = w /\ UNCHANGED External
    BY DEF BackoffEnds
  <2>2. db \in DB
    BY DEF ExecutionInv, Typed
  <2>3. Sound(db, db')
    BY <2>1, <2>2, LifecycleTxHold DEF LifecycleTx, SetJobSound
  <2> QED BY <2>1, <2>3, <1>QuietStep DEF QuietStep
<1>OverLimitKeepsInv. OverLimitKeepsInv
  <2> SUFFICES
      ASSUME ExecutionInv, NEW p \in Partitions, OverLimit(p)
      PROVE  ExecutionInv'
    BY DEF OverLimitKeepsInv
  <2>0. db \in DB /\ db.q[p] \in Seq(JobRow)
    BY RowFactsHold DEF ExecutionInv, Typed, RowFacts, DBFields
  <2>1. PICK i \in DOMAIN db.q[p] :
          /\ Finalize(db, p, db.q[p][i].ref).pc # "error"
          /\ db' = RemoveJob(Finalize(db, p, db.q[p][i].ref).db, p, db.q[p][i].ref)
    BY DEF OverLimit
  <2> DEFINE r == db.q[p][i].ref
             t == Finalize(db, p, r)
  <2>2. w' = w /\ UNCHANGED External
    BY DEF OverLimit
  <2>3. Named(db.q[p], r)
    BY DEF Named
  <2> HIDE DEF r
  <2>4. CASE p = Life
    <3> DEFINE d2 == FinalizeExhaustedLifecycle(db, r)
    <3>1. t = Then(d2, "done") /\ t.db = d2
      BY <2>4, RowFactsHold DEF Finalize, Life, Fanout, Then, RowFacts, PartitionFacts
    <3>2. r \in OpIds(db)
      BY <2>3, <2>4 DEF ExecutionInv, Typed, LifeRefs
    <3>3. Sound(db, d2) /\ d2 \in DB
      BY <2>0, <3>2, LifecycleTxHold DEF Sound, LifecycleTx, FinalizeExhaustedLifecycleSound
    <3> HIDE DEF d2
    <3>4. Sound(d2, RemoveJob(d2, p, r))
      BY <2>4, <3>3, ClaimTxHold DEF ClaimTx, RemoveJobSound
    <3>5. Sound(db, db')
      BY <2>0, <2>1, <3>1, <3>3, <3>4, SoundFactsHold DEF r, SoundFacts, SoundTrans
    <3> QED BY <2>2, <3>5, <1>QuietStep DEF QuietStep
  <2>5. CASE p = Fanout
    <3> DEFINE d2 == FailWaitingArtifact(db, r)
    <3>1. t = Then(d2, "done") /\ t.db = d2
      BY <2>5, RowFactsHold DEF Finalize, Life, Fanout, Then, RowFacts, PartitionFacts
    <3>3. Sound(db, d2) /\ d2 \in DB
      BY <2>0, LifecycleTxHold DEF Sound, LifecycleTx, FailWaitingArtifactSound
    <3> HIDE DEF d2
    <3>4. Sound(d2, RemoveJob(d2, p, r))
      BY <2>5, <3>3, LifecycleTxHold, RowFactsHold DEF LifecycleTx, RemoveOtherSound, RowFacts, PartitionFacts
    <3>5. Sound(db, db')
      BY <2>0, <2>1, <3>1, <3>3, <3>4, SoundFactsHold DEF r, SoundFacts, SoundTrans
    <3> QED BY <2>2, <3>5, <1>QuietStep DEF QuietStep
  <2>6. ASSUME NEW e \in Tools, p = Exec(e) PROVE ExecutionInv'
    <3> DEFINE t2 == FinalizeExhaustedExecution(db, e, r)
               d2 == t2.db
               d3 == RemoveJob(d2, p, r)
    <3>1. t = t2
      BY <2>6, RowFactsHold DEF Finalize, Exec, Life, Fanout, RowFacts, PartitionFacts
    <3>2. OwnTx(db, t2.db, e) /\ FinalRow(db.ex[e], t2.db.ex[e], r, t2.pc)
      BY <2>0, WaitTxHold DEF WaitTx, FinalizeIs
    <3>3. t2.pc = "done" /\ d2 \in DB /\ d2.q[p] = db.q[p]
      BY <2>1, <2>6, <3>1, <3>2 DEF FinalRow, r, OwnTx, Others
    <3> HIDE DEF t2
    <3>4. /\ d3 \in DB /\ d3.q[p] = Removed(d2.q[p], r)
          /\ \A x \in Partitions : x # p => d3.q[x] = d2.q[x]
          /\ d3.ops = d2.ops /\ d3.session = d2.session /\ d3.ex = d2.ex
      BY <3>3, OperationFactsHold, SMTT(30) DEF OperationFacts, RemoveJobIs
    <3>5. Others(d2, d3, e)
      BY <2>6, <3>3, <3>4, QueueStepsHold DEF QueueSteps, QueueOthers
    <3>6. db' = d3
      BY <2>1, <3>1 DEF r
    <3> HIDE DEF d3
    <3>7. Others(db, db', e)
      BY <2>0, <3>2, <3>5, <3>6, InterruptTxHold DEF OwnTx, InterruptTx, OthersTrans
    <3>8. Right(db.session, d2.ex[e], Removed(db.q[Exec(e)], r), w[Exec(e)], w[Cancel(e)], sent.run[e], sent.cancel[e])
      BY <3>2, <3>3, ExecutionFactsHold, ExecutionRowsHold DEF ExecutionFacts, ExecFacts, ExecutionRows,
         OverLimitKeeps
    <3>9. RightTool(e)'
      <4>1. sent' = sent /\ db'.session = db.session /\ db'.ex[e] = d2.ex[e] /\ db'.q[Exec(e)] = Removed(db.q[Exec(e)], r)
        BY <2>2, <2>6, <3>3, <3>4, <3>6, <3>7 DEF External, Others
      <4> QED BY <2>2, <3>8, <4>1 DEF RightTool, RightIn
    <3> QED BY <2>2, <3>7, <3>9, <1>OwnQuietStep DEF OwnQuietStep
  <2>7. ASSUME NEW e \in Tools, p = Cancel(e) PROVE ExecutionInv'
    <3> DEFINE x == db.ex[e]
               y == Cleared(x)
               d2 == SetEx(db, e, y)
               d3 == RemoveJob(d2, p, r)
    <3>1. t = Then(ClearCancellation(db, e), "done")
      BY <2>7, RowFactsHold DEF Finalize, Cancel, Life, Fanout, RowFacts, PartitionFacts
    <3>2. /\ ClearCancellation(db, e) = d2
          /\ y \in ExRow /\ y.state = x.state /\ y.gen = x.gen /\ y.out = x.out /\ y.cancel = "none"
          /\ x.state # "none" \/ y = x
      BY CancelStepsHold DEF CancelSteps, ClearedIs
    <3> HIDE DEF y
    <3>3. Others(db, d2, e) /\ ExOnly(db, d2) /\ d2.ex[e] = y /\ d2.q = db.q /\ d2 \in DB
      BY <2>0, <3>2, InterruptTxHold DEF Others, InterruptTx, SetExOthers
    <3>4. db' = d3
      BY <2>1, <3>1, <3>2, SMTT(30) DEF r, Then
    <3> HIDE DEF d2
    <3>5. Sound(d2, d3) /\ d3.ex = d2.ex /\ d3.q[Exec(e)] = d2.q[Exec(e)]
      BY <2>7, <3>3, LifecycleTxHold, OperationFactsHold, RowFactsHold, SMTT(30) DEF LifecycleTx, RemoveOtherSound,
         OperationFacts, RemoveJobIs, RowFacts, PartitionFacts
    <3> HIDE DEF d3
    <3>6. Others(db, db', e)
      BY <2>0, <3>3, <3>4, <3>5, InterruptTxHold DEF InterruptTx, SoundOthers, OthersTrans
    <3>7. Right(db.session, y, db.q[Exec(e)], w[Exec(e)], w[Cancel(e)], sent.run[e], sent.cancel[e])
      BY <3>2, ExecutionFactsHold, ExecutionRowsHold, SMTT(30) DEF ExecutionFacts, ExecFacts, ExecutionRows, CancelKeeps
    <3>8. RightTool(e)'
      <4>1. sent' = sent /\ db'.session = db.session /\ db'.ex[e] = y /\ db'.q[Exec(e)] = db.q[Exec(e)]
        BY <2>2, <3>3, <3>4, <3>5, <3>6 DEF External, Others
      <4> QED BY <2>2, <3>7, <4>1 DEF RightTool, RightIn
    <3> QED BY <2>2, <3>6, <3>8, <1>OwnQuietStep DEF OwnQuietStep
  <2> QED BY <2>4, <2>5, <2>6, <2>7, RowFactsHold DEF RowFacts, PartitionFacts
<1>LoseLeaseKeeps. LoseLeaseKeeps
  <2> SUFFICES
      ASSUME ExecutionInv, NEW p \in Partitions, LoseLease(p)
      PROVE  ExecutionInv'
    BY DEF LoseLeaseKeeps
  <2>1. /\ w[p].pc # "idle" /\ db' = SetJob(db, p, Ref(p), "due") /\ w' = [w EXCEPT ![p] = Idle]
        /\ late' = late \cup InFlight(p) /\ cleanup' = cleanup /\ provider' = provider
    BY DEF LoseLease, At
  <2>2. /\ db \in DB /\ db.q[p] \in Seq(JobRow) /\ late \subseteq Calls /\ sent \in SentType
    BY RowFactsHold DEF ExecutionInv, Typed, Calls, SentType, RowFacts, DBFields
  <2>3. /\ Sound(db, db') /\ db'.ex = db.ex /\ db'.q[p] = Marked(db.q[p], Ref(p), "due")
        /\ \A x \in Partitions : x # p => db'.q[x] = db.q[x]
    BY <2>1, <2>2, LifecycleTxHold, OperationFactsHold, SMTT(30) DEF LifecycleTx, SetJobSound, OperationFacts, SetJobIs
  <2>4. \A x \in Partitions : \A r : Named(db'.q[x], r) <=> Named(db.q[x], r)
    BY <2>2, <2>3, SequenceFactsHold, SMTT(30) DEF SequenceFacts, MarkedIs
  <2>5. late' \subseteq Calls
    <3>1. p = Life => ActivationCall \in Calls /\ ReleaseCall \in Calls
      BY <2>1, ProviderStepsHold DEF ProviderSteps, CallTyped
    <3>2. InFlight(p) = {} \/ (p = Life /\ InFlight(p) \in {{ActivationCall}, {ReleaseCall}})
      <4>1. CASE p # Life \/ w[p].pc # "call"
        BY <4>1 DEF InFlight
      <4>2. CASE p = Life /\ w[p].pc = "call"
        <5>1. \/ InFlight(Life) = {ReleaseCall} \/ InFlight(Life) = {} \/ InFlight(Life) = {ActivationCall}
          BY <4>2 DEF InFlight, ActivationCall, ReleaseCall
        <5> QED BY <4>2, <5>1
      <4> QED BY <4>1, <4>2
    <3> QED BY <2>1, <2>2, <3>1, <3>2
  <2>6. Beside(db, db', p)
    BY <2>3, QueueStepsHold DEF QueueSteps, SoundBeside
  <2>7. CASE ~\E e \in Tools : p = Cancel(e) /\ w[p].pc = "call"
    <3>1. sent' \in SentType /\ sent'.run = sent.run /\ sent'.cancel = sent.cancel
      <4>1. sent' = sent \/ (p = Life /\ sent' = SentRelease(Ref(Life)))
        <5>1. p[1] = "cancel" => \E e \in Tools : p = Cancel(e)
          BY SMTT(30) DEF Partitions, Life, Fanout, Exec, Cancel
        <5>2. ~(p[1] = "cancel" /\ At(p, "call"))
          BY <2>7, <5>1 DEF At
        <5> QED BY <5>2 DEF LoseLease
      <4> QED BY <2>1, <2>2, <4>1, ProviderStepsHold DEF SentType, ProviderSteps, SentReleaseTyped
    <3>2. ASSUME NEW e \in Tools, p = Exec(e)
          PROVE  RightIn(db', e, Idle, w[Cancel(e)], sent'.run[e], sent.cancel[e])
      <4>1. Right(db.session, db.ex[e], db'.q[Exec(e)], Idle, w[Cancel(e)], sent.run[e], sent.cancel[e])
        BY <2>4, <3>2, ExecutionFactsHold, WorkerFactsHold DEF ExecutionFacts, ExecFacts, WorkerFacts, IdleKeeps
      <4> QED BY <2>3, <3>1, <4>1 DEF RightIn, Sound
    <3>3. ASSUME NEW e \in Tools, p = Cancel(e)
          PROVE  RightIn(db', e, w[Exec(e)], Idle, sent.run[e], sent'.cancel[e])
      <4>1. Right(db.session, db.ex[e], db.q[Exec(e)], w[Exec(e)], Idle, sent.run[e], sent.cancel[e])
        BY ExecutionFactsHold, WorkerFactsHold, ExecutionRowsHold DEF ExecutionFacts, ExecFacts, WorkerFacts,
           IdleFields, ExecutionRows, CancelKeeps
      <4>2. db'.q[Exec(e)] = db.q[Exec(e)]
        BY <2>3, <3>3, RowFactsHold DEF RowFacts, PartitionFacts
      <4> QED BY <2>3, <3>1, <4>1, <4>2 DEF RightIn, Sound
    <3> QED BY <2>1, <2>5, <2>6, <3>1, <3>2, <3>3, WorkerFactsHold, QueueStepsHold DEF WorkerFacts, IdleFields,
       QueueSteps, WorkerStep
  <2>8. ASSUME NEW e \in Tools, p = Cancel(e), w[p].pc = "call" PROVE ExecutionInv'
    <3>1. sent' = SentCancel(e)
      <4>1. p # Life /\ p[1] = "cancel" /\ p[2] = e /\ At(p, "call")
        BY <2>8, RowFactsHold DEF At, RowFacts, PartitionFacts
      <4> QED BY <4>1 DEF LoseLease
    <3>2. /\ sent' \in SentType /\ sent'.cancel[e] = sent.cancel[e] + 1
          /\ \A f \in Tools : sent'.run[f] = sent.run[f] /\ (f # e => sent'.cancel[f] = sent.cancel[f])
      BY <3>1, CancelStepsHold DEF CancelSteps, SentCancelTyped
    <3>3. Right(db.session, db.ex[e], db.q[Exec(e)], w[Exec(e)], Idle, sent.run[e], sent.cancel[e] + 1)
      BY <2>8, ExecutionFactsHold, WorkerFactsHold, ExecutionRowsHold DEF ExecutionFacts, ExecFacts,
         WorkerFacts, IdleFields, ExecutionRows, CallCancelKeeps
    <3>4. RightIn(db', e, w[Exec(e)], Idle, sent.run[e], sent'.cancel[e])
      <4>1. db'.q[Exec(e)] = db.q[Exec(e)]
        BY <2>3, <2>8, RowFactsHold DEF RowFacts, PartitionFacts
      <4> QED BY <2>3, <3>2, <3>3, <4>1 DEF RightIn, Sound
    <3>5. \A f \in Tools : (Exec(f) # p => sent'.run[f] = sent.run[f]) /\ (Cancel(f) # p => sent'.cancel[f] = sent.cancel[f])
      BY <2>8, <3>2
    <3>6. \A f \in Tools : p # Exec(f)
      BY <2>8, RowFactsHold DEF RowFacts, PartitionFacts
    <3>7. \A f \in Tools : p = Cancel(f) => RightIn(db', f, w[Exec(f)], Idle, sent.run[f], sent'.cancel[f])
      BY <2>8, <3>4, RowFactsHold DEF RowFacts, PartitionFacts
    <3> QED BY <2>1, <2>5, <2>6, <3>2, <3>5, <3>6, <3>7, WorkerFactsHold, QueueStepsHold DEF WorkerFacts,
       IdleFields, QueueSteps, WorkerStep
  <2> QED BY <2>7, <2>8
<1>ProviderStep. ProviderStep
  <2> SUFFICES
      ASSUME ExecutionInv, db' = db, w' = w, cleanup' = cleanup, sent' = sent,
             provider' \in Seq({"started", "stopped", "gone"}), late' \subseteq late
      PROVE  ExecutionInv'
    BY DEF ProviderStep
  <2>1. Sound(db, db')
    BY SoundFactsHold DEF ExecutionInv, Typed, SoundFacts, SoundRefl
  <2>2. Typed
    BY DEF ExecutionInv
  <2> QED BY <2>1, <2>2, StepFactsHold DEF Typed, StepFacts, SoundStep
<1>ProviderTyped. ProviderTyped
  <2> SUFFICES
      ASSUME ExecutionInv, NEW h \in DOMAIN provider, NEW s \in {"started", "stopped", "gone"}
      PROVE  [provider EXCEPT ![h] = s] \in Seq({"started", "stopped", "gone"})
    BY DEF ProviderTyped
  <2> DEFINE P == {"started", "stopped", "gone"}
             n == Len(provider)
  <2>1. provider \in Seq(P)
    BY DEF ExecutionInv, Typed
  <2> HIDE DEF P
  <2>2. n \in Nat /\ provider \in [1..n -> P]
    BY <2>1, SequenceFactsHold DEF SequenceFacts, SeqIsFunction
  <2> HIDE DEF n
  <2>3. [provider EXCEPT ![h] = s] \in [1..n -> P]
    BY <2>2 DEF P
  <2>4. [provider EXCEPT ![h] = s] \in Seq(P)
    BY <2>2, <2>3, SequenceFactsHold DEF SequenceFacts, FunctionIsSeq
  <2> QED BY <2>4 DEF P
<1>LateEffectKeeps. LateEffectKeeps
  <2> SUFFICES
      ASSUME ExecutionInv, LateEffect
      PROVE  ExecutionInv'
    BY DEF LateEffectKeeps
  <2>1. PICK c \in late : provider' = Effect(c) /\ late' = late \ {c}
    BY DEF LateEffect
  <2>2. c \in Calls
    BY DEF ExecutionInv, Typed, Calls
  <2>3. provider' \in Seq({"started", "stopped", "gone"})
    BY <2>1, <2>2, ProviderStepsHold DEF ProviderSteps, EffectTyped
  <2> QED BY <2>1, <2>3, <1>ProviderStep DEF LateEffect, ProviderStep
<1>StopsKeeps. StopsKeeps
  <2> SUFFICES
      ASSUME ExecutionInv, Stops
      PROVE  ExecutionInv'
    BY DEF StopsKeeps
  <2>1. PICK h \in DOMAIN provider : provider' = [provider EXCEPT ![h] = "stopped"]
    BY DEF Stops
  <2>2. provider' \in Seq({"started", "stopped", "gone"})
    BY <2>1, <1>ProviderTyped DEF ProviderTyped
  <2> QED BY <2>2, <1>ProviderStep DEF Stops, ProviderStep
<1>LosesKeeps. LosesKeeps
  <2> SUFFICES
      ASSUME ExecutionInv, Loses
      PROVE  ExecutionInv'
    BY DEF LosesKeeps
  <2>1. PICK h \in DOMAIN provider : provider' = [provider EXCEPT ![h] = "gone"]
    BY DEF Loses, Alive
  <2>2. provider' \in Seq({"started", "stopped", "gone"})
    BY <2>1, <1>ProviderTyped DEF ProviderTyped
  <2> QED BY <2>2, <1>ProviderStep DEF Loses, ProviderStep
<1>AcceptKeepsInv. AcceptKeepsInv
  <2> SUFFICES
      ASSUME ExecutionInv, NEW e \in Tools, Accept(e)
      PROVE  ExecutionInv'
    BY DEF AcceptKeepsInv
  <2> DEFINE x == db.ex[e]
             y == [x EXCEPT !.state = "pending", !.gen = 1]
             d1 == SetEx(db, e, y)
             p == Exec(e)
  <2>1. db.session = "live" /\ x.state = "none" /\ db' = Enqueue(d1, p, 1) /\ w' = w /\ UNCHANGED External
    BY DEF Accept
  <2>2. db \in DB /\ x \in ExRow /\ p \in Partitions
    BY ExecutionFactsHold, RowFactsHold DEF ExecutionFacts, ExecFacts, RowFacts, PartitionFacts
  <2>3. y \in ExRow /\ y.state = "pending" /\ y.gen = 1 /\ y.out = x.out /\ y.cancel = x.cancel
    BY <2>2 DEF ExRow
  <2> HIDE DEF y
  <2>4. Others(db, d1, e) /\ ExOnly(db, d1) /\ d1.ex[e] = y /\ d1.q = db.q /\ d1 \in DB
    BY <2>2, <2>3, InterruptTxHold DEF Others, InterruptTx, SetExOthers
  <2> HIDE DEF d1
  <2>5. /\ db' \in DB /\ db'.q[p] = Added(d1.q[p], 1)
        /\ \A z \in Partitions : z # p => db'.q[z] = d1.q[z]
        /\ db'.ops = d1.ops /\ db'.session = d1.session /\ db'.ex = d1.ex
    BY <2>1, <2>2, <2>4, OperationFactsHold, SMTT(30) DEF OperationFacts, EnqueueIs
  <2>6. Others(db, db', e)
    BY <2>2, <2>4, <2>5, QueueStepsHold, InterruptTxHold DEF QueueSteps, QueueOthers, InterruptTx, OthersTrans
  <2>7. Right(db.session, y, Added(db.q[p], 1), w[p], w[Cancel(e)], sent.run[e], sent.cancel[e])
    BY <2>1, <2>3, ExecutionFactsHold, ExecutionRowsHold DEF ExecutionFacts, ExecFacts, ExecutionRows,
       AcceptKeeps
  <2>8. RightTool(e)'
    <3>1. sent' = sent /\ db'.session = db.session /\ db'.ex[e] = y /\ db'.q[p] = Added(db.q[p], 1)
      BY <2>1, <2>4, <2>5 DEF External, ExOnly
    <3> QED BY <2>1, <2>7, <3>1 DEF RightTool, RightIn
  <2> QED BY <2>1, <2>6, <2>8, <1>OwnQuietStep DEF OwnQuietStep
<1>TouchKeeps. TouchKeeps
  <2> SUFFICES
      ASSUME ExecutionInv, NEW e \in Tools, NEW y \in ExRow, OwnTx(db, db', e), db'.ex[e] = y, w' = w,
             UNCHANGED External, db.ex[e].state # "none",
             y.state = db.ex[e].state, y.gen = db.ex[e].gen, y.out = db.ex[e].out, y.cancel = db.ex[e].cancel
      PROVE  ExecutionInv'
    BY DEF TouchKeeps
  <2>1. Right(db.session, y, db.q[Exec(e)], w[Exec(e)], w[Cancel(e)], sent.run[e], sent.cancel[e])
    BY ExecutionFactsHold, ExecutionRowsHold DEF ExecutionFacts, ExecFacts, ExecutionRows, SameRowKeeps
  <2>2. RightTool(e)'
    <3>1. sent' = sent /\ db'.session = db.session /\ db'.ex[e] = y /\ db'.q[Exec(e)] = db.q[Exec(e)]
      BY DEF External, OwnTx, Others
    <3> QED BY <2>1, <3>1 DEF RightTool, RightIn
  <2> QED BY <2>2, <1>OwnQuietStep DEF OwnTx, OwnQuietStep
<1>DeadlinePassesKeeps. DeadlinePassesKeeps
  <2> SUFFICES
      ASSUME ExecutionInv, NEW e \in Tools, DeadlinePasses(e)
      PROVE  ExecutionInv'
    BY DEF DeadlinePassesKeeps
  <2> DEFINE x == db.ex[e]
             y == [x EXCEPT !.late = TRUE]
  <2>1. x.state = "preparing" /\ db' = SetEx(db, e, y) /\ w' = w /\ UNCHANGED External
    BY DEF DeadlinePasses
  <2>2. db \in DB /\ x \in ExRow
    BY ExecutionFactsHold DEF ExecutionFacts, ExecFacts
  <2>3. y \in ExRow /\ y.state = x.state /\ y.gen = x.gen /\ y.out = x.out /\ y.cancel = x.cancel
    BY <2>2 DEF ExRow
  <2> HIDE DEF y
  <2>4. OwnTx(db, db', e) /\ db'.ex[e] = y
    BY <2>1, <2>2, <2>3, InterruptTxHold DEF OwnTx, InterruptTx, SetExOthers
  <2> QED BY <2>1, <2>3, <2>4, <1>TouchKeeps DEF TouchKeeps
<1>TaskEndsKeeps. TaskEndsKeeps
  <2> SUFFICES
      ASSUME ExecutionInv, NEW e \in Tools, TaskEnds(e)
      PROVE  ExecutionInv'
    BY DEF TaskEndsKeeps
  <2> DEFINE x == db.ex[e]
             y == [x EXCEPT !.task = 0]
  <2>1. x.task # 0 /\ db' = ReadyReleases(SetEx(db, e, y)) /\ w' = w /\ UNCHANGED External
    BY DEF TaskEnds
  <2>2. db \in DB /\ x \in ExRow
    BY ExecutionFactsHold DEF ExecutionFacts, ExecFacts
  <2>3. y \in ExRow /\ y.state = x.state /\ y.gen = x.gen /\ y.out = x.out /\ y.cancel = x.cancel
    BY <2>2 DEF ExRow
  <2> HIDE DEF y
  <2>4. OwnTx(db, db', e) /\ db'.ex[e] = y
    BY <2>1, <2>2, <2>3, WaitTxHold DEF WaitTx, SetExReady
  <2>5. x.state # "none"
    BY <2>1, ExecutionFactsHold, RightFactsHold DEF Right, ExecutionFacts, ExecFacts, RightFacts,
       ExecutionFields
  <2> QED BY <2>1, <2>3, <2>4, <2>5, <1>TouchKeeps DEF TouchKeeps
<1> QED BY <1>QuietStep, <1>OwnQuietStep, <1>BackoffEndsKeeps, <1>OverLimitKeepsInv, <1>LoseLeaseKeeps,
   <1>ProviderStep, <1>ProviderTyped, <1>LateEffectKeeps, <1>StopsKeeps, <1>LosesKeeps, <1>AcceptKeepsInv,
   <1>TouchKeeps, <1>DeadlinePassesKeeps, <1>TaskEndsKeeps DEF LossSteps

-----------------------------------------------------------------------------
(* The Runtime's end, the API, the Environment and the delete's cleanup.   *)

\* A change of the database that keeps every execution right although the
\* Session may change.
Steady(d, d2) ==
  /\ d2 \in DB /\ Len(d2.ops) >= Len(d.ops)
  /\ LifeRefs(d) => LifeRefs(d2)
  /\ Keeps(d, d2)

\* The database after the Session changed to ses.
SetSession(d, ses) == [d EXCEPT !.session = ses]

\* The database after the rows of the Session were purged.
Purged(d) ==
  [d EXCEPT !.session = "purged", !.bnd = Unbound,
            !.ops = [o \in OpIds(d) |-> [d.ops[o] EXCEPT !.state = "deleted"]],
            !.ex = [e \in Tools |-> Execution]]

\* A sound transaction is steady.
SoundSteady ==
  \A d, d2 :
    Sound(d, d2) =>
      Steady(d, d2)

\* Steady changes compose.
SteadyTrans ==
  \A d1 \in DB : \A d2, d3 :
    /\ Steady(d1, d2)
    /\ Steady(d2, d3)
    =>
      Steady(d1, d3)

\* The Session changes alone.
SetSessionIs ==
  \A d \in DB, ses \in {"live", "deleted", "purged", "rejected"} :
    LET d2 == SetSession(d, ses) IN
    /\ d2 \in DB /\ d2.session = ses /\ d2.bnd = d.bnd /\ d2.desired = d.desired /\ d2.artifact = d.artifact
    /\ d2.ops = d.ops /\ d2.ex = d.ex /\ d2.q = d.q

\* A Session may be deleted, and its cleanup rejected.
SessionSteady ==
  \A d \in DB, ses \in {"deleted", "rejected"} :
    d.session # "purged" =>
      Steady(d, SetSession(d, ses))

\* A steady change without a worker keeps the invariant.
SteadyStep ==
  /\ ExecutionInv
  /\ Steady(db, db')
  /\ w' = w
  /\ provider' = provider
  /\ late' = late
  /\ sent' = sent
  /\ cleanup' \in [pc : {"idle", "custody", "rows"}, last : BOOLEAN]
  /\ (cleanup'.pc # "idle" => db'.session = "deleted")
  =>
    ExecutionInv'

\* An interrupt keeps the invariant, whatever the workers of its Tools are
\* doing.
InterruptKeepsInv ==
  /\ ExecutionInv
  /\ Interrupt
  =>
    ExecutionInv'

\* The Runtime's end keeps the invariant.
TerminateKeeps ==
  /\ ExecutionInv
  /\ Terminate
  =>
    ExecutionInv'

\* A resource mutation keeps the invariant.
MutateKeeps ==
  /\ ExecutionInv
  /\ Mutate
  =>
    ExecutionInv'

\* The artifacts change alone.
ArtifactIs ==
  \A d \in DB, a \in Seq({"building", "ready", "failed"}) :
    LET d1 == [d EXCEPT !.artifact = a] IN
    /\ d1 \in DB /\ d1.artifact = a /\ d1.session = d.session /\ d1.bnd = d.bnd /\ d1.desired = d.desired
    /\ d1.ops = d.ops /\ d1.ex = d.ex /\ d1.q = d.q /\ Sound(d, d1)

\* A new generation keeps the invariant.
NewGenerationKeeps ==
  /\ ExecutionInv
  /\ NewGeneration
  =>
    ExecutionInv'

\* The end of a build keeps the invariant.
BuildEndsKeeps ==
  /\ ExecutionInv
  /\ BuildEnds
  =>
    ExecutionInv'

\* The delete of the Session keeps the invariant.
DeleteKeeps ==
  /\ ExecutionInv
  /\ Delete
  =>
    ExecutionInv'

\* A delivery of the cleanup keeps the invariant.
CleanedKeeps ==
  \A d : \A last \in BOOLEAN, pc \in {"idle", "custody", "rows"} :
    /\ ExecutionInv
    /\ Sound(db, d)
    /\ Cleaned(d, last, pc)
    /\ db.session = "deleted"
    /\ w' = w
    /\ provider' = provider
    /\ late' = late
    /\ sent' = sent
    =>
      ExecutionInv'

\* The first transaction of the cleanup keeps the invariant.
CleanupEnsuresKeeps ==
  /\ ExecutionInv
  /\ CleanupEnsures
  =>
    ExecutionInv'

\* Its custody check keeps the invariant.
CleanupChecksKeeps ==
  /\ ExecutionInv
  /\ CleanupChecks
  =>
    ExecutionInv'

\* The database after the purge.
PurgedIs ==
  \A d \in DB :
    LET d2 == Purged(d) IN
    /\ d2 \in DB /\ d2.session = "purged" /\ d2.bnd = Unbound /\ d2.desired = d.desired /\ d2.artifact = d.artifact
    /\ Len(d2.ops) = Len(d.ops) /\ d2.q = d.q
    /\ \A o \in OpIds(d) : d2.ops[o] = [d.ops[o] EXCEPT !.state = "deleted"]
    /\ \A e \in Tools : d2.ex[e] = Execution

\* The purge is steady.
PurgeSteady ==
  \A d \in DB :
    Steady(d, Purged(d))

\* The purge keeps the invariant.
CleanupDeletesKeeps ==
  /\ ExecutionInv
  /\ CleanupDeletes
  =>
    ExecutionInv'

\* The steps of the Runtime's end, the API, the Environment and the cleanup
\* keep the invariant.
DemandSteps ==
  /\ SoundSteady /\ SteadyTrans /\ SetSessionIs /\ SessionSteady /\ SteadyStep /\ InterruptKeepsInv
  /\ TerminateKeeps /\ MutateKeeps /\ ArtifactIs /\ NewGenerationKeeps /\ BuildEndsKeeps
  /\ DeleteKeeps /\ CleanedKeeps /\ CleanupEnsuresKeeps /\ CleanupChecksKeeps /\ PurgedIs
  /\ PurgeSteady /\ CleanupDeletesKeeps

\* These facts hold.
LEMMA DemandStepsHold == ASSUME OrderFacts PROVE DemandSteps
<1>SoundSteady. SoundSteady
  BY DEF Sound, Steady, SoundSteady
<1>SteadyTrans. SteadyTrans
  <2> SUFFICES
      ASSUME NEW d1 \in DB, NEW d2, NEW d3, Steady(d1, d2), Steady(d2, d3)
      PROVE  Steady(d1, d3)
    BY DEF SteadyTrans
  <2>1. Len(d1.ops) \in Nat /\ Len(d2.ops) \in Nat /\ Len(d3.ops) \in Nat
    BY RowFactsHold DEF Steady, RowFacts, DBFields
  <2>2. Keeps(d1, d3)
    BY DEF Steady, Keeps
  <2> QED BY <2>1, <2>2, SMTT(30) DEF Steady
<1>SetSessionIs. SetSessionIs
  BY DEF SetSession, DB, SetSessionIs
<1>SessionSteady. SessionSteady
  <2> SUFFICES
      ASSUME NEW d \in DB, NEW ses \in {"deleted", "rejected"}, d.session # "purged"
      PROVE  Steady(d, SetSession(d, ses))
    BY DEF SessionSteady
  <2> DEFINE d2 == SetSession(d, ses)
  <2>1. d2 \in DB /\ d2.session = ses /\ d2.ops = d.ops /\ d2.ex = d.ex /\ d2.q = d.q
    BY <1>SetSessionIs, SMTT(30) DEF SetSessionIs
  <2> HIDE DEF d2
  <2>2. Len(d.ops) \in Nat
    BY RowFactsHold DEF RowFacts, DBFields
  <2>3. Keeps(d, d2)
    <3> SUFFICES ASSUME NEW e \in Tools, NEW v \in Worker, NEW c \in Worker, NEW n \in Nat, NEW k \in Nat,
                        RightIn(d, e, v, c, n, k)
                 PROVE  RightIn(d2, e, v, c, n, k)
      BY DEF Keeps
    <3>1. Right(d2.session, d.ex[e], d.q[Exec(e)], v, c, n, k)
      BY <2>1, ExecutionRowsHold, SMTT(30) DEF RightIn, ExecutionRows, SessionKeeps
    <3> QED BY <2>1, <3>1 DEF RightIn
  <2> QED BY <2>1, <2>2, <2>3, SMTT(30) DEF Steady, LifeRefs, OpIds, d2
<1>SteadyStep. SteadyStep
  <2> SUFFICES
      ASSUME ExecutionInv, Steady(db, db'), w' = w, provider' = provider, late' = late, sent' = sent,
             cleanup' \in [pc : {"idle", "custody", "rows"}, last : BOOLEAN],
             cleanup'.pc # "idle" => db'.session = "deleted"
      PROVE  ExecutionInv'
    BY DEF SteadyStep
  <2>1. Typed'
    <3>1. OpIds(db) \subseteq OpIds(db')
      <4>1. Len(db.ops) \in Nat /\ Len(db'.ops) \in Nat
        BY RowFactsHold DEF Steady, ExecutionInv, Typed, RowFacts, DBFields
      <4> QED BY <4>1, SMTT(30) DEF OpIds, Steady
    <3> QED BY <3>1 DEF ExecutionInv, Typed, Steady
  <2>2. ASSUME NEW e \in Tools PROVE RightTool(e)'
    <3>1. RightIn(db, e, w[Exec(e)], w[Cancel(e)], sent.run[e], sent.cancel[e])
      BY DEF ExecutionInv, AllRight, RightTool
    <3>2. w[Exec(e)] \in Worker /\ w[Cancel(e)] \in Worker /\ sent.run[e] \in Nat /\ sent.cancel[e] \in Nat
      BY StepFactsHold DEF ExecutionInv, StepFacts, TypedFacts
    <3>3. RightIn(db', e, w[Exec(e)], w[Cancel(e)], sent.run[e], sent.cancel[e])
      BY <3>1, <3>2 DEF Steady, Keeps
    <3> QED BY <3>3 DEF RightTool
  <2> QED BY <2>1, <2>2 DEF ExecutionInv, AllRight
<1>InterruptKeepsInv. InterruptKeepsInv
  <2> SUFFICES
      ASSUME ExecutionInv, Interrupt
      PROVE  ExecutionInv'
    BY DEF InterruptKeepsInv
  <2>1. PICK S \in SUBSET Open(db) : db' = ReadyReleases(InterruptTools(db, S))
    BY DEF Interrupt
  <2> DEFINE d1 == InterruptTools(db, S)
  <2>2. db \in DB
    BY DEF ExecutionInv, Typed
  <2>3. Sound(db, d1) /\ d1 \in DB
    BY <2>2, InterruptTxHold DEF Sound, InterruptTx, InterruptToolsSound
  <2> HIDE DEF d1
  <2>4. Sound(d1, ReadyReleases(d1))
    BY <2>3, ReleaseTxHold DEF ReleaseTx, ReadyReleasesSound
  <2>5. Sound(db, db')
    BY <2>1, <2>2, <2>3, <2>4, SoundFactsHold DEF d1, SoundFacts, SoundTrans
  <2> QED BY <2>5, LossStepsHold DEF Interrupt, LossSteps, QuietStep
<1>TerminateKeeps. TerminateKeeps
  <2> SUFFICES
      ASSUME ExecutionInv, Terminate
      PROVE  ExecutionInv'
    BY DEF TerminateKeeps
  <2> DEFINE d1 == ConsumeAll(db)
  <2>1. db' = ReadyReleases(d1) /\ w' = w /\ UNCHANGED External
    BY DEF Terminate
  <2>2. db \in DB
    BY DEF ExecutionInv, Typed
  <2>3. Sound(db, d1) /\ d1 \in DB
    BY <2>2, InterruptTxHold DEF Sound, InterruptTx, ConsumeAllSound
  <2> HIDE DEF d1
  <2>4. Sound(d1, ReadyReleases(d1))
    BY <2>3, ReleaseTxHold DEF ReleaseTx, ReadyReleasesSound
  <2>5. Sound(db, db')
    BY <2>1, <2>2, <2>3, <2>4, SoundFactsHold DEF SoundFacts, SoundTrans
  <2> QED BY <2>1, <2>5, LossStepsHold DEF LossSteps, QuietStep
<1>MutateKeeps. MutateKeeps
  <2> SUFFICES
      ASSUME ExecutionInv, Mutate
      PROVE  ExecutionInv'
    BY DEF MutateKeeps
  <2> DEFINE n == db.desired + 1
             d1 == [db EXCEPT !.desired = n]
  <2>1. (db' = EnsureMaterialization(d1) \/ db' = d1) /\ w' = w /\ UNCHANGED External
    BY DEF Mutate
  <2>2. db \in DB
    BY DEF ExecutionInv, Typed
  <2>3. n \in Nat
    BY <2>2, RowFactsHold, SMTT(30) DEF RowFacts, DBFields
  <2> HIDE DEF n
  <2>4. d1 \in DB /\ d1.session = db.session /\ d1.ops = db.ops /\ d1.ex = db.ex /\ d1.q = db.q
    BY <2>2, <2>3 DEF DB
  <2> HIDE DEF d1
  <2>5. Sound(db, d1)
    BY <2>2, <2>4, LifecycleTxHold DEF LifecycleTx, OtherQueueSound
  <2>6. Sound(d1, EnsureMaterialization(d1))
    BY <2>4, FailureTxHold DEF FailureTx, EnsureMaterializationSound
  <2>7. Sound(db, db')
    BY <2>1, <2>2, <2>5, <2>6, SoundFactsHold DEF SoundFacts, SoundTrans
  <2> QED BY <2>1, <2>7, LossStepsHold DEF LossSteps, QuietStep
<1>ArtifactIs. ArtifactIs
  <2> SUFFICES
      ASSUME NEW d \in DB, NEW a \in Seq({"building", "ready", "failed"})
      PROVE  LET d1 == [d EXCEPT !.artifact = a] IN
             /\ d1 \in DB /\ d1.artifact = a /\ d1.session = d.session /\ d1.bnd = d.bnd /\ d1.desired = d.desired
             /\ d1.ops = d.ops /\ d1.ex = d.ex /\ d1.q = d.q /\ Sound(d, d1)
    BY DEF ArtifactIs
  <2> DEFINE d1 == [d EXCEPT !.artifact = a]
  <2>1. /\ d1 \in DB /\ d1.artifact = a /\ d1.session = d.session /\ d1.bnd = d.bnd /\ d1.desired = d.desired
        /\ d1.ops = d.ops /\ d1.ex = d.ex /\ d1.q = d.q
    BY DEF DB
  <2> HIDE DEF d1
  <2>2. Sound(d, d1)
    BY <2>1, LifecycleTxHold DEF LifecycleTx, OtherQueueSound
  <2> QED BY <2>1, <2>2 DEF d1
<1>NewGenerationKeeps. NewGenerationKeeps
  <2> SUFFICES
      ASSUME ExecutionInv, NewGeneration
      PROVE  ExecutionInv'
    BY DEF NewGenerationKeeps
  <2> DEFINE a == Append(db.artifact, "building")
  <2>1. db' = [db EXCEPT !.artifact = a] /\ w' = w /\ UNCHANGED External
    BY DEF NewGeneration
  <2>2. db \in DB /\ a \in Seq({"building", "ready", "failed"})
    BY RowFactsHold, SMTT(30) DEF ExecutionInv, Typed, RowFacts, DBFields
  <2> HIDE DEF a
  <2>3. Sound(db, db')
    BY <2>1, <2>2, <1>ArtifactIs DEF ArtifactIs
  <2> QED BY <2>1, <2>3, LossStepsHold DEF LossSteps, QuietStep
<1>BuildEndsKeeps. BuildEndsKeeps
  <2> SUFFICES
      ASSUME ExecutionInv, BuildEnds
      PROVE  ExecutionInv'
    BY DEF BuildEndsKeeps
  <2>1. PICK g \in DOMAIN db.artifact :
          db' = MarkEnvironmentBuildReady(db, g) \/ db' = MarkEnvironmentBuildTerminalFailure(db, g)
    BY DEF BuildEnds
  <2> DEFINE A == {"building", "ready", "failed"}
             n == Len(db.artifact)
             a1 == [db.artifact EXCEPT ![g] = "ready"]
             a2 == [db.artifact EXCEPT ![g] = "failed"]
             d1 == [db EXCEPT !.artifact = a1]
             d2 == [db EXCEPT !.artifact = a2]
  <2>2. db \in DB /\ db.artifact \in Seq(A)
    BY RowFactsHold DEF ExecutionInv, Typed, RowFacts, DBFields
  <2>3. n \in Nat /\ db.artifact \in [1..n -> A] /\ g \in 1..n
    BY <2>2, SequenceFactsHold DEF SequenceFacts, SeqIsFunction
  <2> HIDE DEF n
  <2>4. a1 \in [1..n -> A] /\ a2 \in [1..n -> A]
    BY <2>3
  <2>5. a1 \in Seq(A) /\ a2 \in Seq(A) /\ g \in Nat \ {0}
    <3> HIDE DEF A, a1, a2
    <3> QED BY <2>3, <2>4, SequenceFactsHold, SMTT(30) DEF SequenceFacts, FunctionIsSeq
  <2>6. db' = Enqueue(d1, Fanout, g) \/ db' = FailWaitingArtifact(d2, g)
    BY <2>1, <2>2 DEF MarkEnvironmentBuildReady, MarkEnvironmentBuildTerminalFailure, DB
  <2> HIDE DEF a1, a2
  <2>7. Sound(db, d1) /\ Sound(db, d2) /\ d1 \in DB /\ d2 \in DB
    BY <2>2, <2>5, <1>ArtifactIs DEF ArtifactIs
  <2> HIDE DEF d1, d2
  <2>8. Sound(d1, Enqueue(d1, Fanout, g))
    <3> DEFINE d3 == Enqueue(d1, Fanout, g)
    <3>1. /\ d3 \in DB /\ \A x \in Partitions : x # Fanout => d3.q[x] = d1.q[x]
          /\ d3.ops = d1.ops /\ d3.session = d1.session /\ d3.ex = d1.ex
      <4>1. Fanout \in Partitions
        BY DEF Partitions
      <4> QED BY <2>5, <2>7, <4>1, OperationFactsHold DEF OperationFacts, EnqueueIs
    <3> HIDE DEF d3
    <3>2. Sound(d1, d3)
      BY <2>7, <3>1, LifecycleTxHold, RowFactsHold, SMTT(30) DEF LifecycleTx, OtherQueueSound, RowFacts, PartitionFacts
    <3> QED BY <3>2 DEF d3
  <2>9. Sound(d2, FailWaitingArtifact(d2, g))
    BY <2>7, LifecycleTxHold DEF LifecycleTx, FailWaitingArtifactSound
  <2>10. Sound(db, db')
    BY <2>2, <2>6, <2>7, <2>8, <2>9, SoundFactsHold DEF SoundFacts, SoundTrans
  <2> QED BY <2>10, LossStepsHold DEF BuildEnds, LossSteps, QuietStep
<1>DeleteKeeps. DeleteKeeps
  <2> SUFFICES
      ASSUME ExecutionInv, Delete
      PROVE  ExecutionInv'
    BY DEF DeleteKeeps
  <2> DEFINE d0 == SetSession(db, "deleted")
  <2>1. /\ db.session = "live" /\ db' = EnsureSessionDelete(d0, db.bnd.handle) /\ w' = w
        /\ cleanup' = cleanup /\ provider' = provider /\ late' = late /\ sent' = sent
    BY DEF Delete, External, SetSession
  <2>2. db \in DB /\ db.bnd.handle \in Nat
    BY RowFactsHold DEF ExecutionInv, Typed, BndRow, RowFacts, DBFields
  <2>3. Steady(db, d0) /\ d0 \in DB /\ d0.session = "deleted"
    BY <2>1, <2>2, <1>SessionSteady, <1>SetSessionIs DEF SessionSteady, SetSessionIs
  <2> HIDE DEF d0
  <2>4. Sound(d0, db')
    BY <2>1, <2>2, <2>3, FailureTxHold DEF FailureTx, EnsureSessionDeleteSound
  <2>5. Steady(db, db') /\ db'.session = "deleted"
    BY <2>2, <2>3, <2>4, <1>SoundSteady, <1>SteadyTrans DEF Sound, SoundSteady, SteadyTrans
  <2>6. cleanup \in [pc : {"idle", "custody", "rows"}, last : BOOLEAN]
    BY DEF ExecutionInv, Typed
  <2> QED BY <2>1, <2>5, <2>6, <1>SteadyStep DEF SteadyStep
<1>CleanedKeeps. CleanedKeeps
  <2> SUFFICES
      ASSUME ExecutionInv, NEW d, Sound(db, d), NEW last \in BOOLEAN, NEW pc \in {"idle", "custody", "rows"},
             Cleaned(d, last, pc), db.session = "deleted", w' = w, provider' = provider, late' = late, sent' = sent
      PROVE  ExecutionInv'
    BY DEF CleanedKeeps
  <2>1. db \in DB /\ d \in DB /\ d.session = "deleted"
    BY DEF ExecutionInv, Typed, Sound
  <2>2. cleanup' = [pc |-> pc, last |-> last /\ pc # "idle"]
    BY DEF Cleaned
  <2>3. cleanup' \in [pc : {"idle", "custody", "rows"}, last : BOOLEAN] /\ cleanup'.pc = pc
    BY <2>2
  <2>4. (db' = SetSession(d, "rejected") /\ pc = "idle") \/ db' = d
    BY DEF Cleaned, SetSession
  <2>5. Steady(d, SetSession(d, "rejected"))
    BY <2>1, <1>SessionSteady DEF SessionSteady
  <2>6. Steady(db, db')
    BY <2>1, <2>4, <2>5, <1>SoundSteady, <1>SteadyTrans DEF SoundSteady, SteadyTrans
  <2>7. cleanup'.pc # "idle" => db'.session = "deleted"
    BY <2>1, <2>3, <2>4
  <2> QED BY <2>3, <2>6, <2>7, <1>SteadyStep DEF SteadyStep
<1>CleanupEnsuresKeeps. CleanupEnsuresKeeps
  <2> SUFFICES
      ASSUME ExecutionInv, CleanupEnsures
      PROVE  ExecutionInv'
    BY DEF CleanupEnsuresKeeps
  <2>0. db \in DB
    BY DEF ExecutionInv, Typed
  <2>1. PICK d \in {db, ConsumeAll(db)} :
          LET d1 == EnsureSessionDelete(d, d.bnd.handle)
              d2 == EnsureFailedSessionDelete(d1)
          IN \/ Cleaned(d2, FALSE, IF ReleaseComplete(d) /\ d2 = d1 THEN "custody" ELSE "idle")
             \/ Cleaned(d, TRUE, IF ReleaseComplete(d) THEN "custody" ELSE "idle")
    BY DEF CleanupEnsures
  <2> DEFINE d1 == EnsureSessionDelete(d, d.bnd.handle)
             d2 == EnsureFailedSessionDelete(d1)
  <2>2. \E pc \in {"idle", "custody"} : Cleaned(d2, FALSE, pc) \/ Cleaned(d, TRUE, pc)
    BY <2>1
  <2>3. Sound(db, d) /\ d \in DB
    BY <2>0, <2>1, SoundFactsHold, InterruptTxHold DEF Sound, SoundFacts, SoundRefl, InterruptTx,
       ConsumeAllSound
  <2>4. Sound(d, d1) /\ d1 \in DB
    <3>1. d.bnd.handle \in Nat
      BY <2>3, RowFactsHold DEF BndRow, RowFacts, DBFields
    <3> QED BY <2>3, <3>1, FailureTxHold DEF Sound, FailureTx, EnsureSessionDeleteSound
  <2> HIDE DEF d1
  <2>5. Sound(d1, d2)
    BY <2>4, LifecycleTxHold DEF LifecycleTx, EnsureFailedSessionDeleteSound
  <2> HIDE DEF d2
  <2>6. Sound(db, d2)
    <3>1. Sound(db, d1)
      BY <2>0, <2>3, <2>4, SoundFactsHold DEF SoundFacts, SoundTrans
    <3> QED BY <2>0, <2>5, <3>1, SoundFactsHold DEF SoundFacts, SoundTrans
  <2>7. db.session = "deleted" /\ w' = w /\ provider' = provider /\ late' = late /\ sent' = sent
    BY DEF CleanupEnsures
  <2> QED BY <2>2, <2>3, <2>6, <2>7, <1>CleanedKeeps DEF CleanedKeeps
<1>CleanupChecksKeeps. CleanupChecksKeeps
  <2> SUFFICES
      ASSUME ExecutionInv, CleanupChecks
      PROVE  ExecutionInv'
    BY DEF CleanupChecksKeeps
  <2>1. \E pc \in {"idle", "rows"} : Cleaned(db, cleanup.last, pc)
    BY DEF CleanupChecks
  <2>2. Sound(db, db) /\ cleanup.last \in BOOLEAN /\ db.session = "deleted"
    BY SoundFactsHold DEF ExecutionInv, Typed, CleanupChecks, SoundFacts, SoundRefl
  <2> QED BY <2>1, <2>2, <1>CleanedKeeps DEF CleanupChecks, CleanedKeeps
<1>PurgedIs. PurgedIs
  <2> SUFFICES
      ASSUME NEW d \in DB
      PROVE  LET d2 == Purged(d) IN
             /\ d2 \in DB /\ d2.session = "purged" /\ d2.bnd = Unbound /\ d2.desired = d.desired /\ d2.artifact = d.artifact
             /\ Len(d2.ops) = Len(d.ops) /\ d2.q = d.q
             /\ \A o \in OpIds(d) : d2.ops[o] = [d.ops[o] EXCEPT !.state = "deleted"]
             /\ \A e \in Tools : d2.ex[e] = Execution
    BY DEF PurgedIs
  <2> DEFINE f == [o \in OpIds(d) |-> [d.ops[o] EXCEPT !.state = "deleted"]]
             x == [e \in Tools |-> Execution]
             n == Len(d.ops)
  <2>1. n \in Nat /\ \A o \in 1..n : d.ops[o] \in OpRow
    BY RowFactsHold DEF OpIds, RowFacts, DBFields
  <2>2. ASSUME NEW o \in 1..n PROVE [d.ops[o] EXCEPT !.state = "deleted"] \in OpRow
    <3> DEFINE op == d.ops[o]
    <3>1. op \in OpRow
      BY <2>1
    <3> HIDE DEF op
    <3>2. [op EXCEPT !.state = "deleted"] \in OpRow
      BY <3>1 DEF OpRow
    <3> QED BY <3>2 DEF op
  <2>3. f \in [1..n -> OpRow]
    BY <2>2 DEF OpIds
  <2>4. f \in Seq(OpRow) /\ Len(f) = n /\ OpIds(d) = 1..n
    <3>1. f \in Seq(OpRow)
      BY <2>1, <2>3, SequenceFactsHold DEF SequenceFacts, FunctionIsSeq
    <3> QED BY <2>1, <2>3, <3>1, SMTT(30) DEF OpIds
  <2>5. x \in [Tools -> ExRow]
    <3>1. Execution \in ExRow
      BY DEF Execution, ExRow
    <3> QED BY <3>1
  <2>6. Unbound \in BndRow
    BY DEF Unbound, BndRow
  <2>7. \A o \in OpIds(d) : f[o] = [d.ops[o] EXCEPT !.state = "deleted"]
    OBVIOUS
  <2>8. \A e \in Tools : x[e] = Execution
    OBVIOUS
  <2> HIDE DEF f, x
  <2> DEFINE d2 == [d EXCEPT !.session = "purged", !.bnd = Unbound, !.ops = f, !.ex = x]
  <2>9. /\ d2 \in DB /\ d2.session = "purged" /\ d2.bnd = Unbound /\ d2.desired = d.desired /\ d2.artifact = d.artifact
        /\ d2.ops = f /\ d2.q = d.q /\ d2.ex = x
    BY <2>4, <2>5, <2>6 DEF DB
  <2>10. d2 = Purged(d)
    BY DEF Purged, f, x
  <2> HIDE DEF d2
  <2> QED BY <2>4, <2>7, <2>8, <2>9, <2>10
<1>PurgeSteady. PurgeSteady
  <2> SUFFICES
      ASSUME NEW d \in DB
      PROVE  Steady(d, Purged(d))
    BY DEF PurgeSteady
  <2> DEFINE d2 == Purged(d)
  <2>1. /\ d2 \in DB /\ d2.session = "purged" /\ Len(d2.ops) = Len(d.ops) /\ d2.q = d.q
        /\ \A e \in Tools : d2.ex[e] = Execution
    BY <1>PurgedIs DEF PurgedIs
  <2> HIDE DEF d2
  <2>2. Len(d.ops) \in Nat
    BY RowFactsHold DEF RowFacts, DBFields
  <2>3. Keeps(d, d2)
    <3> SUFFICES ASSUME NEW e \in Tools, NEW v \in Worker, NEW c \in Worker, NEW n \in Nat, NEW k \in Nat,
                        RightIn(d, e, v, c, n, k)
                 PROVE  RightIn(d2, e, v, c, n, k)
      BY DEF Keeps
    <3>1. d.ex[e] \in ExRow /\ d.q[Exec(e)] \in Seq(JobRow)
      BY RowFactsHold DEF RowFacts, DBFields, PartitionFacts
    <3>2. Right("purged", Execution, d.q[Exec(e)], v, c, n, k)
      BY <3>1, RightFactsHold DEF RightIn, RightFacts, PurgeKeeps
    <3> QED BY <2>1, <3>2 DEF RightIn
  <2> QED BY <2>1, <2>2, <2>3, SMTT(30) DEF Steady, LifeRefs, OpIds, d2
<1>CleanupDeletesKeeps. CleanupDeletesKeeps
  <2> SUFFICES
      ASSUME ExecutionInv, CleanupDeletes
      PROVE  ExecutionInv'
    BY DEF CleanupDeletesKeeps
  <2>1. db' = Purged(db) /\ cleanup' = [pc |-> "idle", last |-> FALSE] /\ w' = w
        /\ provider' = provider /\ late' = late /\ sent' = sent
    BY DEF CleanupDeletes, Cleaned, Purged
  <2>2. Steady(db, db')
    BY <2>1, <1>PurgeSteady DEF ExecutionInv, Typed, PurgeSteady
  <2> QED BY <2>1, <2>2, <1>SteadyStep DEF SteadyStep
<1> QED BY <1>SoundSteady, <1>SteadyTrans, <1>SetSessionIs, <1>SessionSteady, <1>SteadyStep,
   <1>InterruptKeepsInv, <1>TerminateKeeps, <1>MutateKeeps, <1>ArtifactIs, <1>NewGenerationKeeps,
   <1>BuildEndsKeeps, <1>DeleteKeeps, <1>CleanedKeeps, <1>CleanupEnsuresKeeps, <1>CleanupChecksKeeps,
   <1>PurgedIs, <1>PurgeSteady, <1>CleanupDeletesKeeps DEF DemandSteps

-----------------------------------------------------------------------------
(* The steps of Next, process by process.                                  *)

\* Every step of the lifecycle worker keeps the invariant.
LifeStepKeeps ==
  /\ ExecutionInv
  /\ LifeStep
  =>
    ExecutionInv'

\* Every step of an execution's workers keeps the invariant.
ToolStepKeeps ==
  \A e \in Tools :
    /\ ExecutionInv
    /\ (ExecStep(e) \/ CancelStep(e))
    =>
      ExecutionInv'

\* Every step of the Queue keeps the invariant.
QueueStepKeeps ==
  \A p \in Partitions :
    /\ ExecutionInv
    /\ QueueStep(p)
    =>
      ExecutionInv'

\* Whatever goes wrong keeps the invariant.
DisturbanceKeeps ==
  /\ ExecutionInv
  /\ Disturbance
  =>
    ExecutionInv'

\* Whatever is asked for keeps the invariant.
DemandKeeps ==
  /\ ExecutionInv
  /\ Demand
  =>
    ExecutionInv'

\* The steps of each process keep the invariant.
ProcessSteps ==
  /\ LifeStepKeeps /\ ToolStepKeeps /\ QueueStepKeeps /\ DisturbanceKeeps /\ DemandKeeps

\* These facts hold.
LEMMA ProcessStepsHold == ASSUME OrderFacts PROVE ProcessSteps
<1>LifeStepKeeps. LifeStepKeeps
  BY LifecycleStepsHold, ProviderStepsHold DEF LifeStep, LifecycleSteps, ClaimLifecycleKeeps,
     LookForActivationKeeps, ProviderSteps, CallActivateKeeps, CallActivateFailsKeeps, ConfirmActivationKeeps,
     CommitActivationKeeps, LookForMaterializationKeeps, CallMaterializeKeeps, ParkReleaseKeeps,
     LookForReleaseKeeps, CallReleaseKeeps, CommitReleaseKeeps, LifeStepKeeps
<1>ToolStepKeeps. ToolStepKeeps
  BY ExecutionStepsHold, ExecutionFactsHold, CancelStepsHold DEF ExecStep, CancelStep, ExecutionSteps,
     LoadExecutionKeeps, InspectKeeps, ExecutionFacts, DependKeepsInv, BeginPreparingKeeps,
     AuthorizeRunningKeeps, PreparationFailsKeeps, ExecuteToolKeeps, ToolRepliesKeeps, ObserveToolKeeps,
     CancelSteps, ClaimCancellationKeeps, CallCancelKeepsInv, ToolStepKeeps
<1>QueueStepKeeps. QueueStepKeeps
  BY QueueStepsHold, CancelStepsHold, LossStepsHold DEF QueueStep, QueueSteps, LeaseKeepsInv, FinishKeepsInv,
     CancelSteps, ExhaustedKeeps, RetryKeeps, LossSteps, BackoffEndsKeeps, QueueStepKeeps
<1>DisturbanceKeeps. DisturbanceKeeps
  BY LifecycleStepsHold, ProviderStepsHold, LossStepsHold DEF Disturbance, LifecycleSteps, InspectionFailsKeeps,
     ProviderSteps, CallReleaseFailsKeeps, LossSteps, LateEffectKeeps, StopsKeeps, LosesKeeps, LoseLeaseKeeps,
     OverLimitKeepsInv, DisturbanceKeeps
<1>DemandKeeps. DemandKeeps
  BY DemandStepsHold, LossStepsHold DEF Demand, CleanupStep, DemandSteps, InterruptKeepsInv, TerminateKeeps,
     MutateKeeps, DeleteKeeps, CleanupEnsuresKeeps, CleanupChecksKeeps, CleanupDeletesKeeps, NewGenerationKeeps,
     BuildEndsKeeps, LossSteps, AcceptKeepsInv, DeadlinePassesKeeps, TaskEndsKeeps, DemandKeeps
<1> QED BY <1>LifeStepKeeps, <1>ToolStepKeeps, <1>QueueStepKeeps, <1>DisturbanceKeeps, <1>DemandKeeps
   DEF ProcessSteps

-----------------------------------------------------------------------------

\* Every step keeps the executions right.
LEMMA NextKeeps ==
  ASSUME OrderFacts, ExecutionInv, [Next]_vars PROVE ExecutionInv'
<1>1. ASSUME Next PROVE ExecutionInv'
  BY <1>1, ProcessStepsHold, ProviderStepsHold DEF ProcessSteps, ProviderSteps, FanoutReadyKeeps, LifeStepKeeps,
     ToolStepKeeps, QueueStepKeeps, DisturbanceKeeps, DemandKeeps, Next, Work
<1>2. ASSUME UNCHANGED vars PROVE ExecutionInv'
  BY <1>2 DEF vars, ExecutionInv, Typed, AllRight, RightTool
<1> QED BY <1>1, <1>2

-----------------------------------------------------------------------------
(* Finite sets of numbers, and their ascending order.                      *)

\* How many elements of S are smaller than x.
Below(S, x) == Cardinality({y \in S : y < x})

\* A smaller element has fewer elements below it.
LEMMA BelowSmaller ==
  ASSUME NEW S, IsFiniteSet(S), S \subseteq Nat, NEW x \in S, NEW y \in S, x < y
  PROVE  Below(S, x) < Below(S, y)
<1> DEFINE A == {z \in S : z < x}
           B == {z \in S : z < y}
<1>1. IsFiniteSet(A) /\ IsFiniteSet(B) /\ Cardinality(A) \in Nat /\ Cardinality(B) \in Nat
  BY FS_Subset, FS_CardinalityType
<1>2. A \subseteq B
  <2>1. \A z \in S : z < x => z < y
    BY SMTT(30)
  <2> QED BY <2>1
<1>3. x \in B /\ x \notin A
  BY SMTT(30)
<1>4. Cardinality(A) <= Cardinality(B) /\ Cardinality(B) # Cardinality(A)
  <2> HIDE DEF A, B
  <2> QED BY <1>1, <1>2, <1>3, FS_Subset
<1> QED BY <1>1, <1>4, SMTT(30) DEF Below

\* An element has fewer elements below it than the set has.
LEMMA BelowBound ==
  ASSUME NEW S, IsFiniteSet(S), S \subseteq Nat, NEW x \in S
  PROVE  Below(S, x) \in 0..(Cardinality(S) - 1)
<1> DEFINE A == {z \in S : z < x}
<1>1. IsFiniteSet(A) /\ Cardinality(A) \in Nat /\ Cardinality(S) \in Nat
  BY FS_Subset, FS_CardinalityType
<1>2. A \subseteq S /\ x \notin A
  BY SMTT(30)
<1>4. Cardinality(A) <= Cardinality(S) /\ Cardinality(S) # Cardinality(A)
  <2> HIDE DEF A
  <2> QED BY <1>1, <1>2, FS_Subset
<1> QED BY <1>1, <1>4, SMTT(30) DEF Below

\* InOrder(S) lists the elements of S.
LEMMA InOrderLists ==
  ASSUME NEW S, IsFiniteSet(S), S \subseteq Nat
  PROVE  /\ Cardinality(S) \in Nat
         /\ InOrder(S) \in [1..Cardinality(S) -> S]
         /\ \A x \in S : \E i \in 1..Cardinality(S) : InOrder(S)[i] = x
         /\ \A i, j \in 1..Cardinality(S) : i # j => InOrder(S)[i] # InOrder(S)[j]
         /\ \A i \in 1..Cardinality(S) : Below(S, InOrder(S)[i]) = i - 1
<1> DEFINE n == Cardinality(S)
           f == [x \in S |-> Below(S, x) + 1]
           at(i) == CHOOSE x \in S : Below(S, x) = i - 1
<1>1. n \in Nat /\ IsFiniteSet(1..n) /\ Cardinality(1..n) = n
  BY FS_CardinalityType, FS_Interval, SMTT(30)
<1>0. \A x \in S : Below(S, x) \in Int /\ Below(S, x) + 1 \in 1..n
  <2>1. \A x \in S : Below(S, x) \in 0..(n - 1)
    BY BelowBound
  <2> HIDE DEF n
  <2> QED BY <1>1, <2>1, SMTT(30)
<1>3. \A x, y \in S : Below(S, x) = Below(S, y) => x = y
  <2>1. \A x, y \in S : x < y => Below(S, x) < Below(S, y)
    BY BelowSmaller
  <2>2. \A x, y \in S : x = y \/ x < y \/ y < x
    BY SMTT(30)
  <2> QED BY <1>0, <2>1, <2>2, SMTT(30)
<1>4. f \in Injection(S, 1..n)
  <2>1. f \in [S -> 1..n]
    BY <1>0
  <2>2. \A x, y \in S : f[x] = f[y] => x = y
    BY <1>0, <1>3, SMTT(30)
  <2> QED BY <2>1, <2>2 DEF Injection, IsInjective
<1>5. f \in Surjection(S, 1..n)
  <2> HIDE DEF f, n
  <2>1. Cardinality(S) = Cardinality(1..n)
    BY <1>1 DEF n
  <2> QED BY <1>1, <1>4, <2>1, FS_Injection
<1>6. \A i \in 1..n : \E x \in S : Below(S, x) = i - 1
  <2> SUFFICES ASSUME NEW i \in 1..n PROVE \E x \in S : Below(S, x) = i - 1
    OBVIOUS
  <2>1. PICK x \in S : f[x] = i
    BY <1>5 DEF Surjection
  <2>2. i \in Int
    BY <1>1, SMTT(30)
  <2> QED BY <1>0, <2>1, <2>2, SMTT(30)
<1>7. \A i \in 1..n : at(i) \in S /\ Below(S, at(i)) = i - 1
  BY <1>6
<1>8. InOrder(S) = [i \in 1..n |-> at(i)]
  BY DEF InOrder, Below
<1> HIDE DEF at, n, f
<1>9. \A x \in S : at(Below(S, x) + 1) = x
  <2>1. \A x \in S : /\ at(Below(S, x) + 1) \in S
                     /\ Below(S, at(Below(S, x) + 1)) = Below(S, x)
    BY <1>0, <1>7, SMTT(30)
  <2> QED BY <1>3, <2>1
<1>10. \A i, j \in 1..n : i # j => at(i) # at(j)
  BY <1>1, <1>7, SMTT(30)
<1> QED BY <1>0, <1>1, <1>7, <1>8, <1>9, <1>10, SMTT(30) DEF n

\* A finite set of numbers that is not empty has a smallest element.
LEMMA SmallestIn ==
  ASSUME NEW S, IsFiniteSet(S), S \subseteq Nat, S # {}
  PROVE  Smallest(S) \in S
<1>1. Cardinality(S) \in Nat /\ Cardinality(S) # 0
  BY FS_CardinalityType, FS_EmptySet
<1> DEFINE x == InOrder(S)[1]
           A == {y \in S : y < x}
<1>2. x \in S /\ Below(S, x) = 0
  <2> DEFINE n == Cardinality(S)
  <2>1. /\ InOrder(S) \in [1..n -> S]
        /\ \A i \in 1..n : Below(S, InOrder(S)[i]) = i - 1
    BY InOrderLists
  <2>2. 1 \in 1..n /\ 1 - 1 = 0
    BY <1>1, SMTT(30)
  <2> HIDE DEF n
  <2> QED BY <2>1, <2>2
<1> HIDE DEF x
<1>3. A = {}
  <2>1. IsFiniteSet(A) /\ Cardinality(A) = 0
    BY <1>2, FS_Subset DEF Below
  <2> HIDE DEF A
  <2> QED BY <2>1, FS_EmptySet
<1>4. \A y \in S : x <= y
  BY <1>2, <1>3, SMTT(30)
<1> QED BY <1>2, <1>4 DEF Smallest

\* What the facts about the store and the workers rest on.
LEMMA OrderFactsHold == OrderFacts
<1>1. InOrderOnto
  BY InOrderLists DEF InOrderOnto
<1>2. SmallestOf
  BY SmallestIn DEF SmallestOf
<1>3. SubsetsFinite
  BY FS_Subset DEF SubsetsFinite
<1>4. IntervalsFinite
  BY FS_Interval, SMTT(30) DEF IntervalsFinite
<1> QED BY <1>1, <1>2, <1>3, <1>4 DEF OrderFacts

-----------------------------------------------------------------------------
(* The theorems.                                                           *)

\* The invariant holds initially.
LEMMA InitExecutionInv ==
  ASSUME Init
  PROVE  ExecutionInv
<1> DEFINE x == [e \in Tools |-> Execution]
           q == [p \in Partitions |-> << >>]
<1>0. PartitionFacts /\ ExecutionFields
  BY OrderFactsHold, RowFactsHold, RightFactsHold DEF RowFacts, RightFacts
<1>1. PICK a \in {"building", "ready"} :
        db = [session |-> "live", bnd |-> Unbound, desired |-> 1, artifact |-> <<a>>, ops |-> << >>, ex |-> x, q |-> q]
  BY DEF Init
<1>2. x \in [Tools -> ExRow] /\ \A e \in Tools : x[e] = Execution
  <2>1. Execution \in ExRow
    BY DEF Execution, ExRow
  <2> QED BY <2>1
<1>3. q \in [Partitions -> Seq(JobRow)] /\ \A p \in Partitions : q[p] = << >>
  BY SMTT(30)
<1> HIDE DEF x, q
<1>4. Unbound \in BndRow
  BY DEF Unbound, BndRow
<1>5. <<a>> \in Seq({"building", "ready", "failed"}) /\ << >> \in Seq(OpRow) /\ <<a>> # << >>
  BY SMTT(30)
<1>6. db \in DB /\ db.session = "live" /\ db.ex = x /\ db.q = q /\ db.ops = << >>
  BY <1>1, <1>2, <1>3, <1>4, <1>5 DEF DB
<1>7. /\ w = [p \in Partitions |-> Idle] /\ cleanup = [pc |-> "idle", last |-> FALSE] /\ provider = << >> /\ late = {}
      /\ sent = [run |-> [e \in Tools |-> 0], cancel |-> [e \in Tools |-> 0], release |-> << >>]
  BY DEF Init
<1>8. Idle \in Worker /\ Idle.pc = "idle"
  BY DEF Idle, Worker, Pcs
<1>9. w \in [Partitions -> Worker] /\ \A p \in Partitions : w[p] = Idle
  BY <1>7, <1>8
<1>10. /\ sent \in [run : [Tools -> Nat], cancel : [Tools -> Nat], release : Seq(Nat)]
       /\ \A e \in Tools : sent.run[e] = 0 /\ sent.cancel[e] = 0
  BY <1>7, SMTT(30)
<1>11. \A p \in Partitions : \A r : ~Named(db.q[p], r)
  BY <1>3, <1>6, SMTT(30) DEF Named
<1>12. Typed
  <2>1. cleanup \in [pc : {"idle", "custody", "rows"}, last : BOOLEAN] /\ cleanup.pc = "idle"
    BY <1>7
  <2>2. provider \in Seq({"started", "stopped", "gone"}) /\ late \subseteq {"create", "start", "release"} \X Nat
    BY <1>7, SMTT(30)
  <2>3. LifeRefs(db) /\ w[Life].pc = "idle"
    BY <1>0, <1>8, <1>9, <1>11 DEF PartitionFacts, LifeRefs
  <2> QED BY <1>6, <1>9, <1>10, <2>1, <2>2, <2>3 DEF Typed
<1>13. ASSUME NEW e \in Tools PROVE RightTool(e)
  <2>1. /\ db.ex[e] = Execution /\ w[Exec(e)].pc = "idle" /\ w[Cancel(e)].pc = "idle" /\ sent.run[e] = 0 /\ sent.cancel[e] = 0
    BY <1>0, <1>2, <1>6, <1>8, <1>9, <1>10 DEF PartitionFacts
  <2>2. \A r : ~Named(db.q[Exec(e)], r)
    BY <1>0, <1>11 DEF PartitionFacts
  <2> QED BY <1>0, <1>6, <2>1, <2>2, SMTT(30) DEF ExecutionFields, RightTool, RightIn, Right, InFlightStates, NotRun, Early, Submitted
<1> QED BY <1>12, <1>13 DEF ExecutionInv, AllRight

\* The executions, their jobs and their workers stay right through every step.
THEOREM ExecutionsRight == Spec => []ExecutionInv
<1>1. Init => ExecutionInv
  BY InitExecutionInv
<1>2. ExecutionInv /\ [Next]_vars => ExecutionInv'
  BY OrderFactsHold, NextKeeps
<1> QED BY <1>1, <1>2, PTL DEF Spec

\* HonestOutcome: a Tool call reported as failed before its start or as not
\* started was never sent, whichever of its worker, the exhausted budget, an
\* interrupt and the deletion came first.
THEOREM HonestOutcomeHolds == Spec => []HonestOutcome
<1>1. ExecutionInv => HonestOutcome
  BY DEF ExecutionInv, AllRight, RightTool, RightIn, Right, HonestOutcome, NotRun
<1> QED BY <1>1, ExecutionsRight, PTL

\* SubmittedOnce: a command is sent at most once, and so is its cancellation,
\* through any number of lost workers and redeliveries.
THEOREM SubmittedOnceHolds == Spec => []SubmittedOnce
<1>1. ExecutionInv => SubmittedOnce
  BY DEF ExecutionInv, AllRight, RightTool, RightIn, Right, SubmittedOnce
<1> QED BY <1>1, ExecutionsRight, PTL

\* ExecutionCustody: an execution that is in flight has a job of its current
\* attempt generation.
THEOREM ExecutionCustodyHolds == Spec => []ExecutionCustody
<1>1. ExecutionInv => ExecutionCustody
  BY DEF ExecutionInv, AllRight, RightTool, RightIn, Right, ExecutionCustody, HasJob
<1> QED BY <1>1, ExecutionsRight, PTL

-----------------------------------------------------------------------------
(* The other workers and the Queue take care of releases.                  *)

\* The worker of an execution commits a careful transaction, or reads.
ToolStepIs ==
  \A e \in Tools :
    CustodyInv /\ ExecStep(e) =>
      \/ \E t : Commit(Exec(e), t) /\ Careful(db, t.db)
      \/ db' = db /\ \E u : w' = [w EXCEPT ![Exec(e)] = u]

\* So does the worker of its cancellation.
CancelStepIs ==
  \A e \in Tools : CustodyInv /\ CancelStep(e) => \E t : Commit(Cancel(e), t) /\ Careful(db, t.db)

\* They take care of releases.
ToolTends == \A e \in Tools : CustodyInv /\ (ExecStep(e) \/ CancelStep(e)) => Tended'

\* A lease takes care of releases.
LeaseTends == \A p \in Partitions : CustodyInv /\ Lease(p) => Tended'

\* An acknowledgement does.
FinishTends == \A p \in Partitions : CustodyInv /\ Finish(p) => Tended'

\* The end of a budget does: the operation is not pending any more.
FinalizeIsCareful ==
  \A p \in Partitions : \A r :
    CustodyInv /\ (p = Life => r \in OpIds(db) /\ (PendingRow(db.ops[r]) => Named(db.q[Life], r))) =>
      LET t == Finalize(db, p, r) IN
      Careful(db, t.db) /\ (p = Life => t.pc = "done" /\ ~PendingRow(t.db.ops[r]))

\* The worker that finds it spent takes care of releases.
FinalizeTends ==
  \A p \in Partitions : CustodyInv /\ ~At(p, "idle") /\ Commit(p, Finalize(db, p, Ref(p))) => Tended'

\* A retry does.
RetryTends == \A p \in Partitions : CustodyInv /\ (Exhausted(p) \/ Retry(p)) => Tended'

\* The Queue's own steps do.
BackoffTends == \A p \in Partitions : CustodyInv /\ BackoffEnds(p) => Tended'

\* The over-limit reconciler does.
OverLimitTends == \A p \in Partitions : CustodyInv /\ OverLimit(p) => Tended'

\* A lost worker does.
LoseLeaseTends == \A p \in Partitions : CustodyInv /\ LoseLease(p) => Tended'

\* The other workers and the Queue take care of releases.
QueueTends ==
  /\ ToolStepIs /\ CancelStepIs /\ ToolTends /\ LeaseTends /\ FinishTends /\ FinalizeIsCareful
  /\ FinalizeTends /\ RetryTends /\ BackoffTends /\ OverLimitTends /\ LoseLeaseTends

\* These facts hold.
LEMMA QueueTendsHold == ASSUME OrderFacts PROVE QueueTends
<1>ToolStepIs. ToolStepIs
  <2> SUFFICES ASSUME NEW e \in Tools, CustodyInv, ExecStep(e)
               PROVE  \/ \E t : Commit(Exec(e), t) /\ Careful(db, t.db)
                      \/ db' = db /\ \E u : w' = [w EXCEPT ![Exec(e)] = u]
    BY DEF ToolStepIs
  <2> DEFINE p == Exec(e)
             g == Ref(p)
             x == db.ex[e]
             Read == db' = db /\ \E u : w' = [w EXCEPT ![p] = u]
             Commits == \E t : Commit(p, t) /\ Careful(db, t.db)
  <2>0. db \in DB
    BY TendedStepsHold DEF TendedSteps, TendedFacts
  <2>1. ASSUME NEW pc, Goto(p, pc) PROVE Commits
    <3>1. Commit(p, Then(db, pc)) /\ Then(db, pc).db = db
      BY <2>1 DEF Goto, Then
    <3>2. Careful(db, Then(db, pc).db)
      BY <2>0, <3>1, CustodyFactsHold DEF CustodyFacts, CarefulRefl
    <3> QED BY <3>1, <3>2
  <2>2. ASSUME NEW out \in Outs, Commit(p, Then(Settle(db, e, g, out), "done")) PROVE Commits
    <3>1. Careful(db, Settle(db, e, g, out))
      BY <2>0, ExecutionCareHold DEF ExecutionCare, SettleCareful
    <3>2. Careful(db, Then(Settle(db, e, g, out), "done").db)
      BY <3>1 DEF Then
    <3> QED BY <2>2, <3>2
  <2>3. CASE LoadExecution(e)
    <3>1. CASE x.gen # g \/ x.state \notin InFlightStates
      <4>1. Goto(p, "done")
        BY <2>3, <3>1 DEF LoadExecution, InFlightStates
      <4> QED BY <2>1, <4>1
    <3>2. CASE x.gen = g /\ x.state = "running" /\ x.ref
      <4>1. UseHandle(p, "observe", x.auth)
        BY <2>3, <3>2 DEF LoadExecution, InFlightStates
      <4> QED BY <4>1 DEF UseHandle
    <3>3. CASE x.gen = g /\ x.state = "running" /\ ~x.ref
      <4>1. \E out \in Outs : Commit(p, Then(Settle(db, e, g, out), "done"))
        BY <2>3, <3>3 DEF LoadExecution, InFlightStates, Outs
      <4> QED BY <2>2, <4>1
    <3>4. CASE x.gen = g /\ x.state \in InFlightStates /\ x.state # "running"
      BY <2>3, <3>4 DEF LoadExecution
    <3> QED BY <3>1, <3>2, <3>3, <3>4
  <2>4. CASE InspectForExecution(e)
    BY <2>1, <2>4 DEF InspectForExecution
  <2>5. CASE Depend(e)
    <3> DEFINE t1 == WaitForActivation(db, e, g, w[p], "activation")
               t2 == WaitForActivation(db, e, g, w[p], "creation")
               t3 == WaitForMaterialization(db, e, g, w[p])
    <3>1. Commit(p, t1) \/ Commit(p, t2) \/ Commit(p, t3)
      BY <2>5 DEF Depend
    <3>2. Careful(db, t1.db) /\ Careful(db, t2.db) /\ Careful(db, t3.db)
      BY <2>0, ExecutionCareHold DEF ExecutionCare, WaitForActivationCareful, WaitForMaterializationCareful
    <3> HIDE DEF t1, t2, t3
    <3> QED BY <3>1, <3>2
  <2>6. CASE BeginPreparing(e)
    <3> DEFINE t == Transition(db, e, g, w[p], "pending", "preparing")
    <3>1. Commit(p, t)
      BY <2>6 DEF BeginPreparing
    <3>2. Careful(db, t.db)
      BY <2>0, ExecutionCareHold DEF ExecutionCare, TransitionCareful
    <3> HIDE DEF t
    <3> QED BY <3>1, <3>2
  <2>7. CASE AuthorizeRunning(e)
    <3> DEFINE t == Transition(db, e, g, w[p], "preparing", "running")
    <3>1. Goto(p, "need_creation") \/ Commit(p, t) \/ Commit(p, Then(Settle(db, e, g, "answered"), "done"))
      BY <2>7 DEF AuthorizeRunning
    <3>2. Careful(db, t.db)
      BY <2>0, ExecutionCareHold DEF ExecutionCare, TransitionCareful
    <3> HIDE DEF t
    <3> QED BY <2>1, <2>2, <3>1, <3>2 DEF Outs
  <2>8. CASE PreparationFails(e)
    BY <2>1, <2>2, <2>8 DEF PreparationFails, Outs
  <2>9. CASE ExecuteTool(e)
    BY <2>1, <2>9 DEF ExecuteTool
  <2>10. CASE ToolReplies(e)
    <3> DEFINE t1 == Then(SettleBackground(db, e, g), "done")
               t2 == RecordProviderCommandReference(db, e, g)
    <3>1. \/ \E out \in Outs : Commit(p, Then(Settle(db, e, g, out), "done"))
          \/ Commit(p, t1) \/ Commit(p, t2)
      BY <2>10 DEF ToolReplies, Outs
    <3>2. Careful(db, SettleBackground(db, e, g)) /\ Careful(db, t2.db)
      BY <2>0, ExecutionCareHold DEF ExecutionCare, SettleBackgroundCareful, RecordCareful
    <3>3. Careful(db, t1.db)
      BY <3>2 DEF Then
    <3> HIDE DEF t1, t2
    <3> QED BY <2>2, <3>1, <3>2, <3>3
  <2>11. CASE ObserveTool(e)
    BY <2>1, <2>2, <2>11 DEF ObserveTool, Outs
  <2> HIDE DEF Read, Commits
  <2>12. Read \/ Commits
    BY <2>3, <2>4, <2>5, <2>6, <2>7, <2>8, <2>9, <2>10, <2>11 DEF ExecStep, Read, Commits
  <2> QED BY <2>12 DEF Read, Commits
<1>CancelStepIs. CancelStepIs
  <2> SUFFICES ASSUME NEW e \in Tools, CustodyInv, CancelStep(e)
               PROVE  \E t : Commit(Cancel(e), t) /\ Careful(db, t.db)
    BY DEF CancelStepIs
  <2> DEFINE d1 == SetEx(db, e, [db.ex[e] EXCEPT !.cancel = "submitted"])
             d2 == ClearCancellation(db, e)
             t1 == Then(d1, "call")
             t2 == Then(d2, "done")
             t3 == Then(db, "done")
  <2>1. Commit(Cancel(e), t1) \/ Commit(Cancel(e), t2) \/ Commit(Cancel(e), t3)
    BY DEF CancelStep, ClaimCancellation, CallCancel, Goto
  <2>2. db \in DB
    BY TendedStepsHold DEF TendedSteps, TendedFacts
  <2>3. Careful(db, d1) /\ Careful(db, d2) /\ Careful(db, db)
    BY <2>2, ExecutionCareHold, CustodyFactsHold DEF ExecutionCare, MarksCareful, CustodyFacts, CarefulRefl
  <2> HIDE DEF d1, d2
  <2>4. Careful(db, t1.db) /\ Careful(db, t2.db) /\ Careful(db, t3.db)
    BY <2>3 DEF Then
  <2> HIDE DEF t1, t2, t3
  <2> QED BY <2>1, <2>4
<1>ToolTends. ToolTends
  <2> SUFFICES ASSUME NEW e \in Tools, CustodyInv, ExecStep(e) \/ CancelStep(e)
               PROVE  Tended'
    BY DEF ToolTends
  <2>1. Exec(e) \in Partitions /\ Exec(e) # Life /\ Cancel(e) \in Partitions /\ Cancel(e) # Life
    BY RowFactsHold DEF RowFacts, PartitionFacts
  <2> QED BY <2>1, <1>ToolStepIs, <1>CancelStepIs, TendedStepsHold DEF ToolStepIs, CancelStepIs,
     TendedSteps, OtherCommit, ReadStep
<1>LeaseTends. LeaseTends
  <2> SUFFICES ASSUME NEW p \in Partitions, CustodyInv, Lease(p)
               PROVE  Tended'
    BY DEF LeaseTends
  <2>1. ExecutionInv /\ db \in DB /\ w \in [Partitions -> Worker] /\ Life \in Partitions
    BY TendedStepsHold, RowFactsHold DEF CustodyInv, TendedSteps, TendedFacts, RowFacts, PartitionFacts
  <2>2. PICK u :
          /\ w' = [w EXCEPT ![p] = u] /\ u.pc \in {"start", "exhausted"} /\ Named(db.q[p], u.ref)
          /\ db' \in DB /\ db'.ops = db.ops /\ db'.session = db.session /\ db'.ex = db.ex
          /\ \A x \in Partitions : \A r : Named(db'.q[x], r) <=> Named(db.q[x], r)
    BY <2>1, QueueStepsHold DEF QueueSteps, LeaseIs
  <2>3. Careful(db, db')
    BY <2>1, <2>2, LifecycleCareHold DEF LifecycleCare, SameNamesCareful
  <2>4. CASE p # Life
    <3>1. w'[Life] = w[Life]
      BY <2>1, <2>2, <2>4
    <3> QED BY <2>3, <3>1, TendedStepsHold DEF TendedSteps, BesideStep
  <2>5. CASE p = Life
    <3>1. w'[Life] = u
      BY <2>1, <2>2, <2>5
    <3>2. Plain(db') /\ Custody(db')
      BY <2>3, TendedStepsHold DEF TendedSteps, TendedFacts, Careful, Orderly
    <3>3. Named(db'.q[Life], u.ref) /\ u.pc \notin Past
      BY <2>1, <2>2, <2>5 DEF Past
    <3> QED BY <3>1, <3>2, <3>3 DEF Tended, Attentive
  <2> QED BY <2>4, <2>5
<1>FinishTends. FinishTends
  <2> SUFFICES ASSUME NEW p \in Partitions, CustodyInv, Finish(p)
               PROVE  Tended'
    BY DEF FinishTends
  <2>1. /\ w[p].pc = "done" /\ db' = RemoveJob(db, p, Ref(p)) /\ w' = [w EXCEPT ![p] = Idle]
    BY DEF Finish, At
  <2>2. db \in DB /\ w \in [Partitions -> Worker] /\ Life \in Partitions /\ Idle.pc = "idle"
    BY TendedStepsHold, RowFactsHold, WorkerFactsHold DEF TendedSteps, TendedFacts, RowFacts, PartitionFacts,
       WorkerFacts, IdleFields
  <2>3. CASE p # Life
    <3>1. w'[Life] = w[Life]
      BY <2>1, <2>2, <2>3
    <3>2. Careful(db, db')
      BY <2>1, <2>2, <2>3, LifecycleCareHold DEF LifecycleCare, RemoveOtherCareful
    <3> QED BY <3>1, <3>2, TendedStepsHold DEF TendedSteps, BesideStep
  <2>4. CASE p = Life
    <3>1. w'[Life].pc = "idle"
      BY <2>1, <2>2, <2>4
    <3>2. ~PendingRow(db.ops[Ref(Life)])
      BY <2>1, <2>4, TendedStepsHold DEF TendedSteps, TendedFacts, Past
    <3>3. Careful(db, db')
      BY <2>1, <2>2, <2>4, <3>2, ClaimCareHold DEF ClaimCare, RemoveJobCareful
    <3> QED BY <3>1, <3>3, TendedStepsHold DEF TendedSteps, LeaveStep
  <2> QED BY <2>3, <2>4
<1>FinalizeIsCareful. FinalizeIsCareful
  <2> SUFFICES ASSUME NEW p \in Partitions, NEW r, CustodyInv,
                      p = Life => r \in OpIds(db) /\ (PendingRow(db.ops[r]) => Named(db.q[Life], r))
               PROVE  LET t == Finalize(db, p, r) IN
                      Careful(db, t.db) /\ (p = Life => t.pc = "done" /\ ~PendingRow(t.db.ops[r]))
    BY DEF FinalizeIsCareful
  <2> DEFINE t == Finalize(db, p, r)
  <2>1. db \in DB /\ Plain(db)
    BY TendedStepsHold DEF TendedSteps, TendedFacts
  <2>2. CASE p = Life
    <3> DEFINE d2 == FinalizeExhaustedLifecycle(db, r)
    <3>1. t = Then(d2, "done")
      BY <2>2, RowFactsHold DEF Finalize, Life, Fanout, RowFacts, PartitionFacts
    <3>2. Careful(db, d2) /\ ~PendingRow(d2.ops[r])
      BY <2>1, <2>2, LifecycleCareHold DEF LifecycleCare, FinalizeExhaustedLifecycleCareful
    <3> HIDE DEF d2
    <3>3. t.db = d2 /\ t.pc = "done"
      BY <3>1, SMTT(30) DEF Then
    <3> QED BY <3>2, <3>3
  <2>3. CASE p = Fanout
    <3> DEFINE d2 == FailWaitingArtifact(db, r)
    <3>1. t = Then(d2, "done")
      BY <2>3, RowFactsHold DEF Finalize, Life, Fanout, RowFacts, PartitionFacts
    <3>2. Careful(db, d2)
      BY <2>1, DemandCareHold DEF DemandCare, FailWaitingArtifactCareful
    <3> HIDE DEF d2
    <3>3. t.db = d2
      BY <3>1, SMTT(30) DEF Then
    <3>4. p # Life
      BY <2>3, RowFactsHold DEF RowFacts, PartitionFacts
    <3> QED BY <3>2, <3>3, <3>4
  <2>4. ASSUME NEW e \in Tools, p = Exec(e)
        PROVE  Careful(db, t.db) /\ p # Life
    <3>1. t = FinalizeExhaustedExecution(db, e, r)
      BY <2>4, RowFactsHold DEF Finalize, Exec, Life, Fanout, RowFacts, PartitionFacts
    <3>2. Careful(db, FinalizeExhaustedExecution(db, e, r).db)
      BY <2>1, ExecutionCareHold DEF ExecutionCare, FinalizeExecutionCareful
    <3> QED BY <2>4, <3>1, <3>2, RowFactsHold DEF RowFacts, PartitionFacts
  <2>5. ASSUME NEW e \in Tools, p = Cancel(e)
        PROVE  Careful(db, t.db) /\ p # Life
    <3> DEFINE d2 == ClearCancellation(db, e)
    <3>1. t = Then(d2, "done")
      BY <2>5, RowFactsHold DEF Finalize, Cancel, Life, Fanout, RowFacts, PartitionFacts
    <3>2. Careful(db, d2)
      BY <2>1, ExecutionCareHold DEF ExecutionCare, MarksCareful
    <3> HIDE DEF d2
    <3>3. t.db = d2
      BY <3>1, SMTT(30) DEF Then
    <3> QED BY <2>5, <3>2, <3>3, RowFactsHold DEF RowFacts, PartitionFacts
  <2> HIDE DEF t
  <2>6. Careful(db, t.db) /\ (p = Life => t.pc = "done" /\ ~PendingRow(t.db.ops[r]))
    BY <2>2, <2>3, <2>4, <2>5, RowFactsHold DEF t, RowFacts, PartitionFacts
  <2> QED BY <2>6 DEF t
<1>FinalizeTends. FinalizeTends
  <2> SUFFICES ASSUME NEW p \in Partitions, CustodyInv, ~At(p, "idle"), Commit(p, Finalize(db, p, Ref(p)))
               PROVE  Tended'
    BY DEF FinalizeTends
  <2> DEFINE t == Finalize(db, p, Ref(p))
  <2>1. p = Life => Ref(p) \in OpIds(db) /\ (PendingRow(db.ops[Ref(p)]) => Named(db.q[Life], Ref(p)))
    BY TendedStepsHold DEF At, TendedSteps, TendedFacts
  <2>2. Careful(db, t.db) /\ (p = Life => t.pc = "done" /\ ~PendingRow(t.db.ops[Ref(p)]))
    BY <2>1, <1>FinalizeIsCareful DEF FinalizeIsCareful
  <2>3. Commit(p, t)
    OBVIOUS
  <2> HIDE DEF t
  <2>4. CASE p = Life
    BY <2>2, <2>3, <2>4, TendedStepsHold DEF TendedSteps, LifeCommit
  <2>5. CASE p # Life
    BY <2>2, <2>3, <2>5, TendedStepsHold DEF TendedSteps, OtherCommit
  <2> QED BY <2>4, <2>5
<1>RetryTends. RetryTends
  <2> SUFFICES ASSUME NEW p \in Partitions, CustodyInv, Exhausted(p) \/ Retry(p)
               PROVE  Tended'
    BY DEF RetryTends
  <2> DEFINE d2 == SetJob(db, p, Ref(p), "backoff")
             t == Then(d2, "idle")
  <2>1. ~At(p, "idle") /\ (Commit(p, Finalize(db, p, Ref(p))) \/ Commit(p, t))
    BY DEF Exhausted, Retry, At
  <2>2. CASE Commit(p, Finalize(db, p, Ref(p)))
    BY <2>1, <2>2, <1>FinalizeTends DEF FinalizeTends
  <2>3. CASE Commit(p, t)
    <3>1. db \in DB
      BY TendedStepsHold DEF TendedSteps, TendedFacts
    <3>2. Careful(db, d2)
      BY <3>1, LifecycleCareHold DEF LifecycleCare, SetJobCareful
    <3> HIDE DEF d2
    <3>3. Careful(db, t.db) /\ t.pc \notin Past
      BY <3>2 DEF Then, Past
    <3> HIDE DEF t
    <3> QED BY <2>1, <2>3, <3>3, TendedStepsHold DEF TendedSteps, LifeCommit, OtherCommit
  <2> QED BY <2>1, <2>2, <2>3
<1>BackoffTends. BackoffTends
  <2> SUFFICES ASSUME NEW p \in Partitions, CustodyInv, BackoffEnds(p)
               PROVE  Tended'
    BY DEF BackoffTends
  <2>1. PICK r : db' = SetJob(db, p, r, "due") /\ w' = w
    BY DEF BackoffEnds
  <2>2. db \in DB
    BY TendedStepsHold DEF TendedSteps, TendedFacts
  <2>3. Careful(db, db')
    BY <2>1, <2>2, LifecycleCareHold DEF LifecycleCare, SetJobCareful
  <2> QED BY <2>1, <2>3, TendedStepsHold DEF TendedSteps, BesideStep
<1>OverLimitTends. OverLimitTends
  <2> SUFFICES ASSUME NEW p \in Partitions, CustodyInv, OverLimit(p)
               PROVE  Tended'
    BY DEF OverLimitTends
  <2>1. PICK i \in DOMAIN db.q[p] :
          db' = RemoveJob(Finalize(db, p, db.q[p][i].ref).db, p, db.q[p][i].ref)
    BY DEF OverLimit
  <2> DEFINE r == db.q[p][i].ref
             t == Finalize(db, p, r)
  <2>2. w' = w /\ Named(db.q[p], r)
    BY DEF OverLimit, Named
  <2> HIDE DEF r
  <2>3. p = Life => r \in OpIds(db) /\ Named(db.q[Life], r)
    BY <2>2 DEF CustodyInv, ExecutionInv, Typed, LifeRefs
  <2>4. Careful(db, t.db) /\ (p = Life => ~PendingRow(t.db.ops[r]))
    BY <2>3, <1>FinalizeIsCareful DEF FinalizeIsCareful
  <2>5. db' = RemoveJob(t.db, p, r)
    BY <2>1 DEF r
  <2> HIDE DEF t
  <2>6. t.db \in DB
    BY <2>4 DEF Careful, Orderly
  <2>7. Careful(t.db, db')
    <3>1. CASE p = Life
      BY <2>4, <2>5, <2>6, <3>1, ClaimCareHold DEF ClaimCare, RemoveJobCareful
    <3>2. CASE p # Life
      BY <2>5, <2>6, <3>2, LifecycleCareHold DEF LifecycleCare, RemoveOtherCareful
    <3> QED BY <3>1, <3>2
  <2>8. Careful(db, db')
    BY <2>4, <2>7, CustodyFactsHold DEF CustodyFacts, CarefulTrans
  <2> QED BY <2>2, <2>8, TendedStepsHold DEF TendedSteps, BesideStep
<1>LoseLeaseTends. LoseLeaseTends
  <2> SUFFICES ASSUME NEW p \in Partitions, CustodyInv, LoseLease(p)
               PROVE  Tended'
    BY DEF LoseLeaseTends
  <2>1. db' = SetJob(db, p, Ref(p), "due") /\ w' = [w EXCEPT ![p] = Idle]
    BY DEF LoseLease
  <2>2. db \in DB /\ w \in [Partitions -> Worker] /\ Life \in Partitions /\ Idle.pc = "idle"
    BY TendedStepsHold, RowFactsHold, WorkerFactsHold DEF TendedSteps, TendedFacts, RowFacts, PartitionFacts,
       WorkerFacts, IdleFields
  <2>3. Careful(db, db')
    BY <2>1, <2>2, LifecycleCareHold DEF LifecycleCare, SetJobCareful
  <2>4. w'[Life] = w[Life] \/ w'[Life].pc = "idle"
    BY <2>1, <2>2
  <2> QED BY <2>3, <2>4, TendedStepsHold DEF TendedSteps, BesideStep, LeaveStep
<1> QED BY <1>ToolStepIs, <1>CancelStepIs, <1>ToolTends, <1>LeaseTends, <1>FinishTends, <1>FinalizeIsCareful,
   <1>FinalizeTends, <1>RetryTends, <1>BackoffTends, <1>OverLimitTends, <1>LoseLeaseTends DEF QueueTends

-----------------------------------------------------------------------------
(* The provider and the steps from outside take care of releases.          *)

\* The provider alone takes care of releases.
ProviderTends == CustodyInv /\ (LateEffect \/ Stops \/ Loses) => Tended'

\* The Bridge, the deadline and the end of a background task do.
AcceptTends == \A e \in Tools : CustodyInv /\ (Accept(e) \/ DeadlinePasses(e) \/ TaskEnds(e)) => Tended'

\* Interrupts and the Runtime's end do.
InterruptTends == CustodyInv /\ (Interrupt \/ Terminate) => Tended'

\* A resource mutation does.
MutateTends == CustodyInv /\ Mutate => Tended'

\* The delete of the Session does.
DeleteTends == CustodyInv /\ Delete => Tended'

\* The Environment does.
EnvironmentTends == CustodyInv /\ (NewGeneration \/ BuildEnds) => Tended'

\* A delivery of the cleanup does.
CleanedTends ==
  \A d, last, pc :
    CustodyInv /\ db.session = "deleted" /\ Careful(db, d) /\ d.session = "deleted" /\ Cleaned(d, last, pc) /\ w' = w =>
      Tended'

\* The transactions of the cleanup do.
CleanupTends == CustodyInv /\ CleanupStep => Tended'

\* The steps from outside take care of releases.
OutsideTends ==
  /\ ProviderTends /\ AcceptTends /\ InterruptTends /\ MutateTends /\ DeleteTends /\ EnvironmentTends
  /\ CleanedTends /\ CleanupTends

\* These facts hold.
LEMMA OutsideTendsHold == ASSUME OrderFacts PROVE OutsideTends
<1>QuietTends. CustodyInv /\ Careful(db, db') /\ w' = w => Tended'
  BY TendedStepsHold DEF TendedSteps, BesideStep
<1>InDB. CustodyInv => db \in DB /\ Careful(db, db)
  BY TendedStepsHold, CustodyFactsHold DEF TendedSteps, TendedFacts, CustodyFacts, CarefulRefl
<1>ProviderTends. ProviderTends
  BY <1>QuietTends, <1>InDB DEF ProviderTends, LateEffect, Stops, Loses
<1>AcceptTends. AcceptTends
  <2> SUFFICES ASSUME NEW e \in Tools, CustodyInv, Accept(e) \/ DeadlinePasses(e) \/ TaskEnds(e)
               PROVE  Tended'
    BY DEF AcceptTends
  <2>1. CASE Accept(e)
    <3>1. Careful(db, db')
      BY <2>1, <1>InDB, DemandCareHold DEF Accept, DemandCare, AcceptCareful
    <3> QED BY <2>1, <3>1, <1>QuietTends DEF Accept
  <2>2. CASE DeadlinePasses(e)
    <3>1. Careful(db, db')
      BY <2>2, <1>InDB, ExecutionCareHold DEF DeadlinePasses, ExecutionCare, MarksCareful
    <3> QED BY <2>2, <3>1, <1>QuietTends DEF DeadlinePasses
  <2>3. CASE TaskEnds(e)
    <3>1. Careful(db, db')
      BY <2>3, <1>InDB, ExecutionCareHold DEF TaskEnds, ExecutionCare, TaskEndsCareful
    <3> QED BY <2>3, <3>1, <1>QuietTends DEF TaskEnds
  <2> QED BY <2>1, <2>2, <2>3
<1>InterruptTends. InterruptTends
  <2> SUFFICES ASSUME CustodyInv, Interrupt \/ Terminate
               PROVE  Tended'
    BY DEF InterruptTends
  <2>1. CASE Interrupt
    <3>1. PICK S \in SUBSET Open(db) : db' = ReadyReleases(InterruptTools(db, S))
      BY <2>1 DEF Interrupt
    <3>2. Careful(db, db')
      BY <3>1, <1>InDB, DemandCareHold DEF DemandCare, InterruptToolsCareful
    <3> QED BY <2>1, <3>2, <1>QuietTends DEF Interrupt
  <2>2. CASE Terminate
    <3>1. Careful(db, db')
      BY <2>2, <1>InDB, DemandCareHold DEF Terminate, DemandCare, ConsumeAllCareful
    <3> QED BY <2>2, <3>1, <1>QuietTends DEF Terminate
  <2> QED BY <2>1, <2>2
<1>MutateTends. MutateTends
  <2> SUFFICES ASSUME CustodyInv, Mutate
               PROVE  Tended'
    BY DEF MutateTends
  <2> DEFINE n == db.desired + 1
             d1 == [db EXCEPT !.desired = n]
  <2>1. (db' = EnsureMaterialization(d1) \/ db' = d1) /\ w' = w
    BY DEF Mutate
  <2>2. db \in DB
    BY <1>InDB
  <2>3. n \in Nat
    BY <2>2, RowFactsHold, SMTT(30) DEF RowFacts, DBFields
  <2> HIDE DEF n
  <2>4. d1 \in DB /\ d1.session = db.session /\ d1.ops = db.ops /\ d1.ex = db.ex /\ d1.q = db.q
    BY <2>2, <2>3 DEF DB
  <2> HIDE DEF d1
  <2>5. Careful(db, d1)
    BY <2>2, <2>4, LifecycleCareHold DEF LifecycleCare, SameNamesCareful
  <2>6. Careful(d1, EnsureMaterialization(d1))
    BY <2>4, FailureCareHold DEF FailureCare, EnsureMaterializationCareful
  <2>7. Careful(db, db')
    BY <2>1, <2>5, <2>6, CustodyFactsHold DEF CustodyFacts, CarefulTrans
  <2> QED BY <2>1, <2>7, <1>QuietTends
<1>DeleteTends. DeleteTends
  <2> SUFFICES ASSUME CustodyInv, Delete
               PROVE  Tended'
    BY DEF DeleteTends
  <2> DEFINE d0 == SetSession(db, "deleted")
  <2>1. Open(db) = {} /\ db' = EnsureSessionDelete(d0, db.bnd.handle) /\ w' = w
    BY DEF Delete, SetSession
  <2>2. db \in DB /\ db.bnd.handle \in Nat
    BY <1>InDB, RowFactsHold DEF BndRow, RowFacts, DBFields
  <2>3. d0 \in DB /\ d0.ops = db.ops /\ d0.ex = db.ex /\ d0.q = db.q
    BY <2>2, DemandStepsHold DEF DemandSteps, SetSessionIs
  <2> HIDE DEF d0
  <2>4. Careful(db, d0)
    BY <2>1, <2>2, <2>3, DemandCareHold DEF DemandCare, SessionCareful
  <2>5. Careful(d0, db')
    BY <2>1, <2>2, <2>3, FailureCareHold DEF FailureCare, EnsureSessionDeleteCareful
  <2>6. Careful(db, db')
    BY <2>4, <2>5, CustodyFactsHold DEF CustodyFacts, CarefulTrans
  <2> QED BY <2>1, <2>6, <1>QuietTends
<1>EnvironmentTends. EnvironmentTends
  <2> SUFFICES ASSUME CustodyInv, NewGeneration \/ BuildEnds
               PROVE  Tended'
    BY DEF EnvironmentTends
  <2> DEFINE A == {"building", "ready", "failed"}
  <2>0. db \in DB /\ db.artifact \in Seq(A)
    BY <1>InDB, RowFactsHold DEF RowFacts, DBFields
  <2>1. ASSUME NEW a \in Seq(A)
        PROVE  [db EXCEPT !.artifact = a] \in DB /\ Careful(db, [db EXCEPT !.artifact = a])
    <3> DEFINE d1 == [db EXCEPT !.artifact = a]
    <3>1. d1 \in DB /\ d1.session = db.session /\ d1.ops = db.ops /\ d1.ex = db.ex /\ d1.q = db.q
      BY <2>0, DemandStepsHold DEF DemandSteps, ArtifactIs
    <3> HIDE DEF d1
    <3>2. Careful(db, d1)
      BY <2>0, <3>1, LifecycleCareHold DEF LifecycleCare, SameNamesCareful
    <3> QED BY <3>1, <3>2 DEF d1
  <2>2. CASE NewGeneration
    <3> DEFINE a == Append(db.artifact, "building")
    <3>1. db' = [db EXCEPT !.artifact = a] /\ w' = w
      BY <2>2 DEF NewGeneration
    <3>2. a \in Seq(A)
      BY <2>0, SMTT(30)
    <3> HIDE DEF a, A
    <3>3. Careful(db, db')
      BY <2>1, <3>1, <3>2
    <3> QED BY <3>1, <3>3, <1>QuietTends
  <2>3. CASE BuildEnds
    <3>1. PICK g \in DOMAIN db.artifact :
            db' = MarkEnvironmentBuildReady(db, g) \/ db' = MarkEnvironmentBuildTerminalFailure(db, g)
      BY <2>3 DEF BuildEnds
    <3> DEFINE n == Len(db.artifact)
               a1 == [db.artifact EXCEPT ![g] = "ready"]
               a2 == [db.artifact EXCEPT ![g] = "failed"]
               d1 == [db EXCEPT !.artifact = a1]
               d2 == [db EXCEPT !.artifact = a2]
    <3>2. n \in Nat /\ db.artifact \in [1..n -> A] /\ g \in 1..n
      BY <2>0, SequenceFactsHold DEF SequenceFacts, SeqIsFunction
    <3> HIDE DEF n
    <3>3. a1 \in [1..n -> A] /\ a2 \in [1..n -> A]
      BY <3>2
    <3>4. a1 \in Seq(A) /\ a2 \in Seq(A) /\ g \in Nat \ {0}
      <4> HIDE DEF A, a1, a2
      <4> QED BY <3>2, <3>3, SequenceFactsHold, SMTT(30) DEF SequenceFacts, FunctionIsSeq
    <3>5. db' = Enqueue(d1, Fanout, g) \/ db' = FailWaitingArtifact(d2, g)
      BY <2>0, <3>1 DEF MarkEnvironmentBuildReady, MarkEnvironmentBuildTerminalFailure, DB
    <3> HIDE DEF a1, a2, A
    <3>6. d1 \in DB /\ Careful(db, d1) /\ d2 \in DB /\ Careful(db, d2)
      BY <2>1, <3>4
    <3> HIDE DEF d1, d2
    <3>7. Careful(d1, Enqueue(d1, Fanout, g))
      BY <3>4, <3>6, LifecycleCareHold, RowFactsHold DEF LifecycleCare, EnqueueOtherCareful, RowFacts, PartitionFacts
    <3>8. Careful(d2, FailWaitingArtifact(d2, g))
      BY <3>6, DemandCareHold DEF DemandCare, FailWaitingArtifactCareful
    <3>9. Careful(db, db')
      BY <3>5, <3>6, <3>7, <3>8, CustodyFactsHold DEF CustodyFacts, CarefulTrans
    <3> QED BY <2>3, <3>9, <1>QuietTends DEF BuildEnds
  <2> QED BY <2>2, <2>3
<1>CleanedTends. CleanedTends
  <2> SUFFICES ASSUME NEW d, NEW last, NEW pc, CustodyInv, db.session = "deleted", Careful(db, d),
                      d.session = "deleted", Cleaned(d, last, pc), w' = w
               PROVE  Tended'
    BY DEF CleanedTends
  <2> DEFINE d0 == SetSession(d, "rejected")
  <2>1. db' = d0 \/ db' = d
    BY DEF Cleaned, SetSession
  <2>2. d \in DB
    BY DEF Careful, Orderly
  <2>3. d0 \in DB /\ d0.ops = d.ops /\ d0.ex = d.ex /\ d0.q = d.q
    BY <2>2, DemandStepsHold DEF DemandSteps, SetSessionIs
  <2> HIDE DEF d0
  <2>4. Careful(d, d0)
    BY <2>2, <2>3, DemandCareHold DEF DemandCare, SessionCareful
  <2>5. Careful(db, db')
    BY <2>1, <2>4, CustodyFactsHold DEF CustodyFacts, CarefulTrans
  <2> QED BY <2>5, <1>QuietTends
<1>CleanupTends. CleanupTends
  <2> SUFFICES ASSUME CustodyInv, CleanupStep
               PROVE  Tended'
    BY DEF CleanupTends
  <2>0. db \in DB /\ Careful(db, db)
    BY <1>InDB
  <2>1. CASE CleanupEnsures
    <3>1. db.session = "deleted" /\ w' = w
      BY <2>1 DEF CleanupEnsures
    <3>2. PICK d \in {db, ConsumeAll(db)} :
            LET d1 == EnsureSessionDelete(d, d.bnd.handle)
                d2 == EnsureFailedSessionDelete(d1)
            IN \/ Cleaned(d2, FALSE, IF ReleaseComplete(d) /\ d2 = d1 THEN "custody" ELSE "idle")
               \/ Cleaned(d, TRUE, IF ReleaseComplete(d) THEN "custody" ELSE "idle")
      BY <2>1 DEF CleanupEnsures
    <3> DEFINE d1 == EnsureSessionDelete(d, d.bnd.handle)
               d2 == EnsureFailedSessionDelete(d1)
    <3>3. (\E pc : Cleaned(d2, FALSE, pc)) \/ (\E pc : Cleaned(d, TRUE, pc))
      BY <3>2
    <3>4. Careful(db, d) /\ d \in DB /\ d.session = "deleted"
      <4>1. Careful(db, ConsumeAll(db)) /\ Sound(db, ConsumeAll(db))
        BY <2>0, <3>1, DemandCareHold, InterruptTxHold DEF DemandCare, ConsumeAllCareful, InterruptTx, ConsumeAllSound
      <4> QED BY <2>0, <3>1, <3>2, <4>1 DEF Sound
    <3>5. Careful(d, d1) /\ Sound(d, d1) /\ d1 \in DB /\ d1.session = "deleted"
      <4>1. d.bnd.handle \in Nat
        BY <3>4, RowFactsHold DEF BndRow, RowFacts, DBFields
      <4>2. Careful(d, d1) /\ Sound(d, d1)
        BY <3>4, <4>1, FailureCareHold, FailureTxHold DEF FailureCare, EnsureSessionDeleteCareful, FailureTx,
           EnsureSessionDeleteSound
      <4> HIDE DEF d1
      <4> QED BY <3>4, <4>2 DEF Sound
    <3> HIDE DEF d1
    <3>6. Careful(d1, d2) /\ d2.session = "deleted"
      <4>1. Careful(d1, d2) /\ Sound(d1, d2)
        BY <3>5, FailureCareHold, LifecycleTxHold DEF FailureCare, EnsureFailedSessionDeleteCareful, LifecycleTx,
           EnsureFailedSessionDeleteSound
      <4> HIDE DEF d2
      <4> QED BY <3>5, <4>1 DEF Sound
    <3> HIDE DEF d2
    <3>7. Careful(db, d2)
      <4>1. Careful(db, d1)
        BY <3>4, <3>5, CustodyFactsHold DEF CustodyFacts, CarefulTrans
      <4> QED BY <3>6, <4>1, CustodyFactsHold DEF CustodyFacts, CarefulTrans
    <3> QED BY <3>1, <3>3, <3>4, <3>6, <3>7, <1>CleanedTends DEF CleanedTends
  <2>2. CASE CleanupChecks
    <3>1. (\E last, pc : Cleaned(db, last, pc)) /\ w' = w /\ cleanup.pc = "custody"
      BY <2>2 DEF CleanupChecks
    <3>2. db.session = "deleted"
      BY <3>1 DEF CustodyInv, ExecutionInv, Typed
    <3> QED BY <2>0, <3>1, <3>2, <1>CleanedTends DEF CleanedTends
  <2>3. CASE CleanupDeletes
    <3> DEFINE d2 == Purged(db)
    <3>1. db' = d2 /\ w' = w
      BY <2>3 DEF CleanupDeletes, Cleaned, Purged
    <3>2. /\ d2 \in DB /\ Len(d2.ops) = Len(db.ops) /\ d2.q = db.q
          /\ \A o \in OpIds(db) : d2.ops[o] = [db.ops[o] EXCEPT !.state = "deleted"]
          /\ \A e \in Tools : d2.ex[e] = Execution
      BY <2>0, DemandStepsHold DEF DemandSteps, PurgedIs
    <3> HIDE DEF d2
    <3>3. OpIds(d2) = OpIds(db)
      BY <3>2 DEF OpIds
    <3>4. Careful(db, d2)
      BY <2>0, <3>2, <3>3, DemandCareHold DEF DemandCare, PurgeCareful
    <3> QED BY <3>1, <3>4, <1>QuietTends
  <2> QED BY <2>1, <2>2, <2>3 DEF CleanupStep
<1> QED BY <1>ProviderTends, <1>AcceptTends, <1>InterruptTends, <1>MutateTends, <1>DeleteTends,
   <1>EnvironmentTends, <1>CleanedTends, <1>CleanupTends DEF OutsideTends

\* Every step takes care of releases.
LEMMA NextTends ==
  ASSUME OrderFacts, CustodyInv, [Next]_vars PROVE Tended'
<1>1. ASSUME Work PROVE Tended'
  <2>1. CASE LifeStep
    BY <2>1, LifeTendsHold DEF LifeStep, LifeTends, ClaimLifecycleTends, ParkReleaseTends, ActivationTends,
       MaterializationTends, ReleaseTends
  <2>2. CASE FanoutReady
    BY <2>2, LifeTendsHold DEF LifeTends, FanoutTends
  <2>3. CASE \E e \in Tools : ExecStep(e) \/ CancelStep(e)
    BY <2>3, QueueTendsHold DEF QueueTends, ToolTends
  <2>4. CASE \E p \in Partitions : QueueStep(p)
    BY <2>4, QueueTendsHold DEF QueueStep, QueueTends, LeaseTends, FinishTends, RetryTends, BackoffTends
  <2> QED BY <1>1, <2>1, <2>2, <2>3, <2>4 DEF Work
<1>2. ASSUME Disturbance PROVE Tended'
  BY <1>2, LifeTendsHold, QueueTendsHold, OutsideTendsHold DEF Disturbance, LifeTends, InspectionFailsTends,
     ReleaseTends, QueueTends, LoseLeaseTends, OverLimitTends, OutsideTends, ProviderTends
<1>3. ASSUME Demand PROVE Tended'
  BY <1>3, OutsideTendsHold DEF Demand, OutsideTends, AcceptTends, InterruptTends, MutateTends, DeleteTends,
     EnvironmentTends, CleanupTends
<1>4. ASSUME UNCHANGED vars PROVE Tended'
  BY <1>4 DEF vars, CustodyInv, Tended
<1> QED BY <1>1, <1>2, <1>3, <1>4 DEF Next

\* Initially there is no operation.
LEMMA InitCustodyInv ==
  ASSUME Init
  PROVE  CustodyInv
<1>1. ExecutionInv
  BY InitExecutionInv
<1>2. PICK a \in {"building", "ready"} :
        db = [session |-> "live", bnd |-> Unbound, desired |-> 1, artifact |-> <<a>>, ops |-> << >>,
              ex |-> [e \in Tools |-> Execution], q |-> [p \in Partitions |-> << >>]]
  BY DEF Init
<1>3. db.session = "live" /\ db.ops = << >> /\ \A e \in Tools : db.ex[e] = Execution
  BY <1>2
<1>4. OpIds(db) = {}
  BY <1>3, SMTT(30) DEF OpIds
<1>5. \A e \in Tools : db.ex[e].state \notin OpenStates /\ db.ex[e].task = 0
  <2>1. Execution.state = "none" /\ Execution.task = 0
    BY DEF Execution
  <2> QED BY <1>3, <2>1 DEF OpenStates
<1>6. Plain(db) /\ Custody(db)
  BY <1>3, <1>4, <1>5 DEF Plain, Custody
<1>7. w[Life].pc = "idle"
  <2>1. Life \in Partitions
    BY OrderFactsHold, RowFactsHold DEF RowFacts, PartitionFacts
  <2> QED BY <2>1 DEF Init, Idle
<1> QED BY <1>1, <1>6, <1>7 DEF CustodyInv, Tended, Attentive

\* Every pending release is taken care of, through every step.
THEOREM ReleasesTended == Spec => []CustodyInv
<1>1. Init => CustodyInv
  BY InitCustodyInv
<1>2. CustodyInv /\ [Next]_vars => CustodyInv'
  BY OrderFactsHold, NextKeeps, NextTends DEF CustodyInv
<1> QED BY <1>1, <1>2, PTL DEF Spec

\* ReleaseCustody: a pending release that nothing blocks has a job, though it
\* gives its job up while it is blocked: whoever ends what blocked it, a worker,
\* an interrupt, an exhausted budget or the end of a background task, makes the
\* next one in the same transaction.
THEOREM ReleaseCustodyHolds == Spec => []ReleaseCustody
<1>1. CustodyInv => ReleaseCustody
  BY DEF CustodyInv, Tended, Custody, ReleaseCustody
<1> QED BY <1>1, ReleasesTended, PTL
=============================================================================
