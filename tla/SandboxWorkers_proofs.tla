----------------------- MODULE SandboxWorkers_proofs ------------------------
(***************************************************************************)
(* Facts about the steps of Sandbox: what a worker does to its own row,    *)
(* what a commit, a lease, a call or a lost lease does to the invariant    *)
(* ExecutionInv and to the custody of releases (CustodyInv), and then,     *)
(* action by action, that the steps of the workers keep them.              *)
(***************************************************************************)
EXTENDS SandboxWorkers, SandboxStore_proofs

USE ZenonT(60)

-----------------------------------------------------------------------------
(* The worker of an execution, and what it does to its own row.            *)

\* Where a worker is after a transaction that ends with pc.
Moved(v, pc) == IF pc \in {"idle", "error"} THEN Idle ELSE [v EXCEPT !.pc = pc]

\* A partition without a worker.
IdleFields ==
  Idle \in Worker /\ Idle.pc = "idle" /\ Idle.ref = 0 /\ Idle.h = 0 /\ Idle.att = 0

\* The worker after a transaction.
MovedIs ==
  \A v \in Worker, pc \in Pcs \cup {"error"} :
    /\ Moved(v, pc) \in Worker
    /\ Moved(v, pc).pc = IF pc = "error" THEN "idle" ELSE pc
    /\ Moved(v, pc).pc # "idle" => Moved(v, pc).ref = v.ref /\ Moved(v, pc).h = v.h

\* A worker may settle its execution, as failed only before it was submitted.
SettledKeeps ==
  \A ses : \A x \in ExRow, s \in Seq(JobRow), v, c \in Worker, n, k \in Nat, out \in Outs \ {"none"} :
    /\ Right(ses, x, s, v, c, n, k)
    /\ (out \in NotRun => x.state \notin {"running"})
    /\ v.pc # "idle"
    =>
      Right(ses, SettledRow(x, v.ref, out), s, Moved(v, "done"), c, n, k)

\* A worker may let its execution wait.
DependKeeps ==
  \A ses : \A x, y \in ExRow, s \in Seq(JobRow), v, c \in Worker, n, k \in Nat,
     pc \in {"retry", "error", "done"} :
    /\ Right(ses, x, s, v, c, n, k)
    /\ v.pc \in Early
    /\ DependRow(x, y, v.ref, pc)
    =>
      Right(ses, y, s, Moved(v, pc), c, n, k)

\* BeginPreparing and AuthorizeRunning keep the execution right; in
\* particular only one worker gets to submit.
TransitionKept(pc, from, to) ==
  \A ses : \A x, y \in ExRow, s \in Seq(JobRow), v, c \in Worker, n, k \in Nat :
    /\ Right(ses, x, s, v, c, n, k)
    /\ TransitionRow(x, y, v.ref, from, to, pc)
    /\ Takes(v.pc, from, to)
    =>
      Right(ses, y, s, Moved(v, pc), c, n, k)

\* ... whatever the transition and wherever it leaves the worker.
TransitionKeeps == \A pc \in TransitionPcs : \A from, to : TransitionKept(pc, from, to)

\* Whatever a worker was doing, it may vanish; and a job may be re-marked.
IdleKeeps ==
  \A ses : \A x \in ExRow : \A s, t : \A v, c \in Worker, n, k \in Nat :
    /\ Right(ses, x, s, v, c, n, k)
    /\ \A r : Named(t, r) <=> Named(s, r)
    =>
      Right(ses, x, t, Idle, c, n, k)

\* A worker that is done may acknowledge its job: its execution needs it no
\* more.
FinishKeeps ==
  \A ses : \A x \in ExRow, s \in Seq(JobRow), v, c \in Worker, n, k \in Nat :
    /\ Right(ses, x, s, v, c, n, k)
    /\ v.pc = "done"
    =>
      Right(ses, x, Removed(s, v.ref), Idle, c, n, k)

\* A worker may finalize its execution when the budget is spent.
FinalKeeps ==
  \A ses : \A x \in ExRow : \A y : \A s \in Seq(JobRow), v, c \in Worker, n, k \in Nat : \A pc :
    /\ Right(ses, x, s, v, c, n, k)
    /\ v.pc # "idle"
    /\ FinalRow(x, y, v.ref, pc)
    =>
      Right(ses, y, s, Moved(v, pc), c, n, k)

\* The facts about the worker of an execution.
WorkerFacts ==
  /\ IdleFields /\ MovedIs /\ SettledKeeps /\ DependKeeps /\ TransitionKeeps /\ IdleKeeps
  /\ FinishKeeps /\ FinalKeeps

\* These facts hold.
LEMMA WorkerFactsHold == ASSUME OrderFacts PROVE WorkerFacts
<1>IdleFields. IdleFields
  BY DEF Idle, Worker, Pcs, IdleFields
<1>MovedIs. MovedIs
  <2> SUFFICES
      ASSUME NEW v \in Worker, NEW pc \in Pcs \cup {"error"}
      PROVE  /\ Moved(v, pc) \in Worker
             /\ Moved(v, pc).pc = IF pc = "error" THEN "idle" ELSE pc
             /\ Moved(v, pc).pc # "idle" => Moved(v, pc).ref = v.ref /\ Moved(v, pc).h = v.h
    BY DEF MovedIs
  <2>1. CASE pc \in {"idle", "error"}
    BY <2>1, <1>IdleFields DEF Moved, IdleFields
  <2>2. CASE pc \notin {"idle", "error"}
    BY <2>2 DEF Moved, Worker
  <2> QED BY <2>1, <2>2
<1>SettledKeeps. SettledKeeps
  <2> SUFFICES
      ASSUME NEW ses, NEW x \in ExRow, NEW s \in Seq(JobRow), NEW v \in Worker, NEW c \in Worker,
             NEW n \in Nat, NEW k \in Nat, Right(ses, x, s, v, c, n, k),
             NEW out \in Outs \ {"none"}, out \in NotRun => x.state \notin {"running"}, v.pc # "idle"
      PROVE  Right(ses, SettledRow(x, v.ref, out), s, Moved(v, "done"), c, n, k)
    BY SMTT(30) DEF SettledKeeps
  <2> DEFINE y == SettledRow(x, v.ref, out)
             u == Moved(v, "done")
  <2>1. y \in ExRow /\ y.gen = x.gen /\ y.cancel = x.cancel
    BY ExecutionRowsHold, SMTT(30) DEF ExecutionRows, SettledRowIs
  <2>2. \/ y = x /\ (x.gen # v.ref \/ x.state \in {"terminal", "consumed"})
        \/ x.gen = v.ref /\ x.state \notin {"terminal", "consumed"} /\ y.state = "terminal" /\ y.out = out
    BY ExecutionRowsHold, SMTT(30) DEF ExecutionRows, SettledRowIs
  <2>3. u.pc = "done" /\ u.ref = v.ref
    BY <1>MovedIs, SMTT(30) DEF Pcs, MovedIs
  <2>4. v.ref \in Nat /\ x.gen \in Nat /\ x.state \in ExStates
    BY DEF Worker, ExRow, ExStates
  <2> HIDE DEF y, u
  <2>5. CASE y = x /\ (x.gen # v.ref \/ x.state \in {"terminal", "consumed"})
    BY <2>3, <2>4, <2>5 DEF Right, InFlightStates, Early, y, u
  <2>6. CASE x.gen = v.ref /\ x.state \notin {"terminal", "consumed"} /\ y.state = "terminal" /\ y.out = out
    <3>1. ses # "purged" /\ x.state # "none"
      BY <2>4, <2>6, RightFactsHold, SMTT(30) DEF Right, RightFacts, ExecutionFields
    <3> QED BY <2>1, <2>3, <2>4, <2>6, <3>1, SMTT(30) DEF Right, InFlightStates, Early, Submitted, NotRun, y, u, ExStates
  <2> QED BY <2>2, <2>5, <2>6
<1>DependKeeps. DependKeeps
  <2> SUFFICES
      ASSUME NEW ses, NEW x \in ExRow, NEW y \in ExRow, NEW s \in Seq(JobRow), NEW v \in Worker, NEW c \in Worker,
             NEW n \in Nat, NEW k \in Nat, Right(ses, x, s, v, c, n, k), NEW pc \in {"retry", "error", "done"},
             v.pc \in Early, DependRow(x, y, v.ref, pc)
      PROVE  Right(ses, y, s, Moved(v, pc), c, n, k)
    BY SMTT(30) DEF DependKeeps
  <2> DEFINE u == Moved(v, pc)
  <2>1. u.pc = IF pc = "error" THEN "idle" ELSE pc
    BY <1>MovedIs, SMTT(30) DEF Pcs, MovedIs
  <2>2. u.pc # "idle" => u.ref = v.ref
    BY <1>MovedIs DEF Pcs, MovedIs
  <2>3. v.pc # "idle" /\ x.state # "running" /\ v.ref \in Nat
    BY DEF Right, Early, Worker
  <2>4. CASE y = x /\ pc \in {"retry", "error"}
    <3> HIDE DEF u
    <3> QED BY <2>1, <2>2, <2>3, <2>4, SMTT(30) DEF Right, Early, u
  <2>5. CASE pc = "done" /\ y = SettledRow(x, v.ref, "failed")
    BY <2>3, <2>5, <1>SettledKeeps DEF Outs, SettledKeeps
  <2>6. CASE /\ pc = "done" /\ x.gen = v.ref /\ x.state \in {"pending", "preparing"}
             /\ y.state \in Waiting /\ y.gen = x.gen /\ y.out = x.out /\ y.cancel = x.cancel
    <3>1. u.pc = "done" /\ u.ref = v.ref
      BY <2>1, <2>2, <2>6
    <3>2. ses # "purged"
      BY <2>6, RightFactsHold DEF Right, RightFacts, ExecutionFields
    <3> HIDE DEF u
    <3> QED BY <2>3, <2>6, <3>1, <3>2 DEF Right, InFlightStates, Early, Submitted, NotRun, Waiting, u
  <2> QED BY <2>4, <2>5, <2>6 DEF DependRow, SettledRow
<1>TransitionKeeps. TransitionKeeps
  <2> SUFFICES ASSUME NEW pc \in TransitionPcs, NEW from, NEW to
               PROVE  TransitionKept(pc, from, to)
    BY DEF TransitionKeeps
  <2> SUFFICES
      ASSUME NEW ses, NEW x \in ExRow, NEW y \in ExRow, NEW s \in Seq(JobRow), NEW v \in Worker, NEW c \in Worker,
             NEW n \in Nat, NEW k \in Nat, Right(ses, x, s, v, c, n, k),
             TransitionRow(x, y, v.ref, from, to, pc), Takes(v.pc, from, to)
      PROVE  Right(ses, y, s, Moved(v, pc), c, n, k)
    BY SMTT(30) DEF TransitionKept
  <2> DEFINE u == Moved(v, pc)
  <2>2. pc \in {"retry", "done", "authorize", "submit"}
    BY DEF TransitionPcs
  <2>1. u.pc = pc /\ u.ref = v.ref
    BY <2>2, <1>MovedIs, SMTT(30) DEF Pcs, MovedIs
  <2>3. v.pc # "idle" /\ v.pc \in Early /\ x.state # "running" /\ v.ref \in Nat /\ x.state \in ExStates
    BY DEF Right, Early, Worker, ExRow, ExStates, Takes
  <2>5. CASE pc = "done" /\ y = SettledRow(x, v.ref, "failed")
    BY <2>3, <2>5, <1>SettledKeeps DEF Outs, SettledKeeps
  <2> HIDE DEF u
  <2>4. CASE pc = "done" /\ x.gen # v.ref /\ y = x
    BY <2>1, <2>3, <2>4 DEF Right, Early, u
  <2>6. CASE pc = "retry" /\ y = x
    BY <2>1, <2>3, <2>6 DEF Right, Early, u
  <2>7. CASE pc = "retry" /\ x.state = "preparing" /\ y.state = "pending"
             /\ y.gen = x.gen /\ y.out = x.out /\ y.cancel = x.cancel
    BY <2>1, <2>3, <2>7, RightFactsHold DEF Right, Early, u, InFlightStates, Submitted, RightFacts,
       ExecutionFields
  <2>8. CASE pc = "authorize" /\ to = "preparing" /\ x.state = "preparing" /\ y = x
    BY <2>1, <2>3, <2>8 DEF Takes, Right, Early, u, InFlightStates, Submitted
  <2>9. CASE pc = "done" /\ y = x /\ x.state # from /\ ~(x.state = "preparing" /\ to = "preparing")
    BY <2>1, <2>3, <2>9 DEF Takes, Right, Early, u, InFlightStates, Submitted
  <2>10. CASE /\ pc = (IF to = "preparing" THEN "authorize" ELSE "submit")
              /\ x.gen = v.ref /\ x.state = from /\ y.state = to /\ y.gen = x.gen /\ y.out = x.out /\ y.cancel = x.cancel
    BY <2>1, <2>3, <2>10, RightFactsHold, SMTT(30) DEF Takes, Right, Early, u, InFlightStates, Submitted, NotRun, RightFacts,
       ExecutionFields
  <2> QED BY <2>4, <2>5, <2>6, <2>7, <2>8, <2>9, <2>10 DEF TransitionRow
<1>IdleKeeps. IdleKeeps
  BY <1>IdleFields, SMTT(30) DEF Right, Early, IdleFields, IdleKeeps
<1>FinishKeeps. FinishKeeps
  <2> SUFFICES
      ASSUME NEW ses, NEW x \in ExRow, NEW s \in Seq(JobRow), NEW v \in Worker, NEW c \in Worker,
             NEW n \in Nat, NEW k \in Nat, Right(ses, x, s, v, c, n, k), v.pc = "done"
      PROVE  Right(ses, x, Removed(s, v.ref), Idle, c, n, k)
    BY DEF FinishKeeps
  <2> DEFINE t == Removed(s, v.ref)
  <2>1. \A r : Named(t, r) <=> Named(s, r) /\ r # v.ref
    BY SequenceFactsHold DEF SequenceFacts, RemovedIs
  <2> HIDE DEF t
  <2> QED BY <2>1, <1>IdleFields DEF Right, Early, t, IdleFields
<1>FinalKeeps. FinalKeeps
  <2> SUFFICES
      ASSUME NEW ses, NEW x \in ExRow, NEW y, NEW s \in Seq(JobRow), NEW v \in Worker, NEW c \in Worker,
             NEW n \in Nat, NEW k \in Nat, Right(ses, x, s, v, c, n, k), NEW pc, v.pc # "idle",
             FinalRow(x, y, v.ref, pc)
      PROVE  Right(ses, y, s, Moved(v, pc), c, n, k)
    BY SMTT(30) DEF FinalKeeps
  <2> DEFINE u == Moved(v, pc)
  <2>0. pc \in {"done", "error"}
    BY DEF FinalRow
  <2>1. u.pc = (IF pc = "error" THEN "idle" ELSE pc) /\ (u.pc # "idle" => u.ref = v.ref)
    BY <2>0, <1>MovedIs DEF Pcs, MovedIs
  <2>2. /\ y \in ExRow /\ y.gen = x.gen /\ y.cancel = x.cancel
        /\ \/ y = x /\ pc = "error"
           \/ y = x /\ pc = "done" /\ (x.gen = v.ref => x.state \notin InFlightStates)
           \/ /\ pc = "done" /\ x.gen = v.ref /\ x.state \in InFlightStates /\ y.state = "terminal"
              /\ y.out = IF x.state = "running" THEN "unknown" ELSE "failed"
    BY ExecutionRowsHold, SMTT(30) DEF ExecutionRows, FinalRowIs
  <2> HIDE DEF u
  <2> QED BY <2>1, <2>2, RightFactsHold, SMTT(30) DEF Right, Early, NotRun, Submitted, InFlightStates, u, RightFacts,
     ExecutionFields
<1> QED BY <1>IdleFields, <1>MovedIs, <1>SettledKeeps, <1>DependKeeps, <1>TransitionKeeps, <1>IdleKeeps,
   <1>FinishKeeps, <1>FinalKeeps DEF WorkerFacts

-----------------------------------------------------------------------------
(* The invariant, and the shapes of a step.                                *)

\* The types, and the references of the lifecycle.
Typed ==
  /\ db \in DB
  /\ w \in [Partitions -> Worker]
  /\ cleanup \in [pc : {"idle", "custody", "rows"}, last : BOOLEAN]
  /\ provider \in Seq({"started", "stopped", "gone"})
  /\ late \subseteq {"create", "start", "release"} \X Nat
  /\ sent \in [run : [Tools -> Nat], cancel : [Tools -> Nat], release : Seq(Nat)]
  /\ cleanup.pc # "idle" => db.session = "deleted"
  /\ LifeRefs(db)
  /\ w[Life].pc # "idle" => w[Life].ref \in OpIds(db)

\* Execution e is right in the current state.
RightTool(e) == RightIn(db, e, w[Exec(e)], w[Cancel(e)], sent.run[e], sent.cancel[e])

\* Every execution is right.
AllRight == \A e \in Tools : RightTool(e)

\* The inductive invariant.
ExecutionInv == Typed /\ AllRight

\* The calls that can still reach the provider.
Calls == {"create", "start", "release"} \X Nat

\* The types of what concerns one execution.
TypedFacts ==
  Typed =>
    /\ w[Life] \in Worker /\ w[Fanout] \in Worker
    /\ \A e \in Tools : /\ w[Exec(e)] \in Worker /\ w[Cancel(e)] \in Worker
                        /\ sent.run[e] \in Nat /\ sent.cancel[e] \in Nat
                        /\ db.ex[e] \in ExRow /\ db.q[Exec(e)] \in Seq(JobRow)
    /\ db \in DB

\* Nothing but db changes for the executions and their workers.
SoundStep ==
  /\ ExecutionInv
  /\ Sound(db, db')
  /\ w' \in [Partitions -> Worker]
  /\ \A p \in Partitions : p \notin {Life, Fanout} => w'[p] = w[p]
  /\ (w'[Life].pc # "idle" => w'[Life].ref \in OpIds(db'))
  /\ cleanup' \in [pc : {"idle", "custody", "rows"}, last : BOOLEAN]
  /\ (cleanup'.pc # "idle" => db.session = "deleted")
  /\ provider' \in Seq({"started", "stopped", "gone"})
  /\ late' \subseteq {"create", "start", "release"} \X Nat
  /\ sent' \in [run : [Tools -> Nat], cancel : [Tools -> Nat], release : Seq(Nat)]
  /\ sent'.run = sent.run
  /\ sent'.cancel = sent.cancel
  =>
    ExecutionInv'

\* Only execution e and its workers change.
OwnStep ==
  \A e \in Tools :
    /\ ExecutionInv
    /\ Others(db, db', e)
    /\ w' \in [Partitions -> Worker]
    /\ \A p \in Partitions : p \notin {Exec(e), Cancel(e)} => w'[p] = w[p]
    /\ cleanup' = cleanup
    /\ provider' = provider
    /\ late' = late
    /\ sent' \in [run : [Tools -> Nat], cancel : [Tools -> Nat], release : Seq(Nat)]
    /\ \A f \in Tools : f # e => sent'.run[f] = sent.run[f] /\ sent'.cancel[f] = sent.cancel[f]
    /\ RightTool(e)'
    =>
      ExecutionInv'

\* A transaction of the lifecycle or fanout worker.
CommitIs ==
  \A p \in {Life, Fanout} : \A t :
    /\ ExecutionInv
    /\ Tx(db, t)
    /\ Commit(p, t)
    /\ ~At(p, "idle")
    =>
      /\ Sound(db, db') /\ w' \in [Partitions -> Worker]
      /\ \A x \in Partitions : x # p => w'[x] = w[x]
      /\ w'[Life].pc # "idle" => w'[Life].ref \in OpIds(db')

\* The lifecycle or fanout worker commits a sound transaction.
CommitKeeps ==
  \A p \in {Life, Fanout} : \A t :
    /\ ExecutionInv
    /\ Tx(db, t)
    /\ Commit(p, t)
    /\ ~At(p, "idle")
    /\ cleanup' = cleanup
    /\ provider' \in Seq({"started", "stopped", "gone"})
    /\ late' \subseteq Calls
    /\ sent' \in [run : [Tools -> Nat], cancel : [Tools -> Nat], release : Seq(Nat)]
    /\ sent'.run = sent.run
    /\ sent'.cancel = sent.cancel
    =>
      ExecutionInv'

\* The same when nothing outside changes.
CommitAlone ==
  \A p \in {Life, Fanout} : \A t :
    /\ ExecutionInv
    /\ Tx(db, t)
    /\ Commit(p, t)
    /\ ~At(p, "idle")
    /\ UNCHANGED External
    =>
      ExecutionInv'

\* The facts about the shapes of a step.
StepFacts ==
  /\ TypedFacts /\ SoundStep /\ OwnStep /\ CommitIs /\ CommitKeeps /\ CommitAlone

\* These facts hold.
LEMMA StepFactsHold == ASSUME OrderFacts PROVE StepFacts
<1>TypedFacts. TypedFacts
  BY RowFactsHold DEF Typed, RowFacts, PartitionFacts, DBFields, TypedFacts
<1>SoundStep. SoundStep
  <2> SUFFICES
      ASSUME ExecutionInv, Sound(db, db'),
             w' \in [Partitions -> Worker], \A p \in Partitions : p \notin {Life, Fanout} => w'[p] = w[p],
             w'[Life].pc # "idle" => w'[Life].ref \in OpIds(db'),
             cleanup' \in [pc : {"idle", "custody", "rows"}, last : BOOLEAN],
             cleanup'.pc # "idle" => db.session = "deleted",
             provider' \in Seq({"started", "stopped", "gone"}),
             late' \subseteq {"create", "start", "release"} \X Nat,
             sent' \in [run : [Tools -> Nat], cancel : [Tools -> Nat], release : Seq(Nat)],
             sent'.run = sent.run, sent'.cancel = sent.cancel
      PROVE  ExecutionInv'
    BY DEF SoundStep
  <2>1. Typed'
    BY DEF ExecutionInv, Typed, Sound
  <2>2. ASSUME NEW e \in Tools PROVE RightTool(e)'
    <3>1. RightIn(db, e, w[Exec(e)], w[Cancel(e)], sent.run[e], sent.cancel[e])
      BY DEF ExecutionInv, AllRight, RightTool
    <3>2. w[Exec(e)] \in Worker /\ w[Cancel(e)] \in Worker /\ sent.run[e] \in Nat /\ sent.cancel[e] \in Nat
      BY <1>TypedFacts DEF ExecutionInv, TypedFacts
    <3>3. RightIn(db', e, w[Exec(e)], w[Cancel(e)], sent.run[e], sent.cancel[e])
      BY <3>1, <3>2 DEF Sound, Keeps
    <3>4. w'[Exec(e)] = w[Exec(e)] /\ w'[Cancel(e)] = w[Cancel(e)]
      BY RowFactsHold DEF RowFacts, PartitionFacts
    <3> QED BY <3>3, <3>4 DEF RightTool
  <2> QED BY <2>1, <2>2 DEF ExecutionInv, AllRight
<1>OwnStep. OwnStep
  <2> SUFFICES
      ASSUME ExecutionInv, NEW e \in Tools, Others(db, db', e),
             w' \in [Partitions -> Worker], \A p \in Partitions : p \notin {Exec(e), Cancel(e)} => w'[p] = w[p],
             cleanup' = cleanup, provider' = provider, late' = late,
             sent' \in [run : [Tools -> Nat], cancel : [Tools -> Nat], release : Seq(Nat)],
             \A f \in Tools : f # e => sent'.run[f] = sent.run[f] /\ sent'.cancel[f] = sent.cancel[f],
             RightTool(e)'
      PROVE  ExecutionInv'
    BY DEF OwnStep
  <2>1. Typed'
    <3>1. OpIds(db) \subseteq OpIds(db')
      <4>1. Len(db.ops) \in Nat /\ Len(db'.ops) \in Nat
        BY RowFactsHold DEF Others, ExecutionInv, Typed, RowFacts, DBFields
      <4> QED BY <4>1, SMTT(30) DEF OpIds, Others
    <3>2. w'[Life] = w[Life]
      BY RowFactsHold DEF RowFacts, PartitionFacts
    <3> QED BY <3>1, <3>2 DEF ExecutionInv, Typed, Others
  <2>2. ASSUME NEW f \in Tools, f # e PROVE RightTool(f)'
    <3>1. RightIn(db, f, w[Exec(f)], w[Cancel(f)], sent.run[f], sent.cancel[f])
      BY DEF ExecutionInv, AllRight, RightTool
    <3>2. w[Exec(f)] \in Worker /\ w[Cancel(f)] \in Worker /\ sent.run[f] \in Nat /\ sent.cancel[f] \in Nat
      BY <1>TypedFacts DEF ExecutionInv, TypedFacts
    <3>3. RightIn(db', f, w[Exec(f)], w[Cancel(f)], sent.run[f], sent.cancel[f])
      BY <2>2, <3>1, <3>2 DEF Others
    <3>4. w'[Exec(f)] = w[Exec(f)] /\ w'[Cancel(f)] = w[Cancel(f)]
      BY <2>2, RowFactsHold, SMTT(30) DEF RowFacts, PartitionFacts
    <3> QED BY <2>2, <3>3, <3>4 DEF RightTool
  <2> QED BY <2>1, <2>2 DEF ExecutionInv, AllRight
<1>CommitIs. CommitIs
  <2> SUFFICES
      ASSUME ExecutionInv, NEW p \in {Life, Fanout}, NEW t, Tx(db, t), Commit(p, t), ~At(p, "idle")
      PROVE  /\ Sound(db, db') /\ w' \in [Partitions -> Worker]
             /\ \A x \in Partitions : x # p => w'[x] = w[x]
             /\ w'[Life].pc # "idle" => w'[Life].ref \in OpIds(db')
    BY DEF CommitIs
  <2>0. p \in Partitions
    BY RowFactsHold DEF RowFacts, PartitionFacts
  <2>1. db \in DB /\ t.db \in DB /\ Sound(db, t.db) /\ t.pc \in Pcs \cup {"error"}
    BY DEF ExecutionInv, Typed, Tx, Sound
  <2>2. Sound(db, db')
    <3>1. Sound(t.db, SetJob(t.db, p, Ref(p), "due"))
      BY <2>0, <2>1, LifecycleTxHold DEF LifecycleTx, SetJobSound
    <3>2. Sound(db, SetJob(t.db, p, Ref(p), "due"))
      BY <2>1, <3>1, SoundFactsHold DEF SoundFacts, SoundTrans
    <3> QED BY <2>1, <3>2 DEF Commit
  <2>3. w' = [w EXCEPT ![p] = Moved(w[p], t.pc)]
    BY DEF Commit, Moved
  <2>4. w \in [Partitions -> Worker]
    BY DEF ExecutionInv, Typed
  <2>5. w[p] \in Worker
    BY <2>0, <2>4
  <2>6. Moved(w[p], t.pc) \in Worker /\ (Moved(w[p], t.pc).pc # "idle" => Moved(w[p], t.pc).ref = w[p].ref)
    BY <2>1, <2>5, WorkerFactsHold DEF WorkerFacts, MovedIs
  <2>7. w' \in [Partitions -> Worker] /\ w'[p] = Moved(w[p], t.pc) /\ \A x \in Partitions : x # p => w'[x] = w[x]
    BY <2>0, <2>3, <2>4, <2>6
  <2>8. OpIds(db) \subseteq OpIds(db')
    <3>1. Len(db.ops) \in Nat /\ Len(db'.ops) \in Nat
      BY <2>1, <2>2, RowFactsHold DEF Sound, RowFacts, DBFields
    <3> QED BY <2>2, <3>1, SMTT(30) DEF OpIds, Sound
  <2>9. w[Life].pc # "idle" => w[Life].ref \in OpIds(db)
    BY DEF ExecutionInv, Typed
  <2>10. CASE p = Life
    BY <2>2, <2>6, <2>7, <2>8, <2>9, <2>10, RowFactsHold DEF At, RowFacts, PartitionFacts
  <2>11. CASE p # Life
    BY <2>2, <2>7, <2>8, <2>9, <2>11, RowFactsHold DEF RowFacts, PartitionFacts
  <2> QED BY <2>10, <2>11
<1>CommitKeeps. CommitKeeps
  <2> SUFFICES
      ASSUME ExecutionInv, NEW p \in {Life, Fanout}, NEW t, Tx(db, t), Commit(p, t), ~At(p, "idle"),
             cleanup' = cleanup,
             provider' \in Seq({"started", "stopped", "gone"}),
             late' \subseteq Calls,
             sent' \in [run : [Tools -> Nat], cancel : [Tools -> Nat], release : Seq(Nat)],
             sent'.run = sent.run, sent'.cancel = sent.cancel
      PROVE  ExecutionInv'
    BY DEF CommitKeeps
  <2>1. /\ Sound(db, db') /\ w' \in [Partitions -> Worker]
        /\ \A x \in Partitions : x # p => w'[x] = w[x]
        /\ w'[Life].pc # "idle" => w'[Life].ref \in OpIds(db')
    BY <1>CommitIs DEF CommitIs
  <2>2. \A x \in Partitions : x \notin {Life, Fanout} => w'[x] = w[x]
    BY <2>1
  <2>3. cleanup' \in [pc : {"idle", "custody", "rows"}, last : BOOLEAN] /\ (cleanup'.pc # "idle" => db.session = "deleted")
    BY DEF ExecutionInv, Typed
  <2>4. late' \subseteq {"create", "start", "release"} \X Nat
    BY DEF Calls
  <2> QED BY <2>1, <2>2, <2>3, <2>4, <1>SoundStep DEF SoundStep
<1>CommitAlone. CommitAlone
  <2> SUFFICES
      ASSUME ExecutionInv, NEW p \in {Life, Fanout}, NEW t, Tx(db, t), Commit(p, t), ~At(p, "idle"),
             UNCHANGED External
      PROVE  ExecutionInv'
    BY DEF CommitAlone
  <2>1. /\ cleanup' = cleanup /\ provider' = provider /\ late' = late /\ sent' = sent
    BY DEF External
  <2>2. /\ provider \in Seq({"started", "stopped", "gone"}) /\ late \subseteq Calls
        /\ sent \in [run : [Tools -> Nat], cancel : [Tools -> Nat], release : Seq(Nat)]
    BY DEF ExecutionInv, Typed, Calls
  <2> QED BY <2>1, <2>2, <1>CommitKeeps DEF CommitKeeps
<1> QED BY <1>TypedFacts, <1>SoundStep, <1>OwnStep, <1>CommitIs, <1>CommitKeeps, <1>CommitAlone DEF StepFacts

-----------------------------------------------------------------------------
(* The lifecycle worker.                                                   *)

\* What a busy lifecycle worker works on.
LifeFacts ==
  /\ ExecutionInv
  /\ w[Life].pc # "idle"
  =>
    /\ Ref(Life) \in OpIds(db) /\ Op(Life) \in OpRow /\ Op(Life) = db.ops[Ref(Life)]
    /\ w[Life] \in Worker /\ w[Life].h \in Nat /\ Ref(Life) \in Nat /\ db \in DB

\* Claims keep the invariant.
ClaimLifecycleKeeps ==
  /\ ExecutionInv
  /\ ClaimLifecycle
  =>
    ExecutionInv'

\* Parking a release keeps the invariant.
ParkReleaseKeeps ==
  /\ ExecutionInv
  /\ ParkRelease
  =>
    ExecutionInv'

\* The failure of an operation is a sound transaction.
FailTx ==
  \A o : \A bound \in Bounds :
    ExecutionInv =>
      Tx(db, Then(FailOp(db, o, bound), "done"))

\* So is a step that changes nothing.
GotoTx ==
  \A pc \in Pcs :
    ExecutionInv =>
      Tx(db, Then(db, pc))

\* A failed inspection keeps the invariant.
InspectionFailsKeeps ==
  /\ ExecutionInv
  /\ InspectionFails
  =>
    ExecutionInv'

\* A worker of the lifecycle goes on with a handle.
UseHandleKeeps ==
  \A pc \in Pcs, h \in Nat :
    /\ ExecutionInv
    /\ UseHandle(Life, pc, h)
    /\ ~At(Life, "idle")
    /\ cleanup' = cleanup
    /\ provider' \in Seq({"started", "stopped", "gone"})
    /\ late' = late
    /\ sent' = sent
    =>
      ExecutionInv'

\* Handles are numbers from 1.
AliveNat ==
  Typed =>
    Alive \subseteq Nat \ {0}

\* The inspection before an activation keeps the invariant.
LookForActivationKeeps ==
  /\ ExecutionInv
  /\ LookForActivation
  =>
    ExecutionInv'

\* The steps of the lifecycle worker keep the invariant.
LifecycleSteps ==
  /\ LifeFacts /\ ClaimLifecycleKeeps /\ ParkReleaseKeeps /\ FailTx /\ GotoTx
  /\ InspectionFailsKeeps /\ UseHandleKeeps /\ AliveNat /\ LookForActivationKeeps

\* These facts hold.
LEMMA LifecycleStepsHold == ASSUME OrderFacts PROVE LifecycleSteps
<1>LifeFacts. LifeFacts
  <2> SUFFICES
      ASSUME ExecutionInv, w[Life].pc # "idle"
      PROVE  /\ Ref(Life) \in OpIds(db) /\ Op(Life) \in OpRow /\ Op(Life) = db.ops[Ref(Life)]
             /\ w[Life] \in Worker /\ w[Life].h \in Nat /\ Ref(Life) \in Nat /\ db \in DB
    BY DEF LifeFacts
  <2>1. Ref(Life) \in OpIds(db) /\ w[Life] \in Worker /\ db \in DB
    BY StepFactsHold DEF ExecutionInv, Typed, Ref, StepFacts, TypedFacts
  <2> QED BY <2>1, RowFactsHold DEF Op, Ref, Worker, RowFacts, DBFields
<1>ClaimLifecycleKeeps. ClaimLifecycleKeeps
  <2> SUFFICES
      ASSUME ExecutionInv, ClaimLifecycle
      PROVE  ExecutionInv'
    BY DEF ClaimLifecycleKeeps
  <2> DEFINE t == CASE Op(Life).kind \in ActivationKinds -> ClaimActivation(db, Ref(Life))
                    [] Op(Life).kind = "materialize" -> ClaimMaterialization(db, Ref(Life))
                    [] Op(Life).kind = "release" -> ClaimRelease(db, Ref(Life), "park")
  <2>1. At(Life, "start") /\ Commit(Life, t) /\ UNCHANGED External
    BY DEF ClaimLifecycle
  <2>2. w[Life].pc # "idle" /\ ~At(Life, "idle")
    BY <2>1 DEF At
  <2>3. Ref(Life) \in OpIds(db) /\ Op(Life) \in OpRow /\ db \in DB
    BY <2>2, <1>LifeFacts DEF LifeFacts
  <2>4. /\ Tx(db, ClaimActivation(db, Ref(Life))) /\ Tx(db, ClaimMaterialization(db, Ref(Life)))
        /\ Tx(db, ClaimRelease(db, Ref(Life), "park"))
    BY <2>3, ClaimTxHold DEF Pcs, ClaimTx, ClaimActivationSound, ClaimMaterializationSound, ClaimReleaseSound
  <2>5. t \in {ClaimActivation(db, Ref(Life)), ClaimMaterialization(db, Ref(Life)), ClaimRelease(db, Ref(Life), "park")}
    BY <2>3 DEF OpRow, ActivationKinds
  <2>6. Tx(db, t)
    BY <2>4, <2>5
  <2> HIDE DEF t
  <2> QED BY <2>1, <2>2, <2>6, StepFactsHold DEF StepFacts, CommitAlone
<1>ParkReleaseKeeps. ParkReleaseKeeps
  <2> SUFFICES
      ASSUME ExecutionInv, ParkRelease
      PROVE  ExecutionInv'
    BY DEF ParkReleaseKeeps
  <2> DEFINE t == IF At(Life, "park") THEN ParkBlockedRelease(db, Ref(Life)) ELSE ClaimRelease(db, Ref(Life), "error")
  <2>1. (At(Life, "park") \/ At(Life, "again")) /\ Commit(Life, t) /\ UNCHANGED External
    BY DEF ParkRelease
  <2>2. w[Life].pc # "idle" /\ ~At(Life, "idle")
    BY <2>1 DEF At
  <2>3. Ref(Life) \in OpIds(db) /\ db \in DB
    BY <2>2, <1>LifeFacts DEF LifeFacts
  <2>4. Tx(db, t)
    BY <2>3, LifecycleTxHold, ClaimTxHold DEF LifecycleTx, ParkBlockedReleaseSound, ClaimTx, ClaimReleaseSound
  <2> HIDE DEF t
  <2> QED BY <2>1, <2>2, <2>4, StepFactsHold DEF StepFacts, CommitAlone
<1>FailTx. FailTx
  BY FailureTxHold, ClaimTxHold DEF ExecutionInv, Typed, Pcs, FailureTx, FailOpSound, ClaimTx, ThenIs, FailTx
<1>GotoTx. GotoTx
  BY ClaimTxHold DEF ExecutionInv, Typed, ClaimTx, StayIs, GotoTx
<1>InspectionFailsKeeps. InspectionFailsKeeps
  <2> SUFFICES
      ASSUME ExecutionInv, InspectionFails
      PROVE  ExecutionInv'
    BY DEF InspectionFailsKeeps
  <2> DEFINE o == Ref(Life)
             t1 == IF Op(Life).kind = "release" THEN RearmRelease(db, o) ELSE Then(db, "retry")
             t2 == Then(FailOp(db, o, "proved_not_started"), "done")
  <2>1. /\ At(Life, "look") \/ At(Life, "confirm")
        /\ Commit(Life, t1) \/ Commit(Life, t2)
        /\ UNCHANGED External
    BY DEF InspectionFails, Holds
  <2>2. w[Life].pc # "idle" /\ ~At(Life, "idle")
    BY <2>1 DEF At
  <2>3. Ref(Life) \in OpIds(db) /\ db \in DB
    BY <2>2, <1>LifeFacts DEF LifeFacts
  <2>4. Tx(db, t1)
    BY <2>3, LifecycleTxHold, <1>GotoTx DEF Pcs, LifecycleTx, RearmReleaseSound, GotoTx
  <2>5. Tx(db, t2)
    BY <1>FailTx DEF Bounds, FailTx
  <2> HIDE DEF t1, t2
  <2> QED BY <2>1, <2>2, <2>4, <2>5, StepFactsHold DEF StepFacts, CommitAlone
<1>UseHandleKeeps. UseHandleKeeps
  <2> SUFFICES
      ASSUME ExecutionInv, NEW pc \in Pcs, NEW h \in Nat, UseHandle(Life, pc, h), ~At(Life, "idle"),
             cleanup' = cleanup, provider' \in Seq({"started", "stopped", "gone"}), late' = late, sent' = sent
      PROVE  ExecutionInv'
    BY DEF UseHandleKeeps
  <2> DEFINE v == [w[Life] EXCEPT !.pc = pc, !.h = h]
  <2>1. db' = db /\ w' = [w EXCEPT ![Life] = v]
    BY DEF UseHandle
  <2>2. w[Life] \in Worker /\ w \in [Partitions -> Worker] /\ db \in DB
    BY StepFactsHold DEF ExecutionInv, Typed, StepFacts, TypedFacts
  <2>3. v \in Worker /\ v.ref = w[Life].ref
    BY <2>2 DEF Worker
  <2> HIDE DEF v
  <2>4. w' \in [Partitions -> Worker] /\ w'[Life] = v /\ \A x \in Partitions : x # Life => w'[x] = w[x]
    BY <2>1, <2>2, <2>3, RowFactsHold DEF RowFacts, PartitionFacts
  <2>5. Sound(db, db')
    BY <2>1, <2>2, SoundFactsHold DEF SoundFacts, SoundRefl
  <2>6. w'[Life].ref \in OpIds(db')
    BY <2>1, <2>3, <2>4 DEF ExecutionInv, Typed, At
  <2>7. \A x \in Partitions : x \notin {Life, Fanout} => w'[x] = w[x]
    BY <2>4
  <2>8. /\ cleanup' \in [pc : {"idle", "custody", "rows"}, last : BOOLEAN] /\ (cleanup'.pc # "idle" => db.session = "deleted")
        /\ late' \subseteq {"create", "start", "release"} \X Nat
        /\ sent' \in [run : [Tools -> Nat], cancel : [Tools -> Nat], release : Seq(Nat)]
        /\ sent'.run = sent.run /\ sent'.cancel = sent.cancel
    BY DEF ExecutionInv, Typed
  <2> QED BY <2>4, <2>5, <2>6, <2>7, <2>8, StepFactsHold DEF StepFacts, SoundStep
<1>AliveNat. AliveNat
  BY SMTT(30) DEF Typed, Alive, AliveNat
<1>LookForActivationKeeps. LookForActivationKeeps
  <2> SUFFICES
      ASSUME ExecutionInv, LookForActivation
      PROVE  ExecutionInv'
    BY DEF LookForActivationKeeps
  <2> DEFINE op == Op(Life)
             o == Ref(Life)
             s == IF op.kind = "start" THEN op.target ELSE IF Alive = {} THEN 0 ELSE CHOOSE h \in Alive : TRUE
             t1 == ReplaceMissingActivation(db, o)
             t2 == Then(db, "retry")
             t3 == Then(FailOp(db, o, "proved_not_started"), "done")
  <2>1. /\ At(Life, "look") /\ UNCHANGED External
        /\ \/ UseHandle(Life, "commit", s) \/ UseHandle(Life, "call", s) \/ UseHandle(Life, "call", 0)
           \/ Commit(Life, t1) \/ Commit(Life, t2) \/ Commit(Life, t3)
    <3>1. At(Life, "look") /\ UNCHANGED External
      BY DEF LookForActivation, Holds
    <3>2. (CASE s # 0 /\ provider[s] = "started" -> UseHandle(Life, "commit", s)
            [] s # 0 /\ provider[s] = "stopped" -> UseHandle(Life, "call", s)
            [] s # 0 /\ provider[s] = "gone" -> Commit(Life, t1)
            [] s = 0 /\ op.bound = "outcome_unknown" -> Commit(Life, t2)
            [] s = 0 /\ op.bound # "outcome_unknown" /\ w[Life].att > Attempts -> Commit(Life, t3)
            [] OTHER -> UseHandle(Life, "call", 0))
      BY DEF LookForActivation, Goto
    <3> HIDE DEF s, t1, t2, t3, op
    <3> QED BY <3>1, <3>2
  <2>2. w[Life].pc # "idle" /\ ~At(Life, "idle")
    BY <2>1 DEF At
  <2>3. Ref(Life) \in OpIds(db) /\ db \in DB /\ Op(Life) \in OpRow
    BY <2>2, <1>LifeFacts DEF LifeFacts
  <2>4. s \in Nat
    BY <2>3, <1>AliveNat DEF OpRow, ExecutionInv, AliveNat
  <2>5. Tx(db, t1) /\ Tx(db, t2) /\ Tx(db, t3)
    BY <2>3, LifecycleTxHold, <1>GotoTx, <1>FailTx DEF Pcs, Bounds, LifecycleTx, ReplaceMissingActivationSound,
       GotoTx, FailTx
  <2> HIDE DEF t1, t2, t3, s
  <2>6. /\ cleanup' = cleanup /\ provider' \in Seq({"started", "stopped", "gone"}) /\ late' = late /\ sent' = sent
    BY <2>1 DEF External, ExecutionInv, Typed
  <2>7. CASE Commit(Life, t1) \/ Commit(Life, t2) \/ Commit(Life, t3)
    BY <2>1, <2>2, <2>5, <2>7, StepFactsHold DEF StepFacts, CommitAlone
  <2>8. CASE UseHandle(Life, "commit", s) \/ UseHandle(Life, "call", s) \/ UseHandle(Life, "call", 0)
    BY <2>2, <2>4, <2>6, <2>8, <1>UseHandleKeeps DEF Pcs, UseHandleKeeps
  <2> QED BY <2>1, <2>7, <2>8
<1> QED BY <1>LifeFacts, <1>ClaimLifecycleKeeps, <1>ParkReleaseKeeps, <1>FailTx, <1>GotoTx,
   <1>InspectionFailsKeeps, <1>UseHandleKeeps, <1>AliveNat, <1>LookForActivationKeeps DEF LifecycleSteps

-----------------------------------------------------------------------------
(* Its provider calls, its ends, and the fanout.                           *)

\* The provider after a call.
EffectTyped ==
  \A c \in Calls :
    ExecutionInv =>
      Effect(c) \in Seq({"started", "stopped", "gone"})

\* The calls of the lifecycle worker.
CallTyped ==
  /\ ExecutionInv
  /\ w[Life].pc # "idle"
  =>
    ActivationCall \in Calls /\ ReleaseCall \in Calls

\* An activation call keeps the invariant.
CallActivateKeeps ==
  /\ ExecutionInv
  /\ CallActivate
  =>
    ExecutionInv'

\* So does one that fails.
CallActivateFailsKeeps ==
  /\ ExecutionInv
  /\ CallActivateFails
  =>
    ExecutionInv'

\* The confirmation of an activation keeps the invariant.
ConfirmActivationKeeps ==
  /\ ExecutionInv
  /\ ConfirmActivation
  =>
    ExecutionInv'

\* The completion of an activation keeps the invariant.
CommitActivationKeeps ==
  /\ ExecutionInv
  /\ CommitActivation
  =>
    ExecutionInv'

\* The inspection before a materialization keeps the invariant.
LookForMaterializationKeeps ==
  /\ ExecutionInv
  /\ LookForMaterialization
  =>
    ExecutionInv'

\* A materialization keeps the invariant, whether it succeeds or fails.
CallMaterializeKeeps ==
  /\ ExecutionInv
  /\ (CallMaterialize \/ CallMaterializeFails)
  =>
    ExecutionInv'

\* The inspection before a release keeps the invariant.
LookForReleaseKeeps ==
  /\ ExecutionInv
  /\ LookForRelease
  =>
    ExecutionInv'

\* A release call does not count as a command or a cancellation.
SentReleaseTyped ==
  /\ ExecutionInv
  /\ w[Life].pc # "idle"
  =>
    /\ SentRelease(Ref(Life)) \in [run : [Tools -> Nat], cancel : [Tools -> Nat], release : Seq(Nat)]
    /\ SentRelease(Ref(Life)).run = sent.run /\ SentRelease(Ref(Life)).cancel = sent.cancel

\* A release call keeps the invariant.
CallReleaseKeeps ==
  /\ ExecutionInv
  /\ CallRelease
  =>
    ExecutionInv'

\* The completion of a release keeps the invariant.
CommitReleaseKeeps ==
  /\ ExecutionInv
  /\ CommitRelease
  =>
    ExecutionInv'

\* A failed release call keeps the invariant.
CallReleaseFailsKeeps ==
  /\ ExecutionInv
  /\ CallReleaseFails
  =>
    ExecutionInv'

\* The fanout of a ready artifact keeps the invariant.
FanoutReadyKeeps ==
  /\ ExecutionInv
  /\ FanoutReady
  =>
    ExecutionInv'

\* So do the lifecycle worker's calls of the provider.
ProviderSteps ==
  /\ EffectTyped /\ CallTyped /\ CallActivateKeeps /\ CallActivateFailsKeeps
  /\ ConfirmActivationKeeps /\ CommitActivationKeeps /\ LookForMaterializationKeeps
  /\ CallMaterializeKeeps /\ LookForReleaseKeeps /\ SentReleaseTyped /\ CallReleaseKeeps
  /\ CommitReleaseKeeps /\ CallReleaseFailsKeeps /\ FanoutReadyKeeps

\* These facts hold.
LEMMA ProviderStepsHold == ASSUME OrderFacts PROVE ProviderSteps
<1>EffectTyped. EffectTyped
  <2> SUFFICES
      ASSUME ExecutionInv, NEW c \in Calls
      PROVE  Effect(c) \in Seq({"started", "stopped", "gone"})
    BY DEF EffectTyped
  <2>1. provider \in Seq({"started", "stopped", "gone"}) /\ c[1] \in {"create", "start", "release"} /\ c[2] \in Nat
    BY DEF ExecutionInv, Typed, Calls
  <2>2. \A h \in Nat, s \in {"started", "gone"} : [provider EXCEPT ![h] = s] \in Seq({"started", "stopped", "gone"})
    <3> DEFINE P == {"started", "stopped", "gone"}
               n == Len(provider)
    <3>1. n \in Nat /\ provider \in [1..n -> P]
      BY <2>1, SMTT(30)
    <3>2. \A h \in Nat, s \in {"started", "gone"} : [provider EXCEPT ![h] = s] \in [1..n -> P]
      BY <3>1
    <3> HIDE DEF P, n
    <3> QED BY <3>1, <3>2, SequenceFactsHold DEF P, SequenceFacts, FunctionIsSeq
  <2>3. Append(provider, "started") \in Seq({"started", "stopped", "gone"})
    BY <2>1, SMTT(30)
  <2> QED BY <2>1, <2>2, <2>3 DEF Effect
<1>CallTyped. CallTyped
  <2> SUFFICES
      ASSUME ExecutionInv, w[Life].pc # "idle"
      PROVE  ActivationCall \in Calls /\ ReleaseCall \in Calls
    BY DEF CallTyped
  <2>1. w[Life].h \in Nat /\ Op(Life).target \in Nat
    BY LifecycleStepsHold DEF OpRow, LifecycleSteps, LifeFacts
  <2> QED BY <2>1 DEF ActivationCall, ReleaseCall, Calls
<1>CallActivateKeeps. CallActivateKeeps
  <2> SUFFICES
      ASSUME ExecutionInv, CallActivate
      PROVE  ExecutionInv'
    BY DEF CallActivateKeeps
  <2> DEFINE h == IF w[Life].h = 0 THEN Len(provider') ELSE w[Life].h
  <2>1. At(Life, "call") /\ UseHandle(Life, "confirm", h) /\ provider' = Effect(ActivationCall)
    BY DEF CallActivate, Holds
  <2>2. cleanup' = cleanup /\ late' = late /\ sent' = sent
    BY DEF CallActivate
  <2>3. w[Life].pc # "idle" /\ ~At(Life, "idle")
    BY <2>1 DEF At
  <2>4. provider' \in Seq({"started", "stopped", "gone"})
    BY <2>1, <2>3, <1>CallTyped, <1>EffectTyped DEF CallTyped, EffectTyped
  <2>5. h \in Nat
    BY <2>3, <2>4, LifecycleStepsHold, SMTT(30) DEF LifecycleSteps, LifeFacts
  <2> HIDE DEF h
  <2> QED BY <2>1, <2>2, <2>3, <2>4, <2>5, LifecycleStepsHold DEF Pcs, LifecycleSteps, UseHandleKeeps
<1>CallActivateFailsKeeps. CallActivateFailsKeeps
  <2> SUFFICES
      ASSUME ExecutionInv, CallActivateFails
      PROVE  ExecutionInv'
    BY DEF CallActivateFailsKeeps
  <2> DEFINE t1 == IF Op(Life).kind = "start" THEN Then(db, "retry") ELSE ObserveUnknownActivation(db, Ref(Life))
             t2 == Then(db, "retry")
             t3 == Then(FailOp(db, Ref(Life), "proved_not_started"), "done")
  <2>1. /\ At(Life, "call") /\ cleanup' = cleanup /\ provider' = provider /\ sent' = sent
        /\ late' = late \/ late' = late \cup {ActivationCall}
        /\ Commit(Life, t1) \/ Commit(Life, t2) \/ Commit(Life, t3)
    BY DEF CallActivateFails, Holds, ActivationUnknown, Goto
  <2>2. w[Life].pc # "idle" /\ ~At(Life, "idle")
    BY <2>1 DEF At
  <2>3. Ref(Life) \in OpIds(db) /\ db \in DB
    BY <2>2, LifecycleStepsHold DEF LifecycleSteps, LifeFacts
  <2>4. Tx(db, t1) /\ Tx(db, t2) /\ Tx(db, t3)
    BY <2>3, LifecycleTxHold, LifecycleStepsHold DEF Pcs, Bounds, LifecycleTx, ObserveUnknownActivationSound,
       LifecycleSteps, GotoTx, FailTx
  <2> HIDE DEF t1, t2, t3
  <2>5. late' \subseteq Calls
    BY <2>1, <2>2, <1>CallTyped DEF ExecutionInv, Typed, Calls, CallTyped
  <2>6. /\ provider' \in Seq({"started", "stopped", "gone"})
        /\ sent' \in [run : [Tools -> Nat], cancel : [Tools -> Nat], release : Seq(Nat)]
        /\ sent'.run = sent.run /\ sent'.cancel = sent.cancel
    BY <2>1 DEF ExecutionInv, Typed
  <2> QED BY <2>1, <2>2, <2>4, <2>5, <2>6, StepFactsHold DEF StepFacts, CommitKeeps
<1>ConfirmActivationKeeps. ConfirmActivationKeeps
  <2> SUFFICES
      ASSUME ExecutionInv, ConfirmActivation
      PROVE  ExecutionInv'
    BY DEF ConfirmActivationKeeps
  <2> DEFINE pc == IF provider[w[Life].h] = "started" THEN "commit" ELSE "retry"
  <2>1. At(Life, "confirm") /\ Commit(Life, Then(db, pc)) /\ UNCHANGED External /\ ~At(Life, "idle")
    BY DEF ConfirmActivation, Holds, Goto, At
  <2>2. Tx(db, Then(db, pc))
    BY LifecycleStepsHold DEF Pcs, LifecycleSteps, GotoTx
  <2> HIDE DEF pc
  <2> QED BY <2>1, <2>2, StepFactsHold DEF StepFacts, CommitAlone
<1>CommitActivationKeeps. CommitActivationKeeps
  <2> SUFFICES
      ASSUME ExecutionInv, CommitActivation
      PROVE  ExecutionInv'
    BY DEF CommitActivationKeeps
  <2> DEFINE t == Then(CompleteActivation(db, Ref(Life), w[Life].h), "done")
  <2>1. At(Life, "commit") /\ Commit(Life, t) /\ UNCHANGED External /\ ~At(Life, "idle")
    BY DEF CommitActivation, Holds, At
  <2>2. Ref(Life) \in OpIds(db) /\ db \in DB /\ w[Life].h \in Nat
    BY <2>1, LifecycleStepsHold DEF At, LifecycleSteps, LifeFacts
  <2>3. Tx(db, t)
    BY <2>2, ClaimTxHold DEF Pcs, ClaimTx, CompleteActivationSound, ThenIs
  <2> HIDE DEF t
  <2> QED BY <2>1, <2>3, StepFactsHold DEF StepFacts, CommitAlone
<1>LookForMaterializationKeeps. LookForMaterializationKeeps
  <2> SUFFICES
      ASSUME ExecutionInv, LookForMaterialization
      PROVE  ExecutionInv'
    BY DEF LookForMaterializationKeeps
  <2> DEFINE s == provider[Op(Life).target]
             kind == IF s = "stopped" THEN "start" ELSE "replace"
             t1 == Then(db, "call")
             t2 == Then(WaitMaterializationForActivation(db, Ref(Life), kind), "idle")
  <2>1. /\ At(Life, "look") /\ UNCHANGED External /\ ~At(Life, "idle")
        /\ Commit(Life, t1) \/ Commit(Life, t2)
    BY DEF LookForMaterialization, Holds, Goto, At
  <2>2. Ref(Life) \in OpIds(db) /\ db \in DB
    BY <2>1, LifecycleStepsHold DEF At, LifecycleSteps, LifeFacts
  <2>3. Tx(db, t1) /\ Tx(db, t2)
    BY <2>2, LifecycleStepsHold, ClaimTxHold DEF Pcs, LifecycleSteps, GotoTx, ClaimTx,
       WaitMaterializationForActivationSound, ThenIs
  <2> HIDE DEF t1, t2
  <2> QED BY <2>1, <2>3, StepFactsHold DEF StepFacts, CommitAlone
<1>CallMaterializeKeeps. CallMaterializeKeeps
  <2> SUFFICES
      ASSUME ExecutionInv, CallMaterialize \/ CallMaterializeFails
      PROVE  ExecutionInv'
    BY DEF CallMaterializeKeeps
  <2> DEFINE t1 == Then(CompleteMaterialization(db, Ref(Life)), "done")
             t2 == Then(db, "retry")
             t3 == Then(FailOp(db, Ref(Life), "submitted"), "done")
  <2>1. /\ At(Life, "call") /\ UNCHANGED External /\ ~At(Life, "idle")
        /\ Commit(Life, t1) \/ Commit(Life, t2) \/ Commit(Life, t3)
    BY DEF CallMaterialize, CallMaterializeFails, Holds, Goto, At
  <2>2. Ref(Life) \in OpIds(db) /\ db \in DB
    BY <2>1, LifecycleStepsHold DEF At, LifecycleSteps, LifeFacts
  <2>3. Tx(db, t1) /\ Tx(db, t2) /\ Tx(db, t3)
    BY <2>2, LifecycleStepsHold, ClaimTxHold DEF Pcs, Bounds, LifecycleSteps, GotoTx, FailTx, ClaimTx,
       CompleteMaterializationSound, ThenIs
  <2> HIDE DEF t1, t2, t3
  <2> QED BY <2>1, <2>3, StepFactsHold DEF StepFacts, CommitAlone
<1>LookForReleaseKeeps. LookForReleaseKeeps
  <2> SUFFICES
      ASSUME ExecutionInv, LookForRelease
      PROVE  ExecutionInv'
    BY DEF LookForReleaseKeeps
  <2> DEFINE r == Ref(Life)
             t1 == Then(CompleteRelease(db, r), "done")
             t2 == Then(db, "retry")
             t3 == AuthorizeRelease(db, r)
             t == CASE Op(Life).target \notin Alive -> t1
                    [] Op(Life).target \in Alive /\ ObserveOnly(db, r) -> t2
                    [] OTHER -> t3
  <2>1. At(Life, "look") /\ UNCHANGED External /\ ~At(Life, "idle") /\ Commit(Life, t)
    BY DEF LookForRelease, Holds, At
  <2>2. t \in {t1, t2, t3}
    <3> HIDE DEF t1, t2, t3
    <3> QED OBVIOUS
  <2>3. Ref(Life) \in OpIds(db) /\ db \in DB
    BY <2>1, LifecycleStepsHold DEF At, LifecycleSteps, LifeFacts
  <2>4. Tx(db, t1) /\ Tx(db, t2) /\ Tx(db, t3)
    BY <2>3, LifecycleStepsHold, LifecycleTxHold, ClaimTxHold DEF Pcs, LifecycleSteps, GotoTx, LifecycleTx,
       AuthorizeReleaseSound, CompleteReleaseSound, ClaimTx, ThenIs
  <2>5. Tx(db, t)
    BY <2>2, <2>4
  <2> HIDE DEF t
  <2> QED BY <2>1, <2>5, StepFactsHold DEF StepFacts, CommitAlone
<1>SentReleaseTyped. SentReleaseTyped
  <2> SUFFICES
      ASSUME ExecutionInv, w[Life].pc # "idle"
      PROVE  /\ SentRelease(Ref(Life)) \in [run : [Tools -> Nat], cancel : [Tools -> Nat], release : Seq(Nat)]
             /\ SentRelease(Ref(Life)).run = sent.run /\ SentRelease(Ref(Life)).cancel = sent.cancel
    BY DEF SentReleaseTyped
  <2>1. sent \in [run : [Tools -> Nat], cancel : [Tools -> Nat], release : Seq(Nat)] /\ Ref(Life) \in Nat
    BY LifecycleStepsHold DEF ExecutionInv, Typed, LifecycleSteps, LifeFacts
  <2> DEFINE s == Append(sent.release, Ref(Life))
  <2>2. s \in Seq(Nat)
    BY <2>1, SMTT(30)
  <2>3. SentRelease(Ref(Life)) = [sent EXCEPT !.release = s]
    BY DEF SentRelease
  <2> HIDE DEF s
  <2> QED BY <2>1, <2>2, <2>3
<1>CallReleaseKeeps. CallReleaseKeeps
  <2> SUFFICES
      ASSUME ExecutionInv, CallRelease
      PROVE  ExecutionInv'
    BY DEF CallReleaseKeeps
  <2> DEFINE t == Then(db, "commit")
  <2>1. /\ At(Life, "call") /\ w[Life].pc # "idle" /\ ~At(Life, "idle") /\ Commit(Life, t)
        /\ cleanup' = cleanup /\ late' = late /\ sent' = SentRelease(Ref(Life))
        /\ provider' = provider \/ provider' = Effect(ReleaseCall)
    BY DEF CallRelease, Holds, At, Goto
  <2>2. Tx(db, t)
    BY LifecycleStepsHold DEF Pcs, LifecycleSteps, GotoTx
  <2>3. provider' \in Seq({"started", "stopped", "gone"}) /\ late' \subseteq Calls
    <3>1. Effect(ReleaseCall) \in Seq({"started", "stopped", "gone"})
      BY <2>1, <1>CallTyped, <1>EffectTyped DEF CallTyped, EffectTyped
    <3> QED BY <2>1, <3>1 DEF ExecutionInv, Typed, Calls
  <2> HIDE DEF t
  <2> QED BY <2>1, <2>2, <2>3, <1>SentReleaseTyped, StepFactsHold DEF SentReleaseTyped, StepFacts, CommitKeeps
<1>CommitReleaseKeeps. CommitReleaseKeeps
  <2> SUFFICES
      ASSUME ExecutionInv, CommitRelease
      PROVE  ExecutionInv'
    BY DEF CommitReleaseKeeps
  <2> DEFINE t == Then(CompleteRelease(db, Ref(Life)), "done")
  <2>1. At(Life, "commit") /\ Commit(Life, t) /\ UNCHANGED External /\ ~At(Life, "idle")
    BY DEF CommitRelease, Holds, At
  <2>2. db \in DB
    BY DEF ExecutionInv, Typed
  <2>3. Tx(db, t)
    BY <2>2, LifecycleTxHold, ClaimTxHold DEF Pcs, LifecycleTx, CompleteReleaseSound, ClaimTx, ThenIs
  <2> HIDE DEF t
  <2> QED BY <2>1, <2>3, StepFactsHold DEF StepFacts, CommitAlone
<1>CallReleaseFailsKeeps. CallReleaseFailsKeeps
  <2> SUFFICES
      ASSUME ExecutionInv, CallReleaseFails
      PROVE  ExecutionInv'
    BY DEF CallReleaseFailsKeeps
  <2> DEFINE r == Ref(Life)
             t1 == Then(SetBound(db, r, "outcome_unknown"), "retry")
             t2 == RearmRelease(db, r)
             t3 == Then(FailOp(db, r, "proved_not_started"), "done")
  <2>1. /\ At(Life, "call") /\ w[Life].pc # "idle" /\ ~At(Life, "idle")
        /\ cleanup' = cleanup /\ provider' = provider
        /\ late' = late \/ late' = late \cup {ReleaseCall}
        /\ sent' = sent \/ sent' = SentRelease(Ref(Life))
        /\ Commit(Life, t1) \/ Commit(Life, t2) \/ Commit(Life, t3)
    BY DEF CallReleaseFails, Holds, At
  <2>2. Ref(Life) \in OpIds(db) /\ db \in DB
    BY <2>1, LifecycleStepsHold DEF LifecycleSteps, LifeFacts
  <2>3. Tx(db, t1) /\ Tx(db, t2) /\ Tx(db, t3)
    BY <2>2, LifecycleTxHold, LifecycleStepsHold, ClaimTxHold DEF Pcs, Bounds, LifecycleTx, RearmReleaseSound,
       LifecycleSteps, FailTx, SetBoundSound, ClaimTx, ThenIs
  <2> HIDE DEF t1, t2, t3
  <2>4. provider' \in Seq({"started", "stopped", "gone"}) /\ late' \subseteq Calls
    BY <2>1, <1>CallTyped DEF ExecutionInv, Typed, Calls, CallTyped
  <2>5. /\ sent' \in [run : [Tools -> Nat], cancel : [Tools -> Nat], release : Seq(Nat)]
        /\ sent'.run = sent.run /\ sent'.cancel = sent.cancel
    BY <2>1, <1>SentReleaseTyped DEF ExecutionInv, Typed, SentReleaseTyped
  <2> QED BY <2>1, <2>3, <2>4, <2>5, StepFactsHold DEF StepFacts, CommitKeeps
<1>FanoutReadyKeeps. FanoutReadyKeeps
  <2> SUFFICES
      ASSUME ExecutionInv, FanoutReady
      PROVE  ExecutionInv'
    BY DEF FanoutReadyKeeps
  <2> DEFINE g == Ref(Fanout)
             S == WaitingArtifact(db, g)
             t1 == Then(db, "retry")
             t2 == Then(QueueOps(SetStates(db, S, "pending"), S), "done")
  <2>1. /\ UNCHANGED External /\ ~At(Fanout, "idle")
        /\ Commit(Fanout, t1) \/ Commit(Fanout, t2)
    BY DEF FanoutReady, At
  <2>2. db \in DB
    BY DEF ExecutionInv, Typed
  <2>3. Tx(db, t1) /\ Tx(db, t2)
    BY <2>2, LifecycleStepsHold, InterruptTxHold, ClaimTxHold DEF Pcs, LifecycleSteps, GotoTx, InterruptTx,
       FanoutSound, ClaimTx, ThenIs
  <2> HIDE DEF t1, t2
  <2> QED BY <2>1, <2>3, StepFactsHold DEF StepFacts, CommitAlone
<1> QED BY <1>EffectTyped, <1>CallTyped, <1>CallActivateKeeps, <1>CallActivateFailsKeeps,
   <1>ConfirmActivationKeeps, <1>CommitActivationKeeps, <1>LookForMaterializationKeeps, <1>CallMaterializeKeeps,
   <1>LookForReleaseKeeps, <1>SentReleaseTyped, <1>CallReleaseKeeps, <1>CommitReleaseKeeps,
   <1>CallReleaseFailsKeeps, <1>FanoutReadyKeeps DEF ProviderSteps

-----------------------------------------------------------------------------
(* The execution worker.                                                   *)

\* Only the names of an execution's jobs matter.
NamesKeep ==
  \A ses, x, s, t, v, c, n, k :
    /\ Right(ses, x, s, v, c, n, k)
    /\ \A r : Named(t, r) <=> Named(s, r)
    =>
      Right(ses, x, t, v, c, n, k)

\* A transaction of the execution worker.
CommitOwn ==
  \A e \in Tools : \A t :
    /\ ExecutionInv
    /\ Commit(Exec(e), t)
    /\ OwnTx(db, t.db, e)
    /\ t.pc \in Pcs \cup {"error"}
    /\ cleanup' = cleanup
    /\ provider' = provider
    /\ late' = late
    /\ sent' \in [run : [Tools -> Nat], cancel : [Tools -> Nat], release : Seq(Nat)]
    /\ \A f \in Tools : (f # e => sent'.run[f] = sent.run[f]) /\ sent'.cancel[f] = sent.cancel[f]
    /\ Right(db.session, t.db.ex[e], db.q[Exec(e)], Moved(w[Exec(e)], t.pc), w[Cancel(e)], sent'.run[e], sent.cancel[e])
    =>
      ExecutionInv'

\* An execution worker commits a transaction on its own execution.
CommitOwnAlone ==
  \A e \in Tools : \A t :
    /\ ExecutionInv
    /\ Commit(Exec(e), t)
    /\ OwnTx(db, t.db, e)
    /\ t.pc \in Pcs \cup {"error"}
    /\ UNCHANGED External
    /\ Right(db.session, t.db.ex[e], db.q[Exec(e)], Moved(w[Exec(e)], t.pc), w[Cancel(e)], sent.run[e], sent.cancel[e])
    =>
      ExecutionInv'

\* What concerns one execution.
ExecFacts ==
  \A e \in Tools :
    ExecutionInv =>
      /\ db \in DB /\ db.ex[e] \in ExRow /\ db.q[Exec(e)] \in Seq(JobRow)
      /\ w[Exec(e)] \in Worker /\ w[Cancel(e)] \in Worker
      /\ sent.run[e] \in Nat /\ sent.cancel[e] \in Nat
      /\ Right(db.session, db.ex[e], db.q[Exec(e)], w[Exec(e)], w[Cancel(e)], sent.run[e], sent.cancel[e])

\* The worker goes elsewhere and touches nothing.
GotoKeeps ==
  \A e \in Tools, pc \in Pcs \ {"idle"} :
    /\ ExecutionInv
    /\ Goto(Exec(e), pc)
    /\ UNCHANGED External
    /\ ~At(Exec(e), "idle")
    /\ \/ pc = "retry"
       \/ pc = "done" /\ (db.ex[e].gen = Ref(Exec(e)) => db.ex[e].state \notin InFlightStates)
       \/ pc \in Early \ {"authorize"} /\ db.ex[e].state # "running"
    =>
      ExecutionInv'

\* The worker settles its execution.
SettleKeepsInv ==
  \A e \in Tools, out \in Outs \ {"none"} :
    /\ ExecutionInv
    /\ UNCHANGED External
    /\ ~At(Exec(e), "idle")
    /\ (out \in NotRun => db.ex[e].state # "running")
    /\ Commit(Exec(e), Then(Settle(db, e, Ref(Exec(e)), out), "done"))
    =>
      ExecutionInv'

\* The waits of an execution keep the invariant.
DependKeepsInv ==
  \A e \in Tools :
    /\ ExecutionInv
    /\ Depend(e)
    =>
      ExecutionInv'

\* The step to preparing or running.
TransitionKeepsInv ==
  \A e \in Tools : \A from, to :
    /\ ExecutionInv
    /\ UNCHANGED External
    /\ Commit(Exec(e), Transition(db, e, Ref(Exec(e)), w[Exec(e)], from, to))
    /\ \/ At(Exec(e), "prepare") /\ from = "pending" /\ to = "preparing"
       \/ At(Exec(e), "authorize") /\ from = "preparing" /\ to = "running"
    =>
      ExecutionInv'

\* The facts about the steps of the worker of an execution.
ExecutionFacts ==
  /\ NamesKeep /\ CommitOwn /\ CommitOwnAlone /\ ExecFacts /\ GotoKeeps /\ SettleKeepsInv
  /\ DependKeepsInv /\ TransitionKeepsInv

\* These facts hold.
LEMMA ExecutionFactsHold == ASSUME OrderFacts PROVE ExecutionFacts
<1>NamesKeep. NamesKeep
  BY SMTT(30) DEF Right, NamesKeep
<1>CommitOwn. CommitOwn
  <2> SUFFICES
      ASSUME ExecutionInv, NEW e \in Tools, NEW t, Commit(Exec(e), t), OwnTx(db, t.db, e), t.pc \in Pcs \cup {"error"},
             cleanup' = cleanup, provider' = provider, late' = late,
             sent' \in [run : [Tools -> Nat], cancel : [Tools -> Nat], release : Seq(Nat)],
             \A f \in Tools : (f # e => sent'.run[f] = sent.run[f]) /\ sent'.cancel[f] = sent.cancel[f],
             Right(db.session, t.db.ex[e], db.q[Exec(e)], Moved(w[Exec(e)], t.pc), w[Cancel(e)], sent'.run[e], sent.cancel[e])
      PROVE  ExecutionInv'
    BY DEF CommitOwn
  <2> DEFINE p == Exec(e)
             d2 == SetJob(t.db, p, Ref(p), "due")
  <2>1. p \in Partitions /\ db \in DB /\ t.db \in DB /\ w \in [Partitions -> Worker] /\ w[p] \in Worker
    BY RowFactsHold DEF ExecutionInv, Typed, OwnTx, Others, RowFacts, PartitionFacts
  <2>2. db' = IF t.pc = "error" THEN d2 ELSE t.db
    BY DEF Commit
  <2>3. w' = [w EXCEPT ![p] = Moved(w[p], t.pc)]
    BY DEF Commit, Moved
  <2>4. Moved(w[p], t.pc) \in Worker
    BY <2>1, WorkerFactsHold DEF WorkerFacts, MovedIs
  <2>5. w' \in [Partitions -> Worker] /\ w'[p] = Moved(w[p], t.pc) /\ \A x \in Partitions : x # p => w'[x] = w[x]
    BY <2>1, <2>3, <2>4
  <2>6. Sound(t.db, d2) /\ d2.ex = t.db.ex /\ d2.session = t.db.session /\ d2.q[p] = Marked(t.db.q[p], Ref(p), "due")
    BY <2>1, LifecycleTxHold, OperationFactsHold, SMTT(30) DEF LifecycleTx, SetJobSound, OperationFacts, SetJobIs
  <2>7. t.db.q[p] \in Seq(JobRow) /\ t.db.q[p] = db.q[p] /\ t.db.session = db.session
    BY <2>1, RowFactsHold DEF OwnTx, Others, RowFacts, DBFields
  <2>8. \A r : Named(d2.q[p], r) <=> Named(db.q[p], r)
    BY <2>6, <2>7, SequenceFactsHold, SMTT(30) DEF SequenceFacts, MarkedIs
  <2> HIDE DEF d2
  <2>9. Others(db, db', e)
    BY <2>1, <2>2, <2>6, InterruptTxHold DEF OwnTx, InterruptTx, SoundOthers, OthersTrans
  <2>10. /\ db'.session = db.session /\ db'.ex[e] = t.db.ex[e]
         /\ \A r : Named(db'.q[p], r) <=> Named(db.q[p], r)
    BY <2>2, <2>6, <2>7, <2>8
  <2>11. w'[Cancel(e)] = w[Cancel(e)]
    BY <2>5, RowFactsHold DEF RowFacts, PartitionFacts
  <2>12. RightTool(e)'
    <3>1. Right(db.session, t.db.ex[e], db'.q[p], Moved(w[p], t.pc), w[Cancel(e)], sent'.run[e], sent.cancel[e])
      BY <2>10, <1>NamesKeep DEF NamesKeep
    <3> QED BY <2>5, <2>10, <2>11, <3>1 DEF RightTool, RightIn
  <2> QED BY <2>5, <2>9, <2>12, StepFactsHold DEF StepFacts, OwnStep
<1>CommitOwnAlone. CommitOwnAlone
  <2> SUFFICES
      ASSUME ExecutionInv, NEW e \in Tools, NEW t, Commit(Exec(e), t), OwnTx(db, t.db, e), t.pc \in Pcs \cup {"error"},
             UNCHANGED External,
             Right(db.session, t.db.ex[e], db.q[Exec(e)], Moved(w[Exec(e)], t.pc), w[Cancel(e)], sent.run[e], sent.cancel[e])
      PROVE  ExecutionInv'
    BY DEF CommitOwnAlone
  <2>1. /\ cleanup' = cleanup /\ provider' = provider /\ late' = late /\ sent' = sent
        /\ sent \in [run : [Tools -> Nat], cancel : [Tools -> Nat], release : Seq(Nat)]
    BY DEF External, ExecutionInv, Typed
  <2> QED BY <2>1, <1>CommitOwn DEF CommitOwn
<1>ExecFacts. ExecFacts
  BY StepFactsHold DEF ExecutionInv, AllRight, RightTool, RightIn, StepFacts, TypedFacts, ExecFacts
<1>GotoKeeps. GotoKeeps
  <2> SUFFICES
      ASSUME ExecutionInv, NEW e \in Tools, NEW pc \in Pcs \ {"idle"}, Goto(Exec(e), pc), UNCHANGED External,
             ~At(Exec(e), "idle"),
             \/ pc = "retry"
             \/ pc = "done" /\ (db.ex[e].gen = Ref(Exec(e)) => db.ex[e].state \notin InFlightStates)
             \/ pc \in Early \ {"authorize"} /\ db.ex[e].state # "running"
      PROVE  ExecutionInv'
    BY DEF GotoKeeps
  <2> DEFINE t == Then(db, pc)
             u == Moved(w[Exec(e)], pc)
  <2>1. Commit(Exec(e), t) /\ t.db = db /\ t.pc = pc
    BY DEF Goto, Then
  <2>2. OwnTx(db, db, e)
    BY <1>ExecFacts, WaitTxHold DEF ExecFacts, WaitTx, OwnRefl
  <2>3. u \in Worker /\ u.pc = pc /\ u.ref = w[Exec(e)].ref
    <3>1. pc # "error" /\ pc # "idle" /\ pc \in Pcs \cup {"error"}
      BY DEF Pcs
    <3>2. w[Exec(e)] \in Worker
      BY <1>ExecFacts DEF ExecFacts
    <3> QED BY <3>1, <3>2, WorkerFactsHold, SMTT(30) DEF WorkerFacts, MovedIs
  <2> HIDE DEF u
  <2>4. Right(db.session, db.ex[e], db.q[Exec(e)], u, w[Cancel(e)], sent.run[e], sent.cancel[e])
    <3>1. w[Exec(e)].pc # "idle"
      BY DEF At
    <3>2. \/ u.pc = "retry"
          \/ u.pc = "done" /\ (db.ex[e].gen = w[Exec(e)].ref => db.ex[e].state \notin InFlightStates)
          \/ u.pc \in Early \ {"authorize"} /\ db.ex[e].state # "running"
      BY <2>3 DEF Ref
    <3> QED BY <2>3, <3>1, <3>2, <1>ExecFacts, ExecutionRowsHold DEF ExecFacts, ExecutionRows, MoveKeeps
  <2> HIDE DEF t
  <2> QED BY <2>1, <2>2, <2>4, <1>CommitOwnAlone DEF u, CommitOwnAlone
<1>SettleKeepsInv. SettleKeepsInv
  <2> SUFFICES
      ASSUME ExecutionInv, NEW e \in Tools, NEW out \in Outs \ {"none"}, UNCHANGED External,
             ~At(Exec(e), "idle"), out \in NotRun => db.ex[e].state # "running",
             Commit(Exec(e), Then(Settle(db, e, Ref(Exec(e)), out), "done"))
      PROVE  ExecutionInv'
    BY DEF SettleKeepsInv
  <2> DEFINE g == Ref(Exec(e))
             d2 == Settle(db, e, g, out)
             t == Then(d2, "done")
  <2>1. t.db = d2 /\ t.pc = "done"
    BY DEF Then
  <2>2. OwnTx(db, d2, e) /\ d2.ex[e] = SettledRow(db.ex[e], g, out)
    BY <1>ExecFacts, WaitTxHold DEF ExecFacts, WaitTx, SettleOwn
  <2> HIDE DEF d2
  <2>3. Right(db.session, SettledRow(db.ex[e], g, out), db.q[Exec(e)], Moved(w[Exec(e)], "done"), w[Cancel(e)], sent.run[e], sent.cancel[e])
    BY <1>ExecFacts, WorkerFactsHold DEF At, Ref, ExecFacts, WorkerFacts, SettledKeeps
  <2> HIDE DEF t
  <2>4. Commit(Exec(e), t)
    BY DEF t, d2, g
  <2> QED BY <2>1, <2>2, <2>3, <2>4, <1>CommitOwnAlone DEF Pcs, CommitOwnAlone
<1>DependKeepsInv. DependKeepsInv
  <2> SUFFICES
      ASSUME ExecutionInv, NEW e \in Tools, Depend(e)
      PROVE  ExecutionInv'
    BY DEF DependKeepsInv
  <2> DEFINE p == Exec(e)
             t1 == WaitForActivation(db, e, Ref(p), w[p], "activation")
             t2 == WaitForActivation(db, e, Ref(p), w[p], "creation")
             t3 == WaitForMaterialization(db, e, Ref(p), w[p])
  <2>1. /\ UNCHANGED External /\ w[p].pc \in Early
        /\ Commit(p, t1) \/ Commit(p, t2) \/ Commit(p, t3)
    BY DEF Depend, At, Early
  <2>2. PICK t \in {t1, t2, t3} : Commit(p, t)
    BY <2>1
  <2>3. /\ t.pc \in {"retry", "error", "done"} /\ OwnTx(db, t.db, e)
        /\ DependRow(db.ex[e], t.db.ex[e], Ref(p), t.pc)
    <3>1. db \in DB
      BY DEF ExecutionInv, Typed
    <3>2. /\ t1.pc \in {"retry", "error", "done"} /\ OwnTx(db, t1.db, e)
          /\ DependRow(db.ex[e], t1.db.ex[e], Ref(p), t1.pc)
      BY <3>1, WaitTxHold DEF WaitTx, WaitForActivationIs
    <3>3. /\ t2.pc \in {"retry", "error", "done"} /\ OwnTx(db, t2.db, e)
          /\ DependRow(db.ex[e], t2.db.ex[e], Ref(p), t2.pc)
      BY <3>1, WaitTxHold DEF WaitTx, WaitForActivationIs
    <3>4. /\ t3.pc \in {"retry", "error", "done"} /\ OwnTx(db, t3.db, e)
          /\ DependRow(db.ex[e], t3.db.ex[e], Ref(p), t3.pc)
      BY <3>1, WaitTxHold DEF WaitTx, WaitForMaterializationIs
    <3> HIDE DEF t1, t2, t3
    <3> QED BY <3>2, <3>3, <3>4
  <2>4. t.db.ex[e] \in ExRow
    BY <2>3, RowFactsHold DEF OwnTx, Others, RowFacts, DBFields
  <2>5. Right(db.session, t.db.ex[e], db.q[p], Moved(w[p], t.pc), w[Cancel(e)], sent.run[e], sent.cancel[e])
    BY <2>1, <2>3, <2>4, <1>ExecFacts, WorkerFactsHold DEF Ref, ExecFacts, WorkerFacts, DependKeeps
  <2> HIDE DEF t1, t2, t3
  <2> QED BY <2>1, <2>2, <2>3, <2>5, <1>CommitOwnAlone DEF Pcs, CommitOwnAlone
<1>TransitionKeepsInv. TransitionKeepsInv
  <2> SUFFICES
      ASSUME ExecutionInv, NEW e \in Tools, NEW from, NEW to, UNCHANGED External,
             Commit(Exec(e), Transition(db, e, Ref(Exec(e)), w[Exec(e)], from, to)),
             \/ At(Exec(e), "prepare") /\ from = "pending" /\ to = "preparing"
             \/ At(Exec(e), "authorize") /\ from = "preparing" /\ to = "running"
      PROVE  ExecutionInv'
    BY DEF TransitionKeepsInv
  <2> DEFINE p == Exec(e)
             t == Transition(db, e, Ref(p), w[p], from, to)
  <2>1. Commit(p, t)
    OBVIOUS
  <2>2. /\ t.pc \in {"retry", "done", "authorize", "submit"} /\ OwnTx(db, t.db, e)
        /\ TransitionRow(db.ex[e], t.db.ex[e], Ref(p), from, to, t.pc)
    BY <1>ExecFacts, WaitTxHold DEF ExecFacts, WaitTx, TransitionIs
  <2> HIDE DEF t
  <2>3. t.db.ex[e] \in ExRow
    BY <2>2, RowFactsHold DEF OwnTx, Others, RowFacts, DBFields
  <2>4. Right(db.session, t.db.ex[e], db.q[p], Moved(w[p], t.pc), w[Cancel(e)], sent.run[e], sent.cancel[e])
    BY <2>2, <2>3, <1>ExecFacts, WorkerFactsHold DEF Ref, At, ExecFacts, WorkerFacts, TransitionKeeps, TransitionKept,
       TransitionPcs, Takes
  <2> QED BY <2>1, <2>2, <2>4, <1>CommitOwnAlone DEF Pcs, CommitOwnAlone
<1> QED BY <1>NamesKeep, <1>CommitOwn, <1>CommitOwnAlone, <1>ExecFacts, <1>GotoKeeps, <1>SettleKeepsInv,
   <1>DependKeepsInv, <1>TransitionKeepsInv DEF ExecutionFacts

-----------------------------------------------------------------------------
(* Its reads, transitions and calls.                                       *)

\* The worker goes on with what it read.
ReadKeeps ==
  \A e \in Tools, u \in Worker :
    /\ ExecutionInv
    /\ w' = [w EXCEPT ![Exec(e)] = u]
    /\ db' = db
    /\ UNCHANGED External
    /\ Right(db.session, db.ex[e], db.q[Exec(e)], u, w[Cancel(e)], sent.run[e], sent.cancel[e])
    =>
      ExecutionInv'

\* Loading an execution keeps the invariant, a command found running without
\* a reference included.
LoadExecutionKeeps ==
  \A e \in Tools :
    /\ ExecutionInv
    /\ LoadExecution(e)
    =>
      ExecutionInv'

\* A worker before its submission works on an execution that is not running.
EarlyFacts ==
  \A e \in Tools :
    /\ ExecutionInv
    /\ w[Exec(e)].pc \in Early
    =>
      db.ex[e].state # "running" /\ ~At(Exec(e), "idle")

\* The inspection for an execution keeps the invariant.
InspectKeeps ==
  \A e \in Tools :
    /\ ExecutionInv
    /\ InspectForExecution(e)
    =>
      ExecutionInv'

\* BeginPreparing keeps the invariant.
BeginPreparingKeeps ==
  \A e \in Tools :
    /\ ExecutionInv
    /\ BeginPreparing(e)
    =>
      ExecutionInv'

\* AuthorizeRunning keeps the invariant.
AuthorizeRunningKeeps ==
  \A e \in Tools :
    /\ ExecutionInv
    /\ AuthorizeRunning(e)
    =>
      ExecutionInv'

\* A failed preparation keeps the invariant.
PreparationFailsKeeps ==
  \A e \in Tools :
    /\ ExecutionInv
    /\ PreparationFails(e)
    =>
      ExecutionInv'

\* Sending the command keeps the invariant.
ExecuteToolKeeps ==
  \A e \in Tools :
    /\ ExecutionInv
    /\ ExecuteTool(e)
    =>
      ExecutionInv'

\* The provider's reply keeps the invariant.
ToolRepliesKeeps ==
  \A e \in Tools :
    /\ ExecutionInv
    /\ ToolReplies(e)
    =>
      ExecutionInv'

\* Observing the command keeps the invariant.
ObserveToolKeeps ==
  \A e \in Tools :
    /\ ExecutionInv
    /\ ObserveTool(e)
    =>
      ExecutionInv'

\* The steps of the workers of executions keep the invariant.
ExecutionSteps ==
  /\ ReadKeeps /\ LoadExecutionKeeps /\ EarlyFacts /\ InspectKeeps /\ BeginPreparingKeeps
  /\ AuthorizeRunningKeeps /\ PreparationFailsKeeps /\ ExecuteToolKeeps /\ ToolRepliesKeeps
  /\ ObserveToolKeeps

\* These facts hold.
LEMMA ExecutionStepsHold == ASSUME OrderFacts PROVE ExecutionSteps
<1>ReadKeeps. ReadKeeps
  <2> SUFFICES
      ASSUME ExecutionInv, NEW e \in Tools, NEW u \in Worker, w' = [w EXCEPT ![Exec(e)] = u], db' = db,
             UNCHANGED External,
             Right(db.session, db.ex[e], db.q[Exec(e)], u, w[Cancel(e)], sent.run[e], sent.cancel[e])
      PROVE  ExecutionInv'
    BY DEF ReadKeeps
  <2> DEFINE p == Exec(e)
  <2>1. p \in Partitions /\ db \in DB /\ w \in [Partitions -> Worker]
    BY RowFactsHold DEF ExecutionInv, Typed, RowFacts, PartitionFacts
  <2>2. w' \in [Partitions -> Worker] /\ w'[p] = u /\ \A x \in Partitions : x # p => w'[x] = w[x]
    BY <2>1
  <2>3. Others(db, db', e)
    BY <2>1, SoundFactsHold, InterruptTxHold DEF SoundFacts, SoundRefl, InterruptTx, SoundOthers
  <2>4. w'[Cancel(e)] = w[Cancel(e)]
    BY <2>2, RowFactsHold DEF RowFacts, PartitionFacts
  <2>5. /\ cleanup' = cleanup /\ provider' = provider /\ late' = late /\ sent' = sent
        /\ sent \in [run : [Tools -> Nat], cancel : [Tools -> Nat], release : Seq(Nat)]
    BY DEF External, ExecutionInv, Typed
  <2>6. RightTool(e)'
    BY <2>2, <2>4, <2>5 DEF RightTool, RightIn
  <2> QED BY <2>2, <2>3, <2>5, <2>6, StepFactsHold DEF StepFacts, OwnStep
<1>LoadExecutionKeeps. LoadExecutionKeeps
  <2> SUFFICES
      ASSUME ExecutionInv, NEW e \in Tools, LoadExecution(e)
      PROVE  ExecutionInv'
    BY DEF LoadExecutionKeeps
  <2> DEFINE p == Exec(e)
             x == db.ex[e]
             pc == IF db.bnd.handle = 0 THEN "need_creation" ELSE "look"
             u1 == [w[p] EXCEPT !.pc = "observe", !.h = x.auth]
             u2 == Observed(w[p], db, pc)
             settle(out) == Commit(p, Then(Settle(db, e, Ref(p), out), "done"))
  <2>1. /\ At(p, "start") /\ UNCHANGED External
        /\ \/ Goto(p, "done") /\ (x.gen # Ref(p) \/ x.state \notin InFlightStates)
           \/ db' = db /\ w' = [w EXCEPT ![p] = u1] /\ x.gen = Ref(p) /\ x.state = "running"
           \/ \E out \in {"unknown", "ran"} : settle(out)
           \/ db' = db /\ w' = [w EXCEPT ![p] = u2] /\ x.state # "running"
    <3>1. At(p, "start") /\ UNCHANGED External
      BY DEF LoadExecution
    <3>2. CASE x.gen # Ref(p) \/ x.state \notin InFlightStates
      BY <3>1, <3>2 DEF LoadExecution, InFlightStates
    <3>3. CASE x.gen = Ref(p) /\ x.state = "running" /\ x.ref
      <4>1. UseHandle(p, "observe", x.auth)
        BY <3>3 DEF LoadExecution, InFlightStates
      <4> QED BY <3>1, <3>3, <4>1 DEF UseHandle
    <3>4. CASE x.gen = Ref(p) /\ x.state = "running" /\ ~x.ref
      BY <3>1, <3>4 DEF LoadExecution, InFlightStates
    <3>5. CASE x.gen = Ref(p) /\ x.state \in InFlightStates /\ x.state # "running"
      BY <3>1, <3>5 DEF LoadExecution
    <3> QED BY <3>1, <3>2, <3>3, <3>4, <3>5
  <2>2. ~At(p, "idle") /\ w[p].pc = "start" /\ w[p].pc # "idle"
    BY <2>1 DEF At
  <2>3. db.ex[e] \in ExRow /\ w[p] \in Worker /\ db \in DB
    BY ExecutionFactsHold DEF ExecutionFacts, ExecFacts
  <2>4. CASE Goto(p, "done") /\ (x.gen # Ref(p) \/ x.state \notin InFlightStates)
    BY <2>1, <2>2, <2>4, ExecutionFactsHold DEF Pcs, ExecutionFacts, GotoKeeps
  <2>5. CASE db' = db /\ w' = [w EXCEPT ![p] = u1] /\ x.gen = Ref(p) /\ x.state = "running"
    <3>1. u1 \in Worker /\ u1.pc = "observe" /\ u1.ref = w[p].ref
      BY <2>3 DEF Worker, ExRow, Pcs
    <3> HIDE DEF u1
    <3>2. db.ex[e].gen = w[p].ref => db.ex[e].state \in Submitted
      BY <2>5 DEF Submitted
    <3>3. Right(db.session, db.ex[e], db.q[p], u1, w[Cancel(e)], sent.run[e], sent.cancel[e])
      BY <2>2, <3>1, <3>2, ExecutionFactsHold, ExecutionRowsHold DEF ExecutionFacts, ExecFacts, ExecutionRows,
         MoveKeeps
    <3> QED BY <2>1, <2>5, <3>1, <3>3, <1>ReadKeeps DEF ReadKeeps
  <2>6. CASE \E out \in {"unknown", "ran"} : settle(out)
    BY <2>1, <2>2, <2>6, ExecutionFactsHold DEF Outs, NotRun, ExecutionFacts, SettleKeepsInv
  <2>7. CASE db' = db /\ w' = [w EXCEPT ![p] = u2] /\ x.state # "running"
    <3>0. db.bnd \in BndRow /\ pc \in Early \ {"authorize"} /\ pc \in Pcs
      BY <2>3, RowFactsHold DEF Early, Pcs, RowFacts, DBFields
    <3> HIDE DEF pc
    <3>1. u2 \in Worker /\ u2.pc = pc /\ u2.ref = w[p].ref
      BY <2>3, <3>0 DEF Worker, Observed, BndRow
    <3> HIDE DEF u2
    <3>3. Right(db.session, db.ex[e], db.q[p], u2, w[Cancel(e)], sent.run[e], sent.cancel[e])
      BY <2>2, <2>7, <3>0, <3>1, ExecutionFactsHold, ExecutionRowsHold DEF ExecutionFacts, ExecFacts,
         ExecutionRows, MoveKeeps
    <3> QED BY <2>1, <2>7, <3>1, <3>3, <1>ReadKeeps DEF ReadKeeps
  <2> QED BY <2>1, <2>4, <2>5, <2>6, <2>7
<1>EarlyFacts. EarlyFacts
  BY ExecutionFactsHold DEF Right, At, Early, ExecutionFacts, ExecFacts, EarlyFacts
<1>InspectKeeps. InspectKeeps
  <2> SUFFICES
      ASSUME ExecutionInv, NEW e \in Tools, InspectForExecution(e)
      PROVE  ExecutionInv'
    BY DEF InspectKeeps
  <2> DEFINE p == Exec(e)
             s == provider[w[p].h]
             pc == CASE s = "stopped" -> "need_activation"
                     [] s = "gone" -> "need_creation"
                     [] OTHER -> IF w[p].ready THEN "prepare" ELSE "need_materialization"
  <2>1. At(p, "look") /\ Goto(p, pc) /\ UNCHANGED External
    BY DEF InspectForExecution
  <2>2. pc \in {"need_activation", "need_creation", "prepare", "need_materialization"}
    OBVIOUS
  <2> HIDE DEF pc
  <2>3. w[p].pc \in Early
    BY <2>1 DEF At, Early
  <2>4. pc \in Early \ {"authorize"} /\ pc \in Pcs \ {"idle"}
    BY <2>2 DEF Early, Pcs
  <2> QED BY <2>1, <2>3, <2>4, <1>EarlyFacts, ExecutionFactsHold DEF EarlyFacts, ExecutionFacts, GotoKeeps
<1>BeginPreparingKeeps. BeginPreparingKeeps
  BY ExecutionFactsHold DEF BeginPreparing, ExecutionFacts, TransitionKeepsInv, BeginPreparingKeeps
<1>AuthorizeRunningKeeps. AuthorizeRunningKeeps
  <2> SUFFICES
      ASSUME ExecutionInv, NEW e \in Tools, AuthorizeRunning(e)
      PROVE  ExecutionInv'
    BY DEF AuthorizeRunningKeeps
  <2> DEFINE p == Exec(e)
  <2>1. /\ At(p, "authorize") /\ UNCHANGED External
        /\ \/ Goto(p, "need_creation")
           \/ Commit(p, Transition(db, e, Ref(p), w[p], "preparing", "running"))
           \/ Commit(p, Then(Settle(db, e, Ref(p), "answered"), "done"))
    BY DEF AuthorizeRunning
  <2>2. w[p].pc \in Early
    BY <2>1 DEF At, Early
  <2>3. CASE Goto(p, "need_creation")
    BY <2>1, <2>2, <2>3, <1>EarlyFacts, ExecutionFactsHold DEF Early, Pcs, EarlyFacts, ExecutionFacts, GotoKeeps
  <2>4. CASE Commit(p, Transition(db, e, Ref(p), w[p], "preparing", "running"))
    BY <2>1, <2>4, ExecutionFactsHold DEF ExecutionFacts, TransitionKeepsInv
  <2>5. CASE Commit(p, Then(Settle(db, e, Ref(p), "answered"), "done"))
    BY <2>1, <2>2, <2>5, <1>EarlyFacts, ExecutionFactsHold DEF Outs, EarlyFacts, ExecutionFacts, SettleKeepsInv
  <2> QED BY <2>1, <2>3, <2>4, <2>5
<1>PreparationFailsKeeps. PreparationFailsKeeps
  <2> SUFFICES
      ASSUME ExecutionInv, NEW e \in Tools, PreparationFails(e)
      PROVE  ExecutionInv'
    BY DEF PreparationFailsKeeps
  <2> DEFINE p == Exec(e)
  <2>1. /\ w[p].pc \in Early /\ UNCHANGED External
        /\ \/ Goto(p, "retry")
           \/ Commit(p, Then(Settle(db, e, Ref(p), "failed"), "done"))
    BY DEF PreparationFails, At, Early
  <2>2. CASE Goto(p, "retry")
    BY <2>1, <2>2, <1>EarlyFacts, ExecutionFactsHold DEF Pcs, EarlyFacts, ExecutionFacts, GotoKeeps
  <2>3. CASE Commit(p, Then(Settle(db, e, Ref(p), "failed"), "done"))
    BY <2>1, <2>3, <1>EarlyFacts, ExecutionFactsHold DEF Outs, EarlyFacts, ExecutionFacts, SettleKeepsInv
  <2> QED BY <2>1, <2>2, <2>3
<1>ExecuteToolKeeps. ExecuteToolKeeps
  <2> SUFFICES
      ASSUME ExecutionInv, NEW e \in Tools, ExecuteTool(e)
      PROVE  ExecutionInv'
    BY DEF ExecuteToolKeeps
  <2> DEFINE p == Exec(e)
             t == Then(db, "reply")
             u == Moved(w[p], "reply")
  <2>1. /\ At(p, "submit") /\ sent' = SentRun(e) /\ Commit(p, t) /\ cleanup' = cleanup /\ provider' = provider
        /\ late' = late
    BY DEF ExecuteTool, Goto
  <2>2. t.db = db /\ t.pc = "reply"
    BY DEF Then
  <2>3. /\ sent \in [run : [Tools -> Nat], cancel : [Tools -> Nat], release : Seq(Nat)]
        /\ sent.run[e] + 1 \in Nat
    BY ExecutionFactsHold, SMTT(30) DEF ExecutionInv, Typed, ExecutionFacts, ExecFacts
  <2>4. /\ sent' \in [run : [Tools -> Nat], cancel : [Tools -> Nat], release : Seq(Nat)]
        /\ sent'.run[e] = sent.run[e] + 1
        /\ \A f \in Tools : (f # e => sent'.run[f] = sent.run[f]) /\ sent'.cancel[f] = sent.cancel[f]
    <3> DEFINE n == sent.run[e] + 1
    <3>1. sent' = [sent EXCEPT !.run[e] = n]
      BY <2>1 DEF SentRun
    <3>2. n \in Nat
      BY <2>3
    <3> HIDE DEF n
    <3>3. /\ sent' \in [run : [Tools -> Nat], cancel : [Tools -> Nat], release : Seq(Nat)]
          /\ sent'.run[e] = n
          /\ \A f \in Tools : (f # e => sent'.run[f] = sent.run[f]) /\ sent'.cancel[f] = sent.cancel[f]
      BY <2>3, <3>1, <3>2
    <3> QED BY <3>3 DEF n
  <2>5. u \in Worker /\ u.pc = "reply" /\ u.ref = w[p].ref
    BY ExecutionFactsHold, WorkerFactsHold DEF Pcs, ExecutionFacts, ExecFacts, WorkerFacts, MovedIs
  <2>6. OwnTx(db, db, e)
    BY ExecutionFactsHold, WaitTxHold DEF ExecutionFacts, ExecFacts, WaitTx, OwnRefl
  <2> HIDE DEF u, t
  <2>7. Right(db.session, db.ex[e], db.q[p], u, w[Cancel(e)], sent.run[e] + 1, sent.cancel[e])
    BY <2>1, <2>5, ExecutionFactsHold, ExecutionRowsHold DEF At, ExecutionFacts, ExecFacts, ExecutionRows,
       SubmitKeeps
  <2>8. Right(db.session, t.db.ex[e], db.q[p], Moved(w[p], t.pc), w[Cancel(e)], sent'.run[e], sent.cancel[e])
    BY <2>2, <2>4, <2>7 DEF u
  <2> QED BY <2>1, <2>2, <2>4, <2>6, <2>8, ExecutionFactsHold DEF Pcs, ExecutionFacts, CommitOwn
<1>ToolRepliesKeeps. ToolRepliesKeeps
  <2> SUFFICES
      ASSUME ExecutionInv, NEW e \in Tools, ToolReplies(e)
      PROVE  ExecutionInv'
    BY DEF ToolRepliesKeeps
  <2> DEFINE p == Exec(e)
             d2 == SettleBackground(db, e, Ref(p))
             t2 == Then(d2, "done")
             t3 == RecordProviderCommandReference(db, e, Ref(p))
  <2>1. /\ At(p, "reply") /\ UNCHANGED External
        /\ \/ \E out \in {"ran", "unknown"} : Commit(p, Then(Settle(db, e, Ref(p), out), "done"))
           \/ Commit(p, t2)
           \/ Commit(p, t3)
    BY DEF ToolReplies
  <2>2. ~At(p, "idle") /\ w[p].pc = "reply" /\ w[p].pc # "idle"
    BY <2>1 DEF At
  <2>3. CASE \E out \in {"ran", "unknown"} : Commit(p, Then(Settle(db, e, Ref(p), out), "done"))
    BY <2>1, <2>2, <2>3, ExecutionFactsHold DEF Outs, NotRun, ExecutionFacts, SettleKeepsInv
  <2>4. CASE Commit(p, t2)
    <3> DEFINE x == SettledRow(db.ex[e], Ref(p), "ran")
               y == d2.ex[e]
               u == Moved(w[p], "done")
    <3>1. t2.db = d2 /\ t2.pc = "done"
      BY DEF Then
    <3>2. /\ OwnTx(db, d2, e) /\ y \in ExRow
          /\ y.state = x.state /\ y.gen = x.gen /\ y.out = x.out /\ y.cancel = x.cancel
          /\ y = x \/ x.state = "terminal"
      BY ExecutionFactsHold, WaitTxHold DEF ExecutionFacts, ExecFacts, WaitTx, SettleBackgroundIs
    <3>3. x \in ExRow
      BY ExecutionFactsHold, ExecutionRowsHold DEF Outs, ExecutionFacts, ExecFacts, ExecutionRows, SettledRowIs
    <3>4. Right(db.session, x, db.q[p], u, w[Cancel(e)], sent.run[e], sent.cancel[e])
      BY <2>2, ExecutionFactsHold, WorkerFactsHold DEF Ref, Outs, NotRun, ExecutionFacts, ExecFacts,
         WorkerFacts, SettledKeeps
    <3>5. u \in Worker
      BY ExecutionFactsHold, WorkerFactsHold DEF Pcs, ExecutionFacts, ExecFacts, WorkerFacts, MovedIs
    <3> HIDE DEF x, d2, u, t2
    <3>6. Right(db.session, y, db.q[p], u, w[Cancel(e)], sent.run[e], sent.cancel[e])
      BY <3>2, <3>3, <3>4, <3>5, ExecutionFactsHold, ExecutionRowsHold DEF ExecutionFacts, ExecFacts,
         ExecutionRows, SameRowKeeps
    <3> QED BY <2>1, <2>4, <3>1, <3>2, <3>6, ExecutionFactsHold DEF Pcs, u, ExecutionFacts, CommitOwnAlone
  <2>5. CASE Commit(p, t3)
    <3> DEFINE x == db.ex[e]
               y == t3.db.ex[e]
               u == Moved(w[p], t3.pc)
    <3>1. /\ OwnTx(db, t3.db, e) /\ y \in ExRow
          /\ y.state = x.state /\ y.gen = x.gen /\ y.out = x.out /\ y.cancel = x.cancel
          /\ \/ t3.pc = "observe" /\ x.gen = Ref(p) /\ x.state = "running"
             \/ t3.pc = "done" /\ y = x /\ (x.gen = Ref(p) => x.state # "running")
      BY ExecutionFactsHold, WaitTxHold DEF ExecutionFacts, ExecFacts, WaitTx, RecordIs
    <3>2. x.gen = Ref(p) => x.state \in Submitted
      BY <2>2, ExecutionFactsHold DEF Right, Ref, ExecutionFacts, ExecFacts
    <3> HIDE DEF t3
    <3>3. u \in Worker /\ u.pc = t3.pc /\ u.ref = w[p].ref
      BY <3>1, ExecutionFactsHold, WorkerFactsHold, SMTT(30) DEF Pcs, ExecutionFacts, ExecFacts, WorkerFacts, MovedIs
    <3> HIDE DEF u
    <3>4. Right(db.session, x, db.q[p], u, w[Cancel(e)], sent.run[e], sent.cancel[e])
      <4>1. \/ u.pc = "done" /\ (x.gen = w[p].ref => x.state \notin InFlightStates)
            \/ u.pc = "observe" /\ (x.gen = w[p].ref => x.state \in Submitted)
        BY <3>1, <3>2, <3>3 DEF Ref, Submitted, InFlightStates
      <4> QED BY <2>2, <3>3, <4>1, ExecutionFactsHold, ExecutionRowsHold DEF ExecutionFacts, ExecFacts,
         ExecutionRows, MoveKeeps
    <3>5. y = x \/ x.state # "none"
      BY <3>1
    <3>6. Right(db.session, y, db.q[p], u, w[Cancel(e)], sent.run[e], sent.cancel[e])
      BY <3>1, <3>3, <3>4, <3>5, ExecutionFactsHold, ExecutionRowsHold DEF ExecutionFacts, ExecFacts,
         ExecutionRows, SameRowKeeps
    <3> QED BY <2>1, <2>5, <3>1, <3>6, ExecutionFactsHold DEF Pcs, u, ExecutionFacts, CommitOwnAlone
  <2> QED BY <2>1, <2>3, <2>4, <2>5
<1>ObserveToolKeeps. ObserveToolKeeps
  <2> SUFFICES
      ASSUME ExecutionInv, NEW e \in Tools, ObserveTool(e)
      PROVE  ExecutionInv'
    BY DEF ObserveToolKeeps
  <2> DEFINE p == Exec(e)
  <2>1. /\ ~At(p, "idle") /\ UNCHANGED External
        /\ \/ \E out \in {"ran", "unknown"} : Commit(p, Then(Settle(db, e, Ref(p), out), "done"))
           \/ Goto(p, "retry")
    BY DEF ObserveTool, At
  <2>2. CASE \E out \in {"ran", "unknown"} : Commit(p, Then(Settle(db, e, Ref(p), out), "done"))
    BY <2>1, <2>2, ExecutionFactsHold DEF Outs, NotRun, ExecutionFacts, SettleKeepsInv
  <2>3. CASE Goto(p, "retry")
    BY <2>1, <2>3, ExecutionFactsHold DEF Pcs, ExecutionFacts, GotoKeeps
  <2> QED BY <2>1, <2>2, <2>3
<1> QED BY <1>ReadKeeps, <1>LoadExecutionKeeps, <1>EarlyFacts, <1>InspectKeeps, <1>BeginPreparingKeeps,
   <1>AuthorizeRunningKeeps, <1>PreparationFailsKeeps, <1>ExecuteToolKeeps, <1>ToolRepliesKeeps,
   <1>ObserveToolKeeps DEF ExecutionSteps

-----------------------------------------------------------------------------
(* The Queue.                                                              *)

\* The types of what was sent to the provider.
SentType == [run : [Tools -> Nat], cancel : [Tools -> Nat], release : Seq(Nat)]

\* What a step of the worker of partition p leaves alone.
Beside(d, d2, p) ==
  /\ d2 \in DB /\ d2.session = d.session /\ Len(d2.ops) >= Len(d.ops)
  /\ LifeRefs(d) => LifeRefs(d2)
  /\ \A f \in Tools : Exec(f) # p /\ Cancel(f) # p =>
       \A v, c \in Worker, n, k \in Nat : RightIn(d, f, v, c, n, k) => RightIn(d2, f, v, c, n, k)

\* A sound transaction keeps the executions right beside any partition.
SoundBeside ==
  \A d, d2, p :
    Sound(d, d2) =>
      Beside(d, d2, p)

\* A transaction on one execution keeps the others right beside its
\* partitions.
OthersBeside ==
  \A d, d2 : \A e \in Tools :
    Others(d, d2, e) =>
      Beside(d, d2, Exec(e)) /\ Beside(d, d2, Cancel(e))

\* The worker of p takes a step.
WorkerStep ==
  \A p \in Partitions, u \in Worker :
    /\ ExecutionInv
    /\ w' = [w EXCEPT ![p] = u]
    /\ Beside(db, db', p)
    /\ (p = Life /\ u.pc # "idle" => u.ref \in OpIds(db'))
    /\ cleanup' = cleanup
    /\ provider' = provider
    /\ late' \subseteq Calls
    /\ sent' \in SentType
    /\ \A f \in Tools : (Exec(f) # p => sent'.run[f] = sent.run[f]) /\ (Cancel(f) # p => sent'.cancel[f] = sent.cancel[f])
    /\ \A e \in Tools : p = Exec(e) => RightIn(db', e, u, w[Cancel(e)], sent'.run[e], sent.cancel[e])
    /\ \A e \in Tools : p = Cancel(e) => RightIn(db', e, w[Exec(e)], u, sent.run[e], sent'.cancel[e])
    =>
      ExecutionInv'

\* What stays when the outside does.
OutsideAlone ==
  /\ ExecutionInv
  /\ UNCHANGED External
  =>
    /\ cleanup' = cleanup /\ provider' = provider /\ late' \subseteq Calls /\ sent' \in SentType /\ sent' = sent
    /\ late' = late

\* The jobs of a partition are marked otherwise, and its worker is new or gone.
RemarkStep ==
  \A p \in Partitions, u \in Worker :
    /\ ExecutionInv
    /\ w' = [w EXCEPT ![p] = u]
    /\ UNCHANGED External
    /\ Sound(db, db')
    /\ db'.ex = db.ex
    /\ \A x \in Partitions : \A r : Named(db'.q[x], r) <=> Named(db.q[x], r)
    /\ \/ u = Idle
       \/ u.pc \in {"start", "exhausted"} /\ Named(db.q[p], u.ref)
    =>
      ExecutionInv'

\* The smaller of two numbers is a number.
SmallestOfTwo ==
  \A a, b \in Nat :
    Smallest({a, b}) \in Nat

\* A lease marks a job and makes its worker, and renames nothing.
LeaseIs ==
  \A p \in Partitions :
    /\ ExecutionInv
    /\ Lease(p)
    =>
      \E u \in Worker :
        /\ w' = [w EXCEPT ![p] = u] /\ u.pc \in {"start", "exhausted"} /\ Named(db.q[p], u.ref)
        /\ db' \in DB /\ db'.ops = db.ops /\ db'.session = db.session /\ db'.ex = db.ex
        /\ \A x \in Partitions : \A r : Named(db'.q[x], r) <=> Named(db.q[x], r)

\* Leases keep the invariant.
LeaseKeepsInv ==
  \A p \in Partitions :
    /\ ExecutionInv
    /\ Lease(p)
    =>
      ExecutionInv'

\* A job goes back, and its worker is gone.
GiveBackKeeps ==
  \A p \in Partitions, st \in {"due", "backoff"} :
    /\ ExecutionInv
    /\ db' = SetJob(db, p, Ref(p), st)
    /\ w' = [w EXCEPT ![p] = Idle]
    /\ UNCHANGED External
    =>
      ExecutionInv'

\* A new queue for one execution leaves the others alone.
QueueOthers ==
  \A d, d2 \in DB, e \in Tools :
    /\ d2.session = d.session
    /\ d2.ops = d.ops
    /\ d2.ex = d.ex
    /\ \A x \in Partitions : x # Exec(e) => d2.q[x] = d.q[x]
    =>
      Others(d, d2, e)

\* Acknowledging a job keeps the invariant.
FinishKeepsInv ==
  \A p \in Partitions :
    /\ ExecutionInv
    /\ Finish(p)
    =>
      ExecutionInv'

\* The steps of the Queue keep the invariant.
QueueSteps ==
  /\ SoundBeside /\ OthersBeside /\ WorkerStep /\ OutsideAlone /\ RemarkStep /\ SmallestOfTwo
  /\ LeaseIs /\ LeaseKeepsInv /\ GiveBackKeeps /\ QueueOthers /\ FinishKeepsInv

\* These facts hold.
LEMMA QueueStepsHold == ASSUME OrderFacts PROVE QueueSteps
<1>SoundBeside. SoundBeside
  BY DEF Sound, Keeps, Beside, SoundBeside
<1>OthersBeside. OthersBeside
  BY SMTT(30) DEF Others, Beside, OthersBeside
<1>WorkerStep. WorkerStep
  <2> SUFFICES
      ASSUME ExecutionInv, NEW p \in Partitions, NEW u \in Worker, w' = [w EXCEPT ![p] = u],
             Beside(db, db', p), p = Life /\ u.pc # "idle" => u.ref \in OpIds(db'),
             cleanup' = cleanup, provider' = provider, late' \subseteq Calls, sent' \in SentType,
             \A f \in Tools : (Exec(f) # p => sent'.run[f] = sent.run[f]) /\ (Cancel(f) # p => sent'.cancel[f] = sent.cancel[f]),
             \A e \in Tools : p = Exec(e) => RightIn(db', e, u, w[Cancel(e)], sent'.run[e], sent.cancel[e]),
             \A e \in Tools : p = Cancel(e) => RightIn(db', e, w[Exec(e)], u, sent.run[e], sent'.cancel[e])
      PROVE  ExecutionInv'
    BY DEF WorkerStep
  <2>1. w \in [Partitions -> Worker]
    BY DEF ExecutionInv, Typed
  <2>2. w' \in [Partitions -> Worker] /\ w'[p] = u /\ \A x \in Partitions : x # p => w'[x] = w[x]
    BY <2>1
  <2>3. Typed'
    <3>1. OpIds(db) \subseteq OpIds(db')
      <4>1. Len(db.ops) \in Nat /\ Len(db'.ops) \in Nat
        BY RowFactsHold DEF Beside, ExecutionInv, Typed, RowFacts, DBFields
      <4> QED BY <4>1, SMTT(30) DEF OpIds, Beside
    <3>2. w'[Life].pc # "idle" => w'[Life].ref \in OpIds(db')
      BY <2>2, <3>1, RowFactsHold, SMTT(30) DEF ExecutionInv, Typed, RowFacts, PartitionFacts
    <3>3. late' \subseteq {"create", "start", "release"} \X Nat
      BY DEF Calls
    <3> QED BY <2>2, <3>2, <3>3 DEF ExecutionInv, Typed, Beside, SentType
  <2>4. ASSUME NEW e \in Tools PROVE RightTool(e)'
    <3>1. RightIn(db, e, w[Exec(e)], w[Cancel(e)], sent.run[e], sent.cancel[e])
      BY DEF ExecutionInv, AllRight, RightTool
    <3>2. w[Exec(e)] \in Worker /\ w[Cancel(e)] \in Worker /\ sent.run[e] \in Nat /\ sent.cancel[e] \in Nat
      BY StepFactsHold DEF ExecutionInv, StepFacts, TypedFacts
    <3>3. CASE p = Exec(e)
      <4>1. w'[Exec(e)] = u /\ w'[Cancel(e)] = w[Cancel(e)] /\ sent'.cancel[e] = sent.cancel[e]
        BY <2>2, <3>3, RowFactsHold DEF RowFacts, PartitionFacts
      <4> QED BY <3>3, <4>1 DEF RightTool
    <3>4. CASE p = Cancel(e)
      <4>1. w'[Cancel(e)] = u /\ w'[Exec(e)] = w[Exec(e)] /\ sent'.run[e] = sent.run[e]
        BY <2>2, <3>4, RowFactsHold DEF RowFacts, PartitionFacts
      <4> QED BY <3>4, <4>1 DEF RightTool
    <3>5. CASE Exec(e) # p /\ Cancel(e) # p
      <4>1. w'[Cancel(e)] = w[Cancel(e)] /\ w'[Exec(e)] = w[Exec(e)]
        BY <2>2, <3>5, RowFactsHold DEF RowFacts, PartitionFacts
      <4>2. RightIn(db', e, w[Exec(e)], w[Cancel(e)], sent.run[e], sent.cancel[e])
        BY <3>1, <3>2, <3>5 DEF Beside
      <4> QED BY <3>5, <4>1, <4>2 DEF RightTool
    <3> QED BY <3>3, <3>4, <3>5
  <2> QED BY <2>3, <2>4 DEF ExecutionInv, AllRight
<1>OutsideAlone. OutsideAlone
  BY DEF External, ExecutionInv, Typed, Calls, SentType, OutsideAlone
<1>RemarkStep. RemarkStep
  <2> SUFFICES
      ASSUME ExecutionInv, NEW p \in Partitions, NEW u \in Worker, w' = [w EXCEPT ![p] = u], UNCHANGED External,
             Sound(db, db'), db'.ex = db.ex, \A x \in Partitions : \A r : Named(db'.q[x], r) <=> Named(db.q[x], r),
             \/ u = Idle
             \/ u.pc \in {"start", "exhausted"} /\ Named(db.q[p], u.ref)
      PROVE  ExecutionInv'
    BY DEF RemarkStep
  <2>1. /\ cleanup' = cleanup /\ provider' = provider /\ late' \subseteq Calls /\ sent' \in SentType /\ sent' = sent
    BY <1>OutsideAlone DEF OutsideAlone
  <2>2. Beside(db, db', p)
    BY <1>SoundBeside DEF SoundBeside
  <2>3. p = Life /\ u.pc # "idle" => u.ref \in OpIds(db')
    <3>1. LifeRefs(db')
      BY DEF ExecutionInv, Typed, Sound
    <3> QED BY <3>1, WorkerFactsHold DEF LifeRefs, WorkerFacts, IdleFields
  <2>4. ASSUME NEW e \in Tools, p = Exec(e)
        PROVE  RightIn(db', e, u, w[Cancel(e)], sent'.run[e], sent.cancel[e])
    <3>1. db'.session = db.session /\ \A r : Named(db'.q[Exec(e)], r) <=> Named(db.q[Exec(e)], r)
      BY <2>4 DEF Sound
    <3>2. Right(db.session, db.ex[e], db'.q[Exec(e)], u, w[Cancel(e)], sent.run[e], sent.cancel[e])
      BY <2>4, <3>1, ExecutionFactsHold, ExecutionRowsHold, WorkerFactsHold, SMTT(30) DEF ExecutionFacts, ExecFacts,
         ExecutionRows, LeaseKeeps, WorkerFacts, IdleKeeps
    <3> QED BY <2>1, <3>1, <3>2 DEF RightIn
  <2>5. ASSUME NEW e \in Tools, p = Cancel(e)
        PROVE  RightIn(db', e, w[Exec(e)], u, sent.run[e], sent'.cancel[e])
    <3>1. db'.session = db.session /\ \A r : Named(db'.q[Exec(e)], r) <=> Named(db.q[Exec(e)], r)
      BY RowFactsHold DEF Sound, RowFacts, PartitionFacts
    <3>2. u.pc # "call"
      BY WorkerFactsHold DEF WorkerFacts, IdleFields
    <3>3. Right(db.session, db.ex[e], db.q[Exec(e)], w[Exec(e)], u, sent.run[e], sent.cancel[e])
      BY <3>2, ExecutionFactsHold, ExecutionRowsHold DEF ExecutionFacts, ExecFacts, ExecutionRows, CancelKeeps
    <3>4. Right(db.session, db.ex[e], db'.q[Exec(e)], w[Exec(e)], u, sent.run[e], sent.cancel[e])
      BY <3>1, <3>3, ExecutionFactsHold DEF ExecutionFacts, NamesKeep
    <3> QED BY <2>1, <3>1, <3>4 DEF RightIn
  <2> QED BY <2>1, <2>2, <2>3, <2>4, <2>5, <1>WorkerStep DEF WorkerStep
<1>SmallestOfTwo. SmallestOfTwo
  <2> SUFFICES
      ASSUME NEW a \in Nat, NEW b \in Nat
      PROVE  Smallest({a, b}) \in Nat
    BY DEF SmallestOfTwo
  <2>1. \E x \in {a, b} : \A y \in {a, b} : x <= y
    BY SMTT(30)
  <2> QED BY <2>1 DEF Smallest
<1>LeaseIs. LeaseIs
  <2> SUFFICES
      ASSUME ExecutionInv, NEW p \in Partitions, Lease(p)
      PROVE  \E v \in Worker :
               /\ w' = [w EXCEPT ![p] = v] /\ v.pc \in {"start", "exhausted"} /\ Named(db.q[p], v.ref)
               /\ db' \in DB /\ db'.ops = db.ops /\ db'.session = db.session /\ db'.ex = db.ex
               /\ \A x \in Partitions : \A r : Named(db'.q[x], r) <=> Named(db.q[x], r)
    BY DEF LeaseIs
  <2> DEFINE s == db.q[p]
             D == {i \in DOMAIN s : s[i].st = "due"}
             i == Smallest(D)
             j == s[i]
             att == Attempt(p, j)
             pc == IF att > MaxAttempts(p, j.ref) THEN "exhausted" ELSE "start"
             k == [j EXCEPT !.st = "leased", !.att = att]
             t == [s EXCEPT ![i] = k]
             u == [Idle EXCEPT !.pc = pc, !.ref = j.ref, !.att = att]
  <2>1. /\ D # {} /\ db' = [db EXCEPT !.q[p] = [@ EXCEPT ![i] = k]] /\ w' = [w EXCEPT ![p] = u]
        /\ UNCHANGED External
    BY DEF Lease
  <2>2. db \in DB /\ s \in Seq(JobRow)
    BY RowFactsHold DEF ExecutionInv, Typed, RowFacts, DBFields
  <2> HIDE DEF s
  <2>3. i \in DOMAIN s
    <3>1. Len(s) \in Nat /\ D \in SUBSET (1..Len(s))
      BY <2>2, SequenceFactsHold DEF SequenceFacts, SeqIsFunction
    <3> HIDE DEF D
    <3>3. i \in D
      <4>1. IsFiniteSet(D)
        BY <3>1 DEF OrderFacts, SubsetsFinite, IntervalsFinite
      <4>2. D \subseteq Nat
        BY <3>1, SMTT(30)
      <4> QED BY <2>1, <4>1, <4>2 DEF OrderFacts, SmallestOf
    <3> QED BY <3>3 DEF D
  <2> HIDE DEF i
  <2>4. j \in JobRow
    BY <2>2, <2>3, SMTT(30)
  <2> HIDE DEF j
  <2>5. att \in Nat
    <3>1. Attempts \in Nat /\ j.att + 1 \in Nat
      BY <2>4, AttemptsAssumption, SMTT(30) DEF JobRow
    <3>2. MaxAttempts(p, j.ref) + 1 \in Nat
      BY <3>1, SMTT(30) DEF MaxAttempts
    <3> QED BY <3>1, <3>2, <1>SmallestOfTwo DEF Attempt, SmallestOfTwo
  <2>6. pc \in {"start", "exhausted"}
    OBVIOUS
  <2> HIDE DEF att, pc
  <2>7. k \in JobRow /\ k.ref = j.ref
    BY <2>4, <2>5 DEF JobRow
  <2>8. u \in Worker /\ u.pc = pc /\ u.ref = j.ref
    BY <2>4, <2>5, <2>6 DEF Worker, Idle, JobRow, Pcs
  <2> HIDE DEF k, u
  <2>9. t \in Seq(JobRow) /\ \A r : Named(t, r) <=> Named(s, r)
    <3>1. Len(s) \in Nat /\ DOMAIN s = 1..Len(s) /\ s \in [1..Len(s) -> JobRow]
      BY <2>2, SequenceFactsHold DEF SequenceFacts, SeqIsFunction
    <3>2. t \in [1..Len(s) -> JobRow]
      BY <2>3, <2>7, <3>1
    <3>3. t \in Seq(JobRow) /\ DOMAIN t = DOMAIN s
      BY <3>1, <3>2, SequenceFactsHold DEF SequenceFacts, FunctionIsSeq
    <3>4. \A x \in DOMAIN s : t[x].ref = s[x].ref
      BY <2>3, <2>7, <3>1 DEF j
    <3> HIDE DEF t
    <3> QED BY <3>3, <3>4 DEF Named
  <2>10. db' = SetQ(db, p, t)
    BY <2>1, <2>2, RowFactsHold DEF SetQ, s, DB, RowFacts, DBFields
  <2> HIDE DEF t
  <2>11. /\ db' \in DB /\ db'.q[p] = t /\ \A x \in Partitions : x # p => db'.q[x] = db.q[x]
         /\ db'.ops = db.ops /\ db'.session = db.session /\ db'.ex = db.ex
    BY <2>2, <2>9, <2>10, RowFactsHold DEF RowFacts, SetQIs
  <2>12. \A x \in Partitions : \A r : Named(db'.q[x], r) <=> Named(db.q[x], r)
    BY <2>9, <2>11 DEF s
  <2>13. Named(db.q[p], u.ref)
    BY <2>3, <2>8 DEF Named, s, j
  <2>14. w' = [w EXCEPT ![p] = u] /\ u.pc \in {"start", "exhausted"}
    BY <2>1, <2>6, <2>8
  <2> QED BY <2>8, <2>11, <2>12, <2>13, <2>14
<1>LeaseKeepsInv. LeaseKeepsInv
  <2> SUFFICES
      ASSUME ExecutionInv, NEW p \in Partitions, Lease(p)
      PROVE  ExecutionInv'
    BY DEF LeaseKeepsInv
  <2>1. PICK u \in Worker :
          /\ w' = [w EXCEPT ![p] = u] /\ u.pc \in {"start", "exhausted"} /\ Named(db.q[p], u.ref)
          /\ db' \in DB /\ db'.ops = db.ops /\ db'.session = db.session /\ db'.ex = db.ex
          /\ \A x \in Partitions : \A r : Named(db'.q[x], r) <=> Named(db.q[x], r)
    BY <1>LeaseIs DEF LeaseIs
  <2>2. db \in DB /\ UNCHANGED External
    BY DEF ExecutionInv, Typed, Lease
  <2>3. Sound(db, db')
    BY <2>1, <2>2, LifecycleTxHold, RowFactsHold DEF LifecycleTx, SameNamesSound, RowFacts, PartitionFacts
  <2> QED BY <2>1, <2>2, <2>3, <1>RemarkStep DEF RemarkStep
<1>GiveBackKeeps. GiveBackKeeps
  <2> SUFFICES
      ASSUME ExecutionInv, NEW p \in Partitions, NEW st \in {"due", "backoff"}, db' = SetJob(db, p, Ref(p), st),
             w' = [w EXCEPT ![p] = Idle], UNCHANGED External
      PROVE  ExecutionInv'
    BY DEF GiveBackKeeps
  <2>1. db \in DB /\ db.q[p] \in Seq(JobRow)
    BY RowFactsHold DEF ExecutionInv, Typed, RowFacts, DBFields
  <2>2. /\ Sound(db, db') /\ db'.ex = db.ex /\ db'.q[p] = Marked(db.q[p], Ref(p), st)
        /\ \A x \in Partitions : x # p => db'.q[x] = db.q[x]
    BY <2>1, LifecycleTxHold, OperationFactsHold, SMTT(30) DEF LifecycleTx, SetJobSound, OperationFacts, SetJobIs
  <2>3. \A x \in Partitions : \A r : Named(db'.q[x], r) <=> Named(db.q[x], r)
    BY <2>1, <2>2, SequenceFactsHold, SMTT(30) DEF SequenceFacts, MarkedIs
  <2> QED BY <2>2, <2>3, WorkerFactsHold, <1>RemarkStep DEF WorkerFacts, IdleFields, RemarkStep
<1>QueueOthers. QueueOthers
  <2> SUFFICES
      ASSUME NEW d \in DB, NEW d2 \in DB, NEW e \in Tools, d2.session = d.session, d2.ops = d.ops, d2.ex = d.ex,
             \A x \in Partitions : x # Exec(e) => d2.q[x] = d.q[x]
      PROVE  Others(d, d2, e)
    BY DEF QueueOthers
  <2>1. d2.q[Life] = d.q[Life] /\ \A f \in Tools : f # e => d2.q[Exec(f)] = d.q[Exec(f)]
    BY RowFactsHold DEF RowFacts, PartitionFacts
  <2>2. Len(d.ops) \in Nat
    BY RowFactsHold DEF RowFacts, DBFields
  <2> QED BY <2>1, <2>2, SMTT(30) DEF Others, LifeRefs, OpIds, RightIn
<1>FinishKeepsInv. FinishKeepsInv
  <2> SUFFICES
      ASSUME ExecutionInv, NEW p \in Partitions, Finish(p)
      PROVE  ExecutionInv'
    BY DEF FinishKeepsInv
  <2>1. w[p].pc = "done" /\ db' = RemoveJob(db, p, Ref(p)) /\ w' = [w EXCEPT ![p] = Idle] /\ UNCHANGED External
    BY DEF Finish, At
  <2>2. db \in DB /\ db.q[p] \in Seq(JobRow)
    BY RowFactsHold DEF ExecutionInv, Typed, RowFacts, DBFields
  <2>3. /\ db' \in DB /\ db'.q[p] = Removed(db.q[p], Ref(p))
        /\ \A x \in Partitions : x # p => db'.q[x] = db.q[x]
        /\ db'.ops = db.ops /\ db'.session = db.session /\ db'.ex = db.ex
    BY <2>1, <2>2, OperationFactsHold, SMTT(30) DEF OperationFacts, RemoveJobIs
  <2>4. /\ cleanup' = cleanup /\ provider' = provider /\ late' \subseteq Calls /\ sent' \in SentType /\ sent' = sent
    BY <2>1, <1>OutsideAlone DEF OutsideAlone
  <2>5. Beside(db, db', p)
    <3>1. CASE \E e \in Tools : p = Exec(e)
      <4>1. PICK e \in Tools : p = Exec(e)
        BY <3>1
      <4>2. Others(db, db', e)
        BY <2>2, <2>3, <4>1, <1>QueueOthers DEF QueueOthers
      <4> QED BY <4>1, <4>2, <1>OthersBeside DEF OthersBeside
    <3>2. CASE \A e \in Tools : p # Exec(e)
      <4>1. Sound(db, db')
        BY <2>1, <2>2, <3>2, LifecycleTxHold DEF LifecycleTx, RemoveOtherSound
      <4> QED BY <4>1, <1>SoundBeside DEF SoundBeside
    <3> QED BY <3>1, <3>2
  <2>6. ASSUME NEW e \in Tools, p = Exec(e)
        PROVE  RightIn(db', e, Idle, w[Cancel(e)], sent'.run[e], sent.cancel[e])
    <3>1. Right(db.session, db.ex[e], Removed(db.q[Exec(e)], w[Exec(e)].ref), Idle, w[Cancel(e)], sent.run[e], sent.cancel[e])
      BY <2>1, <2>6, ExecutionFactsHold, WorkerFactsHold DEF ExecutionFacts, ExecFacts, WorkerFacts, FinishKeeps
    <3> QED BY <2>3, <2>4, <2>6, <3>1 DEF RightIn, Ref
  <2>7. ASSUME NEW e \in Tools, p = Cancel(e)
        PROVE  RightIn(db', e, w[Exec(e)], Idle, sent.run[e], sent'.cancel[e])
    <3>1. Right(db.session, db.ex[e], db.q[Exec(e)], w[Exec(e)], Idle, sent.run[e], sent.cancel[e])
      BY ExecutionFactsHold, WorkerFactsHold, ExecutionRowsHold DEF ExecutionFacts, ExecFacts, WorkerFacts,
         IdleFields, ExecutionRows, CancelKeeps
    <3>2. db'.q[Exec(e)] = db.q[Exec(e)]
      BY <2>3, <2>7, RowFactsHold DEF RowFacts, PartitionFacts
    <3> QED BY <2>3, <2>4, <3>1, <3>2 DEF RightIn
  <2> QED BY <2>1, <2>4, <2>5, <2>6, <2>7, WorkerFactsHold, <1>WorkerStep DEF WorkerFacts, IdleFields,
     WorkerStep
<1> QED BY <1>SoundBeside, <1>OthersBeside, <1>WorkerStep, <1>OutsideAlone, <1>RemarkStep, <1>SmallestOfTwo,
   <1>LeaseIs, <1>LeaseKeepsInv, <1>GiveBackKeeps, <1>QueueOthers, <1>FinishKeepsInv DEF QueueSteps

-----------------------------------------------------------------------------
(* Cancellations, and the end of a budget.                                 *)

\* The row after its cancellation was dropped.
Cleared(x) == [x EXCEPT !.cancel = "none", !.ref = FALSE]

\* The row of execution e and the worker of its cancellation change.
CancelStepKeeps ==
  \A e \in Tools, y \in ExRow, u \in Worker :
    /\ ExecutionInv
    /\ db' = SetEx(db, e, y)
    /\ w' = [w EXCEPT ![Cancel(e)] = u]
    /\ cleanup' = cleanup
    /\ provider' = provider
    /\ late' \subseteq Calls
    /\ sent' \in SentType
    /\ \A f \in Tools : sent'.run[f] = sent.run[f] /\ (f # e => sent'.cancel[f] = sent.cancel[f])
    /\ Right(db.session, y, db.q[Exec(e)], w[Exec(e)], u, sent.run[e], sent'.cancel[e])
    =>
      ExecutionInv'

\* The mark of a cancellation.
CancelRowIs ==
  \A x \in ExRow, mark \in {"none", "pending", "submitted"}, ref \in BOOLEAN :
    LET y == [x EXCEPT !.cancel = mark, !.ref = ref] IN
    y \in ExRow /\ y.state = x.state /\ y.gen = x.gen /\ y.out = x.out /\ y.cancel = mark

\* A cleared cancellation changes no outcome.
ClearedIs ==
  \A e \in Tools :
    ExecutionInv =>
      LET x == db.ex[e]
          y == Cleared(x)
      IN /\ ClearCancellation(db, e) = SetEx(db, e, y)
         /\ y \in ExRow /\ y.state = x.state /\ y.gen = x.gen /\ y.out = x.out /\ y.cancel = "none"
         /\ x.state # "none" \/ y = x

\* The worker of a cancellation clears its mark and is done.
ClearStepKeeps ==
  \A e \in Tools :
    /\ ExecutionInv
    /\ Commit(Cancel(e), Then(ClearCancellation(db, e), "done"))
    /\ UNCHANGED External
    =>
      ExecutionInv'

\* Claiming a cancellation keeps the invariant.
ClaimCancellationKeeps ==
  \A e \in Tools :
    /\ ExecutionInv
    /\ ClaimCancellation(e)
    =>
      ExecutionInv'

\* A cancellation is counted for its Tool.
SentCancelTyped ==
  \A e \in Tools :
    /\ ExecutionInv
    /\ sent' = SentCancel(e)
    =>
      /\ sent' \in SentType /\ sent'.cancel[e] = sent.cancel[e] + 1
      /\ \A f \in Tools : sent'.run[f] = sent.run[f] /\ (f # e => sent'.cancel[f] = sent.cancel[f])

\* Sending a cancellation keeps the invariant.
CallCancelKeepsInv ==
  \A e \in Tools :
    /\ ExecutionInv
    /\ CallCancel(e)
    =>
      ExecutionInv'

\* Finalizing a job whose budget is spent keeps the invariant.
FinalizeKeepsInv ==
  \A p \in Partitions :
    /\ ExecutionInv
    /\ ~At(p, "idle")
    /\ Commit(p, Finalize(db, p, Ref(p)))
    /\ UNCHANGED External
    =>
      ExecutionInv'

\* A lease past the budget keeps the invariant.
ExhaustedKeeps ==
  \A p \in Partitions :
    /\ ExecutionInv
    /\ Exhausted(p)
    =>
      ExecutionInv'

\* A retry keeps the invariant.
RetryKeeps ==
  \A p \in Partitions :
    /\ ExecutionInv
    /\ Retry(p)
    =>
      ExecutionInv'

\* The steps of the cancellation workers, and the ends of budgets, keep the
\* invariant.
CancelSteps ==
  /\ CancelStepKeeps /\ CancelRowIs /\ ClearedIs /\ ClearStepKeeps /\ ClaimCancellationKeeps
  /\ SentCancelTyped /\ CallCancelKeepsInv /\ FinalizeKeepsInv /\ ExhaustedKeeps /\ RetryKeeps

\* These facts hold.
LEMMA CancelStepsHold == ASSUME OrderFacts PROVE CancelSteps
<1>CancelStepKeeps. CancelStepKeeps
  <2> SUFFICES
      ASSUME ExecutionInv, NEW e \in Tools, NEW y \in ExRow, NEW u \in Worker, db' = SetEx(db, e, y),
             w' = [w EXCEPT ![Cancel(e)] = u],
             cleanup' = cleanup, provider' = provider, late' \subseteq Calls, sent' \in SentType,
             \A f \in Tools : sent'.run[f] = sent.run[f] /\ (f # e => sent'.cancel[f] = sent.cancel[f]),
             Right(db.session, y, db.q[Exec(e)], w[Exec(e)], u, sent.run[e], sent'.cancel[e])
      PROVE  ExecutionInv'
    BY DEF CancelStepKeeps
  <2>1. db \in DB /\ Cancel(e) \in Partitions
    BY RowFactsHold DEF ExecutionInv, Typed, RowFacts, PartitionFacts
  <2>2. Others(db, db', e) /\ ExOnly(db, db') /\ db'.ex[e] = y /\ db'.q = db.q
    BY <2>1, InterruptTxHold DEF InterruptTx, SetExOthers
  <2>3. Beside(db, db', Cancel(e))
    BY <2>2, QueueStepsHold DEF QueueSteps, OthersBeside
  <2>4. RightIn(db', e, w[Exec(e)], u, sent.run[e], sent'.cancel[e])
    BY <2>2 DEF RightIn, ExOnly
  <2>5. \A f \in Tools : (Exec(f) # Cancel(e) => sent'.run[f] = sent.run[f]) /\ (Cancel(f) # Cancel(e) => sent'.cancel[f] = sent.cancel[f])
    BY RowFactsHold DEF RowFacts, PartitionFacts
  <2>6. \A f \in Tools : Cancel(e) = Exec(f) => RightIn(db', f, u, w[Cancel(f)], sent'.run[f], sent.cancel[f])
    BY RowFactsHold DEF RowFacts, PartitionFacts
  <2>7. \A f \in Tools : Cancel(e) = Cancel(f) => RightIn(db', f, w[Exec(f)], u, sent.run[f], sent'.cancel[f])
    BY <2>4, RowFactsHold DEF RowFacts, PartitionFacts
  <2>8. Cancel(e) = Life /\ u.pc # "idle" => u.ref \in OpIds(db')
    BY RowFactsHold DEF RowFacts, PartitionFacts
  <2> QED BY <2>1, <2>3, <2>5, <2>6, <2>7, <2>8, QueueStepsHold DEF QueueSteps, WorkerStep
<1>CancelRowIs. CancelRowIs
  BY ZenonT(60) DEF ExRow, CancelRowIs
<1>ClearedIs. ClearedIs
  <2> SUFFICES
      ASSUME ExecutionInv, NEW e \in Tools
      PROVE  LET x == db.ex[e]
                 y == Cleared(x)
             IN /\ ClearCancellation(db, e) = SetEx(db, e, y)
                /\ y \in ExRow /\ y.state = x.state /\ y.gen = x.gen /\ y.out = x.out /\ y.cancel = "none"
                /\ x.state # "none" \/ y = x
    BY DEF ClearedIs
  <2> DEFINE x == db.ex[e]
             y == Cleared(x)
  <2>1. x \in ExRow
    BY ExecutionFactsHold DEF ExecutionFacts, ExecFacts
  <2>2. x.state = "none" => x = Execution
    BY ExecutionFactsHold DEF Right, ExecutionFacts, ExecFacts
  <2>3. x = Execution => y = x
    <3>1. Execution.cancel = "none" /\ Execution.ref = FALSE
      BY DEF Execution
    <3>2. x.cancel = "none" /\ x.ref = FALSE => y = x
      BY <2>1 DEF Cleared, ExRow
    <3> QED BY <3>1, <3>2
  <2>4. y \in ExRow /\ y.state = x.state /\ y.gen = x.gen /\ y.out = x.out /\ y.cancel = "none"
    BY <2>1, <1>CancelRowIs DEF Cleared, CancelRowIs
  <2>5. ClearCancellation(db, e) = SetEx(db, e, y)
    BY DEF ClearCancellation, Cleared
  <2> HIDE DEF y
  <2> QED BY <2>1, <2>2, <2>3, <2>4, <2>5 DEF y
<1>ClearStepKeeps. ClearStepKeeps
  <2> SUFFICES
      ASSUME ExecutionInv, NEW e \in Tools, Commit(Cancel(e), Then(ClearCancellation(db, e), "done")), UNCHANGED External
      PROVE  ExecutionInv'
    BY DEF ClearStepKeeps
  <2> DEFINE x == db.ex[e]
             y == Cleared(x)
             p == Cancel(e)
             u == Moved(w[p], "done")
  <2>1. /\ ClearCancellation(db, e) = SetEx(db, e, y)
        /\ y \in ExRow /\ y.state = x.state /\ y.gen = x.gen /\ y.out = x.out /\ y.cancel = "none"
        /\ x.state # "none" \/ y = x
    BY <1>ClearedIs DEF ClearedIs
  <2>2. db' = SetEx(db, e, y) /\ w' = [w EXCEPT ![p] = u]
    BY <2>1 DEF Commit, Then, Moved
  <2>3. u \in Worker /\ u.pc = "done"
    BY ExecutionFactsHold, WorkerFactsHold DEF Pcs, ExecutionFacts, ExecFacts, WorkerFacts, MovedIs
  <2>4. /\ cleanup' = cleanup /\ provider' = provider /\ late' \subseteq Calls /\ sent' \in SentType /\ sent' = sent
    BY QueueStepsHold DEF QueueSteps, OutsideAlone
  <2> HIDE DEF y, u
  <2>5. Right(db.session, y, db.q[Exec(e)], w[Exec(e)], u, sent.run[e], sent.cancel[e])
    BY <2>1, <2>3, ExecutionFactsHold, ExecutionRowsHold DEF ExecutionFacts, ExecFacts, ExecutionRows,
       CancelKeeps
  <2> QED BY <2>1, <2>2, <2>3, <2>4, <2>5, <1>CancelStepKeeps DEF CancelStepKeeps
<1>ClaimCancellationKeeps. ClaimCancellationKeeps
  <2> SUFFICES
      ASSUME ExecutionInv, NEW e \in Tools, ClaimCancellation(e)
      PROVE  ExecutionInv'
    BY DEF ClaimCancellationKeeps
  <2> DEFINE x == db.ex[e]
             y == [x EXCEPT !.cancel = "submitted"]
             p == Cancel(e)
  <2>1. /\ UNCHANGED External
        /\ \/ x.cancel = "pending" /\ Commit(p, Then(SetEx(db, e, y), "call"))
           \/ Commit(p, Then(ClearCancellation(db, e), "done"))
           \/ Goto(p, "done")
    BY DEF ClaimCancellation
  <2>2. x \in ExRow /\ w[p] \in Worker /\ db \in DB
    BY ExecutionFactsHold DEF ExecutionFacts, ExecFacts
  <2>3. /\ cleanup' = cleanup /\ provider' = provider /\ late' \subseteq Calls /\ sent' \in SentType /\ sent' = sent
    BY <2>1, QueueStepsHold DEF QueueSteps, OutsideAlone
  <2>4. CASE x.cancel = "pending" /\ Commit(p, Then(SetEx(db, e, y), "call"))
    <3> DEFINE u == Moved(w[p], "call")
    <3>1. y \in ExRow /\ y.state = x.state /\ y.gen = x.gen /\ y.out = x.out /\ y.cancel = "submitted"
      BY <2>2 DEF ExRow
    <3>2. u \in Worker /\ u.pc = "call"
      BY <2>2, WorkerFactsHold DEF Pcs, WorkerFacts, MovedIs
    <3>3. db' = SetEx(db, e, y) /\ w' = [w EXCEPT ![p] = u]
      BY <2>4 DEF Commit, Then, Moved
    <3> HIDE DEF y, u
    <3>4. x.state # "none"
      BY <2>4, ExecutionFactsHold DEF Right, ExecutionFacts, ExecFacts
    <3>5. Right(db.session, y, db.q[Exec(e)], w[Exec(e)], u, sent.run[e], sent.cancel[e])
      BY <2>4, <3>1, <3>2, <3>4, ExecutionFactsHold, ExecutionRowsHold, SMTT(30) DEF ExecutionFacts, ExecFacts,
         ExecutionRows, CancelKeeps
    <3> QED BY <2>3, <3>1, <3>2, <3>3, <3>5, <1>CancelStepKeeps DEF CancelStepKeeps
  <2>5. CASE Commit(p, Then(ClearCancellation(db, e), "done"))
    BY <2>1, <2>5, <1>ClearStepKeeps DEF ClearStepKeeps
  <2>6. CASE Goto(p, "done")
    <3> DEFINE u == Moved(w[p], "done")
    <3>1. u \in Worker /\ u.pc = "done"
      BY <2>2, WorkerFactsHold DEF Pcs, WorkerFacts, MovedIs
    <3>2. db' = db /\ w' = [w EXCEPT ![p] = u]
      BY <2>6 DEF Goto, Commit, Then, Moved
    <3>3. SetEx(db, e, x) = db
      BY <2>2, RowFactsHold DEF SetEx, DB, RowFacts, DBFields
    <3> HIDE DEF u
    <3>4. Right(db.session, x, db.q[Exec(e)], w[Exec(e)], u, sent.run[e], sent.cancel[e])
      BY <3>1, ExecutionFactsHold, ExecutionRowsHold DEF ExecutionFacts, ExecFacts, ExecutionRows, CancelKeeps
    <3> QED BY <2>2, <2>3, <3>1, <3>2, <3>3, <3>4, <1>CancelStepKeeps DEF CancelStepKeeps
  <2> QED BY <2>1, <2>4, <2>5, <2>6
<1>SentCancelTyped. SentCancelTyped
  <2> SUFFICES
      ASSUME ExecutionInv, NEW e \in Tools, sent' = SentCancel(e)
      PROVE  /\ sent' \in SentType /\ sent'.cancel[e] = sent.cancel[e] + 1
             /\ \A f \in Tools : sent'.run[f] = sent.run[f] /\ (f # e => sent'.cancel[f] = sent.cancel[f])
    BY DEF SentCancelTyped
  <2> DEFINE n == sent.cancel[e] + 1
  <2>1. sent \in SentType /\ n \in Nat
    BY ExecutionFactsHold, SMTT(30) DEF ExecutionInv, Typed, SentType, ExecutionFacts, ExecFacts
  <2>2. sent' = [sent EXCEPT !.cancel[e] = n]
    BY DEF SentCancel
  <2> HIDE DEF n
  <2>3. /\ sent' \in SentType /\ sent'.cancel[e] = n
        /\ \A f \in Tools : sent'.run[f] = sent.run[f] /\ (f # e => sent'.cancel[f] = sent.cancel[f])
    BY <2>1, <2>2 DEF SentType
  <2> QED BY <2>3 DEF n
<1>CallCancelKeepsInv. CallCancelKeepsInv
  <2> SUFFICES
      ASSUME ExecutionInv, NEW e \in Tools, CallCancel(e)
      PROVE  ExecutionInv'
    BY DEF CallCancelKeepsInv
  <2> DEFINE x == db.ex[e]
             y == Cleared(x)
             p == Cancel(e)
             u == Moved(w[p], "done")
  <2>1. /\ ClearCancellation(db, e) = SetEx(db, e, y)
        /\ y \in ExRow /\ y.state = x.state /\ y.gen = x.gen /\ y.out = x.out /\ y.cancel = "none"
        /\ x.state # "none" \/ y = x
    BY <1>ClearedIs DEF ClearedIs
  <2>2. /\ w[p].pc = "call" /\ sent' = SentCancel(e) /\ cleanup' = cleanup /\ provider' = provider /\ late' = late
        /\ db' = SetEx(db, e, y) /\ w' = [w EXCEPT ![p] = u]
    BY <2>1 DEF CallCancel, Commit, Then, Moved, At
  <2>3. u \in Worker /\ u.pc = "done"
    BY ExecutionFactsHold, WorkerFactsHold DEF Pcs, ExecutionFacts, ExecFacts, WorkerFacts, MovedIs
  <2>4. late' \subseteq Calls
    BY <2>2 DEF ExecutionInv, Typed, Calls
  <2>5. /\ sent' \in SentType /\ sent'.cancel[e] = sent.cancel[e] + 1
        /\ \A f \in Tools : sent'.run[f] = sent.run[f] /\ (f # e => sent'.cancel[f] = sent.cancel[f])
    BY <2>2, <1>SentCancelTyped DEF SentCancelTyped
  <2> HIDE DEF y, u
  <2>6. Right(db.session, y, db.q[Exec(e)], w[Exec(e)], u, sent.run[e], sent.cancel[e] + 1)
    BY <2>1, <2>2, <2>3, ExecutionFactsHold, ExecutionRowsHold DEF ExecutionFacts, ExecFacts, ExecutionRows,
       CallCancelKeeps
  <2> QED BY <2>1, <2>2, <2>3, <2>4, <2>5, <2>6, <1>CancelStepKeeps DEF CancelStepKeeps
<1>FinalizeKeepsInv. FinalizeKeepsInv
  <2> SUFFICES
      ASSUME ExecutionInv, NEW p \in Partitions, ~At(p, "idle"), Commit(p, Finalize(db, p, Ref(p))), UNCHANGED External
      PROVE  ExecutionInv'
    BY DEF FinalizeKeepsInv
  <2>1. db \in DB
    BY DEF ExecutionInv, Typed
  <2>2. CASE p = Life
    <3> DEFINE t == Then(FinalizeExhaustedLifecycle(db, Ref(Life)), "done")
    <3>1. Finalize(db, p, Ref(p)) = t
      BY <2>2, RowFactsHold DEF Finalize, Life, Fanout, RowFacts, PartitionFacts
    <3>2. Ref(Life) \in OpIds(db)
      BY <2>2, LifecycleStepsHold DEF At, LifecycleSteps, LifeFacts
    <3>3. Tx(db, t)
      BY <2>1, <3>2, LifecycleTxHold, ClaimTxHold DEF Pcs, LifecycleTx, FinalizeExhaustedLifecycleSound,
         ClaimTx, ThenIs
    <3> HIDE DEF t
    <3> QED BY <2>2, <3>1, <3>3, StepFactsHold DEF StepFacts, CommitAlone
  <2>3. CASE p = Fanout
    <3> DEFINE t == Then(FailWaitingArtifact(db, Ref(Fanout)), "done")
    <3>1. Finalize(db, p, Ref(p)) = t
      BY <2>3, RowFactsHold DEF Finalize, Life, Fanout, RowFacts, PartitionFacts
    <3>3. Tx(db, t)
      BY <2>1, LifecycleTxHold, ClaimTxHold DEF Pcs, LifecycleTx, FailWaitingArtifactSound, ClaimTx, ThenIs
    <3> HIDE DEF t
    <3> QED BY <2>3, <3>1, <3>3, StepFactsHold DEF StepFacts, CommitAlone
  <2>4. ASSUME NEW e \in Tools, p = Exec(e) PROVE ExecutionInv'
    <3> DEFINE t == FinalizeExhaustedExecution(db, e, Ref(Exec(e)))
    <3>1. Finalize(db, p, Ref(p)) = t
      BY <2>4, RowFactsHold DEF Finalize, Exec, Life, Fanout, RowFacts, PartitionFacts
    <3>2. OwnTx(db, t.db, e) /\ FinalRow(db.ex[e], t.db.ex[e], Ref(Exec(e)), t.pc)
      BY <2>1, WaitTxHold DEF WaitTx, FinalizeIs
    <3> HIDE DEF t
    <3>3. t.pc \in Pcs \cup {"error"}
      BY <3>2 DEF FinalRow, Pcs
    <3>4. Right(db.session, t.db.ex[e], db.q[Exec(e)], Moved(w[Exec(e)], t.pc), w[Cancel(e)], sent.run[e], sent.cancel[e])
      BY <2>4, <3>2, ExecutionFactsHold, WorkerFactsHold DEF At, Ref, ExecutionFacts, ExecFacts, WorkerFacts,
         FinalKeeps
    <3> QED BY <2>4, <3>1, <3>2, <3>3, <3>4, ExecutionFactsHold DEF ExecutionFacts, CommitOwnAlone
  <2>5. ASSUME NEW e \in Tools, p = Cancel(e) PROVE ExecutionInv'
    <3>1. Finalize(db, p, Ref(p)) = Then(ClearCancellation(db, e), "done")
      BY <2>5, RowFactsHold DEF Finalize, Cancel, Life, Fanout, RowFacts, PartitionFacts
    <3> QED BY <2>5, <3>1, <1>ClearStepKeeps DEF ClearStepKeeps
  <2> QED BY <2>2, <2>3, <2>4, <2>5, RowFactsHold DEF RowFacts, PartitionFacts
<1>ExhaustedKeeps. ExhaustedKeeps
  BY <1>FinalizeKeepsInv DEF Exhausted, At, FinalizeKeepsInv, ExhaustedKeeps
<1>RetryKeeps. RetryKeeps
  <2> SUFFICES
      ASSUME ExecutionInv, NEW p \in Partitions, Retry(p)
      PROVE  ExecutionInv'
    BY DEF RetryKeeps
  <2> DEFINE t == Then(SetJob(db, p, Ref(p), "backoff"), "idle")
  <2>1. ~At(p, "idle") /\ UNCHANGED External /\ (Commit(p, Finalize(db, p, Ref(p))) \/ Commit(p, t))
    BY DEF Retry, At
  <2>2. CASE Commit(p, t)
    <3>1. db' = SetJob(db, p, Ref(p), "backoff") /\ w' = [w EXCEPT ![p] = Idle]
      BY <2>2 DEF Commit, Then
    <3> QED BY <2>1, <3>1, QueueStepsHold DEF QueueSteps, GiveBackKeeps
  <2> QED BY <2>1, <2>2, <1>FinalizeKeepsInv DEF FinalizeKeepsInv
<1> QED BY <1>CancelStepKeeps, <1>CancelRowIs, <1>ClearedIs, <1>ClearStepKeeps, <1>ClaimCancellationKeeps,
   <1>SentCancelTyped, <1>CallCancelKeepsInv, <1>FinalizeKeepsInv, <1>ExhaustedKeeps, <1>RetryKeeps
   DEF CancelSteps

-----------------------------------------------------------------------------
(* The custody of releases, step by step.                                  *)

\* The program counters of a lifecycle worker that has claimed its operation
\* or is about to acknowledge its job.
Past == {"look", "call", "confirm", "commit", "done"}

\* A lifecycle worker v that works on a pending release has its job, and has
\* neither claimed it nor is about to acknowledge it.
Attentive(d, v) ==
  v.pc # "idle" /\ PendingRow(d.ops[v.ref]) => Named(d.q[Life], v.ref) /\ v.pc \notin Past

\* Every pending release is taken care of.
Tended == Plain(db) /\ Custody(db) /\ Attentive(db, w[Life])

\* The inductive invariant of the custody of releases.
CustodyInv == ExecutionInv /\ Tended

\* A careful transaction makes no release pending, and drops the job of none.
PendingBefore ==
  \A d, d2 : \A o \in OpIds(d) :
    Plain(d) /\ Careful(d, d2) /\ PendingRow(d2.ops[o]) =>
      PendingRow(d.ops[o]) /\ (Named(d.q[Life], o) => Named(d2.q[Life], o))

\* What the invariant says of the lifecycle worker.
TendedFacts ==
  CustodyInv =>
    /\ db \in DB /\ w \in [Partitions -> Worker] /\ Plain(db) /\ Custody(db) /\ w[Life] \in Worker
    /\ w[Life].pc # "idle" =>
         /\ Ref(Life) \in OpIds(db) /\ w[Life].h \in Nat /\ Op(Life) = db.ops[Ref(Life)]
         /\ PendingRow(Op(Life)) => Named(db.q[Life], Ref(Life)) /\ w[Life].pc \notin Past

\* A careful transaction beside the lifecycle worker.
BesideStep == CustodyInv /\ Careful(db, db') /\ w'[Life] = w[Life] => Tended'

\* A careful transaction after which there is no lifecycle worker.
LeaveStep == CustodyInv /\ Careful(db, db') /\ w'[Life].pc = "idle" => Tended'

\* A careful transaction after which it goes on.
GoOnStep ==
  /\ CustodyInv /\ Careful(db, db') /\ ~At(Life, "idle") /\ w'[Life].ref = w[Life].ref
  /\ w'[Life].pc \in Past => w[Life].pc \in Past \/ ~PendingRow(db'.ops[Ref(Life)])
  =>
    Tended'

\* A transaction of the lifecycle worker.
LifeCommit ==
  \A t :
    /\ CustodyInv /\ ~At(Life, "idle") /\ Commit(Life, t) /\ Careful(db, t.db)
    /\ t.pc \in Past => w[Life].pc \in Past \/ ~PendingRow(t.db.ops[Ref(Life)])
    =>
      Tended'

\* A transaction of another worker.
OtherCommit ==
  \A p \in Partitions : \A t :
    CustodyInv /\ p # Life /\ Commit(p, t) /\ Careful(db, t.db) => Tended'

\* The lifecycle worker goes on with a handle.
HandleStep ==
  \A pc, h : CustodyInv /\ w[Life].pc \in Past /\ UseHandle(Life, pc, h) => Tended'

\* Another worker goes on with what it read.
ReadStep ==
  \A p \in Partitions : \A u :
    CustodyInv /\ p # Life /\ db' = db /\ w' = [w EXCEPT ![p] = u] => Tended'

\* What a step does to the custody of releases.
TendedSteps ==
  /\ PendingBefore /\ TendedFacts /\ BesideStep /\ LeaveStep /\ GoOnStep /\ LifeCommit /\ OtherCommit
  /\ HandleStep /\ ReadStep

\* These facts hold.
LEMMA TendedStepsHold == ASSUME OrderFacts PROVE TendedSteps
<1>PendingBefore. PendingBefore
  <2> SUFFICES ASSUME NEW d, NEW d2, NEW o \in OpIds(d), Plain(d), Careful(d, d2), PendingRow(d2.ops[o])
               PROVE  PendingRow(d.ops[o]) /\ (Named(d.q[Life], o) => Named(d2.q[Life], o))
    BY DEF PendingBefore
  <2>1. Follows(d, d2, o)
    BY DEF Careful, Orderly
  <2> QED BY <2>1 DEF Follows, Forward, PendingRow
<1>TendedFacts. TendedFacts
  <2> SUFFICES ASSUME CustodyInv
               PROVE  /\ db \in DB /\ w \in [Partitions -> Worker] /\ Plain(db) /\ Custody(db) /\ w[Life] \in Worker
                      /\ w[Life].pc # "idle" =>
                           /\ Ref(Life) \in OpIds(db) /\ w[Life].h \in Nat /\ Op(Life) = db.ops[Ref(Life)]
                           /\ PendingRow(Op(Life)) => Named(db.q[Life], Ref(Life)) /\ w[Life].pc \notin Past
    BY DEF TendedFacts
  <2>1. ExecutionInv /\ Plain(db) /\ Custody(db) /\ Attentive(db, w[Life])
    BY DEF CustodyInv, Tended
  <2>2. db \in DB /\ w \in [Partitions -> Worker] /\ w[Life] \in Worker
    BY <2>1, StepFactsHold DEF ExecutionInv, Typed, StepFacts, TypedFacts
  <2>3. w[Life].pc # "idle" => Ref(Life) \in OpIds(db) /\ w[Life].h \in Nat
    BY <2>1, LifecycleStepsHold DEF LifecycleSteps, LifeFacts
  <2> QED BY <2>1, <2>2, <2>3 DEF Attentive, Op, Ref
<1>BesideStep. BesideStep
  <2> SUFFICES ASSUME CustodyInv, Careful(db, db'), w'[Life] = w[Life]
               PROVE  Plain(db') /\ Custody(db') /\ Attentive(db', w'[Life])
    BY DEF BesideStep, Tended
  <2>1. Plain(db') /\ Custody(db')
    BY <1>TendedFacts DEF TendedFacts, Careful, Orderly
  <2>2. ASSUME w[Life].pc # "idle", PendingRow(db'.ops[Ref(Life)])
        PROVE  Named(db'.q[Life], Ref(Life)) /\ w[Life].pc \notin Past
    BY <2>2, <1>TendedFacts, <1>PendingBefore DEF TendedFacts, PendingBefore
  <2> QED BY <2>1, <2>2 DEF Attentive, Ref
<1>LeaveStep. LeaveStep
  BY <1>TendedFacts DEF TendedFacts, LeaveStep, Tended, Attentive, Careful, Orderly
<1>GoOnStep. GoOnStep
  <2> SUFFICES ASSUME CustodyInv, Careful(db, db'), ~At(Life, "idle"), w'[Life].ref = w[Life].ref,
                      w'[Life].pc \in Past => w[Life].pc \in Past \/ ~PendingRow(db'.ops[Ref(Life)])
               PROVE  Plain(db') /\ Custody(db') /\ Attentive(db', w'[Life])
    BY DEF GoOnStep, Tended
  <2>1. Plain(db') /\ Custody(db')
    BY <1>TendedFacts DEF TendedFacts, Careful, Orderly
  <2>2. ASSUME PendingRow(db'.ops[Ref(Life)])
        PROVE  Named(db'.q[Life], Ref(Life)) /\ w'[Life].pc \notin Past
    BY <2>2, <1>TendedFacts, <1>PendingBefore DEF TendedFacts, PendingBefore, At
  <2> QED BY <2>1, <2>2 DEF Attentive, Ref
<1>LifeCommit. LifeCommit
  <2> SUFFICES ASSUME NEW t, CustodyInv, ~At(Life, "idle"), Commit(Life, t), Careful(db, t.db),
                      t.pc \in Past => w[Life].pc \in Past \/ ~PendingRow(t.db.ops[Ref(Life)])
               PROVE  Tended'
    BY DEF LifeCommit
  <2>1. w \in [Partitions -> Worker] /\ w[Life] \in Worker /\ Life \in Partitions
    BY <1>TendedFacts, RowFactsHold DEF TendedFacts, RowFacts, PartitionFacts
  <2>2. w'[Life] = IF t.pc \in {"idle", "error"} THEN Idle ELSE [w[Life] EXCEPT !.pc = t.pc]
    BY <2>1 DEF Commit
  <2>3. CASE t.pc = "error"
    <3>1. t.db \in DB /\ db' = SetJob(t.db, Life, Ref(Life), "due")
      BY <2>3 DEF Careful, Orderly, Commit
    <3>2. Careful(t.db, db')
      BY <2>1, <3>1, LifecycleCareHold DEF LifecycleCare, SetJobCareful
    <3>3. Careful(db, db')
      BY <3>2, CustodyFactsHold DEF CustodyFacts, CarefulTrans
    <3>4. w'[Life].pc = "idle"
      BY <2>2, <2>3, WorkerFactsHold DEF WorkerFacts, IdleFields
    <3> QED BY <3>3, <3>4, <1>LeaveStep DEF LeaveStep
  <2>4. CASE t.pc = "idle"
    <3>1. db' = t.db
      BY <2>4 DEF Commit
    <3>2. w'[Life].pc = "idle"
      BY <2>2, <2>4, WorkerFactsHold DEF WorkerFacts, IdleFields
    <3> QED BY <3>1, <3>2, <1>LeaveStep DEF LeaveStep
  <2>5. CASE t.pc # "idle" /\ t.pc # "error"
    <3>1. db' = t.db
      BY <2>5 DEF Commit
    <3>2. w'[Life] = [w[Life] EXCEPT !.pc = t.pc]
      BY <2>2, <2>5
    <3>3. w'[Life].pc = t.pc /\ w'[Life].ref = w[Life].ref
      BY <2>1, <3>2 DEF Worker
    <3> QED BY <3>1, <3>3, <1>GoOnStep DEF GoOnStep
  <2> QED BY <2>3, <2>4, <2>5
<1>OtherCommit. OtherCommit
  <2> SUFFICES ASSUME NEW p \in Partitions, NEW t, CustodyInv, p # Life, Commit(p, t), Careful(db, t.db)
               PROVE  Tended'
    BY DEF OtherCommit
  <2>1. w \in [Partitions -> Worker] /\ Life \in Partitions
    BY <1>TendedFacts, RowFactsHold DEF TendedFacts, RowFacts, PartitionFacts
  <2>2. w'[Life] = w[Life]
    BY <2>1 DEF Commit
  <2>3. Careful(db, db')
    <3>1. t.db \in DB
      BY DEF Careful, Orderly
    <3>2. Careful(t.db, SetJob(t.db, p, Ref(p), "due"))
      BY <3>1, LifecycleCareHold DEF LifecycleCare, SetJobCareful
    <3>3. Careful(db, SetJob(t.db, p, Ref(p), "due"))
      BY <3>2, CustodyFactsHold DEF CustodyFacts, CarefulTrans
    <3> QED BY <3>3 DEF Commit
  <2> QED BY <2>2, <2>3, <1>BesideStep DEF BesideStep
<1>HandleStep. HandleStep
  <2> SUFFICES ASSUME NEW pc, NEW h, CustodyInv, w[Life].pc \in Past, UseHandle(Life, pc, h)
               PROVE  Tended'
    BY DEF HandleStep
  <2>1. w \in [Partitions -> Worker] /\ w[Life] \in Worker /\ Life \in Partitions /\ db \in DB
    BY <1>TendedFacts, RowFactsHold DEF TendedFacts, RowFacts, PartitionFacts
  <2>2. db' = db /\ w'[Life] = [w[Life] EXCEPT !.pc = pc, !.h = h]
    BY <2>1 DEF UseHandle
  <2>3. w'[Life].ref = w[Life].ref /\ ~At(Life, "idle")
    BY <2>1, <2>2 DEF Worker, At, Past
  <2>4. Careful(db, db')
    BY <2>1, <2>2, CustodyFactsHold DEF CustodyFacts, CarefulRefl
  <2> QED BY <2>3, <2>4, <1>GoOnStep DEF GoOnStep
<1>ReadStep. ReadStep
  <2> SUFFICES ASSUME NEW p \in Partitions, NEW u, CustodyInv, p # Life, db' = db, w' = [w EXCEPT ![p] = u]
               PROVE  Tended'
    BY DEF ReadStep
  <2>1. w \in [Partitions -> Worker] /\ Life \in Partitions /\ db \in DB
    BY <1>TendedFacts, RowFactsHold DEF TendedFacts, RowFacts, PartitionFacts
  <2>2. w'[Life] = w[Life]
    BY <2>1
  <2>3. Careful(db, db')
    BY <2>1, CustodyFactsHold DEF CustodyFacts, CarefulRefl
  <2> QED BY <2>2, <2>3, <1>BesideStep DEF BesideStep
<1> QED BY <1>PendingBefore, <1>TendedFacts, <1>BesideStep, <1>LeaveStep, <1>GoOnStep, <1>LifeCommit,
   <1>OtherCommit, <1>HandleStep, <1>ReadStep DEF TendedSteps

-----------------------------------------------------------------------------
(* The lifecycle workers take care of releases.                            *)

\* Claims take care of releases.
ClaimLifecycleTends == CustodyInv /\ ClaimLifecycle => Tended'

\* So does a release that gives its job up while it is blocked.
ParkReleaseTends == CustodyInv /\ ParkRelease => Tended'

\* A careful transaction of a worker that has claimed its operation.
PastCommit == \A t : CustodyInv /\ w[Life].pc \in Past /\ Commit(Life, t) /\ Careful(db, t.db) => Tended'

\* What such a worker knows.
PastFacts ==
  CustodyInv /\ w[Life].pc \in Past =>
    /\ db \in DB /\ Ref(Life) \in OpIds(db) /\ w[Life].h \in Nat /\ Op(Life) = db.ops[Ref(Life)]
    /\ \A pc : Careful(db, Then(db, pc).db)
    /\ \A bound \in Bounds : \A pc : Careful(db, Then(FailOp(db, Ref(Life), bound), pc).db)

\* A failed inspection takes care of releases.
InspectionFailsTends == CustodyInv /\ InspectionFails => Tended'

\* The steps of an activation do.
ActivationTends ==
  CustodyInv /\ (LookForActivation \/ CallActivate \/ CallActivateFails \/ ConfirmActivation \/ CommitActivation) =>
    Tended'

\* The steps of a materialization do.
MaterializationTends ==
  CustodyInv /\ (LookForMaterialization \/ CallMaterialize \/ CallMaterializeFails) => Tended'

\* The steps of a release do.
ReleaseTends ==
  CustodyInv /\ (LookForRelease \/ CallRelease \/ CommitRelease \/ CallReleaseFails) => Tended'

\* The fanout of an artifact does.
FanoutTends == CustodyInv /\ FanoutReady => Tended'

\* The steps of the lifecycle take care of releases.
LifeTends ==
  /\ ClaimLifecycleTends /\ ParkReleaseTends /\ PastCommit /\ PastFacts /\ InspectionFailsTends
  /\ ActivationTends /\ MaterializationTends /\ ReleaseTends /\ FanoutTends

\* These facts hold.
LEMMA LifeTendsHold == ASSUME OrderFacts PROVE LifeTends
<1>ClaimLifecycleTends. ClaimLifecycleTends
  <2> SUFFICES ASSUME CustodyInv, ClaimLifecycle PROVE Tended'
    BY DEF ClaimLifecycleTends
  <2> DEFINE r == Ref(Life)
             t1 == ClaimActivation(db, r)
             t2 == ClaimMaterialization(db, r)
             t3 == ClaimRelease(db, r, "park")
             t == CASE Op(Life).kind \in ActivationKinds -> t1
                    [] Op(Life).kind = "materialize" -> t2
                    [] Op(Life).kind = "release" -> t3
  <2>1. At(Life, "start") /\ Commit(Life, t)
    BY DEF ClaimLifecycle
  <2>2. ~At(Life, "idle") /\ w[Life].pc # "idle"
    BY <2>1 DEF At
  <2>3. /\ r \in OpIds(db) /\ db \in DB /\ Op(Life) = db.ops[r] /\ Plain(db)
        /\ PendingRow(Op(Life)) => Named(db.q[Life], r)
    BY <2>2, TendedStepsHold DEF TendedSteps, TendedFacts
  <2>4. Op(Life) \in OpRow
    BY <2>3, RowFactsHold DEF RowFacts, DBFields
  <2>5. Careful(db, t1.db) /\ Careful(db, t2.db) /\ Careful(db, t3.db) /\ t3.pc \in {"done", "look", "park"}
    BY <2>3, ClaimCareHold DEF ClaimCare, ClaimActivationCareful, ClaimMaterializationCareful,
       ClaimReleaseCareful
  <2>6. t3.pc \in Past => ~PendingRow(t3.db.ops[r])
    BY <2>3, <2>5, ClaimCareHold DEF ClaimCare, ClaimReleaseCareful, Past
  <2>7. CASE Op(Life).kind = "release"
    <3>1. t = t3
      BY <2>7 DEF ActivationKinds
    <3> HIDE DEF t, t3
    <3> QED BY <2>1, <2>2, <2>5, <2>6, <3>1, TendedStepsHold DEF r, TendedSteps, LifeCommit
  <2>8. CASE Op(Life).kind # "release"
    <3>1. t \in {t1, t2}
      BY <2>4, <2>8 DEF OpRow, ActivationKinds
    <3> HIDE DEF t, t1, t2, t3
    <3>2. Careful(db, t.db)
      BY <2>5, <3>1
    <3>3. ~PendingRow(t.db.ops[r])
      <4>1. PendingRow(t.db.ops[r]) => PendingRow(db.ops[r])
        BY <2>3, <3>2, TendedStepsHold DEF TendedSteps, PendingBefore
      <4>2. db.ops[r].kind # "release"
        BY <2>3, <2>8
      <4> QED BY <4>1, <4>2 DEF PendingRow
    <3> QED BY <2>1, <2>2, <3>2, <3>3, TendedStepsHold DEF r, TendedSteps, LifeCommit
  <2> QED BY <2>7, <2>8
<1>ParkReleaseTends. ParkReleaseTends
  <2> SUFFICES ASSUME CustodyInv, ParkRelease PROVE Tended'
    BY DEF ParkReleaseTends
  <2> DEFINE r == Ref(Life)
             t1 == ParkBlockedRelease(db, r)
             t2 == ClaimRelease(db, r, "error")
  <2>1. (At(Life, "park") \/ At(Life, "again")) /\ (Commit(Life, t1) \/ Commit(Life, t2))
    BY DEF ParkRelease
  <2>2. ~At(Life, "idle") /\ w[Life].pc # "idle"
    BY <2>1 DEF At
  <2>3. /\ r \in OpIds(db) /\ db \in DB /\ Op(Life) = db.ops[r] /\ Plain(db) /\ Custody(db)
        /\ PendingRow(Op(Life)) => Named(db.q[Life], r)
    BY <2>2, TendedStepsHold DEF TendedSteps, TendedFacts
  <2>4. CASE Commit(Life, t1)
    <3>1. \/ t1.db = db /\ t1.pc = "again"
          \/ /\ t1.db \in DB /\ t1.pc = "idle"
             /\ Plain(t1.db) /\ Custody(t1.db)
      BY <2>3, LifecycleCareHold DEF LifecycleCare, ParkBlockedReleaseKeeps
    <3> HIDE DEF t1
    <3>2. CASE t1.db = db /\ t1.pc = "again"
      <4>1. Careful(db, t1.db)
        BY <2>3, <3>2, CustodyFactsHold DEF CustodyFacts, CarefulRefl
      <4> QED BY <2>2, <2>4, <3>2, <4>1, TendedStepsHold DEF TendedSteps, LifeCommit, Past
    <3>3. CASE t1.pc = "idle" /\ Plain(t1.db) /\ Custody(t1.db)
      <4>1. db' = t1.db /\ w' = [w EXCEPT ![Life] = Idle]
        BY <2>4, <3>3 DEF Commit
      <4>2. w'[Life].pc = "idle"
        BY <4>1, TendedStepsHold, RowFactsHold, WorkerFactsHold DEF TendedSteps, TendedFacts, RowFacts,
           PartitionFacts, WorkerFacts, IdleFields
      <4> QED BY <3>3, <4>1, <4>2 DEF Tended, Attentive
    <3> QED BY <3>1, <3>2, <3>3
  <2>5. CASE Commit(Life, t2)
    <3>1. Careful(db, t2.db) /\ t2.pc \in {"done", "look", "error"}
      BY <2>3, ClaimCareHold DEF ClaimCare, ClaimReleaseCareful
    <3>2. t2.pc \in Past => ~PendingRow(t2.db.ops[r])
      BY <2>3, <3>1, ClaimCareHold DEF ClaimCare, ClaimReleaseCareful, Past
    <3> HIDE DEF t2
    <3> QED BY <2>2, <2>5, <3>1, <3>2, TendedStepsHold DEF r, TendedSteps, LifeCommit
  <2> QED BY <2>1, <2>4, <2>5
<1>PastCommit. PastCommit
  BY TendedStepsHold DEF TendedSteps, LifeCommit, PastCommit, At, Past
<1>PastFacts. PastFacts
  <2> SUFFICES ASSUME CustodyInv, w[Life].pc \in Past
               PROVE  /\ db \in DB /\ Ref(Life) \in OpIds(db) /\ w[Life].h \in Nat /\ Op(Life) = db.ops[Ref(Life)]
                      /\ \A pc : Careful(db, Then(db, pc).db)
                      /\ \A bound \in Bounds : \A pc : Careful(db, Then(FailOp(db, Ref(Life), bound), pc).db)
    BY DEF PastFacts
  <2>1. db \in DB /\ Ref(Life) \in OpIds(db) /\ w[Life].h \in Nat /\ Op(Life) = db.ops[Ref(Life)]
    BY TendedStepsHold DEF TendedSteps, TendedFacts, Past
  <2>2. \A pc : Careful(db, Then(db, pc).db)
    BY <2>1, CustodyFactsHold DEF Then, CustodyFacts, CarefulRefl
  <2>3. \A bound \in Bounds : Careful(db, FailOp(db, Ref(Life), bound))
    BY <2>1, FailureCareHold DEF FailureCare, FailOpsCareful, FailOp
  <2>4. \A bound \in Bounds : \A pc : Careful(db, Then(FailOp(db, Ref(Life), bound), pc).db)
    BY <2>3 DEF Then
  <2> QED BY <2>1, <2>2, <2>4
<1>InspectionFailsTends. InspectionFailsTends
  <2> SUFFICES ASSUME CustodyInv, InspectionFails PROVE Tended'
    BY DEF InspectionFailsTends
  <2> DEFINE o == Ref(Life)
             t1 == IF Op(Life).kind = "release" THEN RearmRelease(db, o) ELSE Then(db, "retry")
             t2 == Then(FailOp(db, o, "proved_not_started"), "done")
  <2>1. w[Life].pc \in Past /\ (Commit(Life, t1) \/ Commit(Life, t2))
    BY DEF InspectionFails, Holds, At, Past
  <2>2. /\ db \in DB /\ o \in OpIds(db) /\ Careful(db, Then(db, "retry").db) /\ Careful(db, t2.db)
    BY <2>1, <1>PastFacts DEF PastFacts, Bounds
  <2>3. Careful(db, RearmRelease(db, o).db)
    BY <2>2, LifecycleCareHold DEF LifecycleCare, RearmReleaseCareful
  <2>4. Careful(db, t1.db)
    BY <2>2, <2>3
  <2> HIDE DEF t1, t2
  <2> QED BY <2>1, <2>2, <2>4, <1>PastCommit DEF PastCommit
<1>ActivationTends. ActivationTends
  <2> SUFFICES ASSUME CustodyInv,
                      LookForActivation \/ CallActivate \/ CallActivateFails \/ ConfirmActivation \/ CommitActivation
               PROVE  Tended'
    BY DEF ActivationTends
  <2> DEFINE o == Ref(Life)
             t1 == ReplaceMissingActivation(db, o)
             t2 == Then(db, "retry")
             t3 == Then(FailOp(db, o, "proved_not_started"), "done")
             t4 == IF Op(Life).kind = "start" THEN Then(db, "retry") ELSE ObserveUnknownActivation(db, o)
             t5 == Then(db, "commit")
             t6 == Then(CompleteActivation(db, o, w[Life].h), "done")
  <2>1. w[Life].pc \in Past /\ Op(Life).kind \in ActivationKinds
    BY DEF LookForActivation, CallActivate, CallActivateFails, ConfirmActivation, CommitActivation, Holds, At, Past
  <2>2. \/ \E pc, h : UseHandle(Life, pc, h)
        \/ Commit(Life, t1) \/ Commit(Life, t2) \/ Commit(Life, t3) \/ Commit(Life, t4) \/ Commit(Life, t5)
        \/ Commit(Life, t6)
    <3>1. CASE LookForActivation
      <4> DEFINE op == Op(Life)
                 s == IF op.kind = "start" THEN op.target ELSE IF Alive = {} THEN 0 ELSE CHOOSE h \in Alive : TRUE
      <4>1. (CASE s # 0 /\ provider[s] = "started" -> UseHandle(Life, "commit", s)
              [] s # 0 /\ provider[s] = "stopped" -> UseHandle(Life, "call", s)
              [] s # 0 /\ provider[s] = "gone" -> Commit(Life, t1)
              [] s = 0 /\ op.bound = "outcome_unknown" -> Commit(Life, t2)
              [] s = 0 /\ op.bound # "outcome_unknown" /\ w[Life].att > Attempts -> Commit(Life, t3)
              [] OTHER -> UseHandle(Life, "call", 0))
        BY <3>1 DEF LookForActivation, Goto
      <4> HIDE DEF s, t1, t2, t3, op
      <4> QED BY <4>1
    <3>2. CASE CallActivate
      BY <3>2 DEF CallActivate
    <3>3. CASE CallActivateFails
      BY <3>3 DEF CallActivateFails, ActivationUnknown, Goto
    <3>4. CASE ConfirmActivation
      BY <3>4 DEF ConfirmActivation, Goto
    <3>5. CASE CommitActivation
      BY <3>5 DEF CommitActivation
    <3> QED BY <3>1, <3>2, <3>3, <3>4, <3>5
  <2>3. /\ db \in DB /\ o \in OpIds(db) /\ w[Life].h \in Nat /\ Op(Life) = db.ops[o]
        /\ Careful(db, t2.db) /\ Careful(db, t3.db) /\ Careful(db, t5.db)
    BY <2>1, <1>PastFacts DEF PastFacts, Bounds
  <2>4. db.ops[o].kind # "release"
    BY <2>1, <2>3 DEF ActivationKinds
  <2>5. Careful(db, t1.db)
    BY <2>3, <2>4, LifecycleCareHold DEF LifecycleCare, ReplaceMissingActivationCareful
  <2>6. Careful(db, t4.db)
    <3>1. Careful(db, ObserveUnknownActivation(db, o).db)
      BY <2>3, LifecycleCareHold DEF LifecycleCare, ObserveUnknownActivationCareful
    <3> QED BY <2>3, <3>1
  <2>7. Careful(db, t6.db)
    <3>1. Careful(db, CompleteActivation(db, o, w[Life].h))
      BY <2>3, <2>4, ClaimCareHold DEF ClaimCare, CompleteActivationCareful
    <3> QED BY <3>1 DEF Then
  <2> HIDE DEF t1, t2, t3, t4, t5, t6
  <2>8. CASE \E pc, h : UseHandle(Life, pc, h)
    BY <2>1, <2>8, TendedStepsHold DEF TendedSteps, HandleStep
  <2>9. CASE Commit(Life, t1) \/ Commit(Life, t2) \/ Commit(Life, t3) \/ Commit(Life, t4) \/ Commit(Life, t5)
             \/ Commit(Life, t6)
    BY <2>1, <2>3, <2>5, <2>6, <2>7, <2>9, <1>PastCommit DEF PastCommit
  <2> QED BY <2>2, <2>8, <2>9
<1>MaterializationTends. MaterializationTends
  <2> SUFFICES ASSUME CustodyInv, LookForMaterialization \/ CallMaterialize \/ CallMaterializeFails
               PROVE  Tended'
    BY DEF MaterializationTends
  <2> DEFINE m == Ref(Life)
             s == provider[Op(Life).target]
             kind == IF s = "stopped" THEN "start" ELSE "replace"
             t1 == Then(db, "call")
             t2 == Then(WaitMaterializationForActivation(db, m, kind), "idle")
             t3 == Then(CompleteMaterialization(db, m), "done")
             t4 == Then(db, "retry")
             t5 == Then(FailOp(db, m, "submitted"), "done")
  <2>1. /\ w[Life].pc \in Past /\ Op(Life).kind = "materialize"
        /\ Commit(Life, t1) \/ Commit(Life, t2) \/ Commit(Life, t3) \/ Commit(Life, t4) \/ Commit(Life, t5)
    BY DEF LookForMaterialization, CallMaterialize, CallMaterializeFails, Holds, At, Past, Goto
  <2>2. /\ db \in DB /\ m \in OpIds(db) /\ db.ops[m].kind # "release"
        /\ Careful(db, t1.db) /\ Careful(db, t4.db) /\ Careful(db, t5.db)
    BY <2>1, <1>PastFacts DEF PastFacts, Bounds
  <2> HIDE DEF kind
  <2>3. Careful(db, WaitMaterializationForActivation(db, m, kind)) /\ Careful(db, CompleteMaterialization(db, m))
    BY <2>2, ClaimCareHold DEF ClaimCare, WaitMaterializationForActivationCareful, CompleteMaterializationCareful
  <2>4. Careful(db, t2.db) /\ Careful(db, t3.db)
    BY <2>3 DEF Then
  <2> HIDE DEF t1, t2, t3, t4, t5
  <2> QED BY <2>1, <2>2, <2>4, <1>PastCommit DEF PastCommit
<1>ReleaseTends. ReleaseTends
  <2> SUFFICES ASSUME CustodyInv, LookForRelease \/ CallRelease \/ CommitRelease \/ CallReleaseFails
               PROVE  Tended'
    BY DEF ReleaseTends
  <2> DEFINE r == Ref(Life)
             t1 == Then(CompleteRelease(db, r), "done")
             t2 == Then(db, "retry")
             t3 == AuthorizeRelease(db, r)
             t4 == Then(db, "commit")
             t5 == Then(SetBound(db, r, "outcome_unknown"), "retry")
             t6 == RearmRelease(db, r)
             t7 == Then(FailOp(db, r, "proved_not_started"), "done")
  <2>1. w[Life].pc \in Past /\ Op(Life).kind = "release"
    BY DEF LookForRelease, CallRelease, CommitRelease, CallReleaseFails, Holds, At, Past
  <2>2. \/ Commit(Life, t1) \/ Commit(Life, t2) \/ Commit(Life, t3) \/ Commit(Life, t4) \/ Commit(Life, t5)
        \/ Commit(Life, t6) \/ Commit(Life, t7)
    <3>1. CASE LookForRelease
      <4> DEFINE t == CASE Op(Life).target \notin Alive -> t1
                        [] Op(Life).target \in Alive /\ ObserveOnly(db, r) -> t2
                        [] OTHER -> t3
      <4>1. Commit(Life, t)
        BY <3>1 DEF LookForRelease
      <4>2. t \in {t1, t2, t3}
        <5> HIDE DEF t1, t2, t3
        <5> QED OBVIOUS
      <4> HIDE DEF t, t1, t2, t3
      <4> QED BY <4>1, <4>2
    <3>2. CASE CallRelease
      BY <3>2 DEF CallRelease, Goto
    <3>3. CASE CommitRelease
      BY <3>3 DEF CommitRelease
    <3>4. CASE CallReleaseFails
      BY <3>4 DEF CallReleaseFails
    <3> QED BY <3>1, <3>2, <3>3, <3>4
  <2>3. /\ db \in DB /\ r \in OpIds(db) /\ db.ops[r].kind = "release"
        /\ Careful(db, t2.db) /\ Careful(db, t4.db) /\ Careful(db, t7.db)
    BY <2>1, <1>PastFacts DEF PastFacts, Bounds
  <2>4. Careful(db, CompleteRelease(db, r)) /\ Careful(db, SetBound(db, r, "outcome_unknown"))
    BY <2>3, LifecycleCareHold DEF LifecycleCare, CompleteReleaseCareful, SetBoundCareful, Bounds
  <2>5. Careful(db, t1.db) /\ Careful(db, t5.db)
    BY <2>4 DEF Then
  <2>6. Careful(db, t3.db) /\ Careful(db, t6.db)
    BY <2>3, LifecycleCareHold DEF LifecycleCare, AuthorizeReleaseCareful, RearmReleaseCareful
  <2> HIDE DEF t1, t2, t3, t4, t5, t6, t7
  <2> QED BY <2>1, <2>2, <2>3, <2>5, <2>6, <1>PastCommit DEF PastCommit
<1>FanoutTends. FanoutTends
  <2> SUFFICES ASSUME CustodyInv, FanoutReady PROVE Tended'
    BY DEF FanoutTends
  <2> DEFINE S == WaitingArtifact(db, Ref(Fanout))
             d2 == QueueOps(SetStates(db, S, "pending"), S)
             t1 == Then(db, "retry")
             t2 == Then(d2, "done")
  <2>1. Commit(Fanout, t1) \/ Commit(Fanout, t2)
    BY DEF FanoutReady
  <2>2. db \in DB /\ Fanout \in Partitions /\ Fanout # Life
    BY TendedStepsHold, RowFactsHold DEF TendedSteps, TendedFacts, RowFacts, PartitionFacts
  <2>3. Careful(db, db) /\ Careful(db, d2)
    BY <2>2, CustodyFactsHold, DemandCareHold DEF CustodyFacts, CarefulRefl, DemandCare, FanoutCareful
  <2> HIDE DEF d2
  <2>4. Careful(db, t1.db) /\ Careful(db, t2.db)
    BY <2>3 DEF Then
  <2> HIDE DEF t1, t2
  <2> QED BY <2>1, <2>2, <2>4, TendedStepsHold DEF TendedSteps, OtherCommit
<1> QED BY <1>ClaimLifecycleTends, <1>ParkReleaseTends, <1>PastCommit, <1>PastFacts, <1>InspectionFailsTends,
   <1>ActivationTends, <1>MaterializationTends, <1>ReleaseTends, <1>FanoutTends DEF LifeTends
=============================================================================
