------------------------ MODULE SandboxStore_proofs -------------------------
(***************************************************************************)
(* Facts about the store of Sandbox, for any set of Tools, any attempt     *)
(* budget and any bounds: what its operators compute, when an execution    *)
(* fits its jobs, its worker and what the provider was sent (Right), that  *)
(* each transaction keeps right the executions it does not settle, release *)
(* or move itself (Sound), and that each keeps the releases in custody     *)
(* (Orderly, Careful). Each fact is an operator; a package of              *)
(* facts is their conjunction, and a lemma says that the package holds.    *)
(* OrderFacts, what finite sets of numbers and their ascending order are   *)
(* assumed to satisfy, is proved in Sandbox_proofs.                        *)
(***************************************************************************)
EXTENDS SandboxStore, TLAPS

USE ZenonT(60)

-----------------------------------------------------------------------------
(* Finite sets of numbers, and their ascending order.                      *)

\* InOrder(S) lists the elements of S.
InOrderOnto ==
  \A S : IsFiniteSet(S) /\ S \subseteq Nat =>
    /\ Cardinality(S) \in Nat
    /\ InOrder(S) \in [1..Cardinality(S) -> S]
    /\ \A x \in S : \E i \in 1..Cardinality(S) : InOrder(S)[i] = x
    /\ \A i, j \in 1..Cardinality(S) : i # j => InOrder(S)[i] # InOrder(S)[j]

\* A finite set of numbers that is not empty has a smallest element.
SmallestOf == \A S : IsFiniteSet(S) /\ S \subseteq Nat /\ S # {} => Smallest(S) \in S

\* A subset of a finite set is finite.
SubsetsFinite == \A S : IsFiniteSet(S) => \A A \in SUBSET S : IsFiniteSet(A)

\* So is an interval of numbers from 1.
IntervalsFinite == \A n \in Nat : IsFiniteSet(1..n)

\* What is assumed of finite sets of numbers.
OrderFacts == InOrderOnto /\ SmallestOf /\ SubsetsFinite /\ IntervalsFinite

-----------------------------------------------------------------------------
(* Sequences, and the jobs of a partition.                                 *)

\* The rows of the table of operations.
OpRow ==
  [kind : {"create", "start", "replace", "materialize", "release"},
   state : {"pending", "waiting_artifact", "waiting_activation", "running", "completed", "failed",
            "abandoned", "skipped_cold", "deleted"},
   bound : {"none", "submitted", "outcome_unknown", "proved_not_started"},
   rev : Nat, target : Nat, env : Nat, res : Nat, wait : Nat,
   reason : {"none", "replaced_handle", "session_delete"},
   job : BOOLEAN, sup : BOOLEAN, made : Nat]

\* The rows of the executions.
ExRow ==
  [state : {"none", "pending", "preparing", "running", "waiting_activation", "waiting_materialization",
            "terminal", "consumed"},
   gen : Nat, op : Nat, auth : Nat, arev : Nat, ref : BOOLEAN, task : Nat,
   out : {"none", "failed", "notstarted", "unknown", "ran", "answered", "expired"},
   cancel : {"none", "pending", "submitted"}, late : BOOLEAN]

\* The jobs of a partition.
JobRow == [ref : Nat \ {0}, st : {"due", "leased", "backoff"}, att : Nat]

\* The row of the binding.
BndRow == [exists : BOOLEAN, handle : Nat, rev : Nat, mat : Nat, release : BOOLEAN]

\* The databases.
DB ==
  [session : {"live", "deleted", "purged", "rejected"}, bnd : BndRow, desired : Nat,
   artifact : Seq({"building", "ready", "failed"}), ops : Seq(OpRow), ex : [Tools -> ExRow],
   q : [Partitions -> Seq(JobRow)]]

\* A worker has leased the job of r.
Held(s, r) == \E i \in DOMAIN s : s[i].ref = r /\ s[i].st = "leased"

\* No two jobs of a partition are of the same reference.
Distinct(s) == \A i, j \in DOMAIN s : s[i].ref = s[j].ref => i = j

\* The jobs of s without those of r.
Removed(s, r) == Kept(s, {i \in DOMAIN s : s[i].ref # r})

\* The jobs of s, those of r in state st.
Marked(s, r, st) == [i \in DOMAIN s |-> IF s[i].ref = r THEN [s[i] EXCEPT !.st = st] ELSE s[i]]

\* Only operations, the binding and the lifecycle partition differ, and no
\* operation is forgotten.
LifeOnly(d, d2) ==
  /\ d2 \in DB
  /\ d2.session = d.session /\ d2.desired = d.desired /\ d2.artifact = d.artifact /\ d2.ex = d.ex
  /\ \A p \in Partitions : p # Life => d2.q[p] = d.q[p]
  /\ Len(d2.ops) >= Len(d.ops)

\* Another queue for a partition.
SetQ(d, p, s) == [d EXCEPT !.q[p] = s]

\* The lifecycle queue gets jobs for S and is else as before.
Queued(d, d2, S) ==
  /\ \A x : Named(d2.q[Life], x) <=> Named(d.q[Life], x) \/ x \in S
  /\ \A x : Held(d2.q[Life], x) <=> Held(d.q[Life], x)
  /\ Distinct(d.q[Life]) => Distinct(d2.q[Life])

\* A function on 1..n is a sequence.
FunctionIsSeq ==
  \A S : \A n \in Nat : \A f \in [1..n -> S] :
    f \in Seq(S) /\ Len(f) = n /\ DOMAIN f = 1..n

\* A sequence as a function on its positions.
SeqIsFunction ==
  \A S : \A s \in Seq(S) :
    Len(s) \in Nat /\ s \in [1..Len(s) -> S] /\ DOMAIN s = 1..Len(s)

\* What Kept keeps.
KeptIs ==
  \A S : \A s \in Seq(S) : \A I \in SUBSET (DOMAIN s) :
    /\ Kept(s, I) \in Seq(S)
    /\ \A i \in DOMAIN Kept(s, I) : \E j \in I : Kept(s, I)[i] = s[j]
    /\ \A j \in I : \E i \in DOMAIN Kept(s, I) : Kept(s, I)[i] = s[j]
    /\ \A i, k \in DOMAIN Kept(s, I) : i # k =>
         \E j, l \in I : j # l /\ Kept(s, I)[i] = s[j] /\ Kept(s, I)[k] = s[l]

\* A new job is due.
JobIsRow ==
  \A r \in Nat \ {0} :
    Job(r) \in JobRow /\ Job(r).ref = r /\ Job(r).st = "due"

\* Adding a job names it, and neither leases nor doubles a job.
AddedIs ==
  \A s \in Seq(JobRow), r \in Nat \ {0} :
    /\ Added(s, r) \in Seq(JobRow)
    /\ \A x : Named(Added(s, r), x) <=> Named(s, x) \/ x = r
    /\ \A x : Held(Added(s, r), x) <=> Held(s, x)
    /\ Distinct(s) => Distinct(Added(s, r))

\* A queue without some of its jobs.
KeptJobs ==
  \A s \in Seq(JobRow) : \A I \in SUBSET (DOMAIN s) :
    /\ Kept(s, I) \in Seq(JobRow)
    /\ \A x : Named(Kept(s, I), x) <=> \E j \in I : s[j].ref = x
    /\ \A x : Held(Kept(s, I), x) <=> \E j \in I : s[j].ref = x /\ s[j].st = "leased"
    /\ Distinct(s) => Distinct(Kept(s, I))

\* Removing a job removes that name and no other.
RemovedIs ==
  \A s \in Seq(JobRow) : \A r :
    /\ Removed(s, r) \in Seq(JobRow)
    /\ \A x : Named(Removed(s, r), x) <=> Named(s, x) /\ x # r
    /\ \A x : Held(Removed(s, r), x) <=> Held(s, x) /\ x # r
    /\ Distinct(s) => Distinct(Removed(s, r))

\* Marking a job as due or in backoff gives its lease back and keeps every
\* name.
MarkedIs ==
  \A s \in Seq(JobRow) : \A r : \A st \in {"due", "backoff"} :
    /\ Marked(s, r, st) \in Seq(JobRow)
    /\ \A x : Named(Marked(s, r, st), x) <=> Named(s, x)
    /\ \A x : Held(Marked(s, r, st), x) <=> Held(s, x) /\ x # r
    /\ Distinct(s) => Distinct(Marked(s, r, st))

\* The facts about sequences and jobs.
SequenceFacts ==
  /\ FunctionIsSeq /\ SeqIsFunction /\ KeptIs /\ JobIsRow /\ AddedIs /\ KeptJobs /\ RemovedIs
  /\ MarkedIs

\* These facts hold.
LEMMA SequenceFactsHold == ASSUME OrderFacts PROVE SequenceFacts
<1>FunctionIsSeq. FunctionIsSeq
  BY SMTT(30) DEF FunctionIsSeq
<1>SeqIsFunction. SeqIsFunction
  BY SMTT(30) DEF SeqIsFunction
<1>KeptIs. KeptIs
  <2> SUFFICES
      ASSUME NEW S, NEW s \in Seq(S), NEW I \in SUBSET (DOMAIN s)
      PROVE  /\ Kept(s, I) \in Seq(S)
             /\ \A i \in DOMAIN Kept(s, I) : \E j \in I : Kept(s, I)[i] = s[j]
             /\ \A j \in I : \E i \in DOMAIN Kept(s, I) : Kept(s, I)[i] = s[j]
             /\ \A i, k \in DOMAIN Kept(s, I) : i # k =>
                  \E j, l \in I : j # l /\ Kept(s, I)[i] = s[j] /\ Kept(s, I)[k] = s[l]
    BY DEF KeptIs
  <2> DEFINE n == Cardinality(I)
             f == InOrder(I)
  <2>1. s \in [1..Len(s) -> S] /\ Len(s) \in Nat /\ DOMAIN s = 1..Len(s)
    BY <1>SeqIsFunction DEF SeqIsFunction
  <2>2. I \subseteq Nat /\ IsFiniteSet(I)
    <3>1. IsFiniteSet(1..Len(s))
      BY <2>1 DEF OrderFacts, IntervalsFinite
    <3> QED BY <2>1, <3>1, SMTT(30) DEF OrderFacts, SubsetsFinite
  <2>3. /\ n \in Nat
        /\ f \in [1..n -> I]
        /\ \A x \in I : \E i \in 1..n : f[i] = x
        /\ \A i, j \in 1..n : i # j => f[i] # f[j]
    BY <2>2 DEF OrderFacts, InOrderOnto
  <2> HIDE DEF n, f
  <2>4. Kept(s, I) = [i \in 1..n |-> s[f[i]]]
    BY DEF Kept, n, f
  <2>5. Kept(s, I) \in [1..n -> S]
    BY <2>1, <2>3, <2>4, SMTT(30)
  <2>6. Kept(s, I) \in Seq(S) /\ DOMAIN Kept(s, I) = 1..n
    BY <2>3, <2>5, <1>FunctionIsSeq DEF FunctionIsSeq
  <2> DEFINE t == Kept(s, I)
  <2>7. \A i \in DOMAIN t : f[i] \in I /\ t[i] = s[f[i]]
    BY <2>3, <2>4, <2>6
  <2>8. /\ \A x \in I : \E i \in DOMAIN t : f[i] = x
        /\ \A i, j \in DOMAIN t : i # j => f[i] # f[j]
    BY <2>3, <2>6
  <2> HIDE DEF t
  <2>9. \A j \in I : \E i \in DOMAIN t : t[i] = s[j]
    BY <2>7, <2>8, SMTT(30)
  <2>10. \A i \in DOMAIN t : \E j \in I : t[i] = s[j]
    BY <2>7
  <2>11. \A i, k \in DOMAIN t : i # k => \E j, l \in I : j # l /\ t[i] = s[j] /\ t[k] = s[l]
    <3> SUFFICES ASSUME NEW i \in DOMAIN t, NEW k \in DOMAIN t, i # k
                 PROVE  \E j, l \in I : j # l /\ t[i] = s[j] /\ t[k] = s[l]
      OBVIOUS
    <3>1. f[i] \in I /\ f[k] \in I /\ f[i] # f[k] /\ t[i] = s[f[i]] /\ t[k] = s[f[k]]
      BY <2>7, <2>8
    <3> QED BY <3>1
  <2> QED BY <2>6, <2>9, <2>10, <2>11 DEF t
<1>JobIsRow. JobIsRow
  BY DEF Job, JobRow, JobIsRow
<1>AddedIs. AddedIs
  <2> SUFFICES
      ASSUME NEW s \in Seq(JobRow), NEW r \in Nat \ {0}
      PROVE  /\ Added(s, r) \in Seq(JobRow)
             /\ \A x : Named(Added(s, r), x) <=> Named(s, x) \/ x = r
             /\ \A x : Held(Added(s, r), x) <=> Held(s, x)
             /\ Distinct(s) => Distinct(Added(s, r))
    BY DEF AddedIs
  <2>1. CASE Named(s, r)
    BY <2>1 DEF Added
  <2>2. CASE ~Named(s, r)
    <3> DEFINE t == Append(s, Job(r))
    <3>1. Added(s, r) = t
      BY <2>2 DEF Added
    <3>2. /\ t \in Seq(JobRow) /\ Len(s) \in Nat
          /\ DOMAIN t = 1..(Len(s) + 1) /\ DOMAIN s = 1..Len(s)
          /\ \A i \in DOMAIN s : i \in DOMAIN t /\ t[i] = s[i]
          /\ t[Len(s) + 1] = Job(r)
      BY <1>JobIsRow, SMTT(30) DEF JobIsRow
    <3>3. \A i \in DOMAIN t : i \in DOMAIN s \/ i = Len(s) + 1
      BY <3>2, SMTT(30)
    <3>4. Len(s) + 1 \in DOMAIN t
      BY <3>2, SMTT(30)
    <3> HIDE DEF t
    <3>5. \A x : Named(t, x) <=> Named(s, x) \/ x = r
      BY <3>2, <3>3, <3>4, <1>JobIsRow DEF Named, JobIsRow
    <3>6. \A x : Held(t, x) <=> Held(s, x)
      BY <3>2, <3>3, <3>4, <1>JobIsRow DEF Held, JobIsRow
    <3>7. Distinct(s) => Distinct(t)
      BY <2>2, <3>2, <3>3, <3>4, <1>JobIsRow, SMTT(30) DEF Distinct, Named, JobIsRow
    <3> QED BY <3>1, <3>2, <3>5, <3>6, <3>7
  <2> QED BY <2>1, <2>2
<1>KeptJobs. KeptJobs
  <2> SUFFICES
      ASSUME NEW s \in Seq(JobRow), NEW I \in SUBSET (DOMAIN s)
      PROVE  /\ Kept(s, I) \in Seq(JobRow)
             /\ \A x : Named(Kept(s, I), x) <=> \E j \in I : s[j].ref = x
             /\ \A x : Held(Kept(s, I), x) <=> \E j \in I : s[j].ref = x /\ s[j].st = "leased"
             /\ Distinct(s) => Distinct(Kept(s, I))
    BY DEF KeptJobs
  <2> DEFINE t == Kept(s, I)
  <2>1. /\ t \in Seq(JobRow)
        /\ \A i \in DOMAIN t : \E j \in I : t[i] = s[j]
        /\ \A j \in I : \E i \in DOMAIN t : t[i] = s[j]
        /\ \A i, k \in DOMAIN t : i # k => \E j, l \in I : j # l /\ t[i] = s[j] /\ t[k] = s[l]
    BY <1>KeptIs DEF KeptIs
  <2> HIDE DEF t
  <2>2. \A x : Named(t, x) <=> \E j \in I : s[j].ref = x
    BY <2>1, SMTT(30) DEF Named
  <2>3. \A x : Held(t, x) <=> \E j \in I : s[j].ref = x /\ s[j].st = "leased"
    BY <2>1, SMTT(30) DEF Held
  <2>4. Distinct(s) => Distinct(t)
    <3> SUFFICES ASSUME Distinct(s), NEW i \in DOMAIN t, NEW k \in DOMAIN t, t[i].ref = t[k].ref, i # k
                 PROVE  FALSE
      BY DEF Distinct
    <3>1. PICK j \in I, l \in I : j # l /\ t[i] = s[j] /\ t[k] = s[l]
      BY <2>1
    <3> QED BY <3>1 DEF Distinct
  <2> QED BY <2>1, <2>2, <2>3, <2>4 DEF t
<1>RemovedIs. RemovedIs
  <2> SUFFICES
      ASSUME NEW s \in Seq(JobRow), NEW r
      PROVE  /\ Removed(s, r) \in Seq(JobRow)
             /\ \A x : Named(Removed(s, r), x) <=> Named(s, x) /\ x # r
             /\ \A x : Held(Removed(s, r), x) <=> Held(s, x) /\ x # r
             /\ Distinct(s) => Distinct(Removed(s, r))
    BY DEF RemovedIs
  <2> DEFINE I == {i \in DOMAIN s : s[i].ref # r}
  <2>0. I \in SUBSET (DOMAIN s)
    OBVIOUS
  <2>1. /\ Removed(s, r) \in Seq(JobRow)
        /\ \A x : Named(Removed(s, r), x) <=> \E j \in I : s[j].ref = x
        /\ \A x : Held(Removed(s, r), x) <=> \E j \in I : s[j].ref = x /\ s[j].st = "leased"
        /\ Distinct(s) => Distinct(Removed(s, r))
    <3> HIDE DEF I
    <3>1. Removed(s, r) = Kept(s, I)
      BY DEF Removed, I
    <3> QED BY <2>0, <3>1, <1>KeptJobs, SMTT(30) DEF KeptJobs
  <2>2. \A x : Named(Removed(s, r), x) <=> Named(s, x) /\ x # r
    <3>1. \A x : (\E j \in I : s[j].ref = x) <=> ((\E j \in DOMAIN s : s[j].ref = x) /\ x # r)
      OBVIOUS
    <3> HIDE DEF I
    <3> QED BY <2>1, <3>1 DEF Named
  <2>3. \A x : Held(Removed(s, r), x) <=> Held(s, x) /\ x # r
    <3>1. \A x : (\E j \in I : s[j].ref = x /\ s[j].st = "leased")
                 <=> ((\E j \in DOMAIN s : s[j].ref = x /\ s[j].st = "leased") /\ x # r)
      OBVIOUS
    <3> HIDE DEF I
    <3> QED BY <2>1, <3>1 DEF Held
  <2> HIDE DEF I
  <2> QED BY <2>1, <2>2, <2>3
<1>MarkedIs. MarkedIs
  <2> SUFFICES
      ASSUME NEW s \in Seq(JobRow), NEW r, NEW st \in {"due", "backoff"}
      PROVE  /\ Marked(s, r, st) \in Seq(JobRow)
             /\ \A x : Named(Marked(s, r, st), x) <=> Named(s, x)
             /\ \A x : Held(Marked(s, r, st), x) <=> Held(s, x) /\ x # r
             /\ Distinct(s) => Distinct(Marked(s, r, st))
    BY DEF MarkedIs
  <2> DEFINE t == Marked(s, r, st)
  <2>1. \A x \in JobRow : /\ [x EXCEPT !.st = st] \in JobRow
                          /\ [x EXCEPT !.st = st].ref = x.ref /\ [x EXCEPT !.st = st].st = st
    BY DEF JobRow
  <2>2. \A i \in DOMAIN s : s[i] \in JobRow
    BY SMTT(30)
  <2>3. /\ DOMAIN t = DOMAIN s
        /\ \A i \in DOMAIN s : /\ t[i] \in JobRow /\ t[i].ref = s[i].ref
                               /\ t[i].st = IF s[i].ref = r THEN st ELSE s[i].st
    BY <2>1, <2>2, SMTT(30) DEF Marked
  <2>4. t \in Seq(JobRow)
    <3>1. Len(s) \in Nat /\ DOMAIN s = 1..Len(s)
      BY SMTT(30)
    <3>2. t = [i \in DOMAIN s |-> t[i]]
      BY DEF Marked
    <3>3. t \in [1..Len(s) -> JobRow]
      <4> HIDE DEF t
      <4> QED BY <2>3, <3>1, <3>2
    <3> HIDE DEF t
    <3> QED BY <3>1, <3>3, <1>FunctionIsSeq DEF FunctionIsSeq
  <2> HIDE DEF t
  <2>5. \A x : Named(t, x) <=> Named(s, x)
    BY <2>3 DEF Named
  <2>6. \A x : Held(t, x) <=> Held(s, x) /\ x # r
    BY <2>3 DEF Held
  <2>7. Distinct(s) => Distinct(t)
    BY <2>3 DEF Distinct
  <2> QED BY <2>4, <2>5, <2>6, <2>7 DEF t
<1> QED BY <1>FunctionIsSeq, <1>SeqIsFunction, <1>KeptIs, <1>JobIsRow, <1>AddedIs, <1>KeptJobs, <1>RemovedIs,
   <1>MarkedIs DEF SequenceFacts

-----------------------------------------------------------------------------
(* The rows of the database.                                               *)

\* The partitions differ.
PartitionFacts ==
  /\ Life \in Partitions /\ Fanout \in Partitions /\ Life # Fanout
  /\ \A e \in Tools : /\ Exec(e) \in Partitions /\ Exec(e) # Life /\ Exec(e) # Fanout
                      /\ Cancel(e) \in Partitions /\ Cancel(e) # Life /\ Cancel(e) # Fanout
                      /\ Exec(e)[1] = "exec" /\ Exec(e)[2] = e
                      /\ Cancel(e)[1] = "cancel" /\ Cancel(e)[2] = e
  /\ \A e, f \in Tools : /\ Exec(e) # Cancel(f)
                         /\ Exec(e) = Exec(f) => e = f
                         /\ Cancel(e) = Cancel(f) => e = f
  /\ \A p \in Partitions : \/ p = Life \/ p = Fanout
                           \/ \E e \in Tools : p = Exec(e)
                           \/ \E e \in Tools : p = Cancel(e)

\* The types of a database's fields.
DBFields ==
  \A d \in DB :
    /\ d.session \in {"live", "deleted", "purged", "rejected"} /\ d.bnd \in BndRow
    /\ d.desired \in Nat /\ d.artifact \in Seq({"building", "ready", "failed"})
    /\ d.ops \in Seq(OpRow) /\ d.ex \in [Tools -> ExRow] /\ d.q \in [Partitions -> Seq(JobRow)]
    /\ Len(d.ops) \in Nat /\ OpIds(d) = 1..Len(d.ops) /\ OpIds(d) = DOMAIN d.ops
    /\ \A o \in OpIds(d) : d.ops[o] \in OpRow
    /\ \A e \in Tools : d.ex[e] \in ExRow
    /\ \A p \in Partitions : d.q[p] \in Seq(JobRow)

\* Operations are numbered from 1, and there are finitely many.
OpIdsFinite ==
  \A d \in DB :
    IsFiniteSet(OpIds(d)) /\ OpIds(d) \subseteq Nat \ {0}

\* Nothing changed is a change of the lifecycle only.
LifeOnlyRefl ==
  \A d \in DB :
    LifeOnly(d, d)

\* Two changes of the lifecycle only are one.
LifeOnlyTrans ==
  \A d1, d2, d3 :
    /\ d1 \in DB
    /\ LifeOnly(d1, d2)
    /\ LifeOnly(d2, d3)
    =>
      LifeOnly(d1, d3)

\* Operations are replaced one by one.
OpsReplaced ==
  \A d \in DB : \A f \in [OpIds(d) -> OpRow] :
    /\ LifeOnly(d, [d EXCEPT !.ops = f]) /\ OpIds([d EXCEPT !.ops = f]) = OpIds(d)
    /\ [d EXCEPT !.ops = f].ops = f
    /\ [d EXCEPT !.ops = f].bnd = d.bnd /\ [d EXCEPT !.ops = f].q = d.q

\* What SetOp leaves alone.
SetOpIs ==
  \A d \in DB : \A o \in OpIds(d), op \in OpRow :
    /\ LifeOnly(d, SetOp(d, o, op)) /\ OpIds(SetOp(d, o, op)) = OpIds(d)
    /\ SetOp(d, o, op).ops = [d.ops EXCEPT ![o] = op]
    /\ SetOp(d, o, op).bnd = d.bnd /\ SetOp(d, o, op).q = d.q

\* What SetBnd leaves alone.
SetBndIs ==
  \A d \in DB, b \in BndRow :
    /\ LifeOnly(d, SetBnd(d, b)) /\ OpIds(SetBnd(d, b)) = OpIds(d)
    /\ SetBnd(d, b).bnd = b /\ SetBnd(d, b).ops = d.ops /\ SetBnd(d, b).q = d.q

\* What a new queue for one partition leaves alone.
SetQIs ==
  \A d \in DB, p \in Partitions, s \in Seq(JobRow) :
    /\ SetQ(d, p, s) \in DB /\ OpIds(SetQ(d, p, s)) = OpIds(d)
    /\ SetQ(d, p, s).q[p] = s
    /\ \A x \in Partitions : x # p => SetQ(d, p, s).q[x] = d.q[x]
    /\ SetQ(d, p, s).bnd = d.bnd /\ SetQ(d, p, s).ops = d.ops
    /\ SetQ(d, p, s).session = d.session /\ SetQ(d, p, s).desired = d.desired
    /\ SetQ(d, p, s).artifact = d.artifact /\ SetQ(d, p, s).ex = d.ex
    /\ p = Life => LifeOnly(d, SetQ(d, p, s))

\* The jobs of a set of operations, none of which the queue names yet.
JobsAdded ==
  \A s \in Seq(JobRow) : \A N :
    /\ IsFiniteSet(N)
    /\ N \subseteq Nat \ {0}
    /\ \A x \in N : ~Named(s, x)
    =>
      LET new == InOrder(N)
          t == s \o [i \in DOMAIN new |-> Job(new[i])]
      IN /\ t \in Seq(JobRow)
         /\ \A x : Named(t, x) <=> Named(s, x) \/ x \in N
         /\ \A x : Held(t, x) <=> Held(s, x)
         /\ Distinct(s) => Distinct(t)

\* QueueOps gives each operation of S a job, and marks it so.
QueueOpsIs ==
  \A d \in DB : \A S \in SUBSET OpIds(d) :
    LET d2 == QueueOps(d, S) IN
    /\ LifeOnly(d, d2) /\ d2.bnd = d.bnd /\ OpIds(d2) = OpIds(d)
    /\ \A o \in OpIds(d) : d2.ops[o] = IF o \in S THEN [d.ops[o] EXCEPT !.job = TRUE] ELSE d.ops[o]
    /\ Queued(d, d2, S)

\* A new operation.
OperationIsRow ==
  \A d \in DB, kind \in {"create", "start", "replace", "materialize", "release"}, target \in Nat :
    /\ Operation(d, kind, target) \in OpRow
    /\ Operation(d, kind, target).kind = kind /\ Operation(d, kind, target).state = "pending"
    /\ Operation(d, kind, target).bound = "none" /\ Operation(d, kind, target).rev = d.bnd.rev
    /\ Operation(d, kind, target).target = target /\ ~Operation(d, kind, target).sup
    /\ Operation(d, kind, target).made = 0 /\ ~Operation(d, kind, target).job
    /\ Operation(d, kind, target).wait = 0

\* Operations are added at the end.
OpsAdded ==
  \A d \in DB, g \in Seq(OpRow) :
    LET d1 == [d EXCEPT !.ops = d.ops \o g] IN
    /\ LifeOnly(d, d1) /\ d1.bnd = d.bnd /\ d1.q = d.q
    /\ OpIds(d1) = 1..(Len(d.ops) + Len(g))
    /\ \A o \in OpIds(d) : d1.ops[o] = d.ops[o]
    /\ \A i \in 1..Len(g) : d1.ops[Len(d.ops) + i] = g[i]

\* The inserted operation comes last, with its job unless it waits for an artifact.
InsertOpIs ==
  \A d \in DB, op \in OpRow :
    LET d2 == InsertOp(d, op)
        n == Len(d.ops) + 1
    IN /\ LifeOnly(d, d2) /\ d2.bnd = d.bnd
       /\ Len(d2.ops) = n /\ OpIds(d2) = OpIds(d) \cup {n} /\ n \notin OpIds(d)
       /\ \A o \in OpIds(d) : d2.ops[o] = d.ops[o]
       /\ d2.ops[n] = IF op.state = "waiting_artifact" THEN op ELSE [op EXCEPT !.job = TRUE]
       /\ Queued(d, d2, IF op.state = "waiting_artifact" THEN {} ELSE {n})

\* The facts about rows, operations and their jobs.
RowFacts ==
  /\ PartitionFacts /\ DBFields /\ OpIdsFinite /\ LifeOnlyRefl /\ LifeOnlyTrans /\ OpsReplaced
  /\ SetOpIs /\ SetBndIs /\ SetQIs /\ JobsAdded /\ QueueOpsIs /\ OperationIsRow /\ OpsAdded
  /\ InsertOpIs

\* These facts hold.
LEMMA RowFactsHold == ASSUME OrderFacts PROVE RowFacts
<1>PartitionFacts. PartitionFacts
  BY DEF Partitions, Life, Fanout, Exec, Cancel, PartitionFacts
<1>DBFields. DBFields
  BY SMTT(30) DEF DB, OpIds, DBFields
<1>OpIdsFinite. OpIdsFinite
  <2> SUFFICES
      ASSUME NEW d \in DB
      PROVE  IsFiniteSet(OpIds(d)) /\ OpIds(d) \subseteq Nat \ {0}
    BY DEF OpIdsFinite
  <2> DEFINE n == Len(d.ops)
  <2>1. n \in Nat /\ OpIds(d) = 1..n
    BY <1>DBFields DEF DBFields
  <2> HIDE DEF n
  <2>2. IsFiniteSet(1..n)
    BY <2>1 DEF OrderFacts, IntervalsFinite
  <2> QED BY <2>1, <2>2, SMTT(30)
<1>LifeOnlyRefl. LifeOnlyRefl
  BY <1>DBFields, SMTT(30) DEF LifeOnly, DBFields, LifeOnlyRefl
<1>LifeOnlyTrans. LifeOnlyTrans
  <2> SUFFICES
      ASSUME NEW d1, NEW d2, NEW d3, d1 \in DB, LifeOnly(d1, d2), LifeOnly(d2, d3)
      PROVE  LifeOnly(d1, d3)
    BY DEF LifeOnlyTrans
  <2>1. Len(d1.ops) \in Nat /\ Len(d2.ops) \in Nat /\ Len(d3.ops) \in Nat
    BY <1>DBFields DEF LifeOnly, DBFields
  <2> QED BY <2>1, SMTT(30) DEF LifeOnly
<1>OpsReplaced. OpsReplaced
  <2> SUFFICES
      ASSUME NEW d \in DB, NEW f \in [OpIds(d) -> OpRow]
      PROVE  /\ LifeOnly(d, [d EXCEPT !.ops = f]) /\ OpIds([d EXCEPT !.ops = f]) = OpIds(d)
             /\ [d EXCEPT !.ops = f].ops = f
             /\ [d EXCEPT !.ops = f].bnd = d.bnd /\ [d EXCEPT !.ops = f].q = d.q
    BY DEF OpsReplaced
  <2>1. Len(d.ops) \in Nat /\ OpIds(d) = 1..Len(d.ops)
    BY <1>DBFields DEF DBFields
  <2>2. f \in Seq(OpRow) /\ Len(f) = Len(d.ops)
    BY <2>1, SequenceFactsHold DEF SequenceFacts, FunctionIsSeq
  <2>3. [d EXCEPT !.ops = f] \in DB
    BY <2>2 DEF DB
  <2>4. /\ [d EXCEPT !.ops = f].ops = f
        /\ [d EXCEPT !.ops = f].bnd = d.bnd /\ [d EXCEPT !.ops = f].q = d.q
        /\ [d EXCEPT !.ops = f].session = d.session /\ [d EXCEPT !.ops = f].desired = d.desired
        /\ [d EXCEPT !.ops = f].artifact = d.artifact /\ [d EXCEPT !.ops = f].ex = d.ex
    BY DEF DB
  <2> QED BY <2>1, <2>2, <2>3, <2>4, SMTT(30) DEF LifeOnly, OpIds
<1>SetOpIs. SetOpIs
  <2> SUFFICES
      ASSUME NEW d \in DB, NEW o \in OpIds(d), NEW op \in OpRow
      PROVE  /\ LifeOnly(d, SetOp(d, o, op)) /\ OpIds(SetOp(d, o, op)) = OpIds(d)
             /\ SetOp(d, o, op).ops = [d.ops EXCEPT ![o] = op]
             /\ SetOp(d, o, op).bnd = d.bnd /\ SetOp(d, o, op).q = d.q
    BY DEF SetOpIs
  <2> DEFINE f == [d.ops EXCEPT ![o] = op]
  <2>1. f \in [OpIds(d) -> OpRow]
    BY <1>DBFields DEF DBFields
  <2>2. SetOp(d, o, op) = [d EXCEPT !.ops = f]
    BY DEF SetOp, DB
  <2> HIDE DEF f
  <2>3. f = [d.ops EXCEPT ![o] = op]
    BY DEF f
  <2> QED BY <2>1, <2>2, <2>3, <1>OpsReplaced, SMTT(30) DEF OpsReplaced
<1>SetBndIs. SetBndIs
  <2> SUFFICES
      ASSUME NEW d \in DB, NEW b \in BndRow
      PROVE  /\ LifeOnly(d, SetBnd(d, b)) /\ OpIds(SetBnd(d, b)) = OpIds(d)
             /\ SetBnd(d, b).bnd = b /\ SetBnd(d, b).ops = d.ops /\ SetBnd(d, b).q = d.q
    BY DEF SetBndIs
  <2>1. SetBnd(d, b) \in DB
    BY DEF SetBnd, DB
  <2>2. /\ SetBnd(d, b).bnd = b /\ SetBnd(d, b).ops = d.ops /\ SetBnd(d, b).q = d.q
        /\ SetBnd(d, b).session = d.session /\ SetBnd(d, b).desired = d.desired
        /\ SetBnd(d, b).artifact = d.artifact /\ SetBnd(d, b).ex = d.ex
    BY DEF SetBnd, DB
  <2> QED BY <2>1, <2>2, <1>DBFields, SMTT(30) DEF LifeOnly, OpIds, DBFields
<1>SetQIs. SetQIs
  <2> SUFFICES
      ASSUME NEW d \in DB, NEW p \in Partitions, NEW s \in Seq(JobRow)
      PROVE  /\ SetQ(d, p, s) \in DB /\ OpIds(SetQ(d, p, s)) = OpIds(d)
             /\ SetQ(d, p, s).q[p] = s
             /\ \A x \in Partitions : x # p => SetQ(d, p, s).q[x] = d.q[x]
             /\ SetQ(d, p, s).bnd = d.bnd /\ SetQ(d, p, s).ops = d.ops
             /\ SetQ(d, p, s).session = d.session /\ SetQ(d, p, s).desired = d.desired
             /\ SetQ(d, p, s).artifact = d.artifact /\ SetQ(d, p, s).ex = d.ex
             /\ p = Life => LifeOnly(d, SetQ(d, p, s))
    BY DEF SetQIs
  <2>1. SetQ(d, p, s) \in DB
    BY DEF SetQ, DB
  <2>2. SetQ(d, p, s).q = [d.q EXCEPT ![p] = s]
    BY DEF SetQ, DB
  <2>3. /\ SetQ(d, p, s).bnd = d.bnd /\ SetQ(d, p, s).ops = d.ops
        /\ SetQ(d, p, s).session = d.session /\ SetQ(d, p, s).desired = d.desired
        /\ SetQ(d, p, s).artifact = d.artifact /\ SetQ(d, p, s).ex = d.ex
    BY DEF SetQ, DB
  <2>4. /\ SetQ(d, p, s).q[p] = s
        /\ \A x \in Partitions : x # p => SetQ(d, p, s).q[x] = d.q[x]
    BY <2>2, <1>DBFields DEF DBFields
  <2> QED BY <2>1, <2>3, <2>4, <1>DBFields, SMTT(30) DEF LifeOnly, OpIds, DBFields
<1>JobsAdded. JobsAdded
  <2> SUFFICES
      ASSUME NEW s \in Seq(JobRow), NEW N, IsFiniteSet(N), N \subseteq Nat \ {0},
             \A x \in N : ~Named(s, x)
      PROVE  LET new == InOrder(N)
                 t == s \o [i \in DOMAIN new |-> Job(new[i])]
             IN /\ t \in Seq(JobRow)
                /\ \A x : Named(t, x) <=> Named(s, x) \/ x \in N
                /\ \A x : Held(t, x) <=> Held(s, x)
                /\ Distinct(s) => Distinct(t)
    BY DEF JobsAdded
  <2> DEFINE new == InOrder(N)
             n == Cardinality(N)
             j == [i \in DOMAIN new |-> Job(new[i])]
             t == s \o j
             m == Len(s)
  <2>1. /\ n \in Nat
        /\ new \in [1..n -> N]
        /\ \A x \in N : \E i \in 1..n : new[i] = x
        /\ \A i, k \in 1..n : i # k => new[i] # new[k]
    BY DEF OrderFacts, InOrderOnto
  <2> HIDE DEF new, n
  <2>2. j \in Seq(JobRow) /\ Len(j) = n /\ \A i \in 1..n : j[i] = Job(new[i])
    <3>1. j = [i \in 1..n |-> Job(new[i])]
      BY <2>1
    <3>2. \A i \in 1..n : Job(new[i]) \in JobRow
      BY <2>1, SequenceFactsHold DEF SequenceFacts, JobIsRow
    <3>3. j \in [1..n -> JobRow]
      BY <3>1, <3>2
    <3> QED BY <2>1, <3>1, <3>3, SequenceFactsHold DEF SequenceFacts, FunctionIsSeq
  <2>3. \A i \in 1..n : j[i].ref = new[i] /\ j[i].st = "due"
    BY <2>1, <2>2, SequenceFactsHold DEF SequenceFacts, JobIsRow
  <2> HIDE DEF j
  <2>4. /\ t \in Seq(JobRow) /\ m \in Nat
        /\ DOMAIN t = 1..(m + n) /\ DOMAIN s = 1..m
        /\ \A i \in 1..m : t[i] = s[i]
        /\ \A i \in 1..n : t[m + i] = j[i]
    BY <2>1, <2>2, SMTT(30)
  <2> HIDE DEF t, m
  <2>5. \A i \in DOMAIN t : (i \in DOMAIN s /\ t[i] = s[i]) \/ (\E k \in 1..n : i = m + k /\ t[i].ref = new[k] /\ t[i].st = "due")
    <3> SUFFICES ASSUME NEW i \in 1..(m + n), ~(i \in 1..m)
                 PROVE  \E k \in 1..n : i = m + k /\ t[i].ref = new[k] /\ t[i].st = "due"
      BY <2>4
    <3>1. i - m \in 1..n /\ i = m + (i - m)
      BY <2>1, <2>4, SMTT(30)
    <3> QED BY <2>3, <2>4, <3>1
  <2>6. /\ \A i \in DOMAIN s : i \in DOMAIN t /\ t[i] = s[i]
        /\ \A k \in 1..n : m + k \in DOMAIN t /\ t[m + k].ref = new[k]
    BY <2>1, <2>3, <2>4, SMTT(30)
  <2>7. \A x : Named(t, x) <=> Named(s, x) \/ x \in N
    <3>1. \A x : Named(t, x) => Named(s, x) \/ x \in N
      BY <2>1, <2>5, SMTT(30) DEF Named
    <3>2. \A x : Named(s, x) => Named(t, x)
      BY <2>6 DEF Named
    <3>3. \A x \in N : Named(t, x)
      BY <2>1, <2>6, SMTT(30) DEF Named
    <3> QED BY <3>1, <3>2, <3>3
  <2>8. \A x : Held(t, x) <=> Held(s, x)
    <3>1. \A x : Held(t, x) => Held(s, x)
      BY <2>5 DEF Held
    <3>2. \A x : Held(s, x) => Held(t, x)
      BY <2>6 DEF Held
    <3> QED BY <3>1, <3>2
  <2>9. Distinct(s) => Distinct(t)
    <3> SUFFICES ASSUME Distinct(s), NEW a \in DOMAIN t, NEW b \in DOMAIN t, t[a].ref = t[b].ref
                 PROVE  a = b
      BY DEF Distinct
    <3>1. CASE a \in DOMAIN s /\ t[a] = s[a] /\ b \in DOMAIN s /\ t[b] = s[b]
      BY <3>1 DEF Distinct
    <3>2. CASE /\ a \in DOMAIN s /\ t[a] = s[a]
               /\ \E k \in 1..n : b = m + k /\ t[b].ref = new[k] /\ t[b].st = "due"
      BY <2>1, <3>2, SMTT(30) DEF Named
    <3>3. CASE /\ b \in DOMAIN s /\ t[b] = s[b]
               /\ \E k \in 1..n : a = m + k /\ t[a].ref = new[k] /\ t[a].st = "due"
      BY <2>1, <3>3, ZenonT(60) DEF Named
    <3>4. CASE /\ \E k \in 1..n : a = m + k /\ t[a].ref = new[k] /\ t[a].st = "due"
               /\ \E k \in 1..n : b = m + k /\ t[b].ref = new[k] /\ t[b].st = "due"
      BY <2>1, <3>4
    <3> QED BY <2>5, <3>1, <3>2, <3>3, <3>4
  <2> QED BY <2>4, <2>7, <2>8, <2>9 DEF t, j, new
<1>QueueOpsIs. QueueOpsIs
  <2> SUFFICES
      ASSUME NEW d \in DB, NEW S \in SUBSET OpIds(d)
      PROVE  LET d2 == QueueOps(d, S) IN
             /\ LifeOnly(d, d2) /\ d2.bnd = d.bnd /\ OpIds(d2) = OpIds(d)
             /\ \A o \in OpIds(d) : d2.ops[o] = IF o \in S THEN [d.ops[o] EXCEPT !.job = TRUE] ELSE d.ops[o]
             /\ Queued(d, d2, S)
    BY DEF QueueOpsIs
  <2> DEFINE N == {o \in S : ~HasJob(d, Life, o)}
             new == InOrder(N)
             f == [o \in OpIds(d) |-> IF o \in S THEN [d.ops[o] EXCEPT !.job = TRUE] ELSE d.ops[o]]
             t == d.q[Life] \o [i \in DOMAIN new |-> Job(new[i])]
             d1 == [d EXCEPT !.ops = f]
             d2 == QueueOps(d, S)
  <2>1. IsFiniteSet(N) /\ N \subseteq Nat \ {0} /\ \A x \in N : ~Named(d.q[Life], x)
    <3>1. OpIds(d) \subseteq Nat \ {0} /\ IsFiniteSet(OpIds(d))
      BY <1>OpIdsFinite DEF OpIdsFinite
    <3>2. N \in SUBSET OpIds(d)
      OBVIOUS
    <3>3. IsFiniteSet(N)
      BY <3>1, <3>2 DEF OrderFacts, SubsetsFinite
    <3> QED BY <3>1, <3>2, <3>3 DEF HasJob
  <2>2. d.q[Life] \in Seq(JobRow)
    BY <1>DBFields, <1>PartitionFacts DEF DBFields, PartitionFacts
  <2>3. /\ t \in Seq(JobRow)
        /\ \A x : Named(t, x) <=> Named(d.q[Life], x) \/ x \in N
        /\ \A x : Held(t, x) <=> Held(d.q[Life], x)
        /\ Distinct(d.q[Life]) => Distinct(t)
    <3> HIDE DEF N
    <3> QED BY <2>1, <2>2, <1>JobsAdded DEF JobsAdded
  <2>4. f \in [OpIds(d) -> OpRow]
    <3>1. \A x \in OpRow : [x EXCEPT !.job = TRUE] \in OpRow
      BY DEF OpRow
    <3> QED BY <3>1, <1>DBFields DEF DBFields
  <2>5. d2 = SetQ(d1, Life, t)
    BY <1>PartitionFacts DEF QueueOps, SetQ, DB, PartitionFacts
  <2>6. /\ LifeOnly(d, d1) /\ OpIds(d1) = OpIds(d) /\ d1.ops = f /\ d1.bnd = d.bnd /\ d1.q = d.q
        /\ d1 \in DB
    <3> HIDE DEF f
    <3> QED BY <2>4, <1>OpsReplaced DEF LifeOnly, OpsReplaced
  <2> HIDE DEF d1, d2, t
  <2>7. /\ LifeOnly(d1, d2) /\ d2.bnd = d1.bnd /\ OpIds(d2) = OpIds(d1) /\ d2.ops = d1.ops
        /\ d2.q[Life] = t
    BY <2>3, <2>5, <2>6, <1>SetQIs, <1>PartitionFacts, SMTT(30) DEF SetQIs, PartitionFacts
  <2>8. LifeOnly(d, d2)
    BY <2>6, <2>7, <1>LifeOnlyTrans DEF LifeOnlyTrans
  <2>9. \A x : Named(t, x) <=> Named(d.q[Life], x) \/ x \in S
    BY <2>3 DEF HasJob
  <2>10. Queued(d, d2, S)
    BY <2>3, <2>7, <2>9 DEF Queued
  <2> QED BY <2>6, <2>7, <2>8, <2>10 DEF d2
<1>OperationIsRow. OperationIsRow
  <2> SUFFICES
      ASSUME NEW d \in DB, NEW kind \in {"create", "start", "replace", "materialize", "release"}, NEW target \in Nat
      PROVE  /\ Operation(d, kind, target) \in OpRow
             /\ Operation(d, kind, target).kind = kind /\ Operation(d, kind, target).state = "pending"
             /\ Operation(d, kind, target).bound = "none" /\ Operation(d, kind, target).rev = d.bnd.rev
             /\ Operation(d, kind, target).target = target /\ ~Operation(d, kind, target).sup
             /\ Operation(d, kind, target).made = 0 /\ ~Operation(d, kind, target).job
             /\ Operation(d, kind, target).wait = 0
    BY DEF OperationIsRow
  <2>1. d.bnd.rev \in Nat
    BY <1>DBFields DEF BndRow, DBFields
  <2> QED BY <2>1 DEF Operation, OpRow
<1>OpsAdded. OpsAdded
  <2> SUFFICES
      ASSUME NEW d \in DB, NEW g \in Seq(OpRow)
      PROVE  LET d1 == [d EXCEPT !.ops = d.ops \o g] IN
             /\ LifeOnly(d, d1) /\ d1.bnd = d.bnd /\ d1.q = d.q
             /\ OpIds(d1) = 1..(Len(d.ops) + Len(g))
             /\ \A o \in OpIds(d) : d1.ops[o] = d.ops[o]
             /\ \A i \in 1..Len(g) : d1.ops[Len(d.ops) + i] = g[i]
    BY DEF OpsAdded
  <2> DEFINE f == d.ops \o g
             d1 == [d EXCEPT !.ops = f]
  <2>1. d.ops \in Seq(OpRow) /\ Len(d.ops) \in Nat /\ OpIds(d) = 1..Len(d.ops) /\ Len(g) \in Nat
    BY <1>DBFields, SMTT(30) DEF DBFields
  <2>2. /\ f \in Seq(OpRow) /\ Len(f) = Len(d.ops) + Len(g)
        /\ \A o \in 1..Len(d.ops) : f[o] = d.ops[o]
        /\ \A i \in 1..Len(g) : f[Len(d.ops) + i] = g[i]
    BY <2>1, SMTT(30)
  <2> HIDE DEF f
  <2>3. d1 \in DB
    BY <2>2 DEF DB
  <2>4. /\ d1.ops = f /\ d1.bnd = d.bnd /\ d1.q = d.q /\ d1.session = d.session
        /\ d1.desired = d.desired /\ d1.artifact = d.artifact /\ d1.ex = d.ex
    BY DEF DB
  <2> HIDE DEF d1
  <2>5. LifeOnly(d, d1)
    BY <2>1, <2>2, <2>3, <2>4, SMTT(30) DEF LifeOnly
  <2>6. OpIds(d1) = 1..(Len(d.ops) + Len(g))
    BY <2>2, <2>4 DEF OpIds
  <2> QED BY <2>1, <2>2, <2>4, <2>5, <2>6 DEF d1, f
<1>InsertOpIs. InsertOpIs
  <2> SUFFICES
      ASSUME NEW d \in DB, NEW op \in OpRow
      PROVE  LET d2 == InsertOp(d, op)
                 n == Len(d.ops) + 1
             IN /\ LifeOnly(d, d2) /\ d2.bnd = d.bnd
                /\ Len(d2.ops) = n /\ OpIds(d2) = OpIds(d) \cup {n} /\ n \notin OpIds(d)
                /\ \A o \in OpIds(d) : d2.ops[o] = d.ops[o]
                /\ d2.ops[n] = IF op.state = "waiting_artifact" THEN op ELSE [op EXCEPT !.job = TRUE]
                /\ Queued(d, d2, IF op.state = "waiting_artifact" THEN {} ELSE {n})
    BY DEF InsertOpIs
  <2> DEFINE n == Len(d.ops) + 1
             d1 == [d EXCEPT !.ops = Append(d.ops, op)]
             d2 == InsertOp(d, op)
  <2>1. Len(d.ops) \in Nat /\ OpIds(d) = 1..Len(d.ops) /\ d.ops \in Seq(OpRow)
    BY <1>DBFields DEF DBFields
  <2>2. <<op>> \in Seq(OpRow) /\ Len(<<op>>) = 1 /\ <<op>>[1] = op
    BY SMTT(30)
  <2>3. Append(d.ops, op) = d.ops \o <<op>>
    BY <2>1, SMTT(30)
  <2>4. /\ LifeOnly(d, d1) /\ d1.bnd = d.bnd /\ d1.q = d.q /\ OpIds(d1) = 1..n
        /\ \A o \in OpIds(d) : d1.ops[o] = d.ops[o]
        /\ d1.ops[n] = op
    <3> DEFINE g == <<op>>
    <3>1. g \in Seq(OpRow) /\ Len(g) = 1 /\ g[1] = op
      BY <2>2
    <3>2. d1 = [d EXCEPT !.ops = d.ops \o g]
      BY <2>3
    <3> HIDE DEF g, d1
    <3>3. /\ LifeOnly(d, d1) /\ d1.bnd = d.bnd /\ d1.q = d.q /\ OpIds(d1) = 1..(Len(d.ops) + Len(g))
          /\ \A o \in OpIds(d) : d1.ops[o] = d.ops[o]
          /\ \A i \in 1..Len(g) : d1.ops[Len(d.ops) + i] = g[i]
      BY <3>1, <3>2, <1>OpsAdded DEF OpsAdded
    <3> QED BY <3>1, <3>3, SMTT(30)
  <2>5. d1 \in DB /\ Len(d1.ops) = n
    <3>1. d1 \in DB
      BY <2>4 DEF LifeOnly
    <3>2. Len(d1.ops) \in Nat /\ OpIds(d1) = 1..Len(d1.ops)
      BY <3>1, <1>DBFields DEF DBFields
    <3>3. d1.ops = Append(d.ops, op)
      BY DEF DB
    <3> QED BY <2>1, <3>1, <3>3, SMTT(30)
  <2>6. OpIds(d1) = OpIds(d) \cup {n} /\ n \notin OpIds(d)
    BY <2>1, <2>4, SMTT(30)
  <2>7. d2 = IF op.state = "waiting_artifact" THEN d1 ELSE QueueOps(d1, {n})
    BY <2>5, SMTT(30) DEF InsertOp
  <2> HIDE DEF d1, d2
  <2>8. CASE op.state = "waiting_artifact"
    <3>1. Queued(d, d2, {})
      BY <2>4, <2>7, <2>8 DEF Queued
    <3> QED BY <2>4, <2>5, <2>6, <2>7, <2>8, <3>1 DEF d2
  <2>9. CASE op.state # "waiting_artifact"
    <3>0. {n} \in SUBSET OpIds(d1)
      BY <2>6
    <3>1. /\ LifeOnly(d1, d2) /\ d2.bnd = d1.bnd /\ OpIds(d2) = OpIds(d1)
          /\ \A o \in OpIds(d1) : d2.ops[o] = IF o \in {n} THEN [d1.ops[o] EXCEPT !.job = TRUE] ELSE d1.ops[o]
          /\ Queued(d1, d2, {n})
      BY <2>5, <2>7, <2>9, <3>0, <1>QueueOpsIs, SMTT(30) DEF QueueOpsIs
    <3>2. LifeOnly(d, d2)
      BY <2>4, <3>1, <1>LifeOnlyTrans DEF LifeOnlyTrans
    <3>3. Queued(d, d2, {n})
      BY <2>4, <3>1 DEF Queued
    <3>4. d2.ops[n] = [op EXCEPT !.job = TRUE] /\ \A o \in OpIds(d) : d2.ops[o] = d.ops[o]
      BY <2>4, <2>6, <3>1
    <3>5. Len(d2.ops) = n
      <4>1. d2 \in DB
        BY <3>2 DEF LifeOnly
      <4>2. Len(d2.ops) \in Nat /\ 1..Len(d2.ops) = 1..n /\ n \in Nat
        BY <2>1, <2>4, <3>1, <4>1, <1>DBFields, SMTT(30) DEF DBFields
      <4> HIDE DEF n
      <4> QED BY <4>2, SMTT(30)
    <3> QED BY <2>4, <2>6, <2>9, <3>1, <3>2, <3>3, <3>4, <3>5 DEF d2
  <2> QED BY <2>8, <2>9
<1> QED BY <1>PartitionFacts, <1>DBFields, <1>OpIdsFinite, <1>LifeOnlyRefl, <1>LifeOnlyTrans, <1>OpsReplaced,
   <1>SetOpIs, <1>SetBndIs, <1>SetQIs, <1>JobsAdded, <1>QueueOpsIs, <1>OperationIsRow, <1>OpsAdded,
   <1>InsertOpIs DEF RowFacts

-----------------------------------------------------------------------------
(* Operations: new ones, successors, and changes of state.                 *)

\* The reasons of a release.
Reasons == {"none", "replaced_handle", "session_delete"}

\* The release that supersedes op for this reason.
Successor(d, op, reason) ==
  [Operation(d, "release", op.target) EXCEPT !.reason = StrongerReason(op.reason, reason)]

\* The states of an operation.
OpStates == {"pending", "waiting_artifact", "waiting_activation", "running", "completed", "failed",
             "abandoned", "skipped_cold", "deleted"}

\* The bounds of a release: what is known of its call to the provider.
Bounds == {"none", "submitted", "outcome_unknown", "proved_not_started"}

\* The pending releases that nothing blocks and that have no job.
Ready(d) == {r \in OpIds(d) : PendingRelease(d, r) /\ ~Blocked(d, r) /\ ~HasJob(d, Life, r)}

\* The queue without the jobs of R that nobody has leased.
Cancelled(s, R) == Kept(s, {i \in DOMAIN s : s[i].ref \notin R \/ s[i].st = "leased"})

\* The successor of a release.
SuccessorIsRow ==
  \A d \in DB, op \in OpRow, reason \in Reasons :
    /\ Successor(d, op, reason) \in OpRow
    /\ Successor(d, op, reason).kind = "release" /\ Successor(d, op, reason).state = "pending"
    /\ Successor(d, op, reason).bound = "none" /\ Successor(d, op, reason).rev = d.bnd.rev
    /\ Successor(d, op, reason).target = op.target /\ ~Successor(d, op, reason).sup
    /\ Successor(d, op, reason).made = 0

\* Every release of S is superseded by one that comes at the end, with its job.
SupersedeIs ==
  \A d \in DB : \A S \in SUBSET OpIds(d), reason \in Reasons :
    LET d2 == Supersede(d, S, reason)
        n == Len(d.ops)
        m == Cardinality(S)
    IN /\ m \in Nat
       /\ LifeOnly(d, d2) /\ d2.bnd = d.bnd /\ OpIds(d2) = 1..(n + m)
       /\ \A o \in OpIds(d) : d2.ops[o] = IF o \in S THEN [d.ops[o] EXCEPT !.sup = TRUE] ELSE d.ops[o]
       /\ \A i \in 1..m : /\ n + i \in OpIds(d2) /\ n + i \notin OpIds(d)
                          /\ d2.ops[n + i] = [Successor(d, d.ops[InOrder(S)[i]], reason) EXCEPT !.job = TRUE]
       /\ Queued(d, d2, (n + 1)..(n + m))

\* ReadyReleases queues the pending releases that nothing blocks, and changes
\* nothing else.
ReadyReleasesIs ==
  \A d \in DB :
    LET d2 == ReadyReleases(d) IN
    /\ LifeOnly(d, d2) /\ d2.bnd = d.bnd /\ OpIds(d2) = OpIds(d)
    /\ \A o \in OpIds(d) : d2.ops[o] = IF o \in Ready(d) THEN [d.ops[o] EXCEPT !.job = TRUE] ELSE d.ops[o]
    /\ Queued(d, d2, Ready(d))

\* Only the binding changes, and only when the handle of a deleted Session is
\* gone.
ApplyPostconditionIs ==
  \A d \in DB : \A h, reason :
    LET d2 == ApplyPostcondition(d, h, reason) IN
    /\ LifeOnly(d, d2) /\ OpIds(d2) = OpIds(d) /\ d2.ops = d.ops /\ d2.q = d.q
    /\ d2.bnd = IF h = d.bnd.handle /\ reason = "session_delete"
                THEN [d.bnd EXCEPT !.handle = 0, !.rev = @ + 1, !.mat = 0] ELSE d.bnd

\* SetStates changes the states of the given operations only.
SetStatesIs ==
  \A d \in DB : \A S : \A state \in OpStates :
    LET d2 == SetStates(d, S, state) IN
    /\ LifeOnly(d, d2) /\ d2.bnd = d.bnd /\ OpIds(d2) = OpIds(d) /\ d2.q = d.q
    /\ \A o \in OpIds(d) : d2.ops[o] = IF o \in S THEN [d.ops[o] EXCEPT !.state = state] ELSE d.ops[o]

\* Cancelling reaches no leased job and no other name.
CancelledIs ==
  \A s \in Seq(JobRow) : \A R :
    /\ Cancelled(s, R) \in Seq(JobRow)
    /\ \A x : Named(Cancelled(s, R), x) => Named(s, x)
    /\ \A x : x \notin R => (Named(Cancelled(s, R), x) <=> Named(s, x))
    /\ \A x : Held(Cancelled(s, R), x) <=> Held(s, x)
    /\ Distinct(s) => Distinct(Cancelled(s, R))

\* What CancelPending does to the lifecycle's partition.
CancelPendingIs ==
  \A d \in DB : \A R :
    LET d2 == CancelPending(d, Life, R) IN
    /\ LifeOnly(d, d2) /\ d2.bnd = d.bnd /\ OpIds(d2) = OpIds(d) /\ d2.ops = d.ops
    /\ d2.q[Life] = Cancelled(d.q[Life], R)

\* What RemoveJob does to a partition.
RemoveJobIs ==
  \A d \in DB, p \in Partitions : \A r :
    LET d2 == RemoveJob(d, p, r) IN
    /\ d2 \in DB /\ OpIds(d2) = OpIds(d) /\ d2.q[p] = Removed(d.q[p], r)
    /\ \A x \in Partitions : x # p => d2.q[x] = d.q[x]
    /\ d2.bnd = d.bnd /\ d2.ops = d.ops /\ d2.session = d.session /\ d2.desired = d.desired
    /\ d2.artifact = d.artifact /\ d2.ex = d.ex
    /\ p = Life => LifeOnly(d, d2)

\* What SetJob does to a partition.
SetJobIs ==
  \A d \in DB, p \in Partitions : \A r : \A st \in {"due", "backoff"} :
    LET d2 == SetJob(d, p, r, st) IN
    /\ d2 \in DB /\ OpIds(d2) = OpIds(d) /\ d2.q[p] = Marked(d.q[p], r, st)
    /\ \A x \in Partitions : x # p => d2.q[x] = d.q[x]
    /\ d2.bnd = d.bnd /\ d2.ops = d.ops /\ d2.session = d.session /\ d2.desired = d.desired
    /\ d2.artifact = d.artifact /\ d2.ex = d.ex
    /\ p = Life => LifeOnly(d, d2)

\* What Enqueue does to a partition.
EnqueueIs ==
  \A d \in DB, p \in Partitions, r \in Nat \ {0} :
    LET d2 == Enqueue(d, p, r) IN
    /\ d2 \in DB /\ OpIds(d2) = OpIds(d) /\ d2.q[p] = Added(d.q[p], r)
    /\ \A x \in Partitions : x # p => d2.q[x] = d.q[x]
    /\ d2.bnd = d.bnd /\ d2.ops = d.ops /\ d2.session = d.session /\ d2.desired = d.desired
    /\ d2.artifact = d.artifact /\ d2.ex = d.ex

\* The facts about operations.
OperationFacts ==
  /\ SuccessorIsRow /\ SupersedeIs /\ ReadyReleasesIs /\ ApplyPostconditionIs /\ SetStatesIs
  /\ CancelledIs /\ CancelPendingIs /\ RemoveJobIs /\ SetJobIs /\ EnqueueIs

\* These facts hold.
LEMMA OperationFactsHold == ASSUME OrderFacts PROVE OperationFacts
<1>SuccessorIsRow. SuccessorIsRow
  <2> SUFFICES
      ASSUME NEW d \in DB, NEW op \in OpRow, NEW reason \in Reasons
      PROVE  /\ Successor(d, op, reason) \in OpRow
             /\ Successor(d, op, reason).kind = "release" /\ Successor(d, op, reason).state = "pending"
             /\ Successor(d, op, reason).bound = "none" /\ Successor(d, op, reason).rev = d.bnd.rev
             /\ Successor(d, op, reason).target = op.target /\ ~Successor(d, op, reason).sup
             /\ Successor(d, op, reason).made = 0
    BY DEF SuccessorIsRow
  <2> DEFINE x == Operation(d, "release", op.target)
             y == StrongerReason(op.reason, reason)
  <2>1. op.target \in Nat /\ op.reason \in Reasons
    BY DEF OpRow, Reasons
  <2>2. /\ x \in OpRow /\ x.kind = "release" /\ x.state = "pending" /\ x.bound = "none" /\ x.rev = d.bnd.rev
        /\ x.target = op.target /\ ~x.sup /\ x.made = 0
    BY <2>1, RowFactsHold, SMTT(30) DEF RowFacts, OperationIsRow
  <2>3. y \in Reasons
    BY <2>1 DEF StrongerReason
  <2> HIDE DEF x, y
  <2>4. /\ [x EXCEPT !.reason = y] \in OpRow
        /\ [x EXCEPT !.reason = y].kind = x.kind /\ [x EXCEPT !.reason = y].state = x.state
        /\ [x EXCEPT !.reason = y].bound = x.bound /\ [x EXCEPT !.reason = y].rev = x.rev
        /\ [x EXCEPT !.reason = y].target = x.target /\ [x EXCEPT !.reason = y].sup = x.sup
        /\ [x EXCEPT !.reason = y].made = x.made
    BY <2>2, <2>3 DEF OpRow, Reasons
  <2>5. Successor(d, op, reason) = [x EXCEPT !.reason = y]
    BY DEF Successor, x, y
  <2> QED BY <2>2, <2>4, <2>5
<1>SupersedeIs. SupersedeIs
  <2> SUFFICES
      ASSUME NEW d \in DB, NEW S \in SUBSET OpIds(d), NEW reason \in Reasons
      PROVE  LET d2 == Supersede(d, S, reason)
                 n == Len(d.ops)
                 m == Cardinality(S)
             IN /\ m \in Nat
                /\ LifeOnly(d, d2) /\ d2.bnd = d.bnd /\ OpIds(d2) = 1..(n + m)
                /\ \A o \in OpIds(d) : d2.ops[o] = IF o \in S THEN [d.ops[o] EXCEPT !.sup = TRUE] ELSE d.ops[o]
                /\ \A i \in 1..m : /\ n + i \in OpIds(d2) /\ n + i \notin OpIds(d)
                                   /\ d2.ops[n + i] = [Successor(d, d.ops[InOrder(S)[i]], reason) EXCEPT !.job = TRUE]
                /\ Queued(d, d2, (n + 1)..(n + m))
    BY DEF SupersedeIs
  <2> DEFINE d2 == Supersede(d, S, reason)
             n == Len(d.ops)
             m == Cardinality(S)
             old == InOrder(S)
             f == [o \in OpIds(d) |-> IF o \in S THEN [d.ops[o] EXCEPT !.sup = TRUE] ELSE d.ops[o]]
             g == [i \in 1..m |-> Successor(d, d.ops[old[i]], reason)]
             d0 == [d EXCEPT !.ops = f]
             d1 == [d0 EXCEPT !.ops = f \o g]
  <2>1. n \in Nat /\ OpIds(d) = 1..n
    BY RowFactsHold DEF RowFacts, DBFields
  <2>2. m \in Nat /\ old \in [1..m -> S] /\ DOMAIN old = 1..m /\ Len(old) = m
    <3>1. IsFiniteSet(S) /\ S \subseteq Nat
      BY RowFactsHold DEF RowFacts, OpIdsFinite, OrderFacts, SubsetsFinite
    <3>2. m \in Nat /\ old \in [1..m -> S]
      BY <3>1 DEF OrderFacts, InOrderOnto
    <3> HIDE DEF m, old
    <3> QED BY <3>2, SequenceFactsHold DEF SequenceFacts, FunctionIsSeq
  <2>3. f \in [OpIds(d) -> OpRow]
    <3>1. \A x \in OpRow : [x EXCEPT !.sup = TRUE] \in OpRow
      BY DEF OpRow
    <3> QED BY <3>1, RowFactsHold DEF RowFacts, DBFields
  <2>4. g \in Seq(OpRow) /\ Len(g) = m
    <3> HIDE DEF m, old
    <3>1. \A i \in 1..m : d.ops[old[i]] \in OpRow
      BY <2>2, RowFactsHold DEF RowFacts, DBFields
    <3>2. \A i \in 1..m : Successor(d, d.ops[old[i]], reason) \in OpRow
      BY <3>1, <1>SuccessorIsRow DEF SuccessorIsRow
    <3>3. g \in [1..m -> OpRow]
      BY <3>2
    <3> HIDE DEF g
    <3> QED BY <2>2, <3>3, SequenceFactsHold DEF SequenceFacts, FunctionIsSeq
  <2>5. d2 = QueueOps(d1, (n + 1)..(n + m))
    <3>1. d1 = [d EXCEPT !.ops = f \o g]
      BY DEF DB
    <3>2. g = [i \in DOMAIN old |-> [Operation(d, "release", d.ops[old[i]].target)
                      EXCEPT !.reason = StrongerReason(d.ops[old[i]].reason, reason)]]
      BY <2>2, ZenonT(60) DEF Successor
    <3> QED BY <2>2, <3>1, <3>2, ZenonT(60) DEF Supersede
  <2>6. /\ LifeOnly(d, d0) /\ OpIds(d0) = OpIds(d) /\ d0.ops = f /\ d0.bnd = d.bnd /\ d0.q = d.q
        /\ d0 \in DB
    <3> HIDE DEF f
    <3> QED BY <2>3, RowFactsHold DEF LifeOnly, RowFacts, OpsReplaced
  <2>7. f \in Seq(OpRow) /\ Len(f) = n
    BY <2>1, <2>3, SequenceFactsHold DEF SequenceFacts, FunctionIsSeq
  <2> HIDE DEF f, d0
  <2>8. \A i \in 1..m : g[i] = Successor(d, d.ops[old[i]], reason)
    OBVIOUS
  <2> HIDE DEF g, n, m, old
  <2>9. /\ LifeOnly(d0, d1) /\ d1.bnd = d0.bnd /\ d1.q = d0.q
        /\ OpIds(d1) = 1..(n + m)
        /\ \A o \in OpIds(d0) : d1.ops[o] = f[o]
        /\ \A i \in 1..m : d1.ops[n + i] = g[i]
    <3>1. d1 = [d0 EXCEPT !.ops = d0.ops \o g]
      BY <2>6
    <3> HIDE DEF d1
    <3>2. /\ LifeOnly(d0, d1) /\ d1.bnd = d0.bnd /\ d1.q = d0.q
          /\ OpIds(d1) = 1..(Len(d0.ops) + Len(g))
          /\ \A o \in OpIds(d0) : d1.ops[o] = d0.ops[o]
          /\ \A i \in 1..Len(g) : d1.ops[Len(d0.ops) + i] = g[i]
      BY <2>4, <2>6, <3>1, RowFactsHold DEF RowFacts, OpsAdded
    <3> QED BY <2>4, <2>6, <2>7, <3>2
  <2> HIDE DEF d1, d2
  <2>10. d1 \in DB /\ (n + 1)..(n + m) \in SUBSET OpIds(d1)
    BY <2>1, <2>2, <2>9, SMTT(30) DEF LifeOnly
  <2>11. /\ LifeOnly(d1, d2) /\ d2.bnd = d1.bnd /\ OpIds(d2) = OpIds(d1)
         /\ \A o \in OpIds(d1) : d2.ops[o] = IF o \in (n + 1)..(n + m) THEN [d1.ops[o] EXCEPT !.job = TRUE] ELSE d1.ops[o]
         /\ Queued(d1, d2, (n + 1)..(n + m))
    <3> DEFINE B == (n + 1)..(n + m)
    <3>1. B \in SUBSET OpIds(d1) /\ d2 = QueueOps(d1, B)
      BY <2>5, <2>10
    <3> HIDE DEF B
    <3>2. /\ LifeOnly(d1, d2) /\ d2.bnd = d1.bnd /\ OpIds(d2) = OpIds(d1)
          /\ \A o \in OpIds(d1) : d2.ops[o] = IF o \in B THEN [d1.ops[o] EXCEPT !.job = TRUE] ELSE d1.ops[o]
          /\ Queued(d1, d2, B)
      BY <2>10, <3>1, RowFactsHold, SMTT(30) DEF RowFacts, QueueOpsIs
    <3> QED BY <3>2 DEF B
  <2>12. LifeOnly(d, d2)
    BY <2>6, <2>9, <2>11, RowFactsHold, SMTT(30) DEF LifeOnly, RowFacts, LifeOnlyTrans
  <2>13. \A o \in OpIds(d) : d2.ops[o] = IF o \in S THEN [d.ops[o] EXCEPT !.sup = TRUE] ELSE d.ops[o]
    <3>1. \A o \in OpIds(d) : o \in OpIds(d1) /\ o \notin (n + 1)..(n + m)
      BY <2>1, <2>2, <2>9, SMTT(30)
    <3> QED BY <2>6, <2>9, <2>11, <3>1 DEF f
  <2>14. \A i \in 1..m : /\ n + i \in OpIds(d2) /\ n + i \notin OpIds(d) /\ n + i \in (n + 1)..(n + m)
    BY <2>1, <2>2, <2>9, <2>11, SMTT(30)
  <2>15. \A i \in 1..m : d2.ops[n + i] = [Successor(d, d.ops[old[i]], reason) EXCEPT !.job = TRUE]
    BY <2>8, <2>9, <2>11, <2>14, SMTT(30)
  <2>16. Queued(d, d2, (n + 1)..(n + m))
    BY <2>6, <2>9, <2>11 DEF Queued
  <2> QED BY <2>2, <2>6, <2>9, <2>11, <2>12, <2>13, <2>14, <2>15, <2>16 DEF d2, n, m, old
<1>ReadyReleasesIs. ReadyReleasesIs
  <2> SUFFICES
      ASSUME NEW d \in DB
      PROVE  LET d2 == ReadyReleases(d) IN
             /\ LifeOnly(d, d2) /\ d2.bnd = d.bnd /\ OpIds(d2) = OpIds(d)
             /\ \A o \in OpIds(d) : d2.ops[o] = IF o \in Ready(d) THEN [d.ops[o] EXCEPT !.job = TRUE] ELSE d.ops[o]
             /\ Queued(d, d2, Ready(d))
    BY DEF ReadyReleasesIs
  <2>1. Ready(d) \in SUBSET OpIds(d) /\ ReadyReleases(d) = QueueOps(d, Ready(d))
    BY DEF Ready, ReadyReleases
  <2> QED BY <2>1, RowFactsHold, SMTT(30) DEF RowFacts, QueueOpsIs
<1>ApplyPostconditionIs. ApplyPostconditionIs
  <2> SUFFICES
      ASSUME NEW d \in DB, NEW h, NEW reason
      PROVE  LET d2 == ApplyPostcondition(d, h, reason) IN
             /\ LifeOnly(d, d2) /\ OpIds(d2) = OpIds(d) /\ d2.ops = d.ops /\ d2.q = d.q
             /\ d2.bnd = IF h = d.bnd.handle /\ reason = "session_delete"
                         THEN [d.bnd EXCEPT !.handle = 0, !.rev = @ + 1, !.mat = 0] ELSE d.bnd
    BY DEF ApplyPostconditionIs
  <2> DEFINE b == [d.bnd EXCEPT !.handle = 0, !.rev = @ + 1, !.mat = 0]
  <2>1. d.bnd \in BndRow
    BY RowFactsHold DEF RowFacts, DBFields
  <2>2. b \in BndRow
    <3>1. d.bnd.rev \in Nat /\ d.bnd.rev + 1 \in Nat
      BY <2>1, SMTT(30) DEF BndRow
    <3>2. \A x \in BndRow, n \in Nat : [x EXCEPT !.handle = 0, !.rev = n, !.mat = 0] \in BndRow
      BY DEF BndRow
    <3> QED BY <2>1, <3>1, <3>2
  <2>3. ApplyPostcondition(d, h, reason) = IF h = d.bnd.handle /\ reason = "session_delete"
                                           THEN SetBnd(d, b) ELSE d
    BY DEF ApplyPostcondition
  <2> HIDE DEF b
  <2>4. /\ LifeOnly(d, SetBnd(d, b)) /\ OpIds(SetBnd(d, b)) = OpIds(d)
        /\ SetBnd(d, b).bnd = b /\ SetBnd(d, b).ops = d.ops /\ SetBnd(d, b).q = d.q
    BY <2>2, RowFactsHold DEF RowFacts, SetBndIs
  <2>5. b = [d.bnd EXCEPT !.handle = 0, !.rev = @ + 1, !.mat = 0]
    BY DEF b
  <2> QED BY <2>3, <2>4, <2>5, RowFactsHold DEF RowFacts, LifeOnlyRefl
<1>SetStatesIs. SetStatesIs
  <2> SUFFICES
      ASSUME NEW d \in DB, NEW S, NEW state \in OpStates
      PROVE  LET d2 == SetStates(d, S, state) IN
             /\ LifeOnly(d, d2) /\ d2.bnd = d.bnd /\ OpIds(d2) = OpIds(d) /\ d2.q = d.q
             /\ \A o \in OpIds(d) : d2.ops[o] = IF o \in S THEN [d.ops[o] EXCEPT !.state = state] ELSE d.ops[o]
    BY DEF SetStatesIs
  <2> DEFINE f == [o \in OpIds(d) |-> IF o \in S THEN [d.ops[o] EXCEPT !.state = state] ELSE d.ops[o]]
  <2>1. f \in [OpIds(d) -> OpRow]
    <3>1. \A x \in OpRow : [x EXCEPT !.state = state] \in OpRow
      BY DEF OpRow, OpStates
    <3> QED BY <3>1, RowFactsHold DEF RowFacts, DBFields
  <2>2. SetStates(d, S, state) = [d EXCEPT !.ops = f]
    BY DEF SetStates
  <2>3. \A o \in OpIds(d) : f[o] = IF o \in S THEN [d.ops[o] EXCEPT !.state = state] ELSE d.ops[o]
    OBVIOUS
  <2> HIDE DEF f
  <2>4. /\ LifeOnly(d, [d EXCEPT !.ops = f]) /\ OpIds([d EXCEPT !.ops = f]) = OpIds(d)
        /\ [d EXCEPT !.ops = f].ops = f
        /\ [d EXCEPT !.ops = f].bnd = d.bnd /\ [d EXCEPT !.ops = f].q = d.q
    BY <2>1, RowFactsHold DEF RowFacts, OpsReplaced
  <2> QED BY <2>2, <2>3, <2>4
<1>CancelledIs. CancelledIs
  <2> SUFFICES
      ASSUME NEW s \in Seq(JobRow), NEW R
      PROVE  /\ Cancelled(s, R) \in Seq(JobRow)
             /\ \A x : Named(Cancelled(s, R), x) => Named(s, x)
             /\ \A x : x \notin R => (Named(Cancelled(s, R), x) <=> Named(s, x))
             /\ \A x : Held(Cancelled(s, R), x) <=> Held(s, x)
             /\ Distinct(s) => Distinct(Cancelled(s, R))
    BY DEF CancelledIs
  <2> DEFINE I == {i \in DOMAIN s : s[i].ref \notin R \/ s[i].st = "leased"}
  <2>0. I \in SUBSET (DOMAIN s)
    OBVIOUS
  <2>1. /\ Cancelled(s, R) \in Seq(JobRow)
        /\ \A x : Named(Cancelled(s, R), x) <=> \E j \in I : s[j].ref = x
        /\ \A x : Held(Cancelled(s, R), x) <=> \E j \in I : s[j].ref = x /\ s[j].st = "leased"
        /\ Distinct(s) => Distinct(Cancelled(s, R))
    <3> HIDE DEF I
    <3>1. Cancelled(s, R) = Kept(s, I)
      BY DEF Cancelled, I
    <3> QED BY <2>0, <3>1, SequenceFactsHold, SMTT(30) DEF SequenceFacts, KeptJobs
  <2>2. \A x : Named(Cancelled(s, R), x) => Named(s, x)
    BY <2>1 DEF Named
  <2>3. \A x : x \notin R /\ Named(s, x) => Named(Cancelled(s, R), x)
    BY <2>1 DEF Named
  <2>4. \A x : Held(Cancelled(s, R), x) <=> Held(s, x)
    BY <2>1, ZenonT(60) DEF Held
  <2> QED BY <2>1, <2>2, <2>3, <2>4
<1>CancelPendingIs. CancelPendingIs
  <2> SUFFICES
      ASSUME NEW d \in DB, NEW R
      PROVE  LET d2 == CancelPending(d, Life, R) IN
             /\ LifeOnly(d, d2) /\ d2.bnd = d.bnd /\ OpIds(d2) = OpIds(d) /\ d2.ops = d.ops
             /\ d2.q[Life] = Cancelled(d.q[Life], R)
    BY DEF CancelPendingIs
  <2>1. d.q[Life] \in Seq(JobRow) /\ Life \in Partitions
    BY RowFactsHold DEF RowFacts, DBFields, PartitionFacts
  <2>2. Cancelled(d.q[Life], R) \in Seq(JobRow)
    BY <2>1, <1>CancelledIs DEF CancelledIs
  <2>3. CancelPending(d, Life, R) = SetQ(d, Life, Cancelled(d.q[Life], R))
    BY DEF CancelPending, SetQ, Cancelled
  <2> QED BY <2>1, <2>2, <2>3, RowFactsHold, SMTT(30) DEF RowFacts, SetQIs
<1>RemoveJobIs. RemoveJobIs
  <2> SUFFICES
      ASSUME NEW d \in DB, NEW p \in Partitions, NEW r
      PROVE  LET d2 == RemoveJob(d, p, r) IN
             /\ d2 \in DB /\ OpIds(d2) = OpIds(d) /\ d2.q[p] = Removed(d.q[p], r)
             /\ \A x \in Partitions : x # p => d2.q[x] = d.q[x]
             /\ d2.bnd = d.bnd /\ d2.ops = d.ops /\ d2.session = d.session /\ d2.desired = d.desired
             /\ d2.artifact = d.artifact /\ d2.ex = d.ex
             /\ p = Life => LifeOnly(d, d2)
    BY DEF RemoveJobIs
  <2>1. d.q[p] \in Seq(JobRow)
    BY RowFactsHold DEF RowFacts, DBFields
  <2>2. Removed(d.q[p], r) \in Seq(JobRow)
    BY <2>1, SequenceFactsHold DEF SequenceFacts, RemovedIs
  <2>3. RemoveJob(d, p, r) = SetQ(d, p, Removed(d.q[p], r))
    BY DEF RemoveJob, SetQ, Removed
  <2> QED BY <2>2, <2>3, RowFactsHold, SMTT(30) DEF RowFacts, SetQIs
<1>SetJobIs. SetJobIs
  <2> SUFFICES
      ASSUME NEW d \in DB, NEW p \in Partitions, NEW r, NEW st \in {"due", "backoff"}
      PROVE  LET d2 == SetJob(d, p, r, st) IN
             /\ d2 \in DB /\ OpIds(d2) = OpIds(d) /\ d2.q[p] = Marked(d.q[p], r, st)
             /\ \A x \in Partitions : x # p => d2.q[x] = d.q[x]
             /\ d2.bnd = d.bnd /\ d2.ops = d.ops /\ d2.session = d.session /\ d2.desired = d.desired
             /\ d2.artifact = d.artifact /\ d2.ex = d.ex
             /\ p = Life => LifeOnly(d, d2)
    BY DEF SetJobIs
  <2>1. d.q[p] \in Seq(JobRow)
    BY RowFactsHold DEF RowFacts, DBFields
  <2>2. Marked(d.q[p], r, st) \in Seq(JobRow)
    BY <2>1, SequenceFactsHold DEF SequenceFacts, MarkedIs
  <2>3. SetJob(d, p, r, st) = SetQ(d, p, Marked(d.q[p], r, st))
    BY DEF SetJob, SetQ, Marked
  <2> QED BY <2>2, <2>3, RowFactsHold, SMTT(30) DEF RowFacts, SetQIs
<1>EnqueueIs. EnqueueIs
  <2> SUFFICES
      ASSUME NEW d \in DB, NEW p \in Partitions, NEW r \in Nat \ {0}
      PROVE  LET d2 == Enqueue(d, p, r) IN
             /\ d2 \in DB /\ OpIds(d2) = OpIds(d) /\ d2.q[p] = Added(d.q[p], r)
             /\ \A x \in Partitions : x # p => d2.q[x] = d.q[x]
             /\ d2.bnd = d.bnd /\ d2.ops = d.ops /\ d2.session = d.session /\ d2.desired = d.desired
             /\ d2.artifact = d.artifact /\ d2.ex = d.ex
    BY DEF EnqueueIs
  <2>1. d.q[p] \in Seq(JobRow)
    BY RowFactsHold DEF RowFacts, DBFields
  <2>2. Added(d.q[p], r) \in Seq(JobRow)
    BY <2>1, SequenceFactsHold DEF SequenceFacts, AddedIs
  <2>3. Enqueue(d, p, r) = SetQ(d, p, Added(d.q[p], r))
    BY DEF Enqueue, SetQ
  <2> QED BY <2>2, <2>3, RowFactsHold, SMTT(30) DEF RowFacts, SetQIs
<1> QED BY <1>SuccessorIsRow, <1>SupersedeIs, <1>ReadyReleasesIs, <1>ApplyPostconditionIs, <1>SetStatesIs,
   <1>CancelledIs, <1>CancelPendingIs, <1>RemoveJobIs, <1>SetJobIs, <1>EnqueueIs DEF OperationFacts

-----------------------------------------------------------------------------
(* The rows of the executions.                                             *)

\* The outcomes of an execution.
Outs == {"none", "failed", "notstarted", "unknown", "ran", "answered", "expired"}

\* The states of an execution.
ExStates == {"none", "pending", "preparing", "running", "waiting_activation", "waiting_materialization",
             "terminal", "consumed"}

\* Only executions differ.
ExOnly(d, d2) ==
  /\ d2 \in DB /\ d2.session = d.session /\ d2.desired = d.desired /\ d2.artifact = d.artifact
  /\ d2.ops = d.ops /\ d2.bnd = d.bnd /\ d2.q = d.q

\* Executions and queues differ.
SetExQ(d, f, g) == [d EXCEPT !.ex = f, !.q = g]

\* A settled row.
SettleRowIs ==
  \A x \in ExRow, out \in Outs :
    /\ SettleRow(x, out) \in ExRow
    /\ SettleRow(x, out).state = "terminal" /\ SettleRow(x, out).out = out /\ SettleRow(x, out).auth = 0
    /\ SettleRow(x, out).gen = x.gen /\ SettleRow(x, out).cancel = x.cancel
    /\ SettleRow(x, out).task = x.task

\* A released row has the next attempt generation.
ReleaseRowIs ==
  \A x \in ExRow :
    /\ ReleaseRow(x) \in ExRow
    /\ ReleaseRow(x).state = "pending" /\ ReleaseRow(x).out = x.out /\ ReleaseRow(x).auth = x.auth
    /\ ReleaseRow(x).gen = x.gen + 1 /\ ReleaseRow(x).cancel = x.cancel
    /\ ReleaseRow(x).task = x.task

\* A row that waits for a materialization.
AttachRowIs ==
  \A x \in ExRow, m \in Nat :
    /\ AttachRow(x, m) \in ExRow
    /\ AttachRow(x, m).state = "waiting_materialization" /\ AttachRow(x, m).out = x.out
    /\ AttachRow(x, m).gen = x.gen /\ AttachRow(x, m).cancel = x.cancel
    /\ AttachRow(x, m).task = x.task /\ AttachRow(x, m).auth = x.auth

\* A consumed row.
ConsumeIs ==
  \A x \in ExRow, out \in Outs :
    /\ Consume(x, out) \in ExRow
    /\ Consume(x, out).state = "consumed" /\ Consume(x, out).out = out /\ Consume(x, out).auth = 0
    /\ Consume(x, out).gen = x.gen /\ Consume(x, out).cancel = x.cancel
    /\ Consume(x, out).task = x.task

\* An interrupted row: only a running command counts as possibly run.
InterruptRowIs ==
  \A x \in ExRow :
    /\ InterruptRow(x) \in ExRow
    /\ InterruptRow(x).state = "consumed" /\ InterruptRow(x).auth = 0
    /\ InterruptRow(x).out = IF x.state = "running" THEN "unknown" ELSE "notstarted"
    /\ InterruptRow(x).gen = x.gen
    /\ InterruptRow(x).cancel = IF Cancellable(x) THEN "pending" ELSE x.cancel
    /\ InterruptRow(x).task = x.task

\* New rows change nothing but the rows.
ExReplaced ==
  \A d \in DB, f \in [Tools -> ExRow] :
    ExOnly(d, [d EXCEPT !.ex = f]) /\ [d EXCEPT !.ex = f].ex = f

\* SetEx changes one row.
SetExIs ==
  \A d \in DB, e \in Tools, x \in ExRow :
    /\ ExOnly(d, SetEx(d, e, x)) /\ SetEx(d, e, x).ex[e] = x
    /\ \A f \in Tools : f # e => SetEx(d, e, x).ex[f] = d.ex[f]

\* SettleRows settles the given rows.
SettleRowsIs ==
  \A d \in DB : \A W :
    /\ ExOnly(d, SettleRows(d, W))
    /\ \A e \in Tools : SettleRows(d, W).ex[e] = IF e \in W THEN SettleRow(d.ex[e], "failed") ELSE d.ex[e]

\* New rows and new queues.
SetExQIs ==
  \A d \in DB, f \in [Tools -> ExRow], g \in [Partitions -> Seq(JobRow)] :
    /\ SetExQ(d, f, g) \in DB /\ SetExQ(d, f, g).ex = f /\ SetExQ(d, f, g).q = g
    /\ SetExQ(d, f, g).session = d.session /\ SetExQ(d, f, g).desired = d.desired
    /\ SetExQ(d, f, g).artifact = d.artifact /\ SetExQ(d, f, g).ops = d.ops
    /\ SetExQ(d, f, g).bnd = d.bnd

\* ReleaseWaiters gives each waiter its next generation and the job of it.
ReleaseWaitersIs ==
  \A d \in DB, W \in SUBSET Tools :
    LET d2 == ReleaseWaiters(d, W) IN
    /\ d2 \in DB /\ d2.session = d.session /\ d2.desired = d.desired /\ d2.artifact = d.artifact
    /\ d2.ops = d.ops /\ d2.bnd = d.bnd
    /\ d2.q[Life] = d.q[Life] /\ d2.q[Fanout] = d.q[Fanout]
    /\ \A e \in Tools : /\ d2.q[Cancel(e)] = d.q[Cancel(e)]
                        /\ d2.ex[e] = IF e \in W THEN ReleaseRow(d.ex[e]) ELSE d.ex[e]
                        /\ d2.q[Exec(e)] = IF e \in W THEN Added(d.q[Exec(e)], d.ex[e].gen + 1)
                                           ELSE d.q[Exec(e)]

\* The facts about the rows of executions.
ExRowFacts ==
  /\ SettleRowIs /\ ReleaseRowIs /\ AttachRowIs /\ ConsumeIs /\ InterruptRowIs /\ ExReplaced
  /\ SetExIs /\ SettleRowsIs /\ SetExQIs /\ ReleaseWaitersIs

\* These facts hold.
LEMMA ExRowFactsHold == ASSUME OrderFacts PROVE ExRowFacts
<1>SettleRowIs. SettleRowIs
  BY ZenonT(60) DEF SettleRow, ExRow, Outs, SettleRowIs
<1>ReleaseRowIs. ReleaseRowIs
  <2> SUFFICES
      ASSUME NEW x \in ExRow
      PROVE  /\ ReleaseRow(x) \in ExRow
             /\ ReleaseRow(x).state = "pending" /\ ReleaseRow(x).out = x.out /\ ReleaseRow(x).auth = x.auth
             /\ ReleaseRow(x).gen = x.gen + 1 /\ ReleaseRow(x).cancel = x.cancel
             /\ ReleaseRow(x).task = x.task
    BY DEF ReleaseRowIs
  <2>1. x.gen \in Nat /\ x.gen + 1 \in Nat
    BY SMTT(30) DEF ExRow
  <2>2. ReleaseRow(x) = [x EXCEPT !.state = "pending", !.gen = x.gen + 1, !.op = 0]
    BY DEF ReleaseRow, ExRow
  <2> DEFINE n == x.gen + 1
             y == [x EXCEPT !.state = "pending", !.gen = n, !.op = 0]
  <2> HIDE DEF n
  <2>3. /\ y \in ExRow /\ y.state = "pending" /\ y.out = x.out /\ y.auth = x.auth /\ y.gen = n
        /\ y.cancel = x.cancel /\ y.task = x.task
    BY <2>1 DEF ExRow, n
  <2> QED BY <2>2, <2>3 DEF n
<1>AttachRowIs. AttachRowIs
  BY DEF AttachRow, ExRow, AttachRowIs
<1>ConsumeIs. ConsumeIs
  BY ZenonT(60) DEF Consume, ExRow, Outs, ConsumeIs
<1>InterruptRowIs. InterruptRowIs
  <2> SUFFICES
      ASSUME NEW x \in ExRow
      PROVE  /\ InterruptRow(x) \in ExRow
             /\ InterruptRow(x).state = "consumed" /\ InterruptRow(x).auth = 0
             /\ InterruptRow(x).out = IF x.state = "running" THEN "unknown" ELSE "notstarted"
             /\ InterruptRow(x).gen = x.gen
             /\ InterruptRow(x).cancel = IF Cancellable(x) THEN "pending" ELSE x.cancel
             /\ InterruptRow(x).task = x.task
    BY DEF InterruptRowIs
  <2> DEFINE out == IF x.state = "running" THEN "unknown" ELSE "notstarted"
             y == Consume(x, out)
             c == IF Cancellable(x) THEN "pending" ELSE y.cancel
  <2>1. out \in Outs
    BY DEF Outs
  <2>2. /\ y \in ExRow /\ y.state = "consumed" /\ y.out = out /\ y.auth = 0 /\ y.gen = x.gen
        /\ y.cancel = x.cancel /\ y.task = x.task
    <3> HIDE DEF out
    <3> QED BY <2>1, <1>ConsumeIs DEF ConsumeIs
  <2>3. InterruptRow(x) = [y EXCEPT !.cancel = c]
    BY DEF InterruptRow
  <2>4. c \in {"none", "pending", "submitted"}
    <3> HIDE DEF y
    <3> QED BY <2>2 DEF ExRow
  <2> HIDE DEF y, c
  <2>5. /\ [y EXCEPT !.cancel = c] \in ExRow /\ [y EXCEPT !.cancel = c].state = y.state
        /\ [y EXCEPT !.cancel = c].auth = y.auth /\ [y EXCEPT !.cancel = c].out = y.out
        /\ [y EXCEPT !.cancel = c].gen = y.gen /\ [y EXCEPT !.cancel = c].cancel = c
        /\ [y EXCEPT !.cancel = c].task = y.task
    BY <2>2, <2>4 DEF ExRow
  <2> QED BY <2>2, <2>3, <2>5 DEF c
<1>ExReplaced. ExReplaced
  BY DEF DB, ExOnly, ExReplaced
<1>SetExIs. SetExIs
  <2> SUFFICES
      ASSUME NEW d \in DB, NEW e \in Tools, NEW x \in ExRow
      PROVE  /\ ExOnly(d, SetEx(d, e, x)) /\ SetEx(d, e, x).ex[e] = x
             /\ \A f \in Tools : f # e => SetEx(d, e, x).ex[f] = d.ex[f]
    BY DEF SetExIs
  <2> DEFINE f == [d.ex EXCEPT ![e] = x]
  <2>1. f \in [Tools -> ExRow] /\ f[e] = x /\ \A i \in Tools : i # e => f[i] = d.ex[i]
    BY RowFactsHold DEF RowFacts, DBFields
  <2>2. SetEx(d, e, x) = [d EXCEPT !.ex = f]
    BY DEF SetEx
  <2> HIDE DEF f
  <2> QED BY <2>1, <2>2, <1>ExReplaced DEF ExReplaced
<1>SettleRowsIs. SettleRowsIs
  <2> SUFFICES
      ASSUME NEW d \in DB, NEW W
      PROVE  /\ ExOnly(d, SettleRows(d, W))
             /\ \A e \in Tools : SettleRows(d, W).ex[e] = IF e \in W THEN SettleRow(d.ex[e], "failed") ELSE d.ex[e]
    BY DEF SettleRowsIs
  <2> DEFINE f == [e \in Tools |-> IF e \in W THEN SettleRow(d.ex[e], "failed") ELSE d.ex[e]]
  <2>1. \A e \in Tools : d.ex[e] \in ExRow /\ SettleRow(d.ex[e], "failed") \in ExRow
    BY RowFactsHold, <1>SettleRowIs DEF Outs, RowFacts, DBFields, SettleRowIs
  <2>2. f \in [Tools -> ExRow]
    BY <2>1
  <2>3. SettleRows(d, W) = [d EXCEPT !.ex = f]
    BY DEF SettleRows
  <2>4. \A e \in Tools : f[e] = IF e \in W THEN SettleRow(d.ex[e], "failed") ELSE d.ex[e]
    OBVIOUS
  <2> HIDE DEF f
  <2> QED BY <2>2, <2>3, <2>4, <1>ExReplaced DEF ExReplaced
<1>SetExQIs. SetExQIs
  BY ZenonT(60) DEF DB, SetExQ, SetExQIs
<1>ReleaseWaitersIs. ReleaseWaitersIs
  <2> SUFFICES
      ASSUME NEW d \in DB, NEW W \in SUBSET Tools
      PROVE  LET d2 == ReleaseWaiters(d, W) IN
             /\ d2 \in DB /\ d2.session = d.session /\ d2.desired = d.desired /\ d2.artifact = d.artifact
             /\ d2.ops = d.ops /\ d2.bnd = d.bnd
             /\ d2.q[Life] = d.q[Life] /\ d2.q[Fanout] = d.q[Fanout]
             /\ \A e \in Tools : /\ d2.q[Cancel(e)] = d.q[Cancel(e)]
                                 /\ d2.ex[e] = IF e \in W THEN ReleaseRow(d.ex[e]) ELSE d.ex[e]
                                 /\ d2.q[Exec(e)] = IF e \in W THEN Added(d.q[Exec(e)], d.ex[e].gen + 1)
                                                    ELSE d.q[Exec(e)]
    BY DEF ReleaseWaitersIs
  <2> DEFINE d2 == ReleaseWaiters(d, W)
             f == [e \in Tools |-> IF e \in W THEN ReleaseRow(d.ex[e]) ELSE d.ex[e]]
             g == [p \in Partitions |-> IF \E e \in W : p = Exec(e) THEN Added(d.q[p], d.ex[p[2]].gen + 1) ELSE d.q[p]]
  <2>1. d2 = SetExQ(d, f, g)
    BY DEF ReleaseWaiters, SetExQ
  <2>2. f \in [Tools -> ExRow]
    <3>1. \A e \in Tools : d.ex[e] \in ExRow /\ ReleaseRow(d.ex[e]) \in ExRow
      BY RowFactsHold, <1>ReleaseRowIs DEF RowFacts, DBFields, ReleaseRowIs
    <3> QED BY <3>1
  <2>3. \A p \in Partitions : (\E e \in W : p = Exec(e)) => Added(d.q[p], d.ex[p[2]].gen + 1) \in Seq(JobRow)
    <3> SUFFICES ASSUME NEW e \in W PROVE Added(d.q[Exec(e)], d.ex[Exec(e)[2]].gen + 1) \in Seq(JobRow)
      OBVIOUS
    <3>1. d.ex[e].gen \in Nat /\ d.q[Exec(e)] \in Seq(JobRow) /\ Exec(e)[2] = e
      BY RowFactsHold DEF ExRow, RowFacts, DBFields, PartitionFacts
    <3>2. d.ex[e].gen + 1 \in Nat \ {0}
      BY <3>1, SMTT(30)
    <3>3. Added(d.q[Exec(e)], d.ex[e].gen + 1) \in Seq(JobRow)
      <4> DEFINE r == d.ex[e].gen + 1
                 t == d.q[Exec(e)]
      <4>1. r \in Nat \ {0} /\ t \in Seq(JobRow)
        BY <3>1, <3>2
      <4> HIDE DEF r, t
      <4>2. Added(t, r) \in Seq(JobRow)
        BY <4>1, SequenceFactsHold DEF SequenceFacts, AddedIs
      <4> QED BY <4>2 DEF r, t
    <3> QED BY <3>1, <3>3
  <2>4. g \in [Partitions -> Seq(JobRow)]
    BY <2>3, RowFactsHold DEF RowFacts, DBFields
  <2>5. \A e \in Tools : /\ g[Cancel(e)] = d.q[Cancel(e)]
                         /\ g[Exec(e)] = IF e \in W THEN Added(d.q[Exec(e)], d.ex[e].gen + 1) ELSE d.q[Exec(e)]
    BY RowFactsHold DEF RowFacts, PartitionFacts
  <2>6. g[Life] = d.q[Life] /\ g[Fanout] = d.q[Fanout]
    BY RowFactsHold DEF RowFacts, PartitionFacts
  <2>7. \A e \in Tools : f[e] = IF e \in W THEN ReleaseRow(d.ex[e]) ELSE d.ex[e]
    OBVIOUS
  <2> HIDE DEF f, g, d2
  <2>8. /\ d2 \in DB /\ d2.ex = f /\ d2.q = g
        /\ d2.session = d.session /\ d2.desired = d.desired /\ d2.artifact = d.artifact
        /\ d2.ops = d.ops /\ d2.bnd = d.bnd
    BY <2>1, <2>2, <2>4, <1>SetExQIs DEF SetExQIs
  <2> QED BY <2>5, <2>6, <2>7, <2>8 DEF d2
<1> QED BY <1>SettleRowIs, <1>ReleaseRowIs, <1>AttachRowIs, <1>ConsumeIs, <1>InterruptRowIs, <1>ExReplaced,
   <1>SetExIs, <1>SettleRowsIs, <1>SetExQIs, <1>ReleaseWaitersIs DEF ExRowFacts

-----------------------------------------------------------------------------
(* An execution, its jobs and its workers.                                 *)

\* Where a worker can be.
Pcs == {"idle", "start", "park", "again", "look", "call", "confirm", "commit", "need_activation",
        "need_creation", "need_materialization", "prepare", "authorize", "submit", "reply", "observe",
        "done", "retry", "exhausted"}

\* The workers.
Worker == [pc : Pcs, ref : Nat, att : Nat, h : Nat, exists : BOOLEAN, rev : Nat, ready : BOOLEAN]

\* Where the worker of an execution is before it authorises the submission.
Early == {"look", "need_activation", "need_creation", "need_materialization", "prepare", "authorize"}

\* The states of an execution once its command may have been sent.
Submitted == {"running", "terminal", "consumed"}

\* The outcomes that say that the command was never sent.
NotRun == {"failed", "notstarted"}

\* What holds of an execution x, the queue s of its jobs, its worker v, the
\* worker c of its cancellation, and how often its command was run and
\* cancelled.
Right(ses, x, s, v, c, n, k) ==
  /\ ses = "purged" => x = Execution
  /\ n <= 1
  /\ n = 1 => ses = "purged" \/ x.state \in Submitted
  /\ x.out \in NotRun => n = 0
  /\ v.pc = "submit" => n = 0 /\ x.out \notin NotRun /\ (ses = "purged" \/ x.state \in Submitted)
  /\ x.state \notin {"terminal", "consumed"} => x.out = "none"
  /\ v.pc \in Early => x.state # "running"
  /\ v.pc = "authorize" /\ x.gen = v.ref => x.state # "pending"
  /\ v.pc \in {"submit", "reply", "observe"} /\ x.gen = v.ref => x.state \in Submitted
  /\ v.pc = "done" /\ x.gen = v.ref => x.state \notin InFlightStates
  /\ x.state \in InFlightStates => Named(s, x.gen)
  /\ ses # "purged" => (\A r : Named(s, r) => r <= x.gen) /\ (v.pc # "idle" => v.ref <= x.gen)
  /\ v.pc # "idle" => v.ref >= 1
  /\ x.state = "none" => x = Execution
  /\ k <= 1
  /\ k = 1 => (ses = "purged" \/ x.state = "consumed") /\ x.cancel # "pending" /\ c.pc # "call"
  /\ c.pc = "call" => k = 0 /\ x.cancel # "pending" /\ (ses = "purged" \/ x.state = "consumed")
  /\ x.cancel # "none" => x.state = "consumed"

\* The states of an execution that is not settled.
OpenStates == {"pending", "preparing", "running", "waiting_activation", "waiting_materialization"}

\* The fields of a row nobody used.
ExecutionFields ==
  /\ Execution.state = "none" /\ Execution.gen = 0 /\ Execution.out = "none" /\ Execution.cancel = "none"
  /\ Execution.task = 0 /\ Execution.auth = 0

\* A queue names numbers from 1.
NamedNat ==
  \A s \in Seq(JobRow) : \A r :
    Named(s, r) =>
      r \in Nat \ {0}

\* A waiting or pending execution may be settled as failed.
SettleKeeps ==
  \A ses : \A x \in ExRow, s \in Seq(JobRow), v, c \in Worker, n, k \in Nat :
    /\ Right(ses, x, s, v, c, n, k)
    /\ x.state \in Waiting \cup {"pending"}
    =>
      Right(ses, SettleRow(x, "failed"), s, v, c, n, k)

\* A waiting execution may get its next attempt generation.
ReleaseKeeps ==
  \A ses : \A x \in ExRow, s \in Seq(JobRow), v, c \in Worker, n, k \in Nat :
    /\ Right(ses, x, s, v, c, n, k)
    /\ x.state \in Waiting
    =>
      Right(ses, ReleaseRow(x), Added(s, x.gen + 1), v, c, n, k)

\* An execution may go on waiting for a materialization.
AttachKeeps ==
  \A ses : \A x \in ExRow, s \in Seq(JobRow), v, c \in Worker, n, k, m \in Nat :
    /\ Right(ses, x, s, v, c, n, k)
    /\ x.state \in Waiting \cup {"pending"}
    =>
      Right(ses, AttachRow(x, m), s, v, c, n, k)

\* An open execution may be expired.
ConsumeKeeps ==
  \A ses : \A x \in ExRow, s \in Seq(JobRow), v, c \in Worker, n, k \in Nat :
    /\ Right(ses, x, s, v, c, n, k)
    /\ x.state \in OpenStates
    =>
      Right(ses, Consume(x, "expired"), s, v, c, n, k)

\* An open execution may be interrupted: the outcome it gets is honest
\* whatever its worker is doing.
InterruptKeeps ==
  \A ses : \A x \in ExRow, s \in Seq(JobRow), v, c \in Worker, n, k \in Nat :
    /\ Right(ses, x, s, v, c, n, k)
    /\ x.state \in OpenStates
    =>
      Right(ses, InterruptRow(x), s, v, c, n, k)

\* The rows of a purged Session are right whatever workers are left.
PurgeKeeps ==
  \A ses : \A x \in ExRow, s \in Seq(JobRow), v, c \in Worker, n, k \in Nat :
    Right(ses, x, s, v, c, n, k) =>
      Right("purged", Execution, s, v, c, n, k)

\* The facts about Right.
RightFacts ==
  /\ ExecutionFields /\ NamedNat /\ SettleKeeps /\ ReleaseKeeps /\ AttachKeeps /\ ConsumeKeeps
  /\ InterruptKeeps /\ PurgeKeeps

\* These facts hold.
LEMMA RightFactsHold == ASSUME OrderFacts PROVE RightFacts
<1>ExecutionFields. ExecutionFields
  BY DEF Execution, ExecutionFields
<1>NamedNat. NamedNat
  <2> SUFFICES
      ASSUME NEW s \in Seq(JobRow), NEW r, Named(s, r)
      PROVE  r \in Nat \ {0}
    BY DEF NamedNat
  <2>1. \A i \in DOMAIN s : s[i] \in JobRow
    BY SMTT(30)
  <2>2. \A j \in JobRow : j.ref \in Nat \ {0}
    BY DEF JobRow
  <2> QED BY <2>1, <2>2 DEF Named
<1>SettleKeeps. SettleKeeps
  <2> SUFFICES
      ASSUME NEW ses, NEW x \in ExRow, NEW s \in Seq(JobRow), NEW v \in Worker, NEW c \in Worker,
             NEW n \in Nat, NEW k \in Nat, Right(ses, x, s, v, c, n, k),
             x.state \in Waiting \cup {"pending"}
      PROVE  Right(ses, SettleRow(x, "failed"), s, v, c, n, k)
    BY DEF SettleKeeps
  <2> DEFINE y == SettleRow(x, "failed")
  <2>1. y.state = "terminal" /\ y.out = "failed" /\ y.gen = x.gen /\ y.cancel = x.cancel
    BY ExRowFactsHold DEF Outs, ExRowFacts, SettleRowIs
  <2> HIDE DEF y
  <2> QED BY <2>1, <1>ExecutionFields, SMTT(30) DEF Right, Waiting, InFlightStates, Early, Submitted, NotRun, y,
     ExecutionFields
<1>ReleaseKeeps. ReleaseKeeps
  <2> SUFFICES
      ASSUME NEW ses, NEW x \in ExRow, NEW s \in Seq(JobRow), NEW v \in Worker, NEW c \in Worker,
             NEW n \in Nat, NEW k \in Nat, Right(ses, x, s, v, c, n, k),
             x.state \in Waiting
      PROVE  Right(ses, ReleaseRow(x), Added(s, x.gen + 1), v, c, n, k)
    BY SMTT(30) DEF ReleaseKeeps
  <2> DEFINE y == ReleaseRow(x)
             g == x.gen + 1
             t == Added(s, g)
  <2>1. y.state = "pending" /\ y.out = x.out /\ y.gen = g /\ y.cancel = x.cancel
    BY ExRowFactsHold DEF ExRowFacts, ReleaseRowIs
  <2>2. x.gen \in Nat /\ g \in Nat \ {0} /\ v.ref \in Nat
    BY SMTT(30) DEF ExRow, Worker
  <2> HIDE DEF y, g
  <2>3. \A r : Named(t, r) <=> Named(s, r) \/ r = g
    BY <2>2, SequenceFactsHold DEF SequenceFacts, AddedIs
  <2> HIDE DEF t
  <2>4. ses # "purged"
    BY <1>ExecutionFields DEF Right, Waiting, ExecutionFields
  <2>5. \A r : Named(s, r) => r \in Nat
    BY <1>NamedNat DEF NamedNat
  <2>6. /\ \A r : Named(t, r) => r <= g
        /\ v.pc # "idle" => v.ref <= g /\ v.ref # g
    BY <2>2, <2>3, <2>4, <2>5, SMTT(30) DEF Right, g
  <2> QED BY <2>1, <2>3, <2>4, <2>6 DEF Right, Waiting, InFlightStates, Early, Submitted, NotRun, y, t, g
<1>AttachKeeps. AttachKeeps
  <2> SUFFICES
      ASSUME NEW ses, NEW x \in ExRow, NEW s \in Seq(JobRow), NEW v \in Worker, NEW c \in Worker,
             NEW n \in Nat, NEW k \in Nat, Right(ses, x, s, v, c, n, k), NEW m \in Nat,
             x.state \in Waiting \cup {"pending"}
      PROVE  Right(ses, AttachRow(x, m), s, v, c, n, k)
    BY SMTT(30) DEF AttachKeeps
  <2> DEFINE y == AttachRow(x, m)
  <2>1. y.state = "waiting_materialization" /\ y.out = x.out /\ y.gen = x.gen /\ y.cancel = x.cancel
    BY ExRowFactsHold DEF ExRowFacts, AttachRowIs
  <2> HIDE DEF y
  <2> QED BY <2>1, <1>ExecutionFields DEF Right, Waiting, InFlightStates, Early, Submitted, NotRun, y,
     ExecutionFields
<1>ConsumeKeeps. ConsumeKeeps
  <2> SUFFICES
      ASSUME NEW ses, NEW x \in ExRow, NEW s \in Seq(JobRow), NEW v \in Worker, NEW c \in Worker,
             NEW n \in Nat, NEW k \in Nat, Right(ses, x, s, v, c, n, k),
             x.state \in OpenStates
      PROVE  Right(ses, Consume(x, "expired"), s, v, c, n, k)
    BY DEF ConsumeKeeps
  <2> DEFINE y == Consume(x, "expired")
  <2>1. y.state = "consumed" /\ y.out = "expired" /\ y.gen = x.gen /\ y.cancel = x.cancel
    BY ExRowFactsHold DEF Outs, ExRowFacts, ConsumeIs
  <2> HIDE DEF y
  <2> QED BY <2>1, <1>ExecutionFields DEF Right, OpenStates, InFlightStates, Early, Submitted, NotRun, y,
     ExecutionFields
<1>InterruptKeeps. InterruptKeeps
  <2> SUFFICES
      ASSUME NEW ses, NEW x \in ExRow, NEW s \in Seq(JobRow), NEW v \in Worker, NEW c \in Worker,
             NEW n \in Nat, NEW k \in Nat, Right(ses, x, s, v, c, n, k),
             x.state \in OpenStates
      PROVE  Right(ses, InterruptRow(x), s, v, c, n, k)
    BY DEF InterruptKeeps
  <2> DEFINE y == InterruptRow(x)
  <2>1. /\ y.state = "consumed" /\ y.gen = x.gen
        /\ y.out = IF x.state = "running" THEN "unknown" ELSE "notstarted"
        /\ y.cancel = IF Cancellable(x) THEN "pending" ELSE x.cancel
    BY ExRowFactsHold DEF ExRowFacts, InterruptRowIs
  <2> HIDE DEF y
  <2> QED BY <2>1, <1>ExecutionFields, SMTT(30) DEF Right, OpenStates, InFlightStates, Early, Submitted, NotRun, y,
     ExecutionFields
<1>PurgeKeeps. PurgeKeeps
  <2> SUFFICES
      ASSUME NEW ses, NEW x \in ExRow, NEW s \in Seq(JobRow), NEW v \in Worker, NEW c \in Worker,
             NEW n \in Nat, NEW k \in Nat, Right(ses, x, s, v, c, n, k)
      PROVE  Right("purged", Execution, s, v, c, n, k)
    BY DEF PurgeKeeps
  <2>1. v.ref \in Nat
    BY DEF Worker
  <2> QED BY <2>1, <1>ExecutionFields, SMTT(30) DEF Right, InFlightStates, Early, Submitted, NotRun, ExecutionFields
<1> QED BY <1>ExecutionFields, <1>NamedNat, <1>SettleKeeps, <1>ReleaseKeeps, <1>AttachKeeps, <1>ConsumeKeeps,
   <1>InterruptKeeps, <1>PurgeKeeps DEF RightFacts

-----------------------------------------------------------------------------
(* Transactions that keep every execution right.                           *)

\* Execution e is right in database d.
RightIn(d, e, v, c, n, k) == Right(d.session, d.ex[e], d.q[Exec(e)], v, c, n, k)

\* Every execution that is right in d is right in d2.
Keeps(d, d2) ==
  \A e \in Tools : \A v, c \in Worker, n, k \in Nat : RightIn(d, e, v, c, n, k) => RightIn(d2, e, v, c, n, k)

\* Every job of the lifecycle names an operation.
LifeRefs(d) == \A r : Named(d.q[Life], r) => r \in OpIds(d)

\* A transaction that keeps every execution right, whoever makes it.
Sound(d, d2) ==
  /\ d2 \in DB /\ d2.session = d.session /\ Len(d2.ops) >= Len(d.ops)
  /\ LifeRefs(d) => LifeRefs(d2)
  /\ Keeps(d, d2)

\* To change nothing is sound.
SoundRefl ==
  \A d \in DB :
    Sound(d, d)

\* Sound transactions compose.
SoundTrans ==
  \A d1 \in DB : \A d2, d3 :
    /\ Sound(d1, d2)
    /\ Sound(d2, d3)
    =>
      Sound(d1, d3)

\* The lifecycle's own rows do not matter to an execution.
LifeOnlySound ==
  \A d \in DB : \A d2 :
    /\ LifeOnly(d, d2)
    /\ \A r : Named(d2.q[Life], r) => Named(d.q[Life], r) \/ r \in OpIds(d2)
    =>
      Sound(d, d2)

\* New jobs of operations are sound.
QueuedSound ==
  \A d \in DB : \A d2, S :
    /\ LifeOnly(d, d2)
    /\ Queued(d, d2, S)
    /\ S \subseteq OpIds(d2)
    =>
      Sound(d, d2)

\* A change of operations and binding is sound.
SameQueueSound ==
  \A d \in DB : \A d2 :
    /\ LifeOnly(d, d2)
    /\ d2.q = d.q
    =>
      Sound(d, d2)

\* Executions change one by one.
RowsSound ==
  \A d, d2 \in DB :
    /\ d2.session = d.session
    /\ d2.ops = d.ops
    /\ d2.q[Life] = d.q[Life]
    /\ \A e \in Tools : \A v, c \in Worker, n, k \in Nat :
         RightIn(d, e, v, c, n, k) => RightIn(d2, e, v, c, n, k)
    =>
      Sound(d, d2)

\* Settling waiting or pending executions as failed is sound.
SettleRowsSound ==
  \A d \in DB : \A W :
    /\ \A e \in Tools : e \in W => d.ex[e].state \in Waiting \cup {"pending"}
    =>
      Sound(d, SettleRows(d, W))

\* Releasing waiting executions is sound.
ReleaseWaitersSound ==
  \A d \in DB, W \in SUBSET Tools :
    /\ \A e \in W : d.ex[e].state \in Waiting
    =>
      Sound(d, ReleaseWaiters(d, W))

\* The facts about Sound.
SoundFacts ==
  /\ SoundRefl /\ SoundTrans /\ LifeOnlySound /\ QueuedSound /\ SameQueueSound /\ RowsSound
  /\ SettleRowsSound /\ ReleaseWaitersSound

\* These facts hold.
LEMMA SoundFactsHold == ASSUME OrderFacts PROVE SoundFacts
<1>SoundRefl. SoundRefl
  BY RowFactsHold, SMTT(30) DEF Sound, Keeps, RowFacts, DBFields, SoundRefl
<1>SoundTrans. SoundTrans
  <2> SUFFICES
      ASSUME NEW d1 \in DB, NEW d2, NEW d3, Sound(d1, d2), Sound(d2, d3)
      PROVE  Sound(d1, d3)
    BY DEF SoundTrans
  <2>1. Len(d1.ops) \in Nat /\ Len(d2.ops) \in Nat /\ Len(d3.ops) \in Nat
    BY RowFactsHold DEF Sound, RowFacts, DBFields
  <2>2. Keeps(d1, d3)
    BY DEF Sound, Keeps
  <2> QED BY <2>1, <2>2, SMTT(30) DEF Sound
<1>LifeOnlySound. LifeOnlySound
  <2> SUFFICES
      ASSUME NEW d \in DB, NEW d2, LifeOnly(d, d2),
             \A r : Named(d2.q[Life], r) => Named(d.q[Life], r) \/ r \in OpIds(d2)
      PROVE  Sound(d, d2)
    BY DEF LifeOnlySound
  <2>1. \A e \in Tools : d2.q[Exec(e)] = d.q[Exec(e)]
    BY RowFactsHold DEF LifeOnly, RowFacts, PartitionFacts
  <2>2. Keeps(d, d2)
    BY <2>1 DEF Keeps, RightIn, LifeOnly
  <2>3. OpIds(d) \subseteq OpIds(d2)
    <3>1. Len(d.ops) \in Nat /\ Len(d2.ops) \in Nat
      BY RowFactsHold DEF LifeOnly, RowFacts, DBFields
    <3> QED BY <3>1, SMTT(30) DEF OpIds, LifeOnly
  <2> QED BY <2>2, <2>3 DEF Sound, LifeOnly, LifeRefs
<1>QueuedSound. QueuedSound
  BY <1>LifeOnlySound DEF Queued, LifeOnlySound, QueuedSound
<1>SameQueueSound. SameQueueSound
  BY <1>LifeOnlySound DEF LifeOnlySound, SameQueueSound
<1>RowsSound. RowsSound
  <2> SUFFICES
      ASSUME NEW d \in DB, NEW d2 \in DB, d2.session = d.session, d2.ops = d.ops, d2.q[Life] = d.q[Life],
             \A e \in Tools : \A v, c \in Worker, n, k \in Nat :
               RightIn(d, e, v, c, n, k) => RightIn(d2, e, v, c, n, k)
      PROVE  Sound(d, d2)
    BY DEF RowsSound
  <2>1. Len(d.ops) \in Nat
    BY RowFactsHold DEF RowFacts, DBFields
  <2> QED BY <2>1, SMTT(30) DEF Sound, Keeps, LifeRefs, OpIds
<1>SettleRowsSound. SettleRowsSound
  <2> SUFFICES
      ASSUME NEW d \in DB, NEW W, \A e \in Tools : e \in W => d.ex[e].state \in Waiting \cup {"pending"}
      PROVE  Sound(d, SettleRows(d, W))
    BY DEF SettleRowsSound
  <2> DEFINE d2 == SettleRows(d, W)
  <2>1. /\ ExOnly(d, d2)
        /\ \A e \in Tools : d2.ex[e] = IF e \in W THEN SettleRow(d.ex[e], "failed") ELSE d.ex[e]
    BY ExRowFactsHold, SMTT(30) DEF ExRowFacts, SettleRowsIs
  <2> HIDE DEF d2
  <2>2. ASSUME NEW e \in Tools, NEW v \in Worker, NEW c \in Worker, NEW n \in Nat, NEW k \in Nat,
               RightIn(d, e, v, c, n, k)
        PROVE  RightIn(d2, e, v, c, n, k)
    <3>1. d.ex[e] \in ExRow /\ d.q[Exec(e)] \in Seq(JobRow)
      BY RowFactsHold DEF RowFacts, DBFields, PartitionFacts
    <3>2. d2.session = d.session /\ d2.q = d.q
      BY <2>1 DEF ExOnly
    <3>3. CASE e \in W
      BY <2>1, <2>2, <3>1, <3>2, <3>3, RightFactsHold, SMTT(30) DEF RightIn, RightFacts, SettleKeeps
    <3>4. CASE e \notin W
      BY <2>1, <2>2, <3>2, <3>4 DEF RightIn
    <3> QED BY <3>3, <3>4
  <2> QED BY <2>1, <2>2, <1>RowsSound DEF ExOnly, d2, RowsSound
<1>ReleaseWaitersSound. ReleaseWaitersSound
  <2> SUFFICES
      ASSUME NEW d \in DB, NEW W \in SUBSET Tools, \A e \in W : d.ex[e].state \in Waiting
      PROVE  Sound(d, ReleaseWaiters(d, W))
    BY DEF ReleaseWaitersSound
  <2> DEFINE d2 == ReleaseWaiters(d, W)
  <2>1. /\ d2 \in DB /\ d2.session = d.session /\ d2.ops = d.ops /\ d2.q[Life] = d.q[Life]
        /\ \A e \in Tools : /\ d2.ex[e] = IF e \in W THEN ReleaseRow(d.ex[e]) ELSE d.ex[e]
                            /\ d2.q[Exec(e)] = IF e \in W THEN Added(d.q[Exec(e)], d.ex[e].gen + 1)
                                               ELSE d.q[Exec(e)]
    BY ExRowFactsHold, SMTT(30) DEF ExRowFacts, ReleaseWaitersIs
  <2> HIDE DEF d2
  <2>2. ASSUME NEW e \in Tools, NEW v \in Worker, NEW c \in Worker, NEW n \in Nat, NEW k \in Nat,
               RightIn(d, e, v, c, n, k)
        PROVE  RightIn(d2, e, v, c, n, k)
    <3>1. d.ex[e] \in ExRow /\ d.q[Exec(e)] \in Seq(JobRow)
      BY RowFactsHold DEF RowFacts, DBFields, PartitionFacts
    <3>3. CASE e \in W
      <4>1. Right(d.session, ReleaseRow(d.ex[e]), Added(d.q[Exec(e)], d.ex[e].gen + 1), v, c, n, k)
        BY <2>2, <3>1, <3>3, RightFactsHold DEF RightIn, RightFacts, ReleaseKeeps
      <4> QED BY <2>1, <3>3, <4>1 DEF RightIn
    <3>4. CASE e \notin W
      BY <2>1, <2>2, <3>4 DEF RightIn
    <3> QED BY <3>3, <3>4
  <2> QED BY <2>1, <2>2, <1>RowsSound DEF d2, RowsSound
<1> QED BY <1>SoundRefl, <1>SoundTrans, <1>LifeOnlySound, <1>QueuedSound, <1>SameQueueSound, <1>RowsSound,
   <1>SettleRowsSound, <1>ReleaseWaitersSound DEF SoundFacts

-----------------------------------------------------------------------------
(* Releases, and the failure of operations.                                *)

\* The updates the transactions make to an operation keep it an operation.
OpRowClosed ==
  \A x \in OpRow, st \in OpStates, b \in Bounds, n \in Nat, r \in Reasons :
    /\ [x EXCEPT !.state = st] \in OpRow
    /\ [x EXCEPT !.bound = b] \in OpRow
    /\ [x EXCEPT !.state = st, !.bound = b] \in OpRow
    /\ [x EXCEPT !.state = st, !.bound = b, !.made = n] \in OpRow
    /\ [x EXCEPT !.state = st, !.job = FALSE] \in OpRow
    /\ [x EXCEPT !.state = st, !.wait = n, !.job = FALSE] \in OpRow
    /\ [x EXCEPT !.kind = "replace", !.target = 0, !.env = n, !.bound = "none"] \in OpRow
    /\ [x EXCEPT !.job = FALSE] \in OpRow
    /\ [x EXCEPT !.reason = r] \in OpRow
    /\ [x EXCEPT !.env = n] \in OpRow
    /\ [x EXCEPT !.res = n] \in OpRow

\* SetOp is sound.
SetOpSound ==
  \A d \in DB : \A o \in OpIds(d), op \in OpRow :
    Sound(d, SetOp(d, o, op)) /\ LifeOnly(d, SetOp(d, o, op))

\* SetBnd is sound.
SetBndSound ==
  \A d \in DB, b \in BndRow :
    Sound(d, SetBnd(d, b)) /\ LifeOnly(d, SetBnd(d, b))

\* QueueOps is sound.
QueueOpsSound ==
  \A d \in DB : \A S \in SUBSET OpIds(d) :
    Sound(d, QueueOps(d, S)) /\ LifeOnly(d, QueueOps(d, S))

\* ReadyReleases is sound.
ReadyReleasesSound ==
  \A d \in DB :
    Sound(d, ReadyReleases(d)) /\ LifeOnly(d, ReadyReleases(d))

\* InsertOp is sound.
InsertOpSound ==
  \A d \in DB, op \in OpRow :
    Sound(d, InsertOp(d, op)) /\ LifeOnly(d, InsertOp(d, op))

\* SetStates is sound.
SetStatesSound ==
  \A d \in DB : \A S : \A state \in OpStates :
    Sound(d, SetStates(d, S, state)) /\ LifeOnly(d, SetStates(d, S, state))

\* Supersede is sound.
SupersedeSound ==
  \A d \in DB : \A S \in SUBSET OpIds(d), reason \in Reasons :
    Sound(d, Supersede(d, S, reason)) /\ LifeOnly(d, Supersede(d, S, reason))

\* ApplyPostcondition is sound.
ApplyPostconditionSound ==
  \A d \in DB : \A h, reason :
    Sound(d, ApplyPostcondition(d, h, reason)) /\ LifeOnly(d, ApplyPostcondition(d, h, reason))

\* EnsureRelease is sound.
EnsureReleaseSound ==
  \A d \in DB, h \in Nat, reason \in Reasons :
    Sound(d, EnsureRelease(d, h, reason)) /\ LifeOnly(d, EnsureRelease(d, h, reason))

\* SettleWaiters is sound.
SettleWaitersSound ==
  \A d \in DB : \A S :
    Sound(d, SettleWaiters(d, S))

\* FailDependents is sound.
FailDependentsSound ==
  \A d \in DB : \A S :
    Sound(d, FailDependents(d, S))

\* The transactions that plan a release.
ReleaseTx ==
  /\ OpRowClosed /\ SetOpSound /\ SetBndSound /\ QueueOpsSound /\ ReadyReleasesSound
  /\ InsertOpSound /\ SetStatesSound /\ SupersedeSound /\ ApplyPostconditionSound
  /\ EnsureReleaseSound /\ SettleWaitersSound /\ FailDependentsSound

\* These facts hold.
LEMMA ReleaseTxHold == ASSUME OrderFacts PROVE ReleaseTx
<1>OpRowClosed. OpRowClosed
  <2> SUFFICES
      ASSUME NEW x \in OpRow, NEW st \in OpStates, NEW b \in Bounds, NEW n \in Nat, NEW r \in Reasons
      PROVE  /\ [x EXCEPT !.state = st] \in OpRow
             /\ [x EXCEPT !.bound = b] \in OpRow
             /\ [x EXCEPT !.state = st, !.bound = b] \in OpRow
             /\ [x EXCEPT !.state = st, !.bound = b, !.made = n] \in OpRow
             /\ [x EXCEPT !.state = st, !.job = FALSE] \in OpRow
             /\ [x EXCEPT !.state = st, !.wait = n, !.job = FALSE] \in OpRow
             /\ [x EXCEPT !.kind = "replace", !.target = 0, !.env = n, !.bound = "none"] \in OpRow
             /\ [x EXCEPT !.job = FALSE] \in OpRow
             /\ [x EXCEPT !.reason = r] \in OpRow
             /\ [x EXCEPT !.env = n] \in OpRow
             /\ [x EXCEPT !.res = n] \in OpRow
    BY DEF OpRowClosed
  <2>1. [x EXCEPT !.state = st] \in OpRow
    BY DEF OpRow, OpStates
  <2>2. [x EXCEPT !.bound = b] \in OpRow
    BY DEF OpRow, Bounds
  <2>3. [x EXCEPT !.state = st, !.bound = b] \in OpRow
    BY DEF OpRow, OpStates, Bounds
  <2>4. [x EXCEPT !.state = st, !.bound = b, !.made = n] \in OpRow
    BY DEF OpRow, OpStates, Bounds
  <2>5. [x EXCEPT !.state = st, !.job = FALSE] \in OpRow
    BY DEF OpRow, OpStates
  <2>6. [x EXCEPT !.state = st, !.wait = n, !.job = FALSE] \in OpRow
    BY DEF OpRow, OpStates
  <2>7. [x EXCEPT !.kind = "replace", !.target = 0, !.env = n, !.bound = "none"] \in OpRow
    BY DEF OpRow
  <2>8. [x EXCEPT !.job = FALSE] \in OpRow
    BY DEF OpRow
  <2>9. [x EXCEPT !.reason = r] \in OpRow
    BY DEF OpRow, Reasons
  <2>10. [x EXCEPT !.env = n] \in OpRow
    BY DEF OpRow
  <2>11. [x EXCEPT !.res = n] \in OpRow
    BY DEF OpRow
  <2> QED BY <2>1, <2>2, <2>3, <2>4, <2>5, <2>6, <2>7, <2>8, <2>9, <2>10, <2>11
<1>SetOpSound. SetOpSound
  BY RowFactsHold, SoundFactsHold DEF RowFacts, SetOpIs, SoundFacts, SameQueueSound, SetOpSound
<1>SetBndSound. SetBndSound
  BY RowFactsHold, SoundFactsHold DEF RowFacts, SetBndIs, SoundFacts, SameQueueSound, SetBndSound
<1>QueueOpsSound. QueueOpsSound
  BY RowFactsHold, SoundFactsHold DEF RowFacts, QueueOpsIs, SoundFacts, QueuedSound, QueueOpsSound
<1>ReadyReleasesSound. ReadyReleasesSound
  <2> SUFFICES
      ASSUME NEW d \in DB
      PROVE  Sound(d, ReadyReleases(d)) /\ LifeOnly(d, ReadyReleases(d))
    BY DEF ReadyReleasesSound
  <2>1. Ready(d) \subseteq OpIds(d)
    BY DEF Ready
  <2> QED BY <2>1, OperationFactsHold, SoundFactsHold DEF OperationFacts, ReadyReleasesIs, SoundFacts,
     QueuedSound
<1>InsertOpSound. InsertOpSound
  <2> SUFFICES
      ASSUME NEW d \in DB, NEW op \in OpRow
      PROVE  Sound(d, InsertOp(d, op)) /\ LifeOnly(d, InsertOp(d, op))
    BY DEF InsertOpSound
  <2> DEFINE d2 == InsertOp(d, op)
             n == Len(d.ops) + 1
             S == IF op.state = "waiting_artifact" THEN {} ELSE {n}
  <2>1. LifeOnly(d, d2) /\ OpIds(d2) = OpIds(d) \cup {n} /\ Queued(d, d2, S)
    BY RowFactsHold DEF RowFacts, InsertOpIs
  <2>2. S \subseteq OpIds(d2)
    BY <2>1
  <2> HIDE DEF d2, S
  <2> QED BY <2>1, <2>2, SoundFactsHold DEF d2, SoundFacts, QueuedSound
<1>SetStatesSound. SetStatesSound
  BY OperationFactsHold, SoundFactsHold DEF OperationFacts, SetStatesIs, SoundFacts, SameQueueSound,
     SetStatesSound
<1>SupersedeSound. SupersedeSound
  <2> SUFFICES
      ASSUME NEW d \in DB, NEW S \in SUBSET OpIds(d), NEW reason \in Reasons
      PROVE  Sound(d, Supersede(d, S, reason)) /\ LifeOnly(d, Supersede(d, S, reason))
    BY DEF SupersedeSound
  <2> DEFINE d2 == Supersede(d, S, reason)
             n == Len(d.ops)
             m == Cardinality(S)
             B == (n + 1)..(n + m)
  <2>1. m \in Nat /\ LifeOnly(d, d2) /\ OpIds(d2) = 1..(n + m) /\ Queued(d, d2, B)
    BY OperationFactsHold DEF OperationFacts, SupersedeIs
  <2>2. n \in Nat
    BY RowFactsHold DEF RowFacts, DBFields
  <2>3. B \subseteq OpIds(d2)
    BY <2>1, <2>2, SMTT(30)
  <2> HIDE DEF d2, B
  <2> QED BY <2>1, <2>3, SoundFactsHold DEF d2, SoundFacts, QueuedSound
<1>ApplyPostconditionSound. ApplyPostconditionSound
  BY OperationFactsHold, SoundFactsHold DEF OperationFacts, ApplyPostconditionIs, SoundFacts, SameQueueSound,
     ApplyPostconditionSound
<1>EnsureReleaseSound. EnsureReleaseSound
  <2> SUFFICES
      ASSUME NEW d \in DB, NEW h \in Nat, NEW reason \in Reasons
      PROVE  Sound(d, EnsureRelease(d, h, reason)) /\ LifeOnly(d, EnsureRelease(d, h, reason))
    BY DEF EnsureReleaseSound
  <2> DEFINE R == CurrentReleases(d, h)
             r == CHOOSE x \in R : TRUE
             op == [d.ops[r] EXCEPT !.reason = StrongerReason(@, reason)]
             d1 == SetOp(d, r, op)
             S == {x \in {r} : PendingRelease(d1, r) /\ ~Blocked(d1, r) /\ ~HasJob(d1, Life, r)}
  <2>1. CASE R = {}
    <3> DEFINE new == [Operation(d, "release", h) EXCEPT !.reason = reason]
    <3>1. Operation(d, "release", h) \in OpRow
      BY RowFactsHold DEF RowFacts, OperationIsRow
    <3>2. new \in OpRow
      BY <3>1, <1>OpRowClosed, ZenonT(60) DEF OpStates, Bounds, OpRowClosed
    <3>3. EnsureRelease(d, h, reason) = InsertOp(d, new)
      BY <2>1 DEF EnsureRelease, NewRelease
    <3> HIDE DEF new
    <3> QED BY <3>2, <3>3, <1>InsertOpSound DEF InsertOpSound
  <2>2. CASE R # {}
    <3>1. r \in R /\ r \in OpIds(d)
      BY <2>2 DEF CurrentReleases
    <3>2. d.ops[r] \in OpRow
      BY <3>1, RowFactsHold DEF RowFacts, DBFields
    <3>3. op \in OpRow /\ op.state = d.ops[r].state
      <4> HIDE DEF r
      <4>1. StrongerReason(d.ops[r].reason, reason) \in Reasons
        BY <3>2 DEF StrongerReason, OpRow, Reasons
      <4> QED BY <3>2, <4>1 DEF OpRow, Reasons
    <3>4. CASE op.state = "completed"
      <4>1. EnsureRelease(d, h, reason) = ApplyPostcondition(d, h, op.reason)
        BY <2>2, <3>4 DEF EnsureRelease
      <4> QED BY <4>1, <1>ApplyPostconditionSound DEF ApplyPostconditionSound
    <3>5. CASE op.state = "failed"
      <4>1. EnsureRelease(d, h, reason) = Supersede(d, {r}, reason)
        BY <2>2, <3>5 DEF EnsureRelease
      <4> HIDE DEF r
      <4> QED BY <3>1, <4>1, <1>SupersedeSound DEF SupersedeSound
    <3>6. CASE op.state \notin {"completed", "failed"}
      <4>1. EnsureRelease(d, h, reason) = QueueOps(d1, S)
        BY <2>2, <3>6 DEF EnsureRelease
      <4> HIDE DEF op, r
      <4>2. Sound(d, d1) /\ LifeOnly(d, d1) /\ OpIds(d1) = OpIds(d) /\ d1 \in DB
        BY <3>1, <3>3, <1>SetOpSound, RowFactsHold DEF Sound, SetOpSound, RowFacts, SetOpIs
      <4>3. S \in SUBSET OpIds(d1)
        BY <3>1, <4>2
      <4> HIDE DEF S, d1
      <4> QED BY <4>1, <4>2, <4>3, <1>QueueOpsSound, SoundFactsHold, RowFactsHold DEF QueueOpsSound, SoundFacts,
         SoundTrans, RowFacts, LifeOnlyTrans
    <3> QED BY <3>4, <3>5, <3>6
  <2> QED BY <2>1, <2>2
<1>SettleWaitersSound. SettleWaitersSound
  <2> SUFFICES
      ASSUME NEW d \in DB, NEW S
      PROVE  Sound(d, SettleWaiters(d, S))
    BY DEF SettleWaitersSound
  <2> DEFINE W == {e \in Tools : \E o \in S : e \in Waiters(d, o)}
  <2>1. \A e \in Tools : e \in W => d.ex[e].state \in Waiting \cup {"pending"}
    BY DEF Waiters
  <2>2. SettleWaiters(d, S) = SettleRows(d, W)
    BY DEF SettleWaiters
  <2> HIDE DEF W
  <2> QED BY <2>1, <2>2, SoundFactsHold DEF SoundFacts, SettleRowsSound
<1>FailDependentsSound. FailDependentsSound
  <2> SUFFICES
      ASSUME NEW d \in DB, NEW S
      PROVE  Sound(d, FailDependents(d, S))
    BY DEF FailDependentsSound
  <2> DEFINE M == {m \in OpIds(d) : \E o \in S : m \in Dependents(d, o)}
             d1 == SetStates(d, M, "failed")
  <2>1. Sound(d, d1) /\ d1 \in DB
    BY <1>SetStatesSound DEF OpStates, Sound, SetStatesSound
  <2>2. FailDependents(d, S) = SettleWaiters(d1, M)
    BY DEF FailDependents
  <2> HIDE DEF d1, M
  <2> QED BY <2>1, <2>2, <1>SettleWaitersSound, SoundFactsHold DEF SettleWaitersSound, SoundFacts, SoundTrans
<1> QED BY <1>OpRowClosed, <1>SetOpSound, <1>SetBndSound, <1>QueueOpsSound, <1>ReadyReleasesSound,
   <1>InsertOpSound, <1>SetStatesSound, <1>SupersedeSound, <1>ApplyPostconditionSound, <1>EnsureReleaseSound,
   <1>SettleWaitersSound, <1>FailDependentsSound DEF ReleaseTx

-----------------------------------------------------------------------------
(* Failure, deletion and materialization.                                  *)

\* FailOps is sound.
FailOpsSound ==
  \A d \in DB : \A S : \A bound \in Bounds :
    Sound(d, FailOps(d, S, bound))

\* FailOp is sound.
FailOpSound ==
  \A d \in DB : \A o : \A bound \in Bounds :
    Sound(d, FailOp(d, o, bound))

\* AbandonOp is sound.
AbandonOpSound ==
  \A d \in DB : \A o :
    Sound(d, AbandonOp(d, o))

\* SettleSessionWaiters is sound.
SettleSessionWaitersSound ==
  \A d \in DB :
    Sound(d, SettleSessionWaiters(d))

\* AbandonDependencies is sound.
AbandonDependenciesSound ==
  \A d \in DB :
    Sound(d, AbandonDependencies(d))

\* RequestRelease is sound.
RequestReleaseSound ==
  \A d \in DB :
    Sound(d, RequestRelease(d))

\* EnsureSessionDelete is sound.
EnsureSessionDeleteSound ==
  \A d \in DB, h \in Nat :
    Sound(d, EnsureSessionDelete(d, h))

\* EnsureMaterialization is sound, and leaves an unfinished materialization.
EnsureMaterializationSound ==
  \A d \in DB :
    LET d2 == EnsureMaterialization(d) IN
    /\ Sound(d, d2) /\ d2.ex = d.ex /\ LifeOnly(d, d2)
    /\ UnfinishedMaterialization(d2) # {}

\* AttachToMaterialization is sound for executions that wait or are pending.
AttachToMaterializationSound ==
  \A d \in DB, W \in SUBSET Tools :
    /\ \A e \in W : d.ex[e].state \in Waiting \cup {"pending"}
    =>
      Sound(d, AttachToMaterialization(d, W))

\* The transactions that fail an operation or a Session.
FailureTx ==
  /\ FailOpsSound /\ FailOpSound /\ AbandonOpSound /\ SettleSessionWaitersSound
  /\ AbandonDependenciesSound /\ RequestReleaseSound /\ EnsureSessionDeleteSound
  /\ EnsureMaterializationSound /\ AttachToMaterializationSound

\* These facts hold.
LEMMA FailureTxHold == ASSUME OrderFacts PROVE FailureTx
<1>FailOpsSound. FailOpsSound
  <2> SUFFICES
      ASSUME NEW d \in DB, NEW S, NEW bound \in Bounds
      PROVE  Sound(d, FailOps(d, S, bound))
    BY DEF FailOpsSound
  <2> DEFINE f == [o \in OpIds(d) |-> IF o \in S THEN [d.ops[o] EXCEPT !.state = "failed", !.bound = bound]
                                      ELSE d.ops[o]]
             d1 == [d EXCEPT !.ops = f]
             d2 == SettleWaiters(d1, S)
             T == {o \in S : d.ops[o].kind \in ActivationKinds}
             d3 == FailDependents(d2, T)
  <2>1. f \in [OpIds(d) -> OpRow]
    <3>1. \A x \in OpRow : [x EXCEPT !.state = "failed", !.bound = bound] \in OpRow
      BY ReleaseTxHold DEF OpStates, Reasons, ReleaseTx, OpRowClosed
    <3> QED BY <3>1, RowFactsHold DEF RowFacts, DBFields
  <2>2. FailOps(d, S, bound) = IF \A o \in S : d.ops[o].kind = "release" THEN d2 ELSE ReadyReleases(d3)
    BY DEF FailOps
  <2> HIDE DEF f
  <2>3. Sound(d, d1) /\ d1 \in DB
    <3>1. LifeOnly(d, d1) /\ d1.q = d.q
      BY <2>1, RowFactsHold DEF RowFacts, OpsReplaced
    <3> HIDE DEF d1
    <3> QED BY <3>1, SoundFactsHold DEF LifeOnly, SoundFacts, SameQueueSound
  <2> HIDE DEF d1
  <2>4. Sound(d, d2) /\ d2 \in DB
    BY <2>3, ReleaseTxHold, SoundFactsHold DEF Sound, ReleaseTx, SettleWaitersSound, SoundFacts, SoundTrans
  <2> HIDE DEF d2, T
  <2>5. Sound(d, d3) /\ d3 \in DB
    BY <2>4, ReleaseTxHold, SoundFactsHold DEF Sound, ReleaseTx, FailDependentsSound, SoundFacts, SoundTrans
  <2> HIDE DEF d3
  <2>6. Sound(d, ReadyReleases(d3))
    BY <2>5, ReleaseTxHold, SoundFactsHold DEF ReleaseTx, ReadyReleasesSound, SoundFacts, SoundTrans
  <2> QED BY <2>2, <2>4, <2>6
<1>FailOpSound. FailOpSound
  BY <1>FailOpsSound DEF FailOp, FailOpsSound, FailOpSound
<1>AbandonOpSound. AbandonOpSound
  <2> SUFFICES
      ASSUME NEW d \in DB, NEW o
      PROVE  Sound(d, AbandonOp(d, o))
    BY DEF AbandonOpSound
  <2> DEFINE d1 == SetStates(d, {o}, "abandoned")
  <2>1. Sound(d, d1) /\ d1 \in DB
    BY ReleaseTxHold DEF OpStates, Sound, ReleaseTx, SetStatesSound
  <2>2. AbandonOp(d, o) = ReadyReleases(d1)
    BY DEF AbandonOp
  <2> HIDE DEF d1
  <2> QED BY <2>1, <2>2, ReleaseTxHold, SoundFactsHold DEF ReleaseTx, ReadyReleasesSound, SoundFacts, SoundTrans
<1>SettleSessionWaitersSound. SettleSessionWaitersSound
  <2> SUFFICES
      ASSUME NEW d \in DB
      PROVE  Sound(d, SettleSessionWaiters(d))
    BY DEF SettleSessionWaitersSound
  <2> DEFINE W == {e \in Tools : d.ex[e].state \in Waiting \cup {"pending"}}
  <2>1. SettleSessionWaiters(d) = SettleRows(d, W) /\ \A e \in Tools : e \in W => d.ex[e].state \in Waiting \cup {"pending"}
    BY DEF SettleSessionWaiters
  <2> HIDE DEF W
  <2> QED BY <2>1, SoundFactsHold DEF SoundFacts, SettleRowsSound
<1>AbandonDependenciesSound. AbandonDependenciesSound
  <2> SUFFICES
      ASSUME NEW d \in DB
      PROVE  Sound(d, AbandonDependencies(d))
    BY DEF AbandonDependenciesSound
  <2> DEFINE S == {o \in OpIds(d) : /\ d.ops[o].kind # "release"
                                    /\ d.ops[o].state \in {"pending", "waiting_artifact", "waiting_activation"}}
             d1 == SetStates(d, S, "abandoned")
             d2 == CancelPending(d1, Life, S)
  <2>1. AbandonDependencies(d) = d2
    BY DEF AbandonDependencies
  <2> HIDE DEF S
  <2>2. Sound(d, d1) /\ d1 \in DB
    BY ReleaseTxHold DEF OpStates, Sound, ReleaseTx, SetStatesSound
  <2> HIDE DEF d1
  <2>3. LifeOnly(d1, d2) /\ d2.q[Life] = Cancelled(d1.q[Life], S)
    BY <2>2, OperationFactsHold DEF OperationFacts, CancelPendingIs
  <2>4. d1.q[Life] \in Seq(JobRow)
    BY <2>2, RowFactsHold DEF RowFacts, DBFields, PartitionFacts
  <2> HIDE DEF d2
  <2>5. \A r : Named(d2.q[Life], r) => Named(d1.q[Life], r)
    BY <2>3, <2>4, OperationFactsHold DEF OperationFacts, CancelledIs
  <2>6. Sound(d1, d2)
    BY <2>2, <2>3, <2>5, SoundFactsHold DEF SoundFacts, LifeOnlySound
  <2> QED BY <2>1, <2>2, <2>6, SoundFactsHold DEF SoundFacts, SoundTrans
<1>RequestReleaseSound. RequestReleaseSound
  <2> SUFFICES
      ASSUME NEW d \in DB
      PROVE  Sound(d, RequestRelease(d))
    BY DEF RequestReleaseSound
  <2> DEFINE b == [d.bnd EXCEPT !.release = TRUE]
             d1 == SetBnd(d, b)
             d2 == SettleSessionWaiters(d1)
  <2>1. b \in BndRow
    <3>1. d.bnd \in BndRow
      BY RowFactsHold DEF RowFacts, DBFields
    <3> QED BY <3>1 DEF BndRow
  <2>2. RequestRelease(d) = AbandonDependencies(d2)
    BY DEF RequestRelease
  <2> HIDE DEF b
  <2>3. Sound(d, d1) /\ d1 \in DB
    BY <2>1, ReleaseTxHold DEF Sound, ReleaseTx, SetBndSound
  <2> HIDE DEF d1
  <2>4. Sound(d, d2) /\ d2 \in DB
    BY <2>3, <1>SettleSessionWaitersSound, SoundFactsHold DEF Sound, SettleSessionWaitersSound, SoundFacts,
       SoundTrans
  <2> HIDE DEF d2
  <2> QED BY <2>2, <2>4, <1>AbandonDependenciesSound, SoundFactsHold DEF AbandonDependenciesSound, SoundFacts,
     SoundTrans
<1>EnsureSessionDeleteSound. EnsureSessionDeleteSound
  <2> SUFFICES
      ASSUME NEW d \in DB, NEW h \in Nat
      PROVE  Sound(d, EnsureSessionDelete(d, h))
    BY DEF EnsureSessionDeleteSound
  <2> DEFINE d1 == RequestRelease(d)
             d2 == EnsureRelease(d1, h, "session_delete")
  <2>1. Sound(d, d1) /\ d1 \in DB
    BY <1>RequestReleaseSound DEF Sound, RequestReleaseSound
  <2>2. EnsureSessionDelete(d, h) \in {d, d1, d2}
    BY DEF EnsureSessionDelete
  <2> HIDE DEF d1
  <2>3. Sound(d, d2)
    BY <2>1, ReleaseTxHold, SoundFactsHold DEF Reasons, ReleaseTx, EnsureReleaseSound, SoundFacts, SoundTrans
  <2> HIDE DEF d2
  <2> QED BY <2>1, <2>2, <2>3, SoundFactsHold DEF SoundFacts, SoundRefl
<1>EnsureMaterializationSound. EnsureMaterializationSound
  <2> SUFFICES
      ASSUME NEW d \in DB
      PROVE  LET d2 == EnsureMaterialization(d) IN
             /\ Sound(d, d2) /\ d2.ex = d.ex /\ LifeOnly(d, d2)
             /\ UnfinishedMaterialization(d2) # {}
    BY DEF EnsureMaterializationSound
  <2> DEFINE op0 == Operation(d, "materialize", d.bnd.handle)
             op == [op0 EXCEPT !.res = d.desired]
             d2 == InsertOp(d, op)
             n == Len(d.ops) + 1
  <2>1. CASE UnfinishedMaterialization(d) # {}
    BY <2>1, SoundFactsHold, RowFactsHold DEF EnsureMaterialization, SoundFacts, SoundRefl, RowFacts,
       LifeOnlyRefl
  <2>2. CASE UnfinishedMaterialization(d) = {}
    <3>1. d.bnd.handle \in Nat /\ d.desired \in Nat
      BY RowFactsHold DEF BndRow, RowFacts, DBFields
    <3>2. op0 \in OpRow /\ op0.kind = "materialize" /\ op0.state = "pending"
      BY <3>1, RowFactsHold, SMTT(30) DEF RowFacts, OperationIsRow
    <3>3. EnsureMaterialization(d) = d2
      BY <2>2 DEF EnsureMaterialization
    <3> HIDE DEF op0
    <3>4. op \in OpRow /\ op.kind = "materialize" /\ op.state = "pending"
      <4>1. op \in OpRow
        BY <3>1, <3>2, ReleaseTxHold DEF OpStates, Bounds, Reasons, ReleaseTx, OpRowClosed
      <4>2. op.kind = op0.kind /\ op.state = op0.state
        BY <3>2 DEF OpRow
      <4> QED BY <3>2, <4>1, <4>2
    <3> HIDE DEF op
    <3>5. /\ LifeOnly(d, d2) /\ OpIds(d2) = OpIds(d) \cup {n}
          /\ d2.ops[n] = [op EXCEPT !.job = TRUE]
      BY <3>4, RowFactsHold DEF RowFacts, InsertOpIs
    <3>6. Sound(d, d2)
      BY <3>4, ReleaseTxHold DEF ReleaseTx, InsertOpSound
    <3> HIDE DEF d2
    <3>7. d2.ops[n].kind = "materialize" /\ d2.ops[n].state = "pending"
      BY <3>4, <3>5 DEF OpRow
    <3>8. n \in UnfinishedMaterialization(d2)
      BY <3>5, <3>7 DEF UnfinishedMaterialization
    <3> QED BY <3>3, <3>5, <3>6, <3>8 DEF LifeOnly
  <2> QED BY <2>1, <2>2
<1>AttachToMaterializationSound. AttachToMaterializationSound
  <2> SUFFICES
      ASSUME NEW d \in DB, NEW W \in SUBSET Tools,
             \A e \in W : d.ex[e].state \in Waiting \cup {"pending"}
      PROVE  Sound(d, AttachToMaterialization(d, W))
    BY DEF AttachToMaterializationSound
  <2> DEFINE d1 == EnsureMaterialization(d)
             m == CHOOSE x \in UnfinishedMaterialization(d1) : TRUE
             f == [e \in Tools |-> IF e \in W THEN AttachRow(d.ex[e], m) ELSE d.ex[e]]
             d2 == [d1 EXCEPT !.ex = f]
  <2>1. AttachToMaterialization(d, W) = d2
    BY DEF AttachToMaterialization
  <2>2. Sound(d, d1) /\ d1.ex = d.ex /\ d1 \in DB /\ UnfinishedMaterialization(d1) # {}
    BY <1>EnsureMaterializationSound DEF Sound, EnsureMaterializationSound
  <2> HIDE DEF d1
  <2>3. m \in Nat
    <3>1. m \in UnfinishedMaterialization(d1)
      BY <2>2
    <3>2. \A x \in UnfinishedMaterialization(d1) : x \in OpIds(d1)
      BY DEF UnfinishedMaterialization
    <3>3. OpIds(d1) \subseteq Nat
      BY <2>2, RowFactsHold DEF RowFacts, OpIdsFinite
    <3> QED BY <3>1, <3>2, <3>3
  <2> HIDE DEF m
  <2>4. f \in [Tools -> ExRow]
    <3>1. \A x \in ExRow : AttachRow(x, m) \in ExRow
      BY <2>3, ExRowFactsHold DEF ExRowFacts, AttachRowIs
    <3> QED BY <3>1, RowFactsHold DEF RowFacts, DBFields
  <2>5. \A e \in Tools : f[e] = IF e \in W THEN AttachRow(d1.ex[e], m) ELSE d1.ex[e]
    BY <2>2
  <2> HIDE DEF f
  <2>6. ExOnly(d1, d2) /\ d2.ex = f
    BY <2>2, <2>4, ExRowFactsHold DEF ExRowFacts, ExReplaced
  <2> HIDE DEF d2
  <2>7. ASSUME NEW e \in Tools, NEW v \in Worker, NEW c \in Worker, NEW n \in Nat, NEW k \in Nat,
               RightIn(d1, e, v, c, n, k)
        PROVE  RightIn(d2, e, v, c, n, k)
    <3>1. d1.ex[e] \in ExRow /\ d1.q[Exec(e)] \in Seq(JobRow)
      BY <2>2, RowFactsHold DEF RowFacts, DBFields, PartitionFacts
    <3>2. d2.session = d1.session /\ d2.q = d1.q
      BY <2>6 DEF ExOnly
    <3>3. CASE e \in W
      <4>1. d2.ex[e] = AttachRow(d1.ex[e], m)
        BY <2>5, <2>6, <3>3
      <4>2. d1.ex[e].state \in Waiting \cup {"pending"}
        BY <2>2, <3>3
      <4>3. Right(d1.session, AttachRow(d1.ex[e], m), d1.q[Exec(e)], v, c, n, k)
        BY <2>3, <2>7, <3>1, <4>2, RightFactsHold DEF RightIn, RightFacts, AttachKeeps
      <4> QED BY <3>2, <4>1, <4>3 DEF RightIn
    <3>4. CASE e \notin W
      BY <2>5, <2>6, <2>7, <3>2, <3>4 DEF RightIn
    <3> QED BY <3>3, <3>4
  <2>8. Sound(d1, d2)
    BY <2>2, <2>6, <2>7, SoundFactsHold DEF ExOnly, SoundFacts, RowsSound
  <2> QED BY <2>1, <2>2, <2>8, SoundFactsHold DEF SoundFacts, SoundTrans
<1> QED BY <1>FailOpsSound, <1>FailOpSound, <1>AbandonOpSound, <1>SettleSessionWaitersSound,
   <1>AbandonDependenciesSound, <1>RequestReleaseSound, <1>EnsureSessionDeleteSound,
   <1>EnsureMaterializationSound, <1>AttachToMaterializationSound DEF FailureTx

-----------------------------------------------------------------------------
(* The end of an activation, waits of materializations, and claims.        *)

\* A transaction of the lifecycle, and where its worker goes.
Tx(d, t) == Sound(d, t.db) /\ t.pc \in Pcs \cup {"error"}

\* RequeueMaterializations is sound.
RequeueMaterializationsSound ==
  \A d \in DB : \A o :
    Sound(d, RequeueMaterializations(d, o)) /\ RequeueMaterializations(d, o).ex = d.ex

\* The waiters of an operation stay waiting through the lifecycle's own part.
WaitersAre ==
  \A d, o :
    Waiters(d, o) \in SUBSET Tools /\ \A e \in Waiters(d, o) : d.ex[e].state \in Waiting

\* CompleteActivation is sound.
CompleteActivationSound ==
  \A d \in DB : \A o \in OpIds(d), h \in Nat :
    Sound(d, CompleteActivation(d, o, h))

\* EnsureActivation is sound, and leaves an unfinished activation.
EnsureActivationIs ==
  \A d \in DB : \A kind :
    LET d2 == EnsureActivation(d, kind) IN
    /\ Sound(d, d2) /\ LifeOnly(d, d2) /\ d2 \in DB
    /\ OpIds(d) \subseteq OpIds(d2)
    /\ \A o \in OpIds(d) : d2.ops[o] = d.ops[o]
    /\ UnfinishedActivation(d2) # {}

\* Unfinished operations are operations.
UnfinishedAreOps ==
  \A d \in DB :
    /\ UnfinishedActivation(d) \subseteq OpIds(d) /\ UnfinishedMaterialization(d) \subseteq OpIds(d)
    /\ OpIds(d) \subseteq Nat

\* Removing a job of the lifecycle is sound.
RemoveJobSound ==
  \A d \in DB : \A r :
    Sound(d, RemoveJob(d, Life, r)) /\ LifeOnly(d, RemoveJob(d, Life, r))

\* WaitMaterializationForActivation is sound.
WaitMaterializationForActivationSound ==
  \A d \in DB : \A m \in OpIds(d) : \A kind :
    Sound(d, WaitMaterializationForActivation(d, m, kind))

\* CompleteMaterialization is sound.
CompleteMaterializationSound ==
  \A d \in DB : \A m \in OpIds(d) :
    Sound(d, CompleteMaterialization(d, m))

\* A sound change with a next program counter is a transaction.
ThenIs ==
  \A d \in DB : \A d2 : \A pc \in Pcs \cup {"error"} :
    Sound(d, d2) =>
      Tx(d, Then(d2, pc))

\* So is no change.
StayIs ==
  \A d \in DB, pc \in Pcs \cup {"error"} :
    Tx(d, Then(d, pc))

\* Claimed is sound.
ClaimedSound ==
  \A d \in DB : \A o \in OpIds(d) :
    Sound(d, Claimed(d, o)) /\ LifeOnly(d, Claimed(d, o))

\* Claim is sound.
ClaimSound ==
  \A d \in DB : \A o \in OpIds(d) : \A stale :
    Tx(d, Claim(d, o, stale))

\* ClaimActivation is sound.
ClaimActivationSound ==
  \A d \in DB : \A o \in OpIds(d) :
    Tx(d, ClaimActivation(d, o))

\* ClaimMaterialization is sound.
ClaimMaterializationSound ==
  \A d \in DB : \A o \in OpIds(d) :
    Tx(d, ClaimMaterialization(d, o))

\* ClaimRelease is sound.
ClaimReleaseSound ==
  \A d \in DB : \A r \in OpIds(d), blocked \in Pcs \cup {"error"} :
    Tx(d, ClaimRelease(d, r, blocked))

\* The transactions that start and complete an operation.
ClaimTx ==
  /\ RequeueMaterializationsSound /\ WaitersAre /\ CompleteActivationSound /\ EnsureActivationIs
  /\ UnfinishedAreOps /\ RemoveJobSound /\ WaitMaterializationForActivationSound
  /\ CompleteMaterializationSound /\ ThenIs /\ StayIs /\ ClaimedSound /\ ClaimSound
  /\ ClaimActivationSound /\ ClaimMaterializationSound /\ ClaimReleaseSound

\* These facts hold.
LEMMA ClaimTxHold == ASSUME OrderFacts PROVE ClaimTx
<1>RequeueMaterializationsSound. RequeueMaterializationsSound
  <2> SUFFICES
      ASSUME NEW d \in DB, NEW o
      PROVE  Sound(d, RequeueMaterializations(d, o)) /\ RequeueMaterializations(d, o).ex = d.ex
    BY DEF RequeueMaterializationsSound
  <2> DEFINE D == Dependents(d, o)
             row(x) == [x EXCEPT !.state = "pending", !.wait = 0, !.rev = d.bnd.rev, !.target = d.bnd.handle]
             f == [m \in OpIds(d) |-> IF m \in D THEN row(d.ops[m]) ELSE d.ops[m]]
             d1 == [d EXCEPT !.ops = f]
  <2>1. f \in [OpIds(d) -> OpRow]
    <3>1. d.bnd.rev \in Nat /\ d.bnd.handle \in Nat
      BY RowFactsHold DEF BndRow, RowFacts, DBFields
    <3>2. \A x \in OpRow : row(x) \in OpRow
      BY <3>1 DEF OpRow
    <3> QED BY <3>2, RowFactsHold DEF RowFacts, DBFields
  <2>2. RequeueMaterializations(d, o) = QueueOps(d1, D) /\ D \subseteq OpIds(d)
    BY DEF RequeueMaterializations, Rebound, Dependents
  <2> HIDE DEF f, D
  <2>3. LifeOnly(d, d1) /\ d1.q = d.q /\ OpIds(d1) = OpIds(d)
    BY <2>1, RowFactsHold DEF RowFacts, OpsReplaced
  <2> HIDE DEF d1
  <2>4. Sound(d, d1) /\ d1 \in DB /\ d1.ex = d.ex
    BY <2>3, SoundFactsHold DEF LifeOnly, SoundFacts, SameQueueSound
  <2>5. Sound(d1, QueueOps(d1, D)) /\ LifeOnly(d1, QueueOps(d1, D))
    BY <2>2, <2>3, <2>4, ReleaseTxHold, RowFactsHold DEF ReleaseTx, QueueOpsSound, RowFacts, QueueOpsIs
  <2> QED BY <2>2, <2>4, <2>5, SoundFactsHold DEF LifeOnly, SoundFacts, SoundTrans
<1>WaitersAre. WaitersAre
  BY DEF Waiters, WaitersAre
<1>CompleteActivationSound. CompleteActivationSound
  <2> SUFFICES
      ASSUME NEW d \in DB, NEW o \in OpIds(d), NEW h \in Nat
      PROVE  Sound(d, CompleteActivation(d, o, h))
    BY DEF CompleteActivationSound
  <2> DEFINE op == d.ops[o]
             old == d.bnd.handle
             W == Waiters(d, o)
             kept == op.kind = "start" /\ old = h
             r1 == [op EXCEPT !.state = "completed"]
             r2 == [op EXCEPT !.state = "completed", !.bound = "none", !.made = h]
             b2 == [d.bnd EXCEPT !.handle = h, !.rev = @ + 1, !.mat = IF kept THEN @ ELSE 0]
             d1 == SetOp(d, o, r1)
             d0 == SetOp(d, o, r2)
             d2 == SetBnd(d0, b2)
             d3 == IF op.kind = "replace" /\ old \notin {0, h} THEN EnsureRelease(d2, old, "replaced_handle") ELSE d2
             d4 == RequeueMaterializations(d3, o)
             x1 == ReleaseWaiters(d1, W)
             x2 == EnsureSessionDelete(d3, h)
             x3 == ReleaseWaiters(d4, W)
             x4 == AttachToMaterialization(d4, W)
             res == CASE op.rev # d.bnd.rev -> IF d.bnd.release THEN d1 ELSE x1
                      [] op.rev = d.bnd.rev /\ d.bnd.release -> x2
                      [] OTHER -> IF W = {} THEN d4
                                  ELSE IF d4.bnd.mat = d4.desired THEN x3
                                  ELSE x4
  <2>1. CompleteActivation(d, o, h) = ReadyReleases(res)
    BY DEF CompleteActivation
  <2>2. r1 \in OpRow /\ r2 \in OpRow
    <3>1. op \in OpRow
      BY RowFactsHold DEF RowFacts, DBFields
    <3> HIDE DEF op
    <3> QED BY <3>1, ReleaseTxHold DEF OpStates, Bounds, Reasons, ReleaseTx, OpRowClosed
  <2>3. b2 \in BndRow /\ old \in Nat
    <3>1. d.bnd \in BndRow
      BY RowFactsHold DEF RowFacts, DBFields
    <3>2. d.bnd.rev + 1 \in Nat /\ d.bnd.handle \in Nat /\ d.bnd.mat \in Nat
      BY <3>1, SMTT(30) DEF BndRow
    <3> DEFINE n == d.bnd.rev + 1
               m == IF kept THEN d.bnd.mat ELSE 0
    <3>3. m \in Nat
      BY <3>2
    <3>4. b2 = [d.bnd EXCEPT !.handle = h, !.rev = n, !.mat = m]
      BY <3>1 DEF BndRow
    <3> HIDE DEF n, m, b2, kept
    <3>5. n \in Nat
      BY <3>2 DEF n
    <3> QED BY <3>1, <3>2, <3>3, <3>4, <3>5 DEF BndRow
  <2>4. res \in {d1, x1, x2, d4, x3, x4}
    <3> HIDE DEF d1, x1, x2, d4, x3, x4
    <3> QED OBVIOUS
  <2> HIDE DEF res, r1, r2, b2, kept
  <2>5. LifeOnly(d, d1) /\ Sound(d, d1) /\ LifeOnly(d, d0) /\ Sound(d, d0) /\ d0 \in DB
    BY <2>2, RowFactsHold, ReleaseTxHold, SMTT(30) DEF LifeOnly, RowFacts, SetOpIs, ReleaseTx, SetOpSound
  <2>6. d1 \in DB /\ d1.ex = d.ex
    BY <2>5 DEF LifeOnly
  <2> HIDE DEF d0, d1, op
  <2>7. LifeOnly(d, d2) /\ Sound(d, d2) /\ d2 \in DB
    BY <2>3, <2>5, RowFactsHold, ReleaseTxHold, SoundFactsHold, SMTT(30) DEF LifeOnly, RowFacts, SetBndIs, ReleaseTx,
       SetBndSound, LifeOnlyTrans, SoundFacts, SoundTrans
  <2> HIDE DEF d2, old
  <2>8. LifeOnly(d, d3) /\ Sound(d, d3) /\ d3 \in DB
    <3>1. "replaced_handle" \in Reasons
      BY DEF Reasons
    <3> DEFINE y == EnsureRelease(d2, old, "replaced_handle")
    <3>2. Sound(d2, y) /\ LifeOnly(d2, y)
      BY <2>3, <2>7, <3>1, ReleaseTxHold DEF ReleaseTx, EnsureReleaseSound
    <3>3. d3 \in {d2, y}
      OBVIOUS
    <3> HIDE DEF d3, y
    <3> QED BY <2>7, <3>2, <3>3, RowFactsHold, SoundFactsHold, SMTT(30) DEF LifeOnly, RowFacts, LifeOnlyTrans, SoundFacts,
       SoundTrans
  <2>9. d3.ex = d.ex
    BY <2>8 DEF LifeOnly
  <2> HIDE DEF d3
  <2>10. Sound(d, d4) /\ d4 \in DB /\ d4.ex = d.ex
    BY <2>8, <2>9, <1>RequeueMaterializationsSound, SoundFactsHold DEF Sound, RequeueMaterializationsSound,
       SoundFacts, SoundTrans
  <2> HIDE DEF d4
  <2>11. W \in SUBSET Tools /\ \A e \in W : d.ex[e].state \in Waiting
    BY <1>WaitersAre DEF WaitersAre
  <2> HIDE DEF W
  <2>12. Sound(d, x1)
    BY <2>5, <2>6, <2>11, SoundFactsHold DEF SoundFacts, ReleaseWaitersSound, SoundTrans
  <2>13. Sound(d, x2)
    BY <2>8, FailureTxHold, SoundFactsHold DEF FailureTx, EnsureSessionDeleteSound, SoundFacts, SoundTrans
  <2>14. Sound(d, x3)
    BY <2>10, <2>11, SoundFactsHold DEF SoundFacts, ReleaseWaitersSound, SoundTrans
  <2>15. Sound(d, x4)
    BY <2>10, <2>11, FailureTxHold, SoundFactsHold DEF FailureTx, AttachToMaterializationSound, SoundFacts,
       SoundTrans
  <2> HIDE DEF x1, x2, x3, x4
  <2>16. Sound(d, res)
    BY <2>4, <2>5, <2>10, <2>12, <2>13, <2>14, <2>15
  <2>17. res \in DB
    BY <2>16 DEF Sound
  <2> QED BY <2>1, <2>16, <2>17, ReleaseTxHold, SoundFactsHold DEF ReleaseTx, ReadyReleasesSound, SoundFacts,
     SoundTrans
<1>EnsureActivationIs. EnsureActivationIs
  <2> SUFFICES
      ASSUME NEW d \in DB, NEW kind
      PROVE  LET d2 == EnsureActivation(d, kind) IN
             /\ Sound(d, d2) /\ LifeOnly(d, d2) /\ d2 \in DB
             /\ OpIds(d) \subseteq OpIds(d2)
             /\ \A o \in OpIds(d) : d2.ops[o] = d.ops[o]
             /\ UnfinishedActivation(d2) # {}
    BY DEF EnsureActivationIs
  <2> DEFINE op0 == Operation(d, "replace", 0)
             op1 == [op0 EXCEPT !.env = Generation(d)]
             op2 == Operation(d, "start", d.bnd.handle)
             op == IF kind = "start" THEN op2 ELSE op1
             d2 == InsertOp(d, op)
             n == Len(d.ops) + 1
  <2>1. CASE UnfinishedActivation(d) # {}
    BY <2>1, SoundFactsHold, RowFactsHold DEF EnsureActivation, SoundFacts, SoundRefl, RowFacts, LifeOnlyRefl
  <2>2. CASE UnfinishedActivation(d) = {}
    <3>1. d.bnd.handle \in Nat /\ Generation(d) \in Nat
      BY RowFactsHold, SMTT(30) DEF BndRow, Generation, RowFacts, DBFields
    <3>2. op0 \in OpRow /\ op0.kind = "replace" /\ op0.state = "pending"
      BY RowFactsHold, SMTT(30) DEF RowFacts, OperationIsRow
    <3>3. op2 \in OpRow /\ op2.kind = "start" /\ op2.state = "pending"
      BY <3>1, RowFactsHold, SMTT(30) DEF RowFacts, OperationIsRow
    <3>4. EnsureActivation(d, kind) = d2
      BY <2>2 DEF EnsureActivation
    <3> HIDE DEF op0, op2
    <3>5. op1 \in OpRow /\ op1.kind = "replace" /\ op1.state = "pending"
      <4>1. op1.kind = op0.kind /\ op1.state = op0.state /\ op1 \in OpRow
        BY <3>1, <3>2 DEF OpRow
      <4> QED BY <3>2, <4>1
    <3> HIDE DEF op1
    <3>6. op \in OpRow /\ op.kind \in ActivationKinds /\ op.state = "pending"
      BY <3>3, <3>5 DEF ActivationKinds
    <3> HIDE DEF op
    <3>7. /\ LifeOnly(d, d2) /\ OpIds(d2) = OpIds(d) \cup {n}
          /\ \A o \in OpIds(d) : d2.ops[o] = d.ops[o]
          /\ d2.ops[n] = [op EXCEPT !.job = TRUE]
      BY <3>6, RowFactsHold DEF RowFacts, InsertOpIs
    <3>8. Sound(d, d2)
      BY <3>6, ReleaseTxHold DEF ReleaseTx, InsertOpSound
    <3> HIDE DEF d2
    <3>9. d2.ops[n].kind = op.kind /\ d2.ops[n].state = op.state
      BY <3>6, <3>7 DEF OpRow
    <3>10. n \in UnfinishedActivation(d2)
      BY <3>6, <3>7, <3>9 DEF UnfinishedActivation
    <3> QED BY <3>4, <3>7, <3>8, <3>10 DEF LifeOnly
  <2> QED BY <2>1, <2>2
<1>UnfinishedAreOps. UnfinishedAreOps
  <2> SUFFICES
      ASSUME NEW d \in DB
      PROVE  /\ UnfinishedActivation(d) \subseteq OpIds(d) /\ UnfinishedMaterialization(d) \subseteq OpIds(d)
             /\ OpIds(d) \subseteq Nat
    BY DEF UnfinishedAreOps
  <2>1. Len(d.ops) \in Nat
    BY RowFactsHold DEF RowFacts, DBFields
  <2> QED BY <2>1, SMTT(30) DEF UnfinishedActivation, UnfinishedMaterialization, OpIds
<1>RemoveJobSound. RemoveJobSound
  <2> SUFFICES
      ASSUME NEW d \in DB, NEW r
      PROVE  Sound(d, RemoveJob(d, Life, r)) /\ LifeOnly(d, RemoveJob(d, Life, r))
    BY DEF RemoveJobSound
  <2> DEFINE d2 == RemoveJob(d, Life, r)
  <2>1. LifeOnly(d, d2) /\ d2.q[Life] = Removed(d.q[Life], r)
    BY OperationFactsHold, RowFactsHold, SMTT(30) DEF OperationFacts, RemoveJobIs, RowFacts, PartitionFacts
  <2>2. d.q[Life] \in Seq(JobRow)
    BY RowFactsHold DEF RowFacts, DBFields, PartitionFacts
  <2> HIDE DEF d2
  <2>3. \A x : Named(d2.q[Life], x) => Named(d.q[Life], x)
    BY <2>1, <2>2, SequenceFactsHold, SMTT(30) DEF SequenceFacts, RemovedIs
  <2> QED BY <2>1, <2>3, SoundFactsHold DEF d2, SoundFacts, LifeOnlySound
<1>WaitMaterializationForActivationSound. WaitMaterializationForActivationSound
  <2> SUFFICES
      ASSUME NEW d \in DB, NEW m \in OpIds(d), NEW kind
      PROVE  Sound(d, WaitMaterializationForActivation(d, m, kind))
    BY DEF WaitMaterializationForActivationSound
  <2> DEFINE d1 == EnsureActivation(d, kind)
             a == CHOOSE x \in UnfinishedActivation(d1) : TRUE
             r1 == [d.ops[m] EXCEPT !.state = "skipped_cold", !.job = FALSE]
             r2 == [d.ops[m] EXCEPT !.state = "waiting_activation", !.wait = a, !.job = FALSE]
             x1 == SetOp(d, m, r1)
             x2 == SetOp(d1, m, r2)
             d2 == IF Waiters(d, m) = {} THEN x1 ELSE x2
             d3 == ReadyReleases(d2)
  <2>1. WaitMaterializationForActivation(d, m, kind) = RemoveJob(d3, Life, m)
    BY DEF WaitMaterializationForActivation
  <2>2. /\ Sound(d, d1) /\ LifeOnly(d, d1) /\ d1 \in DB /\ OpIds(d) \subseteq OpIds(d1)
        /\ UnfinishedActivation(d1) # {}
    BY <1>EnsureActivationIs DEF EnsureActivationIs
  <2> HIDE DEF d1
  <2>3. a \in Nat
    BY <2>2, <1>UnfinishedAreOps DEF UnfinishedAreOps
  <2> HIDE DEF a
  <2>4. d.ops[m] \in OpRow
    BY RowFactsHold DEF RowFacts, DBFields
  <2>5. r1 \in OpRow /\ r2 \in OpRow
    BY <2>3, <2>4, ReleaseTxHold DEF OpStates, Bounds, Reasons, ReleaseTx, OpRowClosed
  <2> HIDE DEF r1, r2
  <2>6. Sound(d, x1)
    BY <2>5, ReleaseTxHold DEF ReleaseTx, SetOpSound
  <2>7. Sound(d, x2)
    BY <2>2, <2>5, ReleaseTxHold, SoundFactsHold DEF ReleaseTx, SetOpSound, SoundFacts, SoundTrans
  <2> HIDE DEF x1, x2
  <2>8. Sound(d, d2) /\ d2 \in DB
    BY <2>6, <2>7 DEF Sound
  <2> HIDE DEF d2
  <2>9. Sound(d, d3) /\ d3 \in DB
    BY <2>8, ReleaseTxHold, SoundFactsHold DEF Sound, ReleaseTx, ReadyReleasesSound, SoundFacts, SoundTrans
  <2> HIDE DEF d3
  <2> QED BY <2>1, <2>9, <1>RemoveJobSound, SoundFactsHold DEF RemoveJobSound, SoundFacts, SoundTrans
<1>CompleteMaterializationSound. CompleteMaterializationSound
  <2> SUFFICES
      ASSUME NEW d \in DB, NEW m \in OpIds(d)
      PROVE  Sound(d, CompleteMaterialization(d, m))
    BY DEF CompleteMaterializationSound
  <2> DEFINE op == d.ops[m]
             W == Waiters(d, m)
             r == [op EXCEPT !.state = "completed"]
             b == [d.bnd EXCEPT !.mat = op.res]
             d1 == SetOp(d, m, r)
             d2 == SetBnd(d1, b)
             x1 == ReleaseWaiters(d1, W)
             x2 == AttachToMaterialization(d2, W)
             x3 == ReleaseWaiters(d2, W)
             res == CASE op.rev # d.bnd.rev \/ op.target # d.bnd.handle -> IF d.bnd.release THEN d1 ELSE x1
                      [] OTHER -> IF d.bnd.release THEN d2 ELSE IF d.desired > op.res THEN x2 ELSE x3
  <2>1. CompleteMaterialization(d, m) = ReadyReleases(res)
    BY DEF CompleteMaterialization
  <2>2. res \in {d1, d2, x1, x2, x3}
    <3> HIDE DEF d1, x1, x2, d2, x3
    <3> QED OBVIOUS
  <2> HIDE DEF res
  <2>3. op \in OpRow /\ d.bnd \in BndRow
    BY RowFactsHold DEF RowFacts, DBFields
  <2>4. r \in OpRow
    <3> HIDE DEF op
    <3> QED BY <2>3, ReleaseTxHold DEF OpStates, Bounds, Reasons, ReleaseTx, OpRowClosed
  <2>5. b \in BndRow
    BY <2>3 DEF OpRow, BndRow
  <2> HIDE DEF r, b
  <2>6. LifeOnly(d, d1) /\ Sound(d, d1) /\ d1 \in DB
    BY <2>4, ReleaseTxHold DEF LifeOnly, ReleaseTx, SetOpSound
  <2> HIDE DEF d1
  <2>7. LifeOnly(d, d2) /\ Sound(d, d2) /\ d2 \in DB
    BY <2>5, <2>6, ReleaseTxHold, RowFactsHold, SoundFactsHold, SMTT(30) DEF LifeOnly, ReleaseTx, SetBndSound, RowFacts,
       LifeOnlyTrans, SoundFacts, SoundTrans
  <2> HIDE DEF d2
  <2>8. d1.ex = d.ex /\ d2.ex = d.ex
    BY <2>6, <2>7 DEF LifeOnly
  <2>9. W \in SUBSET Tools /\ \A e \in W : d.ex[e].state \in Waiting
    BY <1>WaitersAre DEF WaitersAre
  <2> HIDE DEF W
  <2>10. Sound(d, x1) /\ Sound(d, x3)
    BY <2>6, <2>7, <2>8, <2>9, SoundFactsHold DEF SoundFacts, ReleaseWaitersSound, SoundTrans
  <2>11. Sound(d, x2)
    BY <2>7, <2>8, <2>9, FailureTxHold, SoundFactsHold DEF FailureTx, AttachToMaterializationSound, SoundFacts,
       SoundTrans
  <2> HIDE DEF x1, x2, x3
  <2>12. Sound(d, res) /\ res \in DB
    BY <2>2, <2>6, <2>7, <2>10, <2>11 DEF Sound
  <2> QED BY <2>1, <2>12, ReleaseTxHold, SoundFactsHold DEF ReleaseTx, ReadyReleasesSound, SoundFacts,
     SoundTrans
<1>ThenIs. ThenIs
  BY DEF Tx, Then, ThenIs
<1>StayIs. StayIs
  BY SoundFactsHold, <1>ThenIs DEF SoundFacts, SoundRefl, ThenIs, StayIs
<1>ClaimedSound. ClaimedSound
  <2> SUFFICES
      ASSUME NEW d \in DB, NEW o \in OpIds(d)
      PROVE  Sound(d, Claimed(d, o)) /\ LifeOnly(d, Claimed(d, o))
    BY DEF ClaimedSound
  <2>1. d.ops[o] \in OpRow
    BY RowFactsHold DEF RowFacts, DBFields
  <2>2. [d.ops[o] EXCEPT !.state = "running"] \in OpRow
    BY <2>1, ReleaseTxHold DEF OpStates, Bounds, Reasons, ReleaseTx, OpRowClosed
  <2> QED BY <2>2, ReleaseTxHold DEF Claimed, ReleaseTx, SetOpSound
<1>ClaimSound. ClaimSound
  <2> SUFFICES
      ASSUME NEW d \in DB, NEW o \in OpIds(d), NEW stale
      PROVE  Tx(d, Claim(d, o, stale))
    BY DEF ClaimSound
  <2>1. Claim(d, o, stale) \in {Then(d, "done"), Then(AbandonOp(d, o), "done"), Then(Claimed(d, o), "look")}
    BY DEF Claim
  <2>2. {"done", "look"} \subseteq Pcs \cup {"error"}
    BY DEF Pcs
  <2>3. Tx(d, Then(d, "done")) /\ Tx(d, Then(AbandonOp(d, o), "done")) /\ Tx(d, Then(Claimed(d, o), "look"))
    BY <2>2, <1>StayIs, <1>ThenIs, FailureTxHold, <1>ClaimedSound DEF StayIs, ThenIs, FailureTx, AbandonOpSound,
       ClaimedSound
  <2> QED BY <2>1, <2>3
<1>ClaimActivationSound. ClaimActivationSound
  <2> SUFFICES
      ASSUME NEW d \in DB, NEW o \in OpIds(d)
      PROVE  Tx(d, ClaimActivation(d, o))
    BY DEF ClaimActivationSound
  <2> DEFINE stale == \/ d.ops[o].rev # d.bnd.rev
                      \/ d.bnd.release
                      \/ d.ops[o].target # 0 /\ d.ops[o].target # d.bnd.handle
  <2>1. ClaimActivation(d, o) \in {Then(d, "retry"), Claim(d, o, stale)}
    BY DEF ClaimActivation
  <2> HIDE DEF stale
  <2>2. Tx(d, Then(d, "retry")) /\ Tx(d, Claim(d, o, stale))
    BY <1>StayIs, <1>ClaimSound DEF Pcs, StayIs, ClaimSound
  <2> QED BY <2>1, <2>2
<1>ClaimMaterializationSound. ClaimMaterializationSound
  BY <1>ClaimSound DEF ClaimMaterialization, ClaimSound, ClaimMaterializationSound
<1>ClaimReleaseSound. ClaimReleaseSound
  <2> SUFFICES
      ASSUME NEW d \in DB, NEW r \in OpIds(d), NEW blocked \in Pcs \cup {"error"}
      PROVE  Tx(d, ClaimRelease(d, r, blocked))
    BY DEF ClaimReleaseSound
  <2>1. ClaimRelease(d, r, blocked) \in {Then(d, "done"), Then(d, blocked), Then(Claimed(d, r), "look")}
    BY DEF ClaimRelease
  <2>2. Tx(d, Then(d, "done")) /\ Tx(d, Then(d, blocked)) /\ Tx(d, Then(Claimed(d, r), "look"))
    BY <1>StayIs, <1>ThenIs, <1>ClaimedSound DEF Pcs, StayIs, ThenIs, ClaimedSound
  <2> QED BY <2>1, <2>2
<1> QED BY <1>RequeueMaterializationsSound, <1>WaitersAre, <1>CompleteActivationSound, <1>EnsureActivationIs,
   <1>UnfinishedAreOps, <1>RemoveJobSound, <1>WaitMaterializationForActivationSound,
   <1>CompleteMaterializationSound, <1>ThenIs, <1>StayIs, <1>ClaimedSound, <1>ClaimSound,
   <1>ClaimActivationSound, <1>ClaimMaterializationSound, <1>ClaimReleaseSound DEF ClaimTx

-----------------------------------------------------------------------------
(* The rest of the lifecycle, and the Queue.                               *)

\* ReplaceMissingActivation is sound.
ReplaceMissingActivationSound ==
  \A d \in DB : \A o \in OpIds(d) :
    Tx(d, ReplaceMissingActivation(d, o))

\* SetBound is sound.
SetBoundSound ==
  \A d \in DB : \A r \in OpIds(d), bound \in Bounds :
    Sound(d, SetBound(d, r, bound)) /\ LifeOnly(d, SetBound(d, r, bound))

\* ObserveUnknownActivation is sound.
ObserveUnknownActivationSound ==
  \A d \in DB : \A o \in OpIds(d) :
    Tx(d, ObserveUnknownActivation(d, o))

\* ParkBlockedRelease is sound.
ParkBlockedReleaseSound ==
  \A d \in DB : \A r \in OpIds(d) :
    Tx(d, ParkBlockedRelease(d, r))

\* AuthorizeRelease is sound.
AuthorizeReleaseSound ==
  \A d \in DB : \A r \in OpIds(d) :
    Tx(d, AuthorizeRelease(d, r))

\* RearmRelease is sound.
RearmReleaseSound ==
  \A d \in DB : \A r \in OpIds(d) :
    Tx(d, RearmRelease(d, r))

\* CompleteRelease is sound.
CompleteReleaseSound ==
  \A d \in DB : \A r :
    Sound(d, CompleteRelease(d, r)) /\ LifeOnly(d, CompleteRelease(d, r))

\* FinalizeExhaustedLifecycle is sound.
FinalizeExhaustedLifecycleSound ==
  \A d \in DB : \A o \in OpIds(d) :
    Sound(d, FinalizeExhaustedLifecycle(d, o))

\* FailWaitingArtifact is sound.
FailWaitingArtifactSound ==
  \A d \in DB : \A g :
    Sound(d, FailWaitingArtifact(d, g))

\* EnsureFailedSessionDelete is sound.
EnsureFailedSessionDeleteSound ==
  \A d \in DB :
    Sound(d, EnsureFailedSessionDelete(d))

\* A job keeps its name.
SameNamesSound ==
  \A d, d2 \in DB :
    /\ d2.session = d.session
    /\ d2.ops = d.ops
    /\ d2.ex = d.ex
    /\ \A r : Named(d2.q[Life], r) <=> Named(d.q[Life], r)
    /\ \A e \in Tools : \A r : Named(d2.q[Exec(e)], r) <=> Named(d.q[Exec(e)], r)
    =>
      Sound(d, d2)

\* Re-marking a job is sound.
SetJobSound ==
  \A d \in DB, p \in Partitions : \A r : \A st \in {"due", "backoff"} :
    Sound(d, SetJob(d, p, r, st))

\* Elsewhere a queue does not matter.
OtherQueueSound ==
  \A d, d2 \in DB :
    /\ d2.session = d.session
    /\ d2.ops = d.ops
    /\ d2.ex = d.ex
    /\ d2.q[Life] = d.q[Life]
    /\ \A e \in Tools : d2.q[Exec(e)] = d.q[Exec(e)]
    =>
      Sound(d, d2)

\* Removing a job is sound unless it is an execution's.
RemoveOtherSound ==
  \A d \in DB, p \in Partitions : \A r :
    /\ \A e \in Tools : p # Exec(e)
    =>
      Sound(d, RemoveJob(d, p, r))

\* An open execution is in one of the open states.
OpenAre ==
  \A d \in DB : \A e \in Open(d) :
    e \in Tools /\ d.ex[e].state \in OpenStates

\* The other transactions of the lifecycle, and changes of a queue.
LifecycleTx ==
  /\ ReplaceMissingActivationSound /\ SetBoundSound /\ ObserveUnknownActivationSound
  /\ ParkBlockedReleaseSound /\ AuthorizeReleaseSound /\ RearmReleaseSound /\ CompleteReleaseSound
  /\ FinalizeExhaustedLifecycleSound /\ FailWaitingArtifactSound /\ EnsureFailedSessionDeleteSound
  /\ SameNamesSound /\ SetJobSound /\ OtherQueueSound /\ RemoveOtherSound /\ OpenAre

\* These facts hold.
LEMMA LifecycleTxHold == ASSUME OrderFacts PROVE LifecycleTx
<1>ReplaceMissingActivationSound. ReplaceMissingActivationSound
  <2> SUFFICES
      ASSUME NEW d \in DB, NEW o \in OpIds(d)
      PROVE  Tx(d, ReplaceMissingActivation(d, o))
    BY DEF ReplaceMissingActivationSound
  <2> DEFINE op == d.ops[o]
             r0 == [op EXCEPT !.kind = "replace", !.target = 0, !.env = Generation(d), !.bound = "none"]
             r1 == [r0 EXCEPT !.state = "waiting_artifact", !.job = FALSE]
             r2 == [r0 EXCEPT !.job = FALSE]
             x0 == SetOp(d, o, r0)
             x1 == ReadyReleases(SetOp(d, o, r1))
             x2 == FailOp(SetOp(d, o, r2), o, "proved_not_started")
             x3 == AbandonOp(d, o)
  <2>1. ReplaceMissingActivation(d, o) \in {Then(x3, "done"), Then(x1, "done"), Then(x2, "done"), Then(x0, "look")}
    BY DEF ReplaceMissingActivation
  <2>2. op \in OpRow /\ Generation(d) \in Nat
    BY RowFactsHold, SMTT(30) DEF Generation, RowFacts, DBFields
  <2>3. r0 \in OpRow
    <3> HIDE DEF op
    <3> QED BY <2>2, ReleaseTxHold DEF OpStates, Bounds, Reasons, ReleaseTx, OpRowClosed
  <2> HIDE DEF r0
  <2>4. r1 \in OpRow /\ r2 \in OpRow
    BY <2>3, ReleaseTxHold DEF OpStates, Bounds, Reasons, ReleaseTx, OpRowClosed
  <2> HIDE DEF r1, r2
  <2>5. Sound(d, x0)
    BY <2>3, ReleaseTxHold DEF ReleaseTx, SetOpSound
  <2>6. Sound(d, x1)
    BY <2>4, ReleaseTxHold, SoundFactsHold DEF Sound, ReleaseTx, SetOpSound, ReadyReleasesSound, SoundFacts,
       SoundTrans
  <2>7. Sound(d, x2)
    <3>1. "proved_not_started" \in Bounds
      BY DEF Bounds
    <3>2. Sound(d, SetOp(d, o, r2)) /\ SetOp(d, o, r2) \in DB
      BY <2>4, ReleaseTxHold DEF Sound, ReleaseTx, SetOpSound
    <3> QED BY <3>1, <3>2, FailureTxHold, SoundFactsHold DEF FailureTx, FailOpSound, SoundFacts, SoundTrans
  <2>8. Sound(d, x3)
    BY FailureTxHold DEF FailureTx, AbandonOpSound
  <2> HIDE DEF x0, x1, x2, x3
  <2>9. Tx(d, Then(x3, "done")) /\ Tx(d, Then(x1, "done")) /\ Tx(d, Then(x2, "done")) /\ Tx(d, Then(x0, "look"))
    BY <2>5, <2>6, <2>7, <2>8, ClaimTxHold DEF Pcs, ClaimTx, ThenIs
  <2> QED BY <2>1, <2>9
<1>SetBoundSound. SetBoundSound
  <2> SUFFICES
      ASSUME NEW d \in DB, NEW r \in OpIds(d), NEW bound \in Bounds
      PROVE  Sound(d, SetBound(d, r, bound)) /\ LifeOnly(d, SetBound(d, r, bound))
    BY DEF SetBoundSound
  <2>1. d.ops[r] \in OpRow
    BY RowFactsHold DEF RowFacts, DBFields
  <2>2. [d.ops[r] EXCEPT !.bound = bound] \in OpRow
    BY <2>1, ReleaseTxHold DEF OpStates, Reasons, ReleaseTx, OpRowClosed
  <2> QED BY <2>2, ReleaseTxHold DEF SetBound, ReleaseTx, SetOpSound
<1>ObserveUnknownActivationSound. ObserveUnknownActivationSound
  <2> SUFFICES
      ASSUME NEW d \in DB, NEW o \in OpIds(d)
      PROVE  Tx(d, ObserveUnknownActivation(d, o))
    BY DEF ObserveUnknownActivationSound
  <2>1. ObserveUnknownActivation(d, o) \in {Then(d, "done"), Then(SetBound(d, o, "outcome_unknown"), "retry")}
    BY DEF ObserveUnknownActivation, SetBound
  <2>2. Tx(d, Then(d, "done")) /\ Tx(d, Then(SetBound(d, o, "outcome_unknown"), "retry"))
    BY ClaimTxHold, <1>SetBoundSound DEF Pcs, Bounds, ClaimTx, StayIs, ThenIs, SetBoundSound
  <2> QED BY <2>1, <2>2
<1>ParkBlockedReleaseSound. ParkBlockedReleaseSound
  <2> SUFFICES
      ASSUME NEW d \in DB, NEW r \in OpIds(d)
      PROVE  Tx(d, ParkBlockedRelease(d, r))
    BY DEF ParkBlockedReleaseSound
  <2> DEFINE op == [d.ops[r] EXCEPT !.job = FALSE]
             d1 == SetOp(d, r, op)
             d2 == RemoveJob(d1, Life, r)
  <2>1. ParkBlockedRelease(d, r) \in {Then(d2, "idle"), Then(d, "again")}
    BY DEF ParkBlockedRelease
  <2>2. d.ops[r] \in OpRow
    BY RowFactsHold DEF RowFacts, DBFields
  <2>3. op \in OpRow
    BY <2>2 DEF OpRow
  <2> HIDE DEF op
  <2>4. Sound(d, d1) /\ d1 \in DB
    BY <2>3, ReleaseTxHold DEF Sound, ReleaseTx, SetOpSound
  <2> HIDE DEF d1
  <2>5. Sound(d, d2)
    BY <2>4, ClaimTxHold, SoundFactsHold DEF ClaimTx, RemoveJobSound, SoundFacts, SoundTrans
  <2> HIDE DEF d2
  <2>6. Tx(d, Then(d2, "idle")) /\ Tx(d, Then(d, "again"))
    BY <2>5, ClaimTxHold DEF Pcs, ClaimTx, StayIs, ThenIs
  <2> QED BY <2>1, <2>6
<1>AuthorizeReleaseSound. AuthorizeReleaseSound
  <2> SUFFICES
      ASSUME NEW d \in DB, NEW r \in OpIds(d)
      PROVE  Tx(d, AuthorizeRelease(d, r))
    BY DEF AuthorizeReleaseSound
  <2>1. AuthorizeRelease(d, r) \in {Then(SetBound(d, r, "submitted"), "call"), Then(d, "done")}
    BY DEF AuthorizeRelease
  <2>2. Tx(d, Then(d, "done")) /\ Tx(d, Then(SetBound(d, r, "submitted"), "call"))
    BY ClaimTxHold, <1>SetBoundSound DEF Pcs, Bounds, ClaimTx, StayIs, ThenIs, SetBoundSound
  <2> QED BY <2>1, <2>2
<1>RearmReleaseSound. RearmReleaseSound
  <2> SUFFICES
      ASSUME NEW d \in DB, NEW r \in OpIds(d)
      PROVE  Tx(d, RearmRelease(d, r))
    BY DEF RearmReleaseSound
  <2>1. RearmRelease(d, r) \in {Then(SetBound(d, r, "none"), "retry"), Then(d, "retry"), Then(d, "error")}
    BY DEF RearmRelease
  <2>2. Tx(d, Then(d, "retry")) /\ Tx(d, Then(d, "error")) /\ Tx(d, Then(SetBound(d, r, "none"), "retry"))
    BY ClaimTxHold, <1>SetBoundSound DEF Pcs, Bounds, ClaimTx, StayIs, ThenIs, SetBoundSound
  <2> QED BY <2>1, <2>2
<1>CompleteReleaseSound. CompleteReleaseSound
  <2> SUFFICES
      ASSUME NEW d \in DB, NEW r
      PROVE  Sound(d, CompleteRelease(d, r)) /\ LifeOnly(d, CompleteRelease(d, r))
    BY DEF CompleteReleaseSound
  <2> DEFINE d1 == SetStates(d, {r}, "completed")
  <2>1. Sound(d, d1) /\ LifeOnly(d, d1) /\ d1 \in DB
    BY ReleaseTxHold DEF OpStates, Sound, ReleaseTx, SetStatesSound
  <2>2. CompleteRelease(d, r) = ApplyPostcondition(d1, d.ops[r].target, d.ops[r].reason)
    BY DEF CompleteRelease
  <2> HIDE DEF d1
  <2> QED BY <2>1, <2>2, ReleaseTxHold, SoundFactsHold, RowFactsHold DEF ReleaseTx, ApplyPostconditionSound,
     SoundFacts, SoundTrans, RowFacts, LifeOnlyTrans
<1>FinalizeExhaustedLifecycleSound. FinalizeExhaustedLifecycleSound
  <2> SUFFICES
      ASSUME NEW d \in DB, NEW o \in OpIds(d)
      PROVE  Sound(d, FinalizeExhaustedLifecycle(d, o))
    BY DEF FinalizeExhaustedLifecycleSound
  <2> DEFINE op == d.ops[o]
             b1 == IF ObserveOnly(d, o) THEN "outcome_unknown" ELSE "proved_not_started"
             b2 == IF op.bound = "outcome_unknown" THEN "outcome_unknown" ELSE "proved_not_started"
             r == [op EXCEPT !.state = "failed", !.bound = b1]
  <2>1. FinalizeExhaustedLifecycle(d, o) \in {d, SetOp(d, o, r), FailOp(d, o, b2)}
    BY DEF FinalizeExhaustedLifecycle
  <2>2. b1 \in Bounds /\ b2 \in Bounds
    BY DEF Bounds
  <2>3. op \in OpRow
    BY RowFactsHold DEF RowFacts, DBFields
  <2> HIDE DEF b1, b2, op
  <2>4. r \in OpRow
    BY <2>2, <2>3, ReleaseTxHold DEF OpStates, Reasons, ReleaseTx, OpRowClosed
  <2> HIDE DEF r
  <2>5. Sound(d, SetOp(d, o, r)) /\ Sound(d, FailOp(d, o, b2)) /\ Sound(d, d)
    BY <2>2, <2>4, ReleaseTxHold, FailureTxHold, SoundFactsHold DEF ReleaseTx, SetOpSound, FailureTx,
       FailOpSound, SoundFacts, SoundRefl
  <2> QED BY <2>1, <2>5
<1>FailWaitingArtifactSound. FailWaitingArtifactSound
  BY FailureTxHold DEF FailWaitingArtifact, Bounds, FailureTx, FailOpsSound, FailWaitingArtifactSound
<1>EnsureFailedSessionDeleteSound. EnsureFailedSessionDeleteSound
  <2> SUFFICES
      ASSUME NEW d \in DB
      PROVE  Sound(d, EnsureFailedSessionDelete(d))
    BY DEF EnsureFailedSessionDeleteSound
  <2> DEFINE d1 == RequestRelease(d)
             F == FailedReleases(d)
             d2 == Supersede(d1, F, "session_delete")
  <2>1. EnsureFailedSessionDelete(d) \in {d, d2}
    BY DEF EnsureFailedSessionDelete
  <2>2. Sound(d, d1) /\ d1 \in DB
    BY FailureTxHold DEF Sound, FailureTx, RequestReleaseSound
  <2>3. F \in SUBSET OpIds(d1)
    <3>1. Len(d.ops) \in Nat /\ Len(d1.ops) \in Nat
      BY <2>2, RowFactsHold DEF RowFacts, DBFields
    <3> QED BY <2>2, <3>1, SMTT(30) DEF FailedReleases, OpIds, Sound
  <2> HIDE DEF d1, F
  <2>4. Sound(d, d2)
    BY <2>2, <2>3, ReleaseTxHold, SoundFactsHold DEF Reasons, ReleaseTx, SupersedeSound, SoundFacts, SoundTrans
  <2> HIDE DEF d2
  <2> QED BY <2>1, <2>4, SoundFactsHold DEF SoundFacts, SoundRefl
<1>SameNamesSound. SameNamesSound
  <2> SUFFICES
      ASSUME NEW d \in DB, NEW d2 \in DB, d2.session = d.session, d2.ops = d.ops, d2.ex = d.ex,
             \A r : Named(d2.q[Life], r) <=> Named(d.q[Life], r),
             \A e \in Tools : \A r : Named(d2.q[Exec(e)], r) <=> Named(d.q[Exec(e)], r)
      PROVE  Sound(d, d2)
    BY DEF SameNamesSound
  <2>1. Len(d.ops) \in Nat
    BY RowFactsHold DEF RowFacts, DBFields
  <2>2. Keeps(d, d2)
    <3> SUFFICES ASSUME NEW e \in Tools, NEW v \in Worker, NEW c \in Worker, NEW n \in Nat, NEW k \in Nat,
                        RightIn(d, e, v, c, n, k)
                 PROVE  RightIn(d2, e, v, c, n, k)
      BY DEF Keeps
    <3>1. d2.ex[e] = d.ex[e] /\ \A r : Named(d2.q[Exec(e)], r) <=> Named(d.q[Exec(e)], r)
      OBVIOUS
    <3> QED BY <3>1, SMTT(30) DEF RightIn, Right
  <2> QED BY <2>1, <2>2, SMTT(30) DEF Sound, LifeRefs, OpIds
<1>SetJobSound. SetJobSound
  <2> SUFFICES
      ASSUME NEW d \in DB, NEW p \in Partitions, NEW r, NEW st \in {"due", "backoff"}
      PROVE  Sound(d, SetJob(d, p, r, st))
    BY DEF SetJobSound
  <2> DEFINE d2 == SetJob(d, p, r, st)
  <2>1. /\ d2 \in DB /\ d2.q[p] = Marked(d.q[p], r, st)
        /\ \A x \in Partitions : x # p => d2.q[x] = d.q[x]
        /\ d2.ops = d.ops /\ d2.session = d.session /\ d2.ex = d.ex
    BY OperationFactsHold, SMTT(30) DEF OperationFacts, SetJobIs
  <2> HIDE DEF d2
  <2>2. d.q[p] \in Seq(JobRow)
    BY RowFactsHold DEF RowFacts, DBFields
  <2>3. \A x \in Partitions : \A y : Named(d2.q[x], y) <=> Named(d.q[x], y)
    BY <2>1, <2>2, SequenceFactsHold, SMTT(30) DEF SequenceFacts, MarkedIs
  <2> QED BY <2>1, <2>3, <1>SameNamesSound, RowFactsHold DEF d2, SameNamesSound, RowFacts, PartitionFacts
<1>OtherQueueSound. OtherQueueSound
  BY <1>SameNamesSound DEF SameNamesSound, OtherQueueSound
<1>RemoveOtherSound. RemoveOtherSound
  <2> SUFFICES
      ASSUME NEW d \in DB, NEW p \in Partitions, \A e \in Tools : p # Exec(e), NEW r
      PROVE  Sound(d, RemoveJob(d, p, r))
    BY DEF RemoveOtherSound
  <2>1. CASE p = Life
    BY <2>1, ClaimTxHold DEF ClaimTx, RemoveJobSound
  <2>2. CASE p # Life
    BY <2>2, OperationFactsHold, <1>OtherQueueSound, RowFactsHold, SMTT(30) DEF OperationFacts, RemoveJobIs,
       OtherQueueSound, RowFacts, PartitionFacts
  <2> QED BY <2>1, <2>2
<1>OpenAre. OpenAre
  <2> SUFFICES
      ASSUME NEW d \in DB, NEW e \in Open(d)
      PROVE  e \in Tools /\ d.ex[e].state \in OpenStates
    BY DEF OpenAre
  <2>1. e \in Tools /\ d.ex[e].state \notin {"none", "terminal", "consumed"}
    BY DEF Open
  <2>2. d.ex[e] \in ExRow
    BY <2>1, RowFactsHold DEF RowFacts, DBFields
  <2> QED BY <2>1, <2>2 DEF ExRow, OpenStates
<1> QED BY <1>ReplaceMissingActivationSound, <1>SetBoundSound, <1>ObserveUnknownActivationSound,
   <1>ParkBlockedReleaseSound, <1>AuthorizeReleaseSound, <1>RearmReleaseSound, <1>CompleteReleaseSound,
   <1>FinalizeExhaustedLifecycleSound, <1>FailWaitingArtifactSound, <1>EnsureFailedSessionDeleteSound,
   <1>SameNamesSound, <1>SetJobSound, <1>OtherQueueSound, <1>RemoveOtherSound, <1>OpenAre DEF LifecycleTx

-----------------------------------------------------------------------------
(* Interrupts, and transactions on one execution.                          *)

\* What a transaction on execution e leaves alone.
Others(d, d2, e) ==
  /\ d2 \in DB /\ d2.session = d.session /\ Len(d2.ops) >= Len(d.ops)
  /\ LifeRefs(d) => LifeRefs(d2)
  /\ \A f \in Tools \ {e} : \A v, c \in Worker, n, k \in Nat :
       RightIn(d, f, v, c, n, k) => RightIn(d2, f, v, c, n, k)

\* The attempt g of execution e is the current one, and not settled.
Settles(d, e, g) == d.ex[e].gen = g /\ d.ex[e].state \notin {"terminal", "consumed"}

\* ConsumeAll is sound.
ConsumeAllSound ==
  \A d \in DB :
    Sound(d, ConsumeAll(d)) /\ ExOnly(d, ConsumeAll(d))

\* What InterruptTools changes.
InterruptToolsIs ==
  \A d \in DB : \A S \in SUBSET Open(d) :
    LET d2 == InterruptTools(d, S) IN
    /\ d2 \in DB /\ d2.session = d.session /\ d2.desired = d.desired /\ d2.artifact = d.artifact
    /\ d2.ops = d.ops /\ d2.bnd = d.bnd
    /\ d2.q[Life] = d.q[Life] /\ d2.q[Fanout] = d.q[Fanout]
    /\ \A e \in Tools : /\ d2.ex[e] = IF e \in S THEN InterruptRow(d.ex[e]) ELSE d.ex[e]
                        /\ d2.q[Exec(e)] = d.q[Exec(e)]

\* InterruptTools is sound.
InterruptToolsSound ==
  \A d \in DB : \A S \in SUBSET Open(d) :
    Sound(d, InterruptTools(d, S))

\* Operations that waited for an artifact get their jobs.
FanoutSound ==
  \A d \in DB : \A g :
    Sound(d, QueueOps(SetStates(d, WaitingArtifact(d, g), "pending"), WaitingArtifact(d, g)))

\* A sound transaction keeps the other executions right.
SoundOthers ==
  \A d, d2, e :
    Sound(d, d2) =>
      Others(d, d2, e)

\* Transactions on one execution compose.
OthersTrans ==
  \A d1 \in DB : \A d2, d3, e :
    /\ Others(d1, d2, e)
    /\ Others(d2, d3, e)
    =>
      Others(d1, d3, e)

\* A new row for one execution leaves the others alone.
SetExOthers ==
  \A d \in DB, e \in Tools, x \in ExRow :
    /\ Others(d, SetEx(d, e, x), e) /\ ExOnly(d, SetEx(d, e, x))
    /\ SetEx(d, e, x).ex[e] = x /\ SetEx(d, e, x).q = d.q

\* The lifecycle's part of a transaction leaves every execution's row and jobs alone.
LifeOnlyExec ==
  \A d \in DB : \A d2 : \A e \in Tools :
    LifeOnly(d, d2) =>
      d2.ex[e] = d.ex[e] /\ d2.q[Exec(e)] = d.q[Exec(e)] /\ d2.session = d.session

\* Settle settles the row of its generation once, or does nothing.
SettleIs ==
  \A d \in DB, e \in Tools : \A g : \A out \in Outs :
    LET d2 == Settle(d, e, g, out) IN
    /\ Others(d, d2, e)
    /\ d2.ex[e] = IF Settles(d, e, g) THEN SettleRow(d.ex[e], out) ELSE d.ex[e]
    /\ d2.q[Exec(e)] = d.q[Exec(e)]
    /\ ~Settles(d, e, g) => d2 = d

\* The transactions of the Bridge and of the end of a Turn.
InterruptTx ==
  /\ ConsumeAllSound /\ InterruptToolsIs /\ InterruptToolsSound /\ FanoutSound /\ SoundOthers
  /\ OthersTrans /\ SetExOthers /\ LifeOnlyExec /\ SettleIs

\* These facts hold.
LEMMA InterruptTxHold == ASSUME OrderFacts PROVE InterruptTx
<1>ConsumeAllSound. ConsumeAllSound
  <2> SUFFICES
      ASSUME NEW d \in DB
      PROVE  Sound(d, ConsumeAll(d)) /\ ExOnly(d, ConsumeAll(d))
    BY DEF ConsumeAllSound
  <2> DEFINE f == [e \in Tools |-> IF e \in Open(d) THEN Consume(d.ex[e], "expired") ELSE d.ex[e]]
             d2 == [d EXCEPT !.ex = f]
  <2>1. ConsumeAll(d) = d2
    BY DEF ConsumeAll
  <2>2. f \in [Tools -> ExRow]
    <3>1. \A x \in ExRow : Consume(x, "expired") \in ExRow
      BY ExRowFactsHold DEF Outs, ExRowFacts, ConsumeIs
    <3> QED BY <3>1, RowFactsHold DEF RowFacts, DBFields
  <2>3. \A e \in Tools : f[e] = IF e \in Open(d) THEN Consume(d.ex[e], "expired") ELSE d.ex[e]
    OBVIOUS
  <2> HIDE DEF f
  <2>4. ExOnly(d, d2) /\ d2.ex = f
    BY <2>2, ExRowFactsHold DEF ExRowFacts, ExReplaced
  <2> HIDE DEF d2
  <2>5. ASSUME NEW e \in Tools, NEW v \in Worker, NEW c \in Worker, NEW n \in Nat, NEW k \in Nat,
               RightIn(d, e, v, c, n, k)
        PROVE  RightIn(d2, e, v, c, n, k)
    <3>1. d.ex[e] \in ExRow /\ d.q[Exec(e)] \in Seq(JobRow)
      BY RowFactsHold DEF RowFacts, DBFields, PartitionFacts
    <3>2. d2.session = d.session /\ d2.q = d.q
      BY <2>4 DEF ExOnly
    <3>3. CASE e \in Open(d)
      <4>1. d2.ex[e] = Consume(d.ex[e], "expired")
        BY <2>3, <2>4, <3>3
      <4>2. d.ex[e].state \in OpenStates
        BY <3>3, LifecycleTxHold DEF LifecycleTx, OpenAre
      <4>3. Right(d.session, Consume(d.ex[e], "expired"), d.q[Exec(e)], v, c, n, k)
        BY <2>5, <3>1, <4>2, RightFactsHold DEF RightIn, RightFacts, ConsumeKeeps
      <4> QED BY <3>2, <4>1, <4>3 DEF RightIn
    <3>4. CASE e \notin Open(d)
      BY <2>3, <2>4, <2>5, <3>2, <3>4 DEF RightIn
    <3> QED BY <3>3, <3>4
  <2>6. Sound(d, d2)
    BY <2>4, <2>5, SoundFactsHold DEF ExOnly, SoundFacts, RowsSound
  <2> QED BY <2>1, <2>4, <2>6
<1>InterruptToolsIs. InterruptToolsIs
  <2> SUFFICES
      ASSUME NEW d \in DB, NEW S \in SUBSET Open(d)
      PROVE  LET d2 == InterruptTools(d, S) IN
             /\ d2 \in DB /\ d2.session = d.session /\ d2.desired = d.desired /\ d2.artifact = d.artifact
             /\ d2.ops = d.ops /\ d2.bnd = d.bnd
             /\ d2.q[Life] = d.q[Life] /\ d2.q[Fanout] = d.q[Fanout]
             /\ \A e \in Tools : /\ d2.ex[e] = IF e \in S THEN InterruptRow(d.ex[e]) ELSE d.ex[e]
                                 /\ d2.q[Exec(e)] = d.q[Exec(e)]
    BY DEF InterruptToolsIs
  <2> DEFINE f == [e \in Tools |-> IF e \in S THEN InterruptRow(d.ex[e]) ELSE d.ex[e]]
             g == [p \in Partitions |-> IF \E e \in S : p = Cancel(e) /\ Cancellable(d.ex[e])
                                        THEN Added(d.q[p], 1) ELSE d.q[p]]
             d2 == InterruptTools(d, S)
  <2>1. f \in [Tools -> ExRow] /\ \A e \in Tools : f[e] = IF e \in S THEN InterruptRow(d.ex[e]) ELSE d.ex[e]
    <3>1. \A x \in ExRow : InterruptRow(x) \in ExRow
      BY ExRowFactsHold DEF ExRowFacts, InterruptRowIs
    <3> QED BY <3>1, RowFactsHold DEF RowFacts, DBFields
  <2>2. S \subseteq Tools
    BY DEF Open
  <2>3. \A p \in Partitions : Added(d.q[p], 1) \in Seq(JobRow)
    BY RowFactsHold, SequenceFactsHold, SMTT(30) DEF RowFacts, DBFields, SequenceFacts, AddedIs
  <2>4. g \in [Partitions -> Seq(JobRow)]
    BY <2>3, RowFactsHold DEF RowFacts, DBFields
  <2>5. g[Life] = d.q[Life] /\ g[Fanout] = d.q[Fanout] /\ \A e \in Tools : g[Exec(e)] = d.q[Exec(e)]
    BY <2>2, RowFactsHold DEF RowFacts, PartitionFacts
  <2>6. d2 = SetExQ(d, f, g)
    BY DEF InterruptTools, SetExQ
  <2> HIDE DEF f, g, d2
  <2>7. /\ d2 \in DB /\ d2.ex = f /\ d2.q = g
        /\ d2.session = d.session /\ d2.desired = d.desired /\ d2.artifact = d.artifact
        /\ d2.ops = d.ops /\ d2.bnd = d.bnd
    BY <2>1, <2>4, <2>6, ExRowFactsHold, SMTT(30) DEF ExRowFacts, SetExQIs
  <2> QED BY <2>1, <2>5, <2>7 DEF d2
<1>InterruptToolsSound. InterruptToolsSound
  <2> SUFFICES
      ASSUME NEW d \in DB, NEW S \in SUBSET Open(d)
      PROVE  Sound(d, InterruptTools(d, S))
    BY DEF InterruptToolsSound
  <2> DEFINE d2 == InterruptTools(d, S)
  <2>1. /\ d2 \in DB /\ d2.session = d.session /\ d2.ops = d.ops /\ d2.q[Life] = d.q[Life]
        /\ \A e \in Tools : /\ d2.ex[e] = IF e \in S THEN InterruptRow(d.ex[e]) ELSE d.ex[e]
                            /\ d2.q[Exec(e)] = d.q[Exec(e)]
    BY <1>InterruptToolsIs, SMTT(30) DEF InterruptToolsIs
  <2> HIDE DEF d2
  <2>2. ASSUME NEW e \in Tools, NEW v \in Worker, NEW c \in Worker, NEW n \in Nat, NEW k \in Nat,
               RightIn(d, e, v, c, n, k)
        PROVE  RightIn(d2, e, v, c, n, k)
    <3>1. d.ex[e] \in ExRow /\ d.q[Exec(e)] \in Seq(JobRow)
      BY RowFactsHold DEF RowFacts, DBFields, PartitionFacts
    <3>3. CASE e \in S
      <4>2. d.ex[e].state \in OpenStates
        BY <3>3, LifecycleTxHold DEF LifecycleTx, OpenAre
      <4>3. Right(d.session, InterruptRow(d.ex[e]), d.q[Exec(e)], v, c, n, k)
        BY <2>2, <3>1, <4>2, RightFactsHold DEF RightIn, RightFacts, InterruptKeeps
      <4> QED BY <2>1, <3>3, <4>3 DEF RightIn
    <3>4. CASE e \notin S
      BY <2>1, <2>2, <3>4 DEF RightIn
    <3> QED BY <3>3, <3>4
  <2> QED BY <2>1, <2>2, SoundFactsHold DEF d2, SoundFacts, RowsSound
<1>FanoutSound. FanoutSound
  <2> SUFFICES
      ASSUME NEW d \in DB, NEW g
      PROVE  Sound(d, QueueOps(SetStates(d, WaitingArtifact(d, g), "pending"), WaitingArtifact(d, g)))
    BY DEF FanoutSound
  <2> DEFINE S == WaitingArtifact(d, g)
             d1 == SetStates(d, S, "pending")
  <2>1. S \in SUBSET OpIds(d)
    BY DEF WaitingArtifact
  <2> HIDE DEF S
  <2>2. Sound(d, d1) /\ d1 \in DB /\ OpIds(d1) = OpIds(d)
    BY ReleaseTxHold, OperationFactsHold, SMTT(30) DEF OpStates, Sound, ReleaseTx, SetStatesSound, OperationFacts,
       SetStatesIs
  <2> HIDE DEF d1
  <2>3. Sound(d, QueueOps(d1, S))
    BY <2>1, <2>2, ReleaseTxHold, SoundFactsHold DEF ReleaseTx, QueueOpsSound, SoundFacts, SoundTrans
  <2> QED BY <2>3 DEF S, d1
<1>SoundOthers. SoundOthers
  BY DEF Sound, Keeps, Others, SoundOthers
<1>OthersTrans. OthersTrans
  <2> SUFFICES
      ASSUME NEW d1 \in DB, NEW d2, NEW d3, NEW e, Others(d1, d2, e), Others(d2, d3, e)
      PROVE  Others(d1, d3, e)
    BY DEF OthersTrans
  <2>1. Len(d1.ops) \in Nat /\ Len(d2.ops) \in Nat /\ Len(d3.ops) \in Nat
    BY RowFactsHold DEF Others, RowFacts, DBFields
  <2> QED BY <2>1, SMTT(30) DEF Others
<1>SetExOthers. SetExOthers
  <2> SUFFICES
      ASSUME NEW d \in DB, NEW e \in Tools, NEW x \in ExRow
      PROVE  /\ Others(d, SetEx(d, e, x), e) /\ ExOnly(d, SetEx(d, e, x))
             /\ SetEx(d, e, x).ex[e] = x /\ SetEx(d, e, x).q = d.q
    BY DEF SetExOthers
  <2> DEFINE d2 == SetEx(d, e, x)
  <2>1. ExOnly(d, d2) /\ d2.ex[e] = x /\ \A f \in Tools : f # e => d2.ex[f] = d.ex[f]
    BY ExRowFactsHold DEF ExRowFacts, SetExIs
  <2> HIDE DEF d2
  <2>2. Len(d.ops) \in Nat
    BY RowFactsHold DEF RowFacts, DBFields
  <2> QED BY <2>1, <2>2, SMTT(30) DEF Others, ExOnly, RightIn, LifeRefs, OpIds, d2
<1>LifeOnlyExec. LifeOnlyExec
  BY RowFactsHold DEF LifeOnly, RowFacts, PartitionFacts, LifeOnlyExec
<1>SettleIs. SettleIs
  <2> SUFFICES
      ASSUME NEW d \in DB, NEW e \in Tools, NEW g, NEW out \in Outs
      PROVE  LET d2 == Settle(d, e, g, out) IN
             /\ Others(d, d2, e)
             /\ d2.ex[e] = IF Settles(d, e, g) THEN SettleRow(d.ex[e], out) ELSE d.ex[e]
             /\ d2.q[Exec(e)] = d.q[Exec(e)]
             /\ ~Settles(d, e, g) => d2 = d
    BY DEF SettleIs
  <2> DEFINE x == SettleRow(d.ex[e], out)
             d1 == SetEx(d, e, x)
             d2 == ReadyReleases(d1)
  <2>1. Settle(d, e, g, out) = IF Settles(d, e, g) THEN d2 ELSE d
    BY DEF Settle, Settles
  <2>2. x \in ExRow
    BY RowFactsHold, ExRowFactsHold DEF RowFacts, DBFields, ExRowFacts, SettleRowIs
  <2> HIDE DEF x
  <2>3. Others(d, d1, e) /\ d1.ex[e] = x /\ d1.q = d.q /\ d1 \in DB
    BY <2>2, <1>SetExOthers DEF Others, SetExOthers
  <2> HIDE DEF d1
  <2>4. Sound(d1, d2) /\ LifeOnly(d1, d2)
    BY <2>3, ReleaseTxHold DEF ReleaseTx, ReadyReleasesSound
  <2> HIDE DEF d2
  <2>5. Others(d, d2, e) /\ d2.ex[e] = x /\ d2.q[Exec(e)] = d.q[Exec(e)]
    <3>1. Others(d1, d2, e) /\ Others(d, d2, e)
      BY <2>3, <2>4, <1>SoundOthers, <1>OthersTrans DEF SoundOthers, OthersTrans
    <3>2. d2.ex[e] = d1.ex[e] /\ d2.q[Exec(e)] = d1.q[Exec(e)]
      BY <2>3, <2>4, <1>LifeOnlyExec DEF LifeOnlyExec
    <3> QED BY <2>3, <3>1, <3>2
  <2>6. Others(d, d, e)
    BY SoundFactsHold, <1>SoundOthers DEF SoundFacts, SoundRefl, SoundOthers
  <2> QED BY <2>1, <2>5, <2>6 DEF x
<1> QED BY <1>ConsumeAllSound, <1>InterruptToolsIs, <1>InterruptToolsSound, <1>FanoutSound, <1>SoundOthers,
   <1>OthersTrans, <1>SetExOthers, <1>LifeOnlyExec, <1>SettleIs DEF InterruptTx

-----------------------------------------------------------------------------
(* A single execution: its row before and after a step of its worker, of   *)
(* the Queue or of the Bridge.                                             *)

\* The row after a wait: it waits, was settled, or is as before.
DependRow(x, y, g, pc) ==
  \/ y = x /\ pc \in {"retry", "error"}
  \/ pc = "done" /\ y = IF x.gen = g /\ x.state \notin {"terminal", "consumed"} THEN SettleRow(x, "failed") ELSE x
  \/ /\ pc = "done" /\ x.gen = g /\ x.state \in {"pending", "preparing"}
     /\ y.state \in Waiting /\ y.gen = x.gen /\ y.out = x.out /\ y.cancel = x.cancel

\* Settled by its worker as out, if it is still the worker's to settle.
SettledRow(x, g, out) ==
  IF x.gen = g /\ x.state \notin {"terminal", "consumed"} THEN SettleRow(x, out) ELSE x

\* The two transitions of an execution, by where its worker is.
Takes(pc, from, to) ==
  \/ pc = "prepare" /\ from = "pending" /\ to = "preparing"
  \/ pc = "authorize" /\ from = "preparing" /\ to = "running"

\* Where such a transition leaves its worker.
TransitionPcs == {"retry", "done", "authorize", "submit"}

\* The row after BeginPreparing or AuthorizeRunning.
TransitionRow(x, y, g, from, to, pc) ==
  \/ pc = "done" /\ x.gen # g /\ y = x
  \/ pc = "done" /\ y = SettledRow(x, g, "failed")
  \/ pc = "retry" /\ y = x
  \/ pc = "retry" /\ x.state = "preparing" /\ y.state = "pending"
     /\ y.gen = x.gen /\ y.out = x.out /\ y.cancel = x.cancel
  \/ pc = "authorize" /\ to = "preparing" /\ x.state = "preparing" /\ y = x
  \/ pc = "done" /\ y = x /\ x.state # from /\ ~(x.state = "preparing" /\ to = "preparing")
  \/ /\ pc = (IF to = "preparing" THEN "authorize" ELSE "submit")
     /\ x.gen = g /\ x.state = from /\ y.state = to /\ y.gen = x.gen /\ y.out = x.out /\ y.cancel = x.cancel

\* The exhausted budget of a job of generation g.
FinalRow(x, y, g, pc) ==
  \/ y = x /\ pc = "error"
  \/ y = x /\ pc = "done" /\ (x.gen = g => x.state \notin InFlightStates)
  \/ /\ pc = "done" /\ x.gen = g /\ x.state \in InFlightStates
     /\ y = SettleRow(x, IF x.state = "running" THEN "unknown" ELSE "failed")

\* A transaction on execution e that leaves its jobs alone.
OwnTx(d, d2, e) == Others(d, d2, e) /\ d2.q[Exec(e)] = d.q[Exec(e)]

\* The row after its worker's settlement.
SettledRowIs ==
  \A x \in ExRow : \A g : \A out \in Outs :
    LET y == SettledRow(x, g, out) IN
    /\ y \in ExRow /\ y.gen = x.gen /\ y.cancel = x.cancel
    /\ \/ y = x /\ (x.gen # g \/ x.state \in {"terminal", "consumed"})
       \/ x.gen = g /\ x.state \notin {"terminal", "consumed"} /\ y.state = "terminal" /\ y.out = out

\* A worker may lease a job.
LeaseKeeps ==
  \A ses : \A x \in ExRow, s \in Seq(JobRow) : \A t : \A v, c \in Worker, n, k \in Nat, u \in Worker :
    /\ Right(ses, x, s, v, c, n, k)
    /\ \A r : Named(t, r) <=> Named(s, r)
    /\ u.pc \in {"start", "exhausted"}
    /\ Named(s, u.ref)
    =>
      Right(ses, x, t, u, c, n, k)

\* The worker goes on without touching the row.
MoveKeeps ==
  \A ses : \A x \in ExRow, s \in Seq(JobRow), v, c \in Worker, n, k \in Nat, u \in Worker :
    /\ Right(ses, x, s, v, c, n, k)
    /\ v.pc # "idle"
    /\ u.ref = v.ref
    /\ \/ u.pc = "retry"
       \/ u.pc = "done" /\ (x.gen = v.ref => x.state \notin InFlightStates)
       \/ u.pc = "observe" /\ (x.gen = v.ref => x.state \in Submitted)
       \/ u.pc \in Early \ {"authorize"} /\ x.state # "running"
    =>
      Right(ses, x, s, u, c, n, k)

\* The command may be sent: it was not before.
SubmitKeeps ==
  \A ses : \A x \in ExRow, s \in Seq(JobRow), v, c \in Worker, n, k \in Nat, u \in Worker :
    /\ Right(ses, x, s, v, c, n, k)
    /\ v.pc = "submit"
    /\ u.pc = "reply"
    /\ u.ref = v.ref
    =>
      Right(ses, x, s, u, c, n + 1, k)

\* A change that no outcome depends on.
SameRowKeeps ==
  \A ses : \A x, y \in ExRow, s \in Seq(JobRow), v, c \in Worker, n, k \in Nat :
    /\ Right(ses, x, s, v, c, n, k)
    /\ x.state # "none"
    /\ y.state = x.state
    /\ y.gen = x.gen
    /\ y.out = x.out
    /\ y.cancel = x.cancel
    =>
      Right(ses, y, s, v, c, n, k)

\* The row after the budget is spent.
FinalRowIs ==
  \A x \in ExRow : \A y, g, pc :
    FinalRow(x, y, g, pc) =>
      /\ y \in ExRow /\ y.gen = x.gen /\ y.cancel = x.cancel
      /\ \/ y = x /\ pc = "error"
         \/ y = x /\ pc = "done" /\ (x.gen = g => x.state \notin InFlightStates)
         \/ /\ pc = "done" /\ x.gen = g /\ x.state \in InFlightStates /\ y.state = "terminal"
            /\ y.out = IF x.state = "running" THEN "unknown" ELSE "failed"

\* The same without a worker: the job goes with it.
OverLimitKeeps ==
  \A ses : \A x \in ExRow : \A y : \A s \in Seq(JobRow), v, c \in Worker, n, k \in Nat : \A g :
    /\ Right(ses, x, s, v, c, n, k)
    /\ FinalRow(x, y, g, "done")
    =>
      Right(ses, y, Removed(s, g), v, c, n, k)

\* A Tool may be called.
AcceptKeeps ==
  \A ses : \A x, y \in ExRow, s \in Seq(JobRow), v, c \in Worker, n, k \in Nat :
    /\ Right(ses, x, s, v, c, n, k)
    /\ ses # "purged"
    /\ x.state = "none"
    /\ y.state = "pending"
    /\ y.gen = 1
    /\ y.out = x.out
    /\ y.cancel = x.cancel
    =>
      Right(ses, y, Added(s, 1), v, c, n, k)

\* A cancellation is marked, then sent, then cleared.
CancelKeeps ==
  \A ses : \A x, y \in ExRow, s \in Seq(JobRow), v, c \in Worker, n, k \in Nat, u \in Worker :
    /\ Right(ses, x, s, v, c, n, k)
    /\ (\/ x.state # "none" \/ y = x)
    /\ y.state = x.state
    /\ y.gen = x.gen
    /\ y.out = x.out
    /\ \/ x.cancel = "pending" /\ y.cancel = "submitted" /\ u.pc = "call"
       \/ y.cancel \in {"none", x.cancel} /\ u.pc # "call"
       \/ y.cancel = "none" /\ u = c
    =>
      Right(ses, y, s, v, u, n, k)

\* The cancellation may be sent: it was not before.
CallCancelKeeps ==
  \A ses : \A x, y \in ExRow, s \in Seq(JobRow), v, c \in Worker, n, k \in Nat, u \in Worker :
    /\ Right(ses, x, s, v, c, n, k)
    /\ (\/ x.state # "none" \/ y = x)
    /\ y.state = x.state
    /\ y.gen = x.gen
    /\ y.out = x.out
    /\ y.cancel \in {"none", x.cancel}
    /\ c.pc = "call"
    /\ u.pc # "call"
    =>
      Right(ses, y, s, v, u, n, k + 1)

\* A Session that is not purged may change.
SessionKeeps ==
  \A ses, ses2, x, s, v, c, n, k :
    /\ ses # "purged"
    /\ ses2 # "purged"
    /\ Right(ses, x, s, v, c, n, k)
    =>
      Right(ses2, x, s, v, c, n, k)

\* What the transactions of an execution do to its row.
ExecutionRows ==
  /\ SettledRowIs /\ LeaseKeeps /\ MoveKeeps /\ SubmitKeeps /\ SameRowKeeps /\ FinalRowIs
  /\ OverLimitKeeps /\ AcceptKeeps /\ CancelKeeps /\ CallCancelKeeps /\ SessionKeeps

\* These facts hold.
LEMMA ExecutionRowsHold == ASSUME OrderFacts PROVE ExecutionRows
<1>SettledRowIs. SettledRowIs
  BY ExRowFactsHold, SMTT(30) DEF SettledRow, ExRowFacts, SettleRowIs, SettledRowIs
<1>LeaseKeeps. LeaseKeeps
  <2> SUFFICES
      ASSUME NEW ses, NEW x \in ExRow, NEW s \in Seq(JobRow), NEW t, NEW v \in Worker, NEW c \in Worker,
             NEW n \in Nat, NEW k \in Nat, Right(ses, x, s, v, c, n, k), \A r : Named(t, r) <=> Named(s, r),
             NEW u \in Worker, u.pc \in {"start", "exhausted"}, Named(s, u.ref)
      PROVE  Right(ses, x, t, u, c, n, k)
    BY SMTT(30) DEF LeaseKeeps
  <2>1. u.ref \in Nat \ {0} /\ x.gen \in Nat
    BY RightFactsHold DEF ExRow, RightFacts, NamedNat
  <2> QED BY <2>1, SMTT(30) DEF Right, Early
<1>MoveKeeps. MoveKeeps
  BY SMTT(30) DEF Right, Early, MoveKeeps
<1>SubmitKeeps. SubmitKeeps
  <2> SUFFICES
      ASSUME NEW ses, NEW x \in ExRow, NEW s \in Seq(JobRow), NEW v \in Worker, NEW c \in Worker,
             NEW n \in Nat, NEW k \in Nat, Right(ses, x, s, v, c, n, k), NEW u \in Worker,
             v.pc = "submit", u.pc = "reply", u.ref = v.ref
      PROVE  Right(ses, x, s, u, c, n + 1, k)
    BY SMTT(30) DEF SubmitKeeps
  <2>1. n = 0
    BY DEF Right
  <2> QED BY <2>1, RightFactsHold, SMTT(30) DEF Right, Early, NotRun, RightFacts, ExecutionFields
<1>SameRowKeeps. SameRowKeeps
  BY RightFactsHold, SMTT(30) DEF Right, RightFacts, ExecutionFields, SameRowKeeps
<1>FinalRowIs. FinalRowIs
  <2> SUFFICES
      ASSUME NEW x \in ExRow, NEW y, NEW g, NEW pc, FinalRow(x, y, g, pc)
      PROVE  /\ y \in ExRow /\ y.gen = x.gen /\ y.cancel = x.cancel
             /\ \/ y = x /\ pc = "error"
                \/ y = x /\ pc = "done" /\ (x.gen = g => x.state \notin InFlightStates)
                \/ /\ pc = "done" /\ x.gen = g /\ x.state \in InFlightStates /\ y.state = "terminal"
                   /\ y.out = IF x.state = "running" THEN "unknown" ELSE "failed"
    BY DEF FinalRowIs
  <2> DEFINE out == IF x.state = "running" THEN "unknown" ELSE "failed"
  <2>1. out \in Outs
    BY DEF Outs
  <2> HIDE DEF out
  <2>2. /\ SettleRow(x, out) \in ExRow /\ SettleRow(x, out).gen = x.gen /\ SettleRow(x, out).cancel = x.cancel
        /\ SettleRow(x, out).state = "terminal" /\ SettleRow(x, out).out = out
    BY <2>1, ExRowFactsHold DEF ExRowFacts, SettleRowIs
  <2> QED BY <2>2 DEF FinalRow, out
<1>OverLimitKeeps. OverLimitKeeps
  <2> SUFFICES
      ASSUME NEW ses, NEW x \in ExRow, NEW y, NEW s \in Seq(JobRow), NEW v \in Worker, NEW c \in Worker,
             NEW n \in Nat, NEW k \in Nat, Right(ses, x, s, v, c, n, k), NEW g,
             FinalRow(x, y, g, "done")
      PROVE  Right(ses, y, Removed(s, g), v, c, n, k)
    BY SMTT(30) DEF OverLimitKeeps
  <2> DEFINE t == Removed(s, g)
  <2>1. \A r : Named(t, r) <=> Named(s, r) /\ r # g
    BY SequenceFactsHold DEF SequenceFacts, RemovedIs
  <2>2. /\ y \in ExRow /\ y.gen = x.gen /\ y.cancel = x.cancel
        /\ \/ y = x /\ (x.gen = g => x.state \notin InFlightStates)
           \/ /\ x.gen = g /\ x.state \in InFlightStates /\ y.state = "terminal"
              /\ y.out = IF x.state = "running" THEN "unknown" ELSE "failed"
    BY <1>FinalRowIs, SMTT(30) DEF FinalRowIs
  <2> HIDE DEF t
  <2>3. CASE y = x /\ (x.gen = g => x.state \notin InFlightStates)
    BY <2>1, <2>3, SMTT(30) DEF Right, t
  <2>4. CASE /\ x.gen = g /\ x.state \in InFlightStates /\ y.state = "terminal"
             /\ y.out = IF x.state = "running" THEN "unknown" ELSE "failed"
    BY <2>1, <2>2, <2>4, RightFactsHold, SMTT(30) DEF Right, t, Early, NotRun, Submitted, InFlightStates, RightFacts,
       ExecutionFields
  <2> QED BY <2>2, <2>3, <2>4
<1>AcceptKeeps. AcceptKeeps
  <2> SUFFICES
      ASSUME NEW ses, NEW x \in ExRow, NEW y \in ExRow, NEW s \in Seq(JobRow), NEW v \in Worker, NEW c \in Worker,
             NEW n \in Nat, NEW k \in Nat, Right(ses, x, s, v, c, n, k), ses # "purged", x.state = "none",
             y.state = "pending", y.gen = 1, y.out = x.out, y.cancel = x.cancel
      PROVE  Right(ses, y, Added(s, 1), v, c, n, k)
    BY SMTT(30) DEF AcceptKeeps
  <2> DEFINE t == Added(s, 1)
  <2>1. \A r : Named(t, r) <=> Named(s, r) \/ r = 1
    BY SequenceFactsHold, SMTT(30) DEF SequenceFacts, AddedIs
  <2>2. x = Execution /\ x.gen = 0 /\ x.out = "none" /\ x.cancel = "none"
    BY RightFactsHold DEF Right, RightFacts, ExecutionFields
  <2>3. v.ref \in Nat /\ \A r : Named(s, r) => r \in Nat \ {0}
    BY RightFactsHold DEF Worker, RightFacts, NamedNat
  <2>4. \A r : ~Named(s, r)
    BY <2>2, <2>3, SMTT(30) DEF Right
  <2>5. v.pc = "idle"
    BY <2>2, <2>3, SMTT(30) DEF Right
  <2> HIDE DEF t
  <2> QED BY <2>1, <2>2, <2>4, <2>5, SMTT(30) DEF Right, Early, NotRun, Submitted, InFlightStates, t
<1>CancelKeeps. CancelKeeps
  BY RightFactsHold, SMTT(30) DEF Right, RightFacts, ExecutionFields, CancelKeeps
<1>CallCancelKeeps. CallCancelKeeps
  <2> SUFFICES
      ASSUME NEW ses, NEW x \in ExRow, NEW y \in ExRow, NEW s \in Seq(JobRow), NEW v \in Worker, NEW c \in Worker,
             NEW n \in Nat, NEW k \in Nat, Right(ses, x, s, v, c, n, k), NEW u \in Worker,
             \/ x.state # "none" \/ y = x, y.state = x.state, y.gen = x.gen, y.out = x.out,
             y.cancel \in {"none", x.cancel}, c.pc = "call", u.pc # "call"
      PROVE  Right(ses, y, s, v, u, n, k + 1)
    BY SMTT(30) DEF CallCancelKeeps
  <2>1. k = 0
    BY DEF Right
  <2> QED BY <2>1, RightFactsHold, SMTT(30) DEF Right, RightFacts, ExecutionFields
<1>SessionKeeps. SessionKeeps
  BY SMTT(30) DEF Right, SessionKeeps
<1> QED BY <1>SettledRowIs, <1>LeaseKeeps, <1>MoveKeeps, <1>SubmitKeeps, <1>SameRowKeeps, <1>FinalRowIs,
   <1>OverLimitKeeps, <1>AcceptKeeps, <1>CancelKeeps, <1>CallCancelKeeps, <1>SessionKeeps DEF ExecutionRows

-----------------------------------------------------------------------------
(* The waits of an execution, its authorization, its answer and its        *)
(* budget.                                                                 *)

\* To change nothing is a transaction on any execution.
OwnRefl ==
  \A d \in DB, e \in Tools :
    OwnTx(d, d, e)

\* Transactions on one execution that leave its jobs alone compose.
OwnTrans ==
  \A d1 \in DB : \A d2, d3 : \A e \in Tools :
    /\ OwnTx(d1, d2, e)
    /\ OwnTx(d2, d3, e)
    =>
      OwnTx(d1, d3, e)

\* The lifecycle's part of a transaction.
LifeOwn ==
  \A d \in DB : \A d2 : \A e \in Tools :
    /\ Sound(d, d2)
    /\ LifeOnly(d, d2)
    =>
      OwnTx(d, d2, e) /\ d2.ex[e] = d.ex[e] /\ d2 \in DB

\* A new row for e, and the releases it unblocks.
SetExReady ==
  \A d \in DB, e \in Tools, x \in ExRow :
    LET d2 == ReadyReleases(SetEx(d, e, x)) IN OwnTx(d, d2, e) /\ d2.ex[e] = x

\* Settle is a transaction on one execution.
SettleOwn ==
  \A d \in DB, e \in Tools : \A g : \A out \in Outs :
    LET d2 == Settle(d, e, g, out) IN OwnTx(d, d2, e) /\ d2.ex[e] = SettledRow(d.ex[e], g, out)

\* A new activation is an operation.
NewActivationIsRow ==
  \A d \in DB : \A need : \A st \in OpStates :
    NewActivation(d, need) \in OpRow /\ [NewActivation(d, need) EXCEPT !.state = st] \in OpRow

\* WaitForActivation lets the execution wait, settles it, or leaves it alone.
WaitForActivationIs ==
  \A d \in DB, e \in Tools : \A g, o, need :
    LET t == WaitForActivation(d, e, g, o, need) IN
    /\ t.pc \in {"retry", "error", "done"} /\ OwnTx(d, t.db, e)
    /\ DependRow(d.ex[e], t.db.ex[e], g, t.pc)

\* AttachToMaterialization for one execution.
AttachIs ==
  \A d \in DB, W \in SUBSET Tools : \A e \in W :
    /\ \A f \in W : d.ex[f].state \in Waiting \cup {"pending"}
    =>
      LET d2 == AttachToMaterialization(d, W) IN
      /\ OwnTx(d, d2, e) /\ d2 \in DB /\ \E m \in Nat : d2.ex[e] = AttachRow(d.ex[e], m)

\* WaitForMaterialization lets the execution wait, settles it, or leaves it
\* alone.
WaitForMaterializationIs ==
  \A d \in DB, e \in Tools : \A g, o :
    LET t == WaitForMaterialization(d, e, g, o) IN
    /\ t.pc \in {"retry", "error", "done"} /\ OwnTx(d, t.db, e)
    /\ DependRow(d.ex[e], t.db.ex[e], g, t.pc)

\* The outcomes of Transition.
TransitionIs ==
  \A d \in DB, e \in Tools : \A g, o, from : \A to \in {"preparing", "running"} :
    LET t == Transition(d, e, g, o, from, to) IN
    /\ t.pc \in {"retry", "done", "authorize", "submit"} /\ OwnTx(d, t.db, e)
    /\ TransitionRow(d.ex[e], t.db.ex[e], g, from, to, t.pc)

\* RecordProviderCommandReference changes nothing but the reference.
RecordIs ==
  \A d \in DB, e \in Tools : \A g :
    LET t == RecordProviderCommandReference(d, e, g)
        x == d.ex[e]
        y == t.db.ex[e]
    IN /\ OwnTx(d, t.db, e) /\ y \in ExRow
       /\ y.state = x.state /\ y.gen = x.gen /\ y.out = x.out /\ y.cancel = x.cancel
       /\ \/ t.pc = "observe" /\ x.gen = g /\ x.state = "running"
          \/ t.pc = "done" /\ y = x /\ (x.gen = g => x.state # "running")

\* FinalizeExhaustedExecution settles the execution, or leaves it alone.
FinalizeIs ==
  \A d \in DB, e \in Tools : \A g :
    LET t == FinalizeExhaustedExecution(d, e, g) IN
    /\ OwnTx(d, t.db, e) /\ FinalRow(d.ex[e], t.db.ex[e], g, t.pc)

\* SettleBackground settles the execution as run.
SettleBackgroundIs ==
  \A d \in DB, e \in Tools : \A g :
    LET d2 == SettleBackground(d, e, g)
        x == SettledRow(d.ex[e], g, "ran")
        y == d2.ex[e]
    IN /\ OwnTx(d, d2, e) /\ y \in ExRow
       /\ y.state = x.state /\ y.gen = x.gen /\ y.out = x.out /\ y.cancel = x.cancel
       /\ y = x \/ x.state = "terminal"

\* The transactions of an execution.
WaitTx ==
  /\ OwnRefl /\ OwnTrans /\ LifeOwn /\ SetExReady /\ SettleOwn /\ NewActivationIsRow
  /\ WaitForActivationIs /\ AttachIs /\ WaitForMaterializationIs /\ TransitionIs /\ RecordIs
  /\ FinalizeIs /\ SettleBackgroundIs

\* These facts hold.
LEMMA WaitTxHold == ASSUME OrderFacts PROVE WaitTx
<1>OwnRefl. OwnRefl
  BY SoundFactsHold, InterruptTxHold DEF OwnTx, SoundFacts, SoundRefl, InterruptTx, SoundOthers, OwnRefl
<1>OwnTrans. OwnTrans
  BY InterruptTxHold DEF OwnTx, InterruptTx, OthersTrans, OwnTrans
<1>LifeOwn. LifeOwn
  BY InterruptTxHold, SMTT(30) DEF OwnTx, LifeOnly, InterruptTx, SoundOthers, LifeOnlyExec, LifeOwn
<1>SetExReady. SetExReady
  <2> SUFFICES
      ASSUME NEW d \in DB, NEW e \in Tools, NEW x \in ExRow
      PROVE  LET d2 == ReadyReleases(SetEx(d, e, x)) IN OwnTx(d, d2, e) /\ d2.ex[e] = x
    BY DEF SetExReady
  <2> DEFINE d1 == SetEx(d, e, x)
             d2 == ReadyReleases(d1)
  <2>1. Others(d, d1, e) /\ d1.ex[e] = x /\ d1.q = d.q /\ d1 \in DB
    BY InterruptTxHold DEF Others, InterruptTx, SetExOthers
  <2> HIDE DEF d1
  <2>2. OwnTx(d1, d2, e) /\ d2.ex[e] = d1.ex[e]
    BY <2>1, ReleaseTxHold, <1>LifeOwn DEF ReleaseTx, ReadyReleasesSound, LifeOwn
  <2> HIDE DEF d2
  <2>3. OwnTx(d, d1, e)
    BY <2>1 DEF OwnTx
  <2>4. OwnTx(d, d2, e) /\ d2.ex[e] = x
    BY <2>1, <2>2, <2>3, <1>OwnTrans DEF OwnTrans
  <2> QED BY <2>4 DEF d2, d1
<1>SettleOwn. SettleOwn
  BY InterruptTxHold, SMTT(30) DEF OwnTx, SettledRow, Settles, InterruptTx, SettleIs, SettleOwn
<1>NewActivationIsRow. NewActivationIsRow
  <2> SUFFICES
      ASSUME NEW d \in DB, NEW need, NEW st \in OpStates
      PROVE  NewActivation(d, need) \in OpRow /\ [NewActivation(d, need) EXCEPT !.state = st] \in OpRow
    BY DEF NewActivationIsRow
  <2> DEFINE kind == IF d.bnd.handle = 0 THEN "create" ELSE "replace"
             op0 == Operation(d, kind, 0)
             op1 == [op0 EXCEPT !.env = Generation(d)]
             op2 == Operation(d, "start", d.bnd.handle)
  <2>1. d.bnd.handle \in Nat /\ Generation(d) \in Nat
    BY RowFactsHold, SMTT(30) DEF BndRow, Generation, RowFacts, DBFields
  <2>2. kind \in {"create", "start", "replace", "materialize", "release"}
    OBVIOUS
  <2>3. NewActivation(d, need) \in {op1, op2}
    BY DEF NewActivation
  <2> HIDE DEF kind
  <2>4. op0 \in OpRow /\ op2 \in OpRow
    BY <2>1, <2>2, RowFactsHold, SMTT(30) DEF RowFacts, OperationIsRow
  <2> HIDE DEF op0, op2
  <2>5. op1 \in OpRow
    BY <2>1, <2>4, ReleaseTxHold DEF OpStates, Bounds, Reasons, ReleaseTx, OpRowClosed
  <2> HIDE DEF op1
  <2>6. NewActivation(d, need) \in OpRow
    BY <2>3, <2>4, <2>5
  <2> QED BY <2>6, ReleaseTxHold DEF Bounds, Reasons, ReleaseTx, OpRowClosed
<1>WaitForActivationIs. WaitForActivationIs
  <2> SUFFICES
      ASSUME NEW d \in DB, NEW e \in Tools, NEW g, NEW o, NEW need
      PROVE  LET t == WaitForActivation(d, e, g, o, need) IN
             /\ t.pc \in {"retry", "error", "done"} /\ OwnTx(d, t.db, e)
             /\ DependRow(d.ex[e], t.db.ex[e], g, t.pc)
    BY DEF WaitForActivationIs
  <2> DEFINE b == [d.bnd EXCEPT !.exists = TRUE, !.rev = 1]
             d1 == IF d.bnd.exists THEN d ELSE SetBnd(d, b)
             A == UnfinishedActivation(d1)
             op == NewActivation(d1, need)
             artifact == IF op.kind = "start" THEN "ready" ELSE d.artifact[Generation(d)]
             op1 == [op EXCEPT !.state = IF artifact = "ready" THEN "pending" ELSE "waiting_artifact"]
             d2 == IF A # {} THEN d1 ELSE InsertOp(d1, op1)
             a == IF A # {} THEN CHOOSE x \in A : TRUE ELSE Len(d2.ops)
             x == [d.ex[e] EXCEPT !.state = "waiting_activation", !.op = a, !.auth = 0, !.late = FALSE]
             s0 == Settle(d, e, g, "failed")
             s1 == Settle(d1, e, g, "failed")
             d3 == ReadyReleases(SetEx(d2, e, x))
             t == WaitForActivation(d, e, g, o, need)
  <2>1. \/ t \in {Then(d, "retry"), Then(d, "error"), Then(s0, "done"), Then(s1, "done")}
        \/ t = Then(d3, "done") /\ d.ex[e].gen = g /\ d.ex[e].state \in {"pending", "preparing"}
    BY DEF WaitForActivation
  <2> HIDE DEF t
  <2>2. b \in BndRow
    <3>1. d.bnd \in BndRow
      BY RowFactsHold DEF RowFacts, DBFields
    <3> QED BY <3>1 DEF BndRow
  <2> HIDE DEF b
  <2>3. Sound(d, d1) /\ LifeOnly(d, d1)
    BY <2>2, ReleaseTxHold, SoundFactsHold, RowFactsHold DEF ReleaseTx, SetBndSound, SoundFacts, SoundRefl,
       RowFacts, LifeOnlyRefl
  <2> HIDE DEF d1
  <2>4. OwnTx(d, d1, e) /\ d1.ex[e] = d.ex[e] /\ d1 \in DB
    BY <2>3, <1>LifeOwn DEF LifeOwn
  <2>5. op1 \in OpRow
    BY <2>4, <1>NewActivationIsRow DEF OpStates, NewActivationIsRow
  <2> HIDE DEF op1
  <2>6. Sound(d1, d2) /\ LifeOnly(d1, d2)
    BY <2>4, <2>5, ReleaseTxHold, SoundFactsHold, RowFactsHold DEF ReleaseTx, InsertOpSound, SoundFacts,
       SoundRefl, RowFacts, LifeOnlyRefl
  <2> HIDE DEF d2
  <2>7. OwnTx(d, d2, e) /\ d2.ex[e] = d.ex[e] /\ d2 \in DB
    BY <2>4, <2>6, <1>LifeOwn, <1>OwnTrans DEF LifeOwn, OwnTrans
  <2>8. a \in Nat
    BY <2>4, <2>7, ClaimTxHold, RowFactsHold DEF ClaimTx, UnfinishedAreOps, RowFacts, DBFields
  <2> HIDE DEF a, A
  <2>9. d.ex[e] \in ExRow
    BY RowFactsHold DEF RowFacts, DBFields
  <2>10. /\ x \in ExRow /\ x.state = "waiting_activation" /\ x.gen = d.ex[e].gen /\ x.out = d.ex[e].out
         /\ x.cancel = d.ex[e].cancel
    BY <2>8, <2>9 DEF ExRow
  <2> HIDE DEF x
  <2>11. OwnTx(d, d3, e) /\ d3.ex[e] = x
    BY <2>7, <2>10, <1>SetExReady, <1>OwnTrans DEF SetExReady, OwnTrans
  <2> HIDE DEF d3
  <2>12. /\ OwnTx(d, s0, e) /\ s0.ex[e] = SettledRow(d.ex[e], g, "failed")
         /\ OwnTx(d, s1, e) /\ s1.ex[e] = SettledRow(d.ex[e], g, "failed")
    BY <2>4, <1>SettleOwn, <1>OwnTrans, SMTT(30) DEF Outs, SettleOwn, OwnTrans
  <2> HIDE DEF s0, s1
  <2>13. CASE t \in {Then(d, "retry"), Then(d, "error"), Then(s0, "done"), Then(s1, "done")}
    BY <2>12, <2>13, <1>OwnRefl, SMTT(30) DEF Then, DependRow, SettledRow, t, OwnRefl
  <2>14. CASE t = Then(d3, "done") /\ d.ex[e].gen = g /\ d.ex[e].state \in {"pending", "preparing"}
    BY <2>10, <2>11, <2>14, SMTT(30) DEF Then, DependRow, Waiting, t
  <2> QED BY <2>1, <2>13, <2>14
<1>AttachIs. AttachIs
  <2> SUFFICES
      ASSUME NEW d \in DB, NEW W \in SUBSET Tools, NEW e \in W, \A f \in W : d.ex[f].state \in Waiting \cup {"pending"}
      PROVE  LET d2 == AttachToMaterialization(d, W) IN
             /\ OwnTx(d, d2, e) /\ d2 \in DB /\ \E m \in Nat : d2.ex[e] = AttachRow(d.ex[e], m)
    BY DEF AttachIs
  <2> DEFINE d1 == EnsureMaterialization(d)
             m == CHOOSE x \in UnfinishedMaterialization(d1) : TRUE
             f == [h \in Tools |-> IF h \in W THEN AttachRow(d.ex[h], m) ELSE d.ex[h]]
             d2 == [d1 EXCEPT !.ex = f]
  <2>1. AttachToMaterialization(d, W) = d2
    BY DEF AttachToMaterialization
  <2>2. LifeOnly(d, d1) /\ d1 \in DB /\ UnfinishedMaterialization(d1) # {}
    BY FailureTxHold DEF Sound, FailureTx, EnsureMaterializationSound
  <2>3. Sound(d, AttachToMaterialization(d, W))
    BY FailureTxHold DEF FailureTx, AttachToMaterializationSound
  <2> HIDE DEF d1
  <2>4. m \in Nat
    BY <2>2, ClaimTxHold DEF ClaimTx, UnfinishedAreOps
  <2> HIDE DEF m
  <2>5. f \in [Tools -> ExRow]
    <3>1. \A x \in ExRow : AttachRow(x, m) \in ExRow
      BY <2>4, ExRowFactsHold DEF ExRowFacts, AttachRowIs
    <3> QED BY <3>1, RowFactsHold DEF RowFacts, DBFields
  <2>6. f[e] = AttachRow(d.ex[e], m)
    OBVIOUS
  <2> HIDE DEF f
  <2>7. d2.ex = f /\ d2.q = d1.q
    BY <2>2, <2>5, ExRowFactsHold DEF ExOnly, ExRowFacts, ExReplaced
  <2> HIDE DEF d2
  <2>8. d2.q[Exec(e)] = d.q[Exec(e)] /\ d2.ex[e] = AttachRow(d.ex[e], m)
    BY <2>2, <2>6, <2>7, InterruptTxHold, SMTT(30) DEF InterruptTx, LifeOnlyExec
  <2>9. OwnTx(d, d2, e) /\ d2 \in DB
    BY <2>1, <2>3, <2>8, InterruptTxHold DEF OwnTx, Sound, InterruptTx, SoundOthers
  <2> QED BY <2>1, <2>4, <2>8, <2>9
<1>WaitForMaterializationIs. WaitForMaterializationIs
  <2> SUFFICES
      ASSUME NEW d \in DB, NEW e \in Tools, NEW g, NEW o
      PROVE  LET t == WaitForMaterialization(d, e, g, o) IN
             /\ t.pc \in {"retry", "error", "done"} /\ OwnTx(d, t.db, e)
             /\ DependRow(d.ex[e], t.db.ex[e], g, t.pc)
    BY DEF WaitForMaterializationIs
  <2> DEFINE s0 == Settle(d, e, g, "failed")
             d1 == AttachToMaterialization(d, {e})
             d3 == ReadyReleases(d1)
             t == WaitForMaterialization(d, e, g, o)
  <2>1. \/ t \in {Then(d, "retry"), Then(d, "error"), Then(s0, "done")}
        \/ t = Then(d3, "done") /\ d.ex[e].gen = g /\ d.ex[e].state = "pending"
    BY DEF WaitForMaterialization
  <2> HIDE DEF t
  <2>2. OwnTx(d, s0, e) /\ s0.ex[e] = SettledRow(d.ex[e], g, "failed")
    BY <1>SettleOwn DEF Outs, SettleOwn
  <2> HIDE DEF s0
  <2>3. CASE t \in {Then(d, "retry"), Then(d, "error"), Then(s0, "done")}
    BY <2>2, <2>3, <1>OwnRefl, SMTT(30) DEF Then, DependRow, SettledRow, t, OwnRefl
  <2>4. CASE t = Then(d3, "done") /\ d.ex[e].gen = g /\ d.ex[e].state = "pending"
    <3>1. OwnTx(d, d1, e) /\ d1 \in DB /\ \E m \in Nat : d1.ex[e] = AttachRow(d.ex[e], m)
      BY <2>4, <1>AttachIs, SMTT(30) DEF AttachIs
    <3> HIDE DEF d1
    <3>2. OwnTx(d1, d3, e) /\ d3.ex[e] = d1.ex[e]
      BY <3>1, ReleaseTxHold, <1>LifeOwn DEF ReleaseTx, ReadyReleasesSound, LifeOwn
    <3> HIDE DEF d3
    <3>3. OwnTx(d, d3, e)
      BY <3>1, <3>2, <1>OwnTrans DEF OwnTrans
    <3>4. d.ex[e] \in ExRow
      BY RowFactsHold DEF RowFacts, DBFields
    <3>5. /\ d3.ex[e].state = "waiting_materialization" /\ d3.ex[e].gen = d.ex[e].gen
          /\ d3.ex[e].out = d.ex[e].out /\ d3.ex[e].cancel = d.ex[e].cancel
      BY <3>1, <3>2, <3>4, ExRowFactsHold, SMTT(30) DEF ExRowFacts, AttachRowIs
    <3> QED BY <2>4, <3>3, <3>5, SMTT(30) DEF Then, DependRow, Waiting, t
  <2> QED BY <2>1, <2>3, <2>4
<1>TransitionIs. TransitionIs
  <2> SUFFICES
      ASSUME NEW d \in DB, NEW e \in Tools, NEW g, NEW o, NEW from,
             NEW to \in {"preparing", "running"}
      PROVE  LET t == Transition(d, e, g, o, from, to) IN
             /\ t.pc \in {"retry", "done", "authorize", "submit"} /\ OwnTx(d, t.db, e)
             /\ TransitionRow(d.ex[e], t.db.ex[e], g, from, to, t.pc)
    BY DEF TransitionIs
  <2> DEFINE x == d.ex[e]
             x1 == [x EXCEPT !.state = "pending", !.auth = 0, !.late = FALSE]
             x2 == IF to = "preparing" THEN [x EXCEPT !.state = to, !.auth = d.bnd.handle,
                                                      !.arev = d.bnd.rev, !.late = FALSE]
                   ELSE [x EXCEPT !.state = to]
             pc == IF to = "preparing" THEN "authorize" ELSE "submit"
             s0 == Settle(d, e, g, "failed")
             r0 == ReadyReleases(d)
             r1 == ReadyReleases(SetEx(d, e, x1))
             r2 == ReadyReleases(SetEx(d, e, x2))
             t == Transition(d, e, g, o, from, to)
  <2>1. \/ t = Then(d, "done") /\ x.gen # g
        \/ t = Then(s0, "done")
        \/ t = Then(r1, "retry") /\ x.state = "preparing"
        \/ t = Then(r0, "retry")
        \/ t = Then(r0, pc) /\ x.state = "preparing" /\ to = "preparing"
        \/ t = Then(r0, "done") /\ x.state # from /\ ~(x.state = "preparing" /\ to = "preparing")
        \/ t = Then(r2, pc) /\ x.gen = g /\ x.state = from
    BY DEF Transition
  <2> HIDE DEF t
  <2>2. OwnTx(d, s0, e) /\ s0.ex[e] = SettledRow(x, g, "failed")
    BY <1>SettleOwn DEF Outs, SettleOwn
  <2>3. OwnTx(d, r0, e) /\ r0.ex[e] = x
    BY ReleaseTxHold, <1>LifeOwn DEF ReleaseTx, ReadyReleasesSound, LifeOwn
  <2>4. x \in ExRow /\ d.bnd.handle \in Nat /\ d.bnd.rev \in Nat
    BY RowFactsHold DEF BndRow, RowFacts, DBFields
  <2>5. x1 \in ExRow /\ x1.state = "pending" /\ x1.gen = x.gen /\ x1.out = x.out /\ x1.cancel = x.cancel
    BY <2>4 DEF ExRow
  <2>6. x2 \in ExRow /\ x2.state = to /\ x2.gen = x.gen /\ x2.out = x.out /\ x2.cancel = x.cancel
    <3> HIDE DEF x
    <3>1. CASE to = "preparing"
      BY <2>4, <3>1 DEF ExRow
    <3>2. CASE to = "running"
      BY <2>4, <3>2 DEF ExRow
    <3> QED BY <3>1, <3>2
  <2> HIDE DEF s0, r0, x1, x2
  <2>7. OwnTx(d, r1, e) /\ r1.ex[e] = x1 /\ OwnTx(d, r2, e) /\ r2.ex[e] = x2
    BY <2>5, <2>6, <1>SetExReady DEF SetExReady
  <2> HIDE DEF r1, r2, x
  <2>x. x = d.ex[e]
    BY DEF x
  <2>8. OwnTx(d, d, e)
    BY <1>OwnRefl DEF OwnRefl
  <2>11. CASE t = Then(d, "done") /\ x.gen # g
    BY <2>8, <2>11, <2>x, SMTT(30) DEF Then, TransitionRow, t
  <2>12. CASE t = Then(s0, "done")
    BY <2>2, <2>12, <2>x, SMTT(30) DEF Then, TransitionRow, t
  <2>13. CASE t = Then(r1, "retry") /\ x.state = "preparing"
    BY <2>5, <2>7, <2>13, <2>x, SMTT(30) DEF Then, TransitionRow, t
  <2>14. CASE t = Then(r0, "retry")
    BY <2>3, <2>14, <2>x, SMTT(30) DEF Then, TransitionRow, t
  <2>15. CASE t = Then(r0, pc) /\ x.state = "preparing" /\ to = "preparing"
    BY <2>3, <2>15, <2>x, SMTT(30) DEF Then, TransitionRow, t
  <2>16. CASE t = Then(r0, "done") /\ x.state # from /\ ~(x.state = "preparing" /\ to = "preparing")
    BY <2>3, <2>16, <2>x, SMTT(30) DEF Then, TransitionRow, t
  <2>17. CASE t = Then(r2, pc) /\ x.gen = g /\ x.state = from
    BY <2>6, <2>7, <2>17, <2>x, SMTT(30) DEF Then, TransitionRow, t
  <2> QED BY <2>1, <2>11, <2>12, <2>13, <2>14, <2>15, <2>16, <2>17
<1>RecordIs. RecordIs
  <2> SUFFICES
      ASSUME NEW d \in DB, NEW e \in Tools, NEW g
      PROVE  LET t == RecordProviderCommandReference(d, e, g)
                 x == d.ex[e]
                 y == t.db.ex[e]
             IN /\ OwnTx(d, t.db, e) /\ y \in ExRow
                /\ y.state = x.state /\ y.gen = x.gen /\ y.out = x.out /\ y.cancel = x.cancel
                /\ \/ t.pc = "observe" /\ x.gen = g /\ x.state = "running"
                   \/ t.pc = "done" /\ y = x /\ (x.gen = g => x.state # "running")
    BY DEF RecordIs
  <2> DEFINE x == d.ex[e]
             y == [x EXCEPT !.ref = TRUE]
             d2 == SetEx(d, e, y)
             t == RecordProviderCommandReference(d, e, g)
  <2>1. \/ t = Then(d2, "observe") /\ x.gen = g /\ x.state = "running"
        \/ t = Then(d, "done") /\ (x.gen = g => x.state # "running")
    BY DEF RecordProviderCommandReference
  <2>2. x \in ExRow
    BY RowFactsHold DEF RowFacts, DBFields
  <2>3. y \in ExRow /\ y.state = x.state /\ y.gen = x.gen /\ y.out = x.out /\ y.cancel = x.cancel
    BY <2>2 DEF ExRow
  <2> HIDE DEF t, y
  <2>4. OwnTx(d, d2, e) /\ d2.ex[e] = y
    BY <2>3, InterruptTxHold DEF OwnTx, InterruptTx, SetExOthers
  <2> HIDE DEF d2
  <2>5. OwnTx(d, d, e)
    BY <1>OwnRefl DEF OwnRefl
  <2> QED BY <2>1, <2>2, <2>3, <2>4, <2>5, SMTT(30) DEF Then, t
<1>FinalizeIs. FinalizeIs
  <2> SUFFICES
      ASSUME NEW d \in DB, NEW e \in Tools, NEW g
      PROVE  LET t == FinalizeExhaustedExecution(d, e, g) IN
             /\ OwnTx(d, t.db, e) /\ FinalRow(d.ex[e], t.db.ex[e], g, t.pc)
    BY DEF FinalizeIs
  <2> DEFINE x == d.ex[e]
             out == IF x.state = "running" THEN "unknown" ELSE "failed"
             s0 == Settle(d, e, g, out)
             t == FinalizeExhaustedExecution(d, e, g)
  <2>1. \/ t = Then(d, "done") /\ (x.gen = g => x.state \notin InFlightStates)
        \/ t = Then(d, "error")
        \/ t = Then(s0, "done") /\ x.gen = g /\ x.state \in InFlightStates
    BY DEF FinalizeExhaustedExecution, InFlightStates
  <2>2. out \in Outs
    BY DEF Outs
  <2> HIDE DEF t
  <2>3. OwnTx(d, s0, e) /\ s0.ex[e] = SettledRow(x, g, out)
    <3> HIDE DEF out
    <3> QED BY <2>2, <1>SettleOwn DEF SettleOwn
  <2> HIDE DEF s0
  <2>4. OwnTx(d, d, e)
    BY <1>OwnRefl DEF OwnRefl
  <2>5. CASE t = Then(s0, "done") /\ x.gen = g /\ x.state \in InFlightStates
    BY <2>3, <2>5, SMTT(30) DEF Then, FinalRow, SettledRow, InFlightStates, t
  <2>6. CASE t = Then(d, "error")
    BY <2>4, <2>6, SMTT(30) DEF Then, FinalRow, t
  <2>7. CASE t = Then(d, "done") /\ (x.gen = g => x.state \notin InFlightStates)
    BY <2>4, <2>7, SMTT(30) DEF Then, FinalRow, t
  <2> QED BY <2>1, <2>5, <2>6, <2>7
<1>SettleBackgroundIs. SettleBackgroundIs
  <2> SUFFICES
      ASSUME NEW d \in DB, NEW e \in Tools, NEW g
      PROVE  LET d2 == SettleBackground(d, e, g)
                 x == SettledRow(d.ex[e], g, "ran")
                 y == d2.ex[e]
             IN /\ OwnTx(d, d2, e) /\ y \in ExRow
                /\ y.state = x.state /\ y.gen = x.gen /\ y.out = x.out /\ y.cancel = x.cancel
                /\ y = x \/ x.state = "terminal"
    BY DEF SettleBackgroundIs
  <2> DEFINE h == d.ex[e].auth
             d1 == Settle(d, e, g, "ran")
             y == [d1.ex[e] EXCEPT !.task = h]
             d2 == SetEx(d1, e, y)
             x == SettledRow(d.ex[e], g, "ran")
  <2>1. SettleBackground(d, e, g) = IF d1 = d THEN d ELSE d2
    BY DEF SettleBackground
  <2>2. /\ OwnTx(d, d1, e) /\ d1.ex[e] = x /\ d1 \in DB
        /\ ~Settles(d, e, g) => d1 = d
    BY <1>SettleOwn, InterruptTxHold, SMTT(30) DEF Outs, OwnTx, Others, SettleOwn, InterruptTx, SettleIs
  <2>3. d1 # d => x.state = "terminal"
    <3>1. d.ex[e] \in ExRow
      BY RowFactsHold DEF RowFacts, DBFields
    <3>2. SettleRow(d.ex[e], "ran").state = "terminal"
      BY <3>1, ExRowFactsHold DEF Outs, ExRowFacts, SettleRowIs
    <3> QED BY <2>2, <3>2 DEF SettledRow, Settles
  <2> HIDE DEF d1, x
  <2>4. h \in Nat /\ d1.ex[e] \in ExRow
    BY <2>2, RowFactsHold DEF ExRow, RowFacts, DBFields
  <2> HIDE DEF h
  <2>5. /\ y \in ExRow /\ y.state = d1.ex[e].state /\ y.gen = d1.ex[e].gen /\ y.out = d1.ex[e].out
        /\ y.cancel = d1.ex[e].cancel
    BY <2>4 DEF ExRow
  <2> HIDE DEF y
  <2>6. OwnTx(d1, d2, e) /\ d2.ex[e] = y
    BY <2>2, <2>5, InterruptTxHold DEF OwnTx, InterruptTx, SetExOthers
  <2> HIDE DEF d2
  <2>7. OwnTx(d, d2, e)
    BY <2>2, <2>6, <1>OwnTrans DEF OwnTrans
  <2>8. CASE d1 = d
    BY <2>1, <2>2, <2>4, <2>8 DEF x
  <2>9. CASE d1 # d
    BY <2>1, <2>2, <2>3, <2>5, <2>6, <2>7, <2>9 DEF x
  <2> QED BY <2>8, <2>9
<1> QED BY <1>OwnRefl, <1>OwnTrans, <1>LifeOwn, <1>SetExReady, <1>SettleOwn, <1>NewActivationIsRow,
   <1>WaitForActivationIs, <1>AttachIs, <1>WaitForMaterializationIs, <1>TransitionIs, <1>RecordIs,
   <1>FinalizeIs, <1>SettleBackgroundIs DEF WaitTx

-----------------------------------------------------------------------------
(* The custody of releases.                                                *)

\* The states in which an operation waits without a job.
Waits == {"waiting_artifact", "waiting_activation"}

\* A pending release that no other supersedes.
PendingRow(op) == op.kind = "release" /\ op.state = "pending" /\ ~op.sup

\* A running operation other than a release: it blocks every release.
Blocking(op) == op.kind # "release" /\ op.state = "running"

\* What a transaction never does to an operation: a release stays a release of
\* its handle, and neither becomes pending again nor waits.
Forward(x, y) ==
  /\ y.kind = "release" <=> x.kind = "release"
  /\ x.kind = "release" => /\ y.target = x.target
                           /\ y.state = "pending" => x.state = "pending"
                           /\ y.state \in Waits => x.state \in Waits
                           /\ x.sup => y.sup

\* Nor does a pending release forget that it has a job.
Calm(x, y) == Forward(x, y) /\ (PendingRow(y) /\ x.job => y.job)

\* An operation as it is inserted.
Fresh(op) == op.kind = "release" => op.state \notin Waits /\ op.target # 0 /\ (PendingRow(op) => op.job)

\* The states of an execution that has its result.
Ended == {"terminal", "consumed"}

\* An execution is not opened, and gets no task before it has ended.
ExCalm(x, y) ==
  /\ y.state \in OpenStates => x.state \in OpenStates
  /\ y.state \notin Ended => x.state \notin Ended /\ y.task = x.task

\* It goes on blocking what it blocks.
ExBlocks(x, y) ==
  /\ x.state \in {"preparing", "running"} => y.state \in {"preparing", "running"} /\ y.auth = x.auth
  /\ x.task # 0 => y.task = x.task

\* Releases name a handle and never wait, one that has a job is marked so, only a
\* live Session has open executions, and only an execution that has ended a task.
Plain(d) ==
  /\ \A o \in OpIds(d) : d.ops[o].kind = "release" => d.ops[o].state \notin Waits /\ d.ops[o].target # 0
  /\ \A o \in OpIds(d) : PendingRow(d.ops[o]) /\ Named(d.q[Life], o) => d.ops[o].job
  /\ \A e \in Tools : /\ d.ex[e].state \in OpenStates => d.session = "live"
                      /\ d.ex[e].state \notin Ended => d.ex[e].task = 0

\* Every pending release that nothing blocks has a job.
Custody(d) == \A r \in OpIds(d) : PendingRelease(d, r) /\ ~Blocked(d, r) => HasJob(d, Life, r)

\* An operation goes on, and a pending release keeps the job it has.
Follows(d, d2, o) ==
  /\ Forward(d.ops[o], d2.ops[o])
  /\ PendingRow(d2.ops[o]) /\ Named(d.q[Life], o) => Named(d2.q[Life], o)

\* A transaction that loses no release, though it may end what blocks one.
Orderly(d, d2) ==
  /\ d2 \in DB /\ OpIds(d) \subseteq OpIds(d2)
  /\ Plain(d) => Plain(d2) /\ \A o \in OpIds(d) : Follows(d, d2, o)

\* A transaction after which every release has its job if it had it before.
Careful(d, d2) == Orderly(d, d2) /\ (Plain(d) /\ Custody(d) => Custody(d2))

\* Operations change one by one, and new ones have their marks.
OpsOrderly ==
  \A d, d2 \in DB :
    /\ d2.session = d.session /\ d2.ex = d.ex /\ OpIds(d) \subseteq OpIds(d2)
    /\ Plain(d) => \A o \in OpIds(d) : Calm(d.ops[o], d2.ops[o])
    /\ Plain(d) => \A o \in OpIds(d2) : o \notin OpIds(d) => Fresh(d2.ops[o])
    /\ \A o \in OpIds(d) : Named(d2.q[Life], o) => Named(d.q[Life], o) \/ d2.ops[o].job
    /\ \A o \in OpIds(d) : PendingRow(d2.ops[o]) /\ Named(d.q[Life], o) => Named(d2.q[Life], o)
    =>
      Orderly(d, d2)

\* If they go on blocking, and new releases have jobs, none is lost.
OpsCareful ==
  \A d, d2 \in DB :
    /\ Orderly(d, d2) /\ d2.ex = d.ex
    /\ Plain(d) => \A o \in OpIds(d) : Blocking(d.ops[o]) => Blocking(d2.ops[o])
    /\ \A o \in OpIds(d2) : o \notin OpIds(d) /\ PendingRow(d2.ops[o]) => Named(d2.q[Life], o)
    =>
      Careful(d, d2)

\* Executions change one by one.
ExOrderly ==
  \A d, d2 \in DB :
    /\ d2.session = d.session /\ d2.ops = d.ops /\ d2.q[Life] = d.q[Life]
    /\ Plain(d) => \A e \in Tools : ExCalm(d.ex[e], d2.ex[e])
    =>
      Orderly(d, d2)

\* If they go on blocking, no release is lost.
ExCareful ==
  \A d, d2 \in DB :
    /\ d2.session = d.session /\ d2.ops = d.ops /\ d2.q[Life] = d.q[Life]
    /\ Plain(d) => \A e \in Tools : ExCalm(d.ex[e], d2.ex[e]) /\ ExBlocks(d.ex[e], d2.ex[e])
    =>
      Careful(d, d2)

\* Nothing changes.
CarefulRefl == \A d \in DB : Careful(d, d)

\* These transactions compose.
OrderlyTrans == \A d1, d2, d3 : Orderly(d1, d2) /\ Orderly(d2, d3) => Orderly(d1, d3)

\* So do these.
CarefulTrans == \A d1, d2, d3 : Careful(d1, d2) /\ Careful(d2, d3) => Careful(d1, d3)

\* ReadyReleases gives every release its job, whatever ended what blocked it.
ReadyCareful ==
  /\ \A d \in DB : Careful(d, ReadyReleases(d)) /\ Custody(ReadyReleases(d))
  /\ \A d, x : Orderly(d, x) => Careful(d, ReadyReleases(x))

\* The facts about the custody of releases.
CustodyFacts ==
  /\ OpsOrderly /\ OpsCareful /\ ExOrderly /\ ExCareful /\ CarefulRefl /\ OrderlyTrans
  /\ CarefulTrans /\ ReadyCareful

\* These facts hold.
LEMMA CustodyFactsHold == ASSUME OrderFacts PROVE CustodyFacts
<1>OpsOrderly. OpsOrderly
  <2> SUFFICES
      ASSUME NEW d \in DB, NEW d2 \in DB,
             d2.session = d.session, d2.ex = d.ex, OpIds(d) \subseteq OpIds(d2),
             Plain(d) => \A o \in OpIds(d) : Calm(d.ops[o], d2.ops[o]),
             Plain(d) => \A o \in OpIds(d2) : o \notin OpIds(d) => Fresh(d2.ops[o]),
             \A o \in OpIds(d) : Named(d2.q[Life], o) => Named(d.q[Life], o) \/ d2.ops[o].job,
             \A o \in OpIds(d) : PendingRow(d2.ops[o]) /\ Named(d.q[Life], o) => Named(d2.q[Life], o),
             Plain(d)
      PROVE  Plain(d2) /\ \A o \in OpIds(d) : Forward(d.ops[o], d2.ops[o])
    BY DEF OpsOrderly, Orderly, Follows
  <2>1. \A o \in OpIds(d) : Forward(d.ops[o], d2.ops[o])
    BY DEF Calm
  <2>2. ASSUME NEW o \in OpIds(d2), d2.ops[o].kind = "release"
        PROVE  d2.ops[o].state \notin Waits /\ d2.ops[o].target # 0
    <3>1. CASE o \in OpIds(d)
      BY <2>1, <2>2, <3>1 DEF Forward, Plain
    <3>2. CASE o \notin OpIds(d)
      BY <2>2, <3>2 DEF Fresh
    <3> QED BY <3>1, <3>2
  <2>3. ASSUME NEW o \in OpIds(d2), PendingRow(d2.ops[o]), Named(d2.q[Life], o)
        PROVE  d2.ops[o].job
    <3>1. CASE o \in OpIds(d)
      <4>1. Calm(d.ops[o], d2.ops[o])
        BY <3>1
      <4>2. PendingRow(d.ops[o])
        BY <2>3, <4>1 DEF Calm, Forward, PendingRow
      <4> QED BY <2>3, <3>1, <4>1, <4>2 DEF Calm, Plain
    <3>2. CASE o \notin OpIds(d)
      BY <2>3, <3>2 DEF Fresh, PendingRow
    <3> QED BY <3>1, <3>2
  <2> QED BY <2>1, <2>2, <2>3 DEF Plain
<1>OpsCareful. OpsCareful
  <2> SUFFICES
      ASSUME NEW d \in DB, NEW d2 \in DB,
             Orderly(d, d2), d2.ex = d.ex, 
             Plain(d) => \A o \in OpIds(d) : Blocking(d.ops[o]) => Blocking(d2.ops[o]),
             \A o \in OpIds(d2) : o \notin OpIds(d) /\ PendingRow(d2.ops[o]) => Named(d2.q[Life], o),
             Plain(d), Custody(d),
             NEW r \in OpIds(d2), PendingRelease(d2, r), ~Blocked(d2, r)
      PROVE  HasJob(d2, Life, r)
    BY DEF OpsCareful, Careful, Custody
  <2>1. PendingRow(d2.ops[r])
    BY DEF PendingRow, PendingRelease
  <2>2. CASE r \notin OpIds(d)
    BY <2>1, <2>2 DEF HasJob
  <2>3. CASE r \in OpIds(d)
    <3>1. Forward(d.ops[r], d2.ops[r]) /\ (Named(d.q[Life], r) => Named(d2.q[Life], r))
      BY <2>1, <2>3 DEF Orderly, Follows
    <3>2. PendingRelease(d, r) /\ d2.ops[r].target = d.ops[r].target
      BY <2>1, <3>1 DEF PendingRow, PendingRelease, Forward
    <3>3. ~Blocked(d, r)
      <4>1. SUFFICES ASSUME Blocked(d, r) PROVE Blocked(d2, r)
        OBVIOUS
      <4>2. CASE \E o \in OpIds(d) \ {r} : d.ops[o].kind # "release" /\ d.ops[o].state = "running"
        <5>1. PICK o \in OpIds(d) \ {r} : d.ops[o].kind # "release" /\ d.ops[o].state = "running"
          BY <4>2
        <5>2. o \in OpIds(d2) \ {r}
          BY DEF Orderly
        <5>3. Blocking(d2.ops[o])
          BY <5>1 DEF Blocking
        <5> QED BY <5>2, <5>3 DEF Blocked, Blocking
      <4>3. CASE ~(\E o \in OpIds(d) \ {r} : d.ops[o].kind # "release" /\ d.ops[o].state = "running")
        BY <3>2, <4>1, <4>3 DEF Blocked
      <4> QED BY <4>2, <4>3
    <3>4. Named(d.q[Life], r)
      BY <2>3, <3>2, <3>3 DEF Custody, HasJob
    <3> QED BY <3>1, <3>4 DEF HasJob
  <2> QED BY <2>2, <2>3
<1>ExOrderly. ExOrderly
  <2> SUFFICES
      ASSUME NEW d \in DB, NEW d2 \in DB,
             d2.session = d.session, d2.ops = d.ops, d2.q[Life] = d.q[Life],
             Plain(d) => \A e \in Tools : ExCalm(d.ex[e], d2.ex[e])
      PROVE  Orderly(d, d2)
    BY DEF ExOrderly
  <2>1. OpIds(d2) = OpIds(d)
    BY DEF OpIds
  <2>2. \A o \in OpIds(d) : Follows(d, d2, o)
    BY DEF Forward, Follows
  <2>3. ASSUME Plain(d) PROVE Plain(d2)
    BY <2>1, <2>3 DEF Plain, ExCalm
  <2> QED BY <2>1, <2>2, <2>3 DEF Orderly
<1>ExCareful. ExCareful
  <2> SUFFICES
      ASSUME NEW d \in DB, NEW d2 \in DB,
             d2.session = d.session, d2.ops = d.ops, d2.q[Life] = d.q[Life],
             Plain(d) => \A e \in Tools : ExCalm(d.ex[e], d2.ex[e]) /\ ExBlocks(d.ex[e], d2.ex[e])
      PROVE  Careful(d, d2)
    BY DEF ExCareful
  <2>1. Orderly(d, d2)
    BY <1>ExOrderly DEF ExOrderly
  <2>2. ASSUME Plain(d), Custody(d), NEW r \in OpIds(d2), PendingRelease(d2, r), ~Blocked(d2, r)
        PROVE  HasJob(d2, Life, r)
    <3>1. r \in OpIds(d) /\ PendingRelease(d, r) /\ d.ops[r].target # 0
      BY <2>2 DEF OpIds, PendingRelease, Plain
    <3>2. OpIds(d2) = OpIds(d)
      BY DEF OpIds
    <3>3. ~Blocked(d, r)
      BY <2>2, <3>1, <3>2 DEF Blocked, ExBlocks
    <3> QED BY <2>2, <3>1, <3>3 DEF Custody, HasJob
  <2> QED BY <2>1, <2>2 DEF Careful, Custody
<1>CarefulRefl. CarefulRefl
  BY DEF CarefulRefl, Careful, Orderly, Forward, Follows
<1>OrderlyTrans. OrderlyTrans
  <2> SUFFICES
      ASSUME NEW d1, NEW d2, NEW d3, Orderly(d1, d2), Orderly(d2, d3)
      PROVE  Orderly(d1, d3)
    BY DEF OrderlyTrans
  <2>1. \A x, y, z : Forward(x, y) /\ Forward(y, z) => Forward(x, z)
    BY DEF Forward
  <2>2. ASSUME Plain(d1), NEW o \in OpIds(d1) PROVE Follows(d1, d3, o)
    <3>1. o \in OpIds(d2) /\ Follows(d1, d2, o) /\ Follows(d2, d3, o)
      BY <2>2 DEF Orderly
    <3>2. PendingRow(d3.ops[o]) => PendingRow(d2.ops[o])
      BY <3>1 DEF Follows, Forward, PendingRow
    <3> QED BY <2>1, <3>1, <3>2 DEF Follows
  <2> QED BY <2>2 DEF Orderly
<1>CarefulTrans. CarefulTrans
  BY <1>OrderlyTrans DEF CarefulTrans, OrderlyTrans, Careful, Orderly
<1>ReadyCareful. ReadyCareful
  <2>1. ASSUME NEW d \in DB
        PROVE  Careful(d, ReadyReleases(d)) /\ Custody(ReadyReleases(d))
    <3> DEFINE d2 == ReadyReleases(d)
               row(o) == IF o \in Ready(d) THEN [d.ops[o] EXCEPT !.job = TRUE] ELSE d.ops[o]
    <3>1. /\ LifeOnly(d, d2) /\ OpIds(d2) = OpIds(d) /\ Queued(d, d2, Ready(d))
          /\ \A o \in OpIds(d) : d2.ops[o] = row(o)
      BY OperationFactsHold DEF OperationFacts, ReadyReleasesIs
    <3>2. d2 \in DB /\ d2.session = d.session /\ d2.ex = d.ex
      BY <3>1 DEF LifeOnly
    <3> HIDE DEF d2
    <3>3. ASSUME NEW o \in OpIds(d)
          PROVE  /\ d2.ops[o].kind = d.ops[o].kind /\ d2.ops[o].state = d.ops[o].state
                 /\ d2.ops[o].target = d.ops[o].target /\ d2.ops[o].sup = d.ops[o].sup
                 /\ d.ops[o].job \/ o \in Ready(d) => d2.ops[o].job
      <4>1. d.ops[o] \in OpRow
        BY RowFactsHold DEF RowFacts, DBFields
      <4> QED BY <3>1, <4>1 DEF OpRow
    <3>4. \A x : Named(d2.q[Life], x) <=> Named(d.q[Life], x) \/ x \in Ready(d)
      BY <3>1 DEF Queued
    <3>5. \A o \in OpIds(d) : Calm(d.ops[o], d2.ops[o])
      BY <3>3 DEF Calm, Forward
    <3>6. Orderly(d, d2)
      BY <1>OpsOrderly, <3>1, <3>2, <3>3, <3>4, <3>5 DEF OpsOrderly
    <3>7. ASSUME NEW r \in OpIds(d2), PendingRelease(d2, r), ~Blocked(d2, r)
          PROVE  HasJob(d2, Life, r)
      <4>1. r \in OpIds(d) /\ PendingRelease(d, r) /\ d2.ops[r].target = d.ops[r].target
        BY <3>1, <3>3, <3>7 DEF PendingRelease
      <4>2. ~Blocked(d, r)
        BY <3>1, <3>2, <3>3, <3>7, <4>1 DEF Blocked
      <4>3. r \in Ready(d) \/ HasJob(d, Life, r)
        BY <4>1, <4>2 DEF Ready
      <4> QED BY <3>4, <4>3 DEF HasJob
    <3> QED BY <3>6, <3>7 DEF Careful, Custody, d2
  <2>2. ASSUME NEW d, NEW x, Orderly(d, x) PROVE Careful(d, ReadyReleases(x))
    <3>1. x \in DB
      BY <2>2 DEF Orderly
    <3>2. Orderly(x, ReadyReleases(x)) /\ Custody(ReadyReleases(x))
      BY <2>1, <3>1 DEF Careful
    <3> QED BY <2>2, <3>2, <1>OrderlyTrans DEF OrderlyTrans, Careful
  <2> QED BY <2>1, <2>2 DEF ReadyCareful
<1> QED BY <1>OpsOrderly, <1>OpsCareful, <1>ExOrderly, <1>ExCareful, <1>CarefulRefl, <1>OrderlyTrans,
   <1>CarefulTrans, <1>ReadyCareful DEF CustodyFacts

-----------------------------------------------------------------------------
(* The elementary changes, the insertion of operations and the release of  *)
(* handles keep the custody of releases.                                   *)

\* SetOp loses no release if its row goes on.
SetOpOrderly ==
  \A d \in DB : \A o \in OpIds(d), op \in OpRow :
    (Plain(d) => Calm(d.ops[o], op)) => Orderly(d, SetOp(d, o, op))

\* SetOp keeps the custody of releases if the operation goes on blocking too.
SetOpCareful ==
  \A d \in DB : \A o \in OpIds(d), op \in OpRow :
    (Plain(d) => Calm(d.ops[o], op)) /\ (Blocking(d.ops[o]) => Blocking(op)) => Careful(d, SetOp(d, o, op))

\* The binding does not matter.
SetBndCareful == \A d \in DB, b \in BndRow : Careful(d, SetBnd(d, b))

\* Jobs do not hurt.
QueueOpsCareful == \A d \in DB : \A S \in SUBSET OpIds(d) : Careful(d, QueueOps(d, S))

\* A new release is pending and has its job.
InsertOpCareful ==
  \A d \in DB, op \in OpRow :
    (op.kind = "release" => op.state = "pending" /\ op.target # 0) => Careful(d, InsertOp(d, op))

\* The successors of releases have jobs.
SupersedeCareful ==
  \A d \in DB : \A S \in SUBSET OpIds(d), reason \in Reasons :
    (\A o \in S : d.ops[o].kind = "release") => Careful(d, Supersede(d, S, reason))

\* Operations may leave the pending and waiting states, and those that are no
\* releases may enter them.
SetStatesOrderly ==
  \A d \in DB : \A S : \A state \in OpStates :
    (Plain(d) => state \notin Waits \cup {"pending"} \/ \A o \in OpIds(d) : o \in S => d.ops[o].kind # "release") =>
      Orderly(d, SetStates(d, S, state))

\* If none of them was running, releases keep their custody.
SetStatesCareful ==
  \A d \in DB : \A S : \A state \in OpStates :
    /\ Plain(d) => state \notin Waits \cup {"pending"} \/ \A o \in OpIds(d) : o \in S => d.ops[o].kind # "release"
    /\ \A o \in OpIds(d) : o \in S => ~Blocking(d.ops[o])
    =>
      Careful(d, SetStates(d, S, state))

\* The postcondition of a release changes the binding only.
ApplyPostconditionCareful == \A d \in DB : \A h, reason : Careful(d, ApplyPostcondition(d, h, reason))

\* EnsureRelease leaves a release with its job.
EnsureReleaseCareful ==
  \A d \in DB, h \in Nat \ {0}, reason \in Reasons : Careful(d, EnsureRelease(d, h, reason))

\* Waiting and pending executions block no release.
SettleRowsCareful ==
  \A d \in DB : \A W :
    (\A e \in Tools : e \in W => d.ex[e].state \in Waiting \cup {"pending"}) => Careful(d, SettleRows(d, W))

\* Nor do those that wait for an operation.
SettleWaitersCareful == \A d \in DB : \A S : Careful(d, SettleWaiters(d, S))

\* Nor do operations that wait.
FailDependentsCareful == \A d \in DB : \A S : Careful(d, FailDependents(d, S))

\* The plans of releases.
ReleaseCare ==
  /\ SetOpOrderly /\ SetOpCareful /\ SetBndCareful /\ QueueOpsCareful /\ InsertOpCareful
  /\ SupersedeCareful /\ SetStatesOrderly /\ SetStatesCareful /\ ApplyPostconditionCareful
  /\ EnsureReleaseCareful /\ SettleRowsCareful /\ SettleWaitersCareful /\ FailDependentsCareful

\* These facts hold.
LEMMA ReleaseCareHold == ASSUME OrderFacts PROVE ReleaseCare
<1>SetOpIs. ASSUME NEW d \in DB, NEW o \in OpIds(d), NEW op \in OpRow
            PROVE  LET d2 == SetOp(d, o, op) IN
                   /\ d2 \in DB /\ d2.session = d.session /\ d2.ex = d.ex /\ OpIds(d2) = OpIds(d) /\ d2.q = d.q
                   /\ \A x \in OpIds(d) : d2.ops[x] = IF x = o THEN op ELSE d.ops[x]
  <2> DEFINE d2 == SetOp(d, o, op)
  <2>1. /\ LifeOnly(d, d2) /\ OpIds(d2) = OpIds(d) /\ d2.q = d.q
        /\ d2.ops = [d.ops EXCEPT ![o] = op]
    BY RowFactsHold, SMTT(30) DEF RowFacts, SetOpIs
  <2>2. OpIds(d) = DOMAIN d.ops
    BY RowFactsHold DEF RowFacts, DBFields
  <2> HIDE DEF d2
  <2> QED BY <2>1, <2>2 DEF LifeOnly, d2
<1>Refl. \A x : Calm(x, x)
  BY DEF Calm, Forward
<1>SetOpOrderly. SetOpOrderly
  <2> SUFFICES
      ASSUME NEW d \in DB, NEW o \in OpIds(d), NEW op \in OpRow, Plain(d) => Calm(d.ops[o], op)
      PROVE  Orderly(d, SetOp(d, o, op))
    BY DEF SetOpOrderly
  <2> DEFINE d2 == SetOp(d, o, op)
  <2>1. /\ d2 \in DB /\ d2.session = d.session /\ d2.ex = d.ex /\ OpIds(d2) = OpIds(d) /\ d2.q = d.q
        /\ \A x \in OpIds(d) : d2.ops[x] = IF x = o THEN op ELSE d.ops[x]
    BY <1>SetOpIs
  <2> HIDE DEF d2
  <2>2. Plain(d) => \A x \in OpIds(d) : Calm(d.ops[x], d2.ops[x])
    BY <2>1, <1>Refl
  <2> QED BY <2>1, <2>2, CustodyFactsHold DEF CustodyFacts, OpsOrderly, d2
<1>SetOpCareful. SetOpCareful
  <2> SUFFICES
      ASSUME NEW d \in DB, NEW o \in OpIds(d), NEW op \in OpRow, Plain(d) => Calm(d.ops[o], op),
             Blocking(d.ops[o]) => Blocking(op)
      PROVE  Careful(d, SetOp(d, o, op))
    BY DEF SetOpCareful
  <2> DEFINE d2 == SetOp(d, o, op)
  <2>1. /\ d2 \in DB /\ d2.session = d.session /\ d2.ex = d.ex /\ OpIds(d2) = OpIds(d) /\ d2.q = d.q
        /\ \A x \in OpIds(d) : d2.ops[x] = IF x = o THEN op ELSE d.ops[x]
    BY <1>SetOpIs
  <2>2. Orderly(d, d2)
    BY <1>SetOpOrderly DEF SetOpOrderly
  <2> HIDE DEF d2
  <2>3. \A x \in OpIds(d) : Blocking(d.ops[x]) => Blocking(d2.ops[x])
    BY <2>1
  <2> QED BY <2>1, <2>2, <2>3, CustodyFactsHold DEF CustodyFacts, OpsCareful, d2
<1>Same. ASSUME NEW d \in DB, NEW d2 \in DB, d2.session = d.session, d2.ex = d.ex, d2.ops = d.ops,
                d2.q[Life] = d.q[Life]
         PROVE  Careful(d, d2)
  <2>1. \A e \in Tools : ExCalm(d.ex[e], d2.ex[e]) /\ ExBlocks(d.ex[e], d2.ex[e])
    BY <1>Same DEF ExCalm, ExBlocks
  <2> QED BY <2>1, <1>Same, CustodyFactsHold DEF CustodyFacts, ExCareful
<1>SetBndCareful. SetBndCareful
  <2> SUFFICES ASSUME NEW d \in DB, NEW b \in BndRow PROVE Careful(d, SetBnd(d, b))
    BY DEF SetBndCareful
  <2> DEFINE d2 == SetBnd(d, b)
  <2>1. LifeOnly(d, d2) /\ d2.ops = d.ops /\ d2.q = d.q
    BY RowFactsHold DEF RowFacts, SetBndIs
  <2> HIDE DEF d2
  <2> QED BY <1>Same, <2>1 DEF LifeOnly, d2
<1>QueueOpsCareful. QueueOpsCareful
  <2> SUFFICES ASSUME NEW d \in DB, NEW S \in SUBSET OpIds(d) PROVE Careful(d, QueueOps(d, S))
    BY DEF QueueOpsCareful
  <2> DEFINE d2 == QueueOps(d, S)
             row(o) == IF o \in S THEN [d.ops[o] EXCEPT !.job = TRUE] ELSE d.ops[o]
  <2>1. /\ LifeOnly(d, d2) /\ OpIds(d2) = OpIds(d) /\ Queued(d, d2, S)
        /\ \A o \in OpIds(d) : d2.ops[o] = row(o)
    BY RowFactsHold DEF RowFacts, QueueOpsIs
  <2>2. d2 \in DB /\ d2.session = d.session /\ d2.ex = d.ex
    BY <2>1 DEF LifeOnly
  <2> HIDE DEF d2
  <2>3. ASSUME NEW o \in OpIds(d)
        PROVE  /\ d2.ops[o].kind = d.ops[o].kind /\ d2.ops[o].state = d.ops[o].state
               /\ d2.ops[o].target = d.ops[o].target /\ d2.ops[o].sup = d.ops[o].sup
               /\ d.ops[o].job \/ o \in S => d2.ops[o].job
    <3>1. d.ops[o] \in OpRow
      BY RowFactsHold DEF RowFacts, DBFields
    <3> QED BY <2>1, <3>1 DEF OpRow
  <2>4. \A x : Named(d2.q[Life], x) <=> Named(d.q[Life], x) \/ x \in S
    BY <2>1 DEF Queued
  <2>5. \A o \in OpIds(d) : Calm(d.ops[o], d2.ops[o]) /\ (Blocking(d.ops[o]) => Blocking(d2.ops[o]))
    BY <2>3 DEF Calm, Forward, Blocking
  <2>6. Orderly(d, d2)
    BY <2>1, <2>2, <2>3, <2>4, <2>5, CustodyFactsHold DEF CustodyFacts, OpsOrderly
  <2> QED BY <2>1, <2>2, <2>4, <2>5, <2>6, CustodyFactsHold DEF CustodyFacts, OpsCareful, d2
<1>InsertOpCareful. InsertOpCareful
  <2> SUFFICES
      ASSUME NEW d \in DB, NEW op \in OpRow, op.kind = "release" => op.state = "pending" /\ op.target # 0
      PROVE  Careful(d, InsertOp(d, op))
    BY DEF InsertOpCareful
  <2> DEFINE d2 == InsertOp(d, op)
             n == Len(d.ops) + 1
             S == IF op.state = "waiting_artifact" THEN {} ELSE {n}
  <2>1. /\ LifeOnly(d, d2) /\ OpIds(d2) = OpIds(d) \cup {n} /\ n \notin OpIds(d)
        /\ \A o \in OpIds(d) : d2.ops[o] = d.ops[o]
        /\ d2.ops[n] = IF op.state = "waiting_artifact" THEN op ELSE [op EXCEPT !.job = TRUE]
        /\ Queued(d, d2, S)
    BY RowFactsHold DEF RowFacts, InsertOpIs
  <2>2. d2 \in DB /\ d2.session = d.session /\ d2.ex = d.ex
    BY <2>1 DEF LifeOnly
  <2>3. \A x : Named(d2.q[Life], x) <=> Named(d.q[Life], x) \/ x \in S
    BY <2>1 DEF Queued
  <2> HIDE DEF d2, n
  <2>4. /\ d2.ops[n].kind = op.kind /\ d2.ops[n].state = op.state /\ d2.ops[n].target = op.target
        /\ op.state # "waiting_artifact" => d2.ops[n].job
    BY <2>1 DEF OpRow
  <2>5. Fresh(d2.ops[n])
    BY <2>4 DEF Fresh, Waits
  <2>6. PendingRow(d2.ops[n]) => Named(d2.q[Life], n)
    BY <2>3, <2>4 DEF PendingRow
  <2>7. \A o \in OpIds(d) : Named(d2.q[Life], o) => Named(d.q[Life], o)
    BY <2>1, <2>3, SMTT(30)
  <2>8. \A o \in OpIds(d) : Calm(d.ops[o], d2.ops[o])
    BY <2>1, <1>Refl
  <2>9. \A o \in OpIds(d) : Named(d.q[Life], o) => Named(d2.q[Life], o)
    BY <2>3
  <2>10. Orderly(d, d2)
    BY <2>1, <2>2, <2>5, <2>7, <2>8, <2>9, CustodyFactsHold DEF CustodyFacts, OpsOrderly
  <2> QED BY <2>1, <2>2, <2>6, <2>10, CustodyFactsHold DEF CustodyFacts, OpsCareful, d2
<1>SupersedeCareful. SupersedeCareful
  <2> SUFFICES
      ASSUME NEW d \in DB, NEW S \in SUBSET OpIds(d), NEW reason \in Reasons,
             \A o \in S : d.ops[o].kind = "release"
      PROVE  Careful(d, Supersede(d, S, reason))
    BY DEF SupersedeCareful
  <2> DEFINE d2 == Supersede(d, S, reason)
             n == Len(d.ops)
             m == Cardinality(S)
             B == (n + 1)..(n + m)
  <2>1. /\ m \in Nat /\ LifeOnly(d, d2) /\ OpIds(d2) = 1..(n + m) /\ Queued(d, d2, B)
        /\ \A o \in OpIds(d) : d2.ops[o] = IF o \in S THEN [d.ops[o] EXCEPT !.sup = TRUE] ELSE d.ops[o]
        /\ \A i \in 1..m : d2.ops[n + i] = [Successor(d, d.ops[InOrder(S)[i]], reason) EXCEPT !.job = TRUE]
    BY OperationFactsHold, SMTT(30) DEF OperationFacts, SupersedeIs
  <2>2. d2 \in DB /\ d2.session = d.session /\ d2.ex = d.ex
    BY <2>1 DEF LifeOnly
  <2>3. n \in Nat /\ OpIds(d) = 1..n
    BY RowFactsHold DEF RowFacts, DBFields
  <2>4. OpIds(d) \subseteq OpIds(d2) /\ \A o \in OpIds(d2) : o \notin OpIds(d) => o \in B /\ \E i \in 1..m : o = n + i
    <3>1. OpIds(d) \subseteq OpIds(d2)
      BY <2>1, <2>3, SMTT(30)
    <3>2. ASSUME NEW o \in OpIds(d2), o \notin OpIds(d) PROVE o \in B /\ o - n \in 1..m /\ o = n + (o - n)
      BY <2>1, <2>3, <3>2, SMTT(30)
    <3> QED BY <3>1, <3>2
  <2>5. \A o \in OpIds(d) : o \notin B
    BY <2>1, <2>3, SMTT(30)
  <2> HIDE DEF d2, B, n
  <2>6. \A x : Named(d2.q[Life], x) <=> Named(d.q[Life], x) \/ x \in B
    BY <2>1 DEF Queued
  <2>7. ASSUME NEW o \in OpIds(d)
        PROVE  Calm(d.ops[o], d2.ops[o]) /\ (Blocking(d.ops[o]) => Blocking(d2.ops[o]))
    <3>1. CASE o \in S
      <4>1. d.ops[o] \in OpRow
        BY RowFactsHold DEF RowFacts, DBFields
      <4>2. d2.ops[o].kind = d.ops[o].kind /\ d2.ops[o].state = d.ops[o].state /\ d2.ops[o].sup
            /\ d2.ops[o].target = d.ops[o].target
        BY <2>1, <3>1, <4>1 DEF OpRow
      <4> QED BY <4>2 DEF Calm, Forward, PendingRow, Blocking
    <3>2. CASE o \notin S
      BY <2>1, <3>2, <1>Refl
    <3> QED BY <3>1, <3>2
  <2>8. ASSUME Plain(d), NEW o \in OpIds(d2), o \notin OpIds(d) PROVE Fresh(d2.ops[o])
    <3>1. PICK i \in 1..m : o = n + i
      BY <2>4, <2>8
    <3> DEFINE s == InOrder(S)[i]
               y == Successor(d, d.ops[s], reason)
    <3>2. s \in S
      <4>1. IsFiniteSet(S) /\ S \subseteq Nat
        BY RowFactsHold DEF RowFacts, OpIdsFinite, OrderFacts, SubsetsFinite
      <4>2. InOrder(S) \in [1..m -> S]
        BY <4>1 DEF OrderFacts, InOrderOnto
      <4> QED BY <4>2
    <3> HIDE DEF s
    <3>3. d.ops[s] \in OpRow /\ d.ops[s].kind = "release" /\ s \in OpIds(d)
      BY <3>2, RowFactsHold DEF RowFacts, DBFields
    <3>4. d.ops[s].target # 0
      BY <2>8, <3>3 DEF Plain
    <3>5. y \in OpRow /\ y.state = "pending" /\ y.target # 0
      BY <3>3, <3>4, OperationFactsHold DEF OperationFacts, SuccessorIsRow
    <3>6. d2.ops[o] = [y EXCEPT !.job = TRUE]
      BY <2>1, <3>1 DEF s
    <3> HIDE DEF y
    <3>7. d2.ops[o].state = "pending" /\ d2.ops[o].target # 0 /\ d2.ops[o].job
      BY <3>5, <3>6 DEF OpRow
    <3> QED BY <3>7 DEF Fresh, Waits
  <2>9. Orderly(d, d2)
    BY <2>2, <2>4, <2>5, <2>6, <2>7, <2>8, CustodyFactsHold DEF CustodyFacts, OpsOrderly
  <2>10. \A o \in OpIds(d) : Named(d.q[Life], o) => Named(d2.q[Life], o)
    BY <2>6
  <2>11. \A o \in OpIds(d2) : o \notin OpIds(d) => Named(d2.q[Life], o)
    BY <2>4, <2>6
  <2> QED BY <2>2, <2>7, <2>9, <2>10, <2>11, CustodyFactsHold DEF CustodyFacts, OpsCareful, d2
<1>SetStatesIs. ASSUME NEW d \in DB, NEW S, NEW state \in OpStates
                PROVE  LET d2 == SetStates(d, S, state) IN
                       /\ d2 \in DB /\ d2.session = d.session /\ d2.ex = d.ex /\ OpIds(d2) = OpIds(d)
                       /\ d2.q = d.q
                       /\ \A o \in OpIds(d) : /\ o \notin S => d2.ops[o] = d.ops[o]
                                              /\ d2.ops[o].kind = d.ops[o].kind /\ d2.ops[o].sup = d.ops[o].sup
                                              /\ d2.ops[o].target = d.ops[o].target
                                              /\ d2.ops[o].job = d.ops[o].job
                                              /\ o \in S => d2.ops[o].state = state
  <2> DEFINE d2 == SetStates(d, S, state)
             row(o) == IF o \in S THEN [d.ops[o] EXCEPT !.state = state] ELSE d.ops[o]
  <2>1. /\ LifeOnly(d, d2) /\ OpIds(d2) = OpIds(d) /\ d2.q = d.q
        /\ \A o \in OpIds(d) : d2.ops[o] = row(o)
    BY OperationFactsHold, SMTT(30) DEF OperationFacts, SetStatesIs
  <2> HIDE DEF d2
  <2>2. ASSUME NEW o \in OpIds(d)
        PROVE  /\ o \notin S => d2.ops[o] = d.ops[o]
               /\ d2.ops[o].kind = d.ops[o].kind /\ d2.ops[o].sup = d.ops[o].sup
               /\ d2.ops[o].target = d.ops[o].target
               /\ d2.ops[o].job = d.ops[o].job
               /\ o \in S => d2.ops[o].state = state
    <3>1. d.ops[o] \in OpRow
      BY RowFactsHold DEF RowFacts, DBFields
    <3> QED BY <2>1, <3>1 DEF OpRow
  <2> QED BY <2>1, <2>2 DEF LifeOnly, d2
<1>SetStatesOrderly. SetStatesOrderly
  <2> SUFFICES
      ASSUME NEW d \in DB, NEW S, NEW state \in OpStates,
             Plain(d) => state \notin Waits \cup {"pending"} \/ \A o \in OpIds(d) : o \in S => d.ops[o].kind # "release"
      PROVE  Orderly(d, SetStates(d, S, state))
    BY DEF SetStatesOrderly
  <2> DEFINE d2 == SetStates(d, S, state)
  <2>1. /\ d2 \in DB /\ d2.session = d.session /\ d2.ex = d.ex /\ OpIds(d2) = OpIds(d) /\ d2.q = d.q
        /\ \A o \in OpIds(d) : /\ o \notin S => d2.ops[o] = d.ops[o]
                               /\ d2.ops[o].kind = d.ops[o].kind /\ d2.ops[o].sup = d.ops[o].sup
                               /\ d2.ops[o].target = d.ops[o].target
                               /\ d2.ops[o].job = d.ops[o].job
                               /\ o \in S => d2.ops[o].state = state
    BY <1>SetStatesIs, SMTT(30)
  <2> HIDE DEF d2
  <2>2. ASSUME Plain(d), NEW o \in OpIds(d) PROVE Calm(d.ops[o], d2.ops[o])
    <3>1. CASE o \in S /\ d.ops[o].kind = "release"
      <4>1. state \notin Waits \cup {"pending"}
        BY <2>2, <3>1
      <4> QED BY <2>1, <3>1, <4>1 DEF Calm, Forward, PendingRow
    <3>2. CASE d.ops[o].kind # "release"
      BY <2>1, <3>2 DEF Calm, Forward, PendingRow
    <3>3. CASE o \notin S
      BY <2>1, <3>3, <1>Refl
    <3> QED BY <3>1, <3>2, <3>3
  <2> QED BY <2>1, <2>2, CustodyFactsHold DEF CustodyFacts, OpsOrderly, d2
<1>SetStatesCareful. SetStatesCareful
  <2> SUFFICES
      ASSUME NEW d \in DB, NEW S, NEW state \in OpStates,
             Plain(d) => state \notin Waits \cup {"pending"} \/ \A o \in OpIds(d) : o \in S => d.ops[o].kind # "release",
             \A o \in OpIds(d) : o \in S => ~Blocking(d.ops[o])
      PROVE  Careful(d, SetStates(d, S, state))
    BY DEF SetStatesCareful
  <2> DEFINE d2 == SetStates(d, S, state)
  <2>1. /\ d2 \in DB /\ d2.ex = d.ex /\ OpIds(d2) = OpIds(d) /\ d2.q = d.q
        /\ \A o \in OpIds(d) : o \notin S => d2.ops[o] = d.ops[o]
    BY <1>SetStatesIs, SMTT(30)
  <2>2. Orderly(d, d2)
    BY <1>SetStatesOrderly DEF SetStatesOrderly
  <2> HIDE DEF d2
  <2>3. \A o \in OpIds(d) : Blocking(d.ops[o]) => Blocking(d2.ops[o])
    BY <2>1
  <2> QED BY <2>1, <2>2, <2>3, CustodyFactsHold DEF CustodyFacts, OpsCareful, d2
<1>ApplyPostconditionCareful. ApplyPostconditionCareful
  <2> SUFFICES ASSUME NEW d \in DB, NEW h, NEW reason PROVE Careful(d, ApplyPostcondition(d, h, reason))
    BY DEF ApplyPostconditionCareful
  <2> DEFINE b == [d.bnd EXCEPT !.handle = 0, !.rev = @ + 1, !.mat = 0]
             d2 == SetBnd(d, b)
  <2>1. ApplyPostcondition(d, h, reason) \in {d, d2}
    BY DEF ApplyPostcondition
  <2>2. b \in BndRow
    <3>1. d.bnd \in BndRow
      BY RowFactsHold DEF RowFacts, DBFields
    <3> DEFINE n == d.bnd.rev + 1
    <3>2. n \in Nat
      BY <3>1, SMTT(30) DEF BndRow
    <3>3. b = [d.bnd EXCEPT !.handle = 0, !.rev = n, !.mat = 0]
      BY <3>1 DEF BndRow
    <3> HIDE DEF n, b
    <3> QED BY <3>1, <3>2, <3>3 DEF BndRow
  <2> HIDE DEF b
  <2>3. Careful(d, d) /\ Careful(d, d2)
    BY <2>2, <1>SetBndCareful, CustodyFactsHold DEF SetBndCareful, CustodyFacts, CarefulRefl
  <2> QED BY <2>1, <2>3
<1>EnsureReleaseCareful. EnsureReleaseCareful
  <2> SUFFICES
      ASSUME NEW d \in DB, NEW h \in Nat \ {0}, NEW reason \in Reasons
      PROVE  Careful(d, EnsureRelease(d, h, reason))
    BY DEF EnsureReleaseCareful
  <2> DEFINE R == CurrentReleases(d, h)
             r == CHOOSE x \in R : TRUE
             op == [d.ops[r] EXCEPT !.reason = StrongerReason(@, reason)]
             d1 == SetOp(d, r, op)
             S == {x \in {r} : PendingRelease(d1, r) /\ ~Blocked(d1, r) /\ ~HasJob(d1, Life, r)}
  <2>1. CASE R = {}
    <3> DEFINE op0 == Operation(d, "release", h)
               new == [op0 EXCEPT !.reason = reason]
    <3>1. op0 \in OpRow /\ op0.state = "pending" /\ op0.target = h
      BY RowFactsHold, SMTT(30) DEF RowFacts, OperationIsRow
    <3>2. EnsureRelease(d, h, reason) = InsertOp(d, new)
      BY <2>1 DEF EnsureRelease, NewRelease
    <3> HIDE DEF op0
    <3>3. new \in OpRow /\ new.state = "pending" /\ new.target # 0
      BY <3>1 DEF OpRow, Reasons
    <3> HIDE DEF new
    <3> QED BY <3>2, <3>3, <1>InsertOpCareful DEF InsertOpCareful
  <2>2. CASE R # {}
    <3>1. r \in R /\ r \in OpIds(d) /\ d.ops[r].kind = "release"
      BY <2>2 DEF CurrentReleases
    <3>2. d.ops[r] \in OpRow
      BY <3>1, RowFactsHold DEF RowFacts, DBFields
    <3>3. op \in OpRow /\ op.state = d.ops[r].state /\ op.kind = d.ops[r].kind /\ op.target = d.ops[r].target
          /\ op.job = d.ops[r].job /\ op.sup = d.ops[r].sup
      <4> HIDE DEF r
      <4>1. StrongerReason(d.ops[r].reason, reason) \in Reasons
        BY <3>2 DEF StrongerReason, OpRow, Reasons
      <4> QED BY <3>2, <4>1 DEF OpRow, Reasons
    <3>4. CASE op.state = "completed"
      <4>1. EnsureRelease(d, h, reason) = ApplyPostcondition(d, h, op.reason)
        BY <2>2, <3>4 DEF EnsureRelease
      <4> QED BY <4>1, <1>ApplyPostconditionCareful DEF ApplyPostconditionCareful
    <3>5. CASE op.state = "failed"
      <4>1. EnsureRelease(d, h, reason) = Supersede(d, {r}, reason)
        BY <2>2, <3>5 DEF EnsureRelease
      <4> HIDE DEF r
      <4>2. {r} \in SUBSET OpIds(d) /\ \A o \in {r} : d.ops[o].kind = "release"
        BY <3>1
      <4> QED BY <4>1, <4>2, <1>SupersedeCareful DEF SupersedeCareful
    <3>6. CASE op.state \notin {"completed", "failed"}
      <4>1. EnsureRelease(d, h, reason) = QueueOps(d1, S)
        BY <2>2, <3>6 DEF EnsureRelease
      <4> HIDE DEF op, r
      <4>2. Calm(d.ops[r], op) /\ (Blocking(d.ops[r]) => Blocking(op))
        BY <3>3 DEF Calm, Forward, PendingRow, Blocking
      <4>3. Careful(d, d1) /\ OpIds(d1) = OpIds(d) /\ d1 \in DB
        BY <3>1, <3>3, <4>2, <1>SetOpCareful, <1>SetOpIs DEF SetOpCareful
      <4>4. S \in SUBSET OpIds(d1)
        BY <3>1, <4>3
      <4> HIDE DEF S, d1
      <4> QED BY <4>1, <4>3, <4>4, <1>QueueOpsCareful, CustodyFactsHold DEF QueueOpsCareful, CustodyFacts, CarefulTrans
    <3> QED BY <3>4, <3>5, <3>6
  <2> QED BY <2>1, <2>2
<1>SettleRowsCareful. SettleRowsCareful
  <2> SUFFICES
      ASSUME NEW d \in DB, NEW W, \A e \in Tools : e \in W => d.ex[e].state \in Waiting \cup {"pending"}
      PROVE  Careful(d, SettleRows(d, W))
    BY DEF SettleRowsCareful
  <2> DEFINE d2 == SettleRows(d, W)
  <2>1. /\ ExOnly(d, d2)
        /\ \A e \in Tools : d2.ex[e] = IF e \in W THEN SettleRow(d.ex[e], "failed") ELSE d.ex[e]
    BY ExRowFactsHold, SMTT(30) DEF ExRowFacts, SettleRowsIs
  <2> HIDE DEF d2
  <2>2. ASSUME NEW e \in Tools PROVE ExCalm(d.ex[e], d2.ex[e]) /\ ExBlocks(d.ex[e], d2.ex[e])
    <3>1. CASE e \in W
      <4>1. d.ex[e] \in ExRow
        BY RowFactsHold DEF RowFacts, DBFields
      <4>2. d2.ex[e].state = "terminal" /\ d2.ex[e].task = d.ex[e].task
        BY <2>1, <3>1, <4>1, ExRowFactsHold, SMTT(30) DEF ExRowFacts, SettleRowIs, Outs
      <4>3. d.ex[e].state \in Waiting \cup {"pending"}
        BY <3>1
      <4> QED BY <4>2, <4>3 DEF ExCalm, ExBlocks, OpenStates, Ended, Waiting
    <3>2. CASE e \notin W
      BY <2>1, <3>2 DEF ExCalm, ExBlocks
    <3> QED BY <3>1, <3>2
  <2> QED BY <2>1, <2>2, CustodyFactsHold DEF ExOnly, CustodyFacts, ExCareful, d2
<1>SettleWaitersCareful. SettleWaitersCareful
  <2> SUFFICES ASSUME NEW d \in DB, NEW S PROVE Careful(d, SettleWaiters(d, S))
    BY DEF SettleWaitersCareful
  <2> DEFINE W == {e \in Tools : \E o \in S : e \in Waiters(d, o)}
  <2>1. \A e \in Tools : e \in W => d.ex[e].state \in Waiting \cup {"pending"}
    BY DEF Waiters
  <2>2. SettleWaiters(d, S) = SettleRows(d, W)
    BY DEF SettleWaiters
  <2> HIDE DEF W
  <2> QED BY <2>1, <2>2, <1>SettleRowsCareful DEF SettleRowsCareful
<1>FailDependentsCareful. FailDependentsCareful
  <2> SUFFICES ASSUME NEW d \in DB, NEW S PROVE Careful(d, FailDependents(d, S))
    BY DEF FailDependentsCareful
  <2> DEFINE M == {m \in OpIds(d) : \E o \in S : m \in Dependents(d, o)}
             d1 == SetStates(d, M, "failed")
  <2>1. \A m \in OpIds(d) : m \in M => ~Blocking(d.ops[m])
    BY DEF Dependents, Blocking
  <2>2. FailDependents(d, S) = SettleWaiters(d1, M)
    BY DEF FailDependents
  <2> HIDE DEF M
  <2>3. Careful(d, d1) /\ d1 \in DB
    BY <2>1, <1>SetStatesCareful DEF OpStates, Waits, SetStatesCareful, Careful, Orderly
  <2> HIDE DEF d1
  <2> QED BY <2>2, <2>3, <1>SettleWaitersCareful, CustodyFactsHold DEF SettleWaitersCareful, CustodyFacts, CarefulTrans
<1> QED BY <1>SetOpOrderly, <1>SetOpCareful, <1>SetBndCareful, <1>QueueOpsCareful, <1>InsertOpCareful,
   <1>SupersedeCareful, <1>SetStatesOrderly, <1>SetStatesCareful, <1>ApplyPostconditionCareful,
   <1>EnsureReleaseCareful, <1>SettleRowsCareful, <1>SettleWaitersCareful, <1>FailDependentsCareful
   DEF ReleaseCare

-----------------------------------------------------------------------------
(* Failure, deletion and materialization keep the custody of releases.     *)

\* The failure of operations.
FailOpsCareful == \A d \in DB : \A S : \A bound \in Bounds : Careful(d, FailOps(d, S, bound))

\* The end of an operation nobody needs.
AbandonOpCareful == \A d \in DB : \A o : Careful(d, AbandonOp(d, o))

\* The end of operations nobody has claimed.
AbandonDependenciesCareful == \A d \in DB : Careful(d, AbandonDependencies(d))

\* The release of a Session's sandbox.
RequestReleaseCareful == \A d \in DB : Careful(d, RequestRelease(d))

\* The release of a deleted Session.
EnsureSessionDeleteCareful == \A d \in DB, h \in Nat : Careful(d, EnsureSessionDelete(d, h))

\* The successors of its failed releases.
EnsureFailedSessionDeleteCareful == \A d \in DB : Careful(d, EnsureFailedSessionDelete(d))

\* A materialization.
EnsureMaterializationCareful == \A d \in DB : Careful(d, EnsureMaterialization(d))

\* Executions that wait for it.
AttachToMaterializationCareful ==
  \A d \in DB, W \in SUBSET Tools :
    (\A e \in W : d.ex[e].state \in Waiting \cup {"pending"}) => Careful(d, AttachToMaterialization(d, W))

\* Executions that need not wait any longer.
ReleaseWaitersCareful ==
  \A d \in DB, W \in SUBSET Tools :
    (\A e \in W : d.ex[e].state \in Waiting) => Careful(d, ReleaseWaiters(d, W))

\* Failure and deletion.
FailureCare ==
  /\ FailOpsCareful /\ AbandonOpCareful /\ AbandonDependenciesCareful /\ RequestReleaseCareful
  /\ EnsureSessionDeleteCareful /\ EnsureFailedSessionDeleteCareful /\ EnsureMaterializationCareful
  /\ AttachToMaterializationCareful /\ ReleaseWaitersCareful

\* These facts hold.
LEMMA FailureCareHold == ASSUME OrderFacts PROVE FailureCare
<1>FailOpsCareful. FailOpsCareful
  <2> SUFFICES
      ASSUME NEW d \in DB, NEW S, NEW bound \in Bounds
      PROVE  Careful(d, FailOps(d, S, bound))
    BY DEF FailOpsCareful
  <2> DEFINE f == [o \in OpIds(d) |-> IF o \in S THEN [d.ops[o] EXCEPT !.state = "failed", !.bound = bound]
                                      ELSE d.ops[o]]
             d1 == [d EXCEPT !.ops = f]
             d2 == SettleWaiters(d1, S)
             T == {o \in S : d.ops[o].kind \in ActivationKinds}
             d3 == FailDependents(d2, T)
  <2>1. f \in [OpIds(d) -> OpRow]
    <3>1. \A x \in OpRow : [x EXCEPT !.state = "failed", !.bound = bound] \in OpRow
      BY ReleaseTxHold DEF OpStates, Reasons, ReleaseTx, OpRowClosed
    <3> QED BY <3>1, RowFactsHold DEF RowFacts, DBFields
  <2>2. FailOps(d, S, bound) = IF \A o \in S : d.ops[o].kind = "release" THEN d2 ELSE ReadyReleases(d3)
    BY DEF FailOps
  <2>3. ASSUME NEW o \in OpIds(d)
        PROVE  Calm(d.ops[o], f[o]) /\ (d.ops[o].kind = "release" \/ o \notin S => (Blocking(d.ops[o]) => Blocking(f[o])))
    <3>1. CASE o \in S
      <4>1. d.ops[o] \in OpRow
        BY RowFactsHold DEF RowFacts, DBFields
      <4>2. /\ f[o].kind = d.ops[o].kind /\ f[o].state = "failed" /\ f[o].target = d.ops[o].target
            /\ f[o].sup = d.ops[o].sup
        BY <3>1, <4>1 DEF OpRow
      <4> QED BY <3>1, <4>2 DEF Calm, Forward, PendingRow, Blocking, Waits
    <3>2. CASE o \notin S
      BY <3>2 DEF Calm, Forward, Blocking
    <3> QED BY <3>1, <3>2
  <2> HIDE DEF f
  <2>4. LifeOnly(d, d1) /\ d1.q = d.q /\ OpIds(d1) = OpIds(d) /\ d1.ops = f
    BY <2>1, RowFactsHold DEF RowFacts, OpsReplaced
  <2> HIDE DEF d1
  <2>5. d1 \in DB /\ d1.session = d.session /\ d1.ex = d.ex
    BY <2>4 DEF LifeOnly
  <2>6. Orderly(d, d1)
    BY <2>3, <2>4, <2>5, CustodyFactsHold DEF CustodyFacts, OpsOrderly
  <2>7. Careful(d1, d2) /\ d2 \in DB
    BY <2>5, ReleaseCareHold DEF ReleaseCare, SettleWaitersCareful, Careful, Orderly
  <2> HIDE DEF d2, T
  <2>8. CASE \A o \in S : d.ops[o].kind = "release"
    <3>1. \A o \in OpIds(d) : Blocking(d.ops[o]) => Blocking(d1.ops[o])
      BY <2>3, <2>4, <2>8
    <3>2. Careful(d, d1)
      BY <2>4, <2>5, <2>6, <3>1, CustodyFactsHold DEF CustodyFacts, OpsCareful
    <3> QED BY <2>2, <2>7, <2>8, <3>2, CustodyFactsHold DEF CustodyFacts, CarefulTrans
  <2>9. CASE ~(\A o \in S : d.ops[o].kind = "release")
    <3>1. Careful(d2, d3)
      BY <2>7, ReleaseCareHold DEF ReleaseCare, FailDependentsCareful
    <3>2. Orderly(d, d3)
      BY <2>6, <2>7, <3>1, CustodyFactsHold DEF CustodyFacts, OrderlyTrans, Careful
    <3> HIDE DEF d3
    <3>3. Careful(d, ReadyReleases(d3))
      BY <3>2, CustodyFactsHold DEF CustodyFacts, ReadyCareful
    <3> QED BY <2>2, <2>9, <3>3
  <2> QED BY <2>8, <2>9
<1>AbandonOpCareful. AbandonOpCareful
  <2> SUFFICES ASSUME NEW d \in DB, NEW o PROVE Careful(d, AbandonOp(d, o))
    BY DEF AbandonOpCareful
  <2> DEFINE d1 == SetStates(d, {o}, "abandoned")
  <2>1. Orderly(d, d1)
    BY ReleaseCareHold DEF ReleaseCare, SetStatesOrderly, OpStates, Waits
  <2>2. AbandonOp(d, o) = ReadyReleases(d1)
    BY DEF AbandonOp
  <2> HIDE DEF d1
  <2> QED BY <2>1, <2>2, CustodyFactsHold DEF CustodyFacts, ReadyCareful
<1>AbandonDependenciesCareful. AbandonDependenciesCareful
  <2> SUFFICES ASSUME NEW d \in DB PROVE Careful(d, AbandonDependencies(d))
    BY DEF AbandonDependenciesCareful
  <2> DEFINE S == {o \in OpIds(d) : /\ d.ops[o].kind # "release"
                                    /\ d.ops[o].state \in {"pending", "waiting_artifact", "waiting_activation"}}
             d1 == SetStates(d, S, "abandoned")
             d2 == CancelPending(d1, Life, S)
  <2>1. AbandonDependencies(d) = d2
    BY DEF AbandonDependencies
  <2>2. \A o \in OpIds(d) : o \in S => d.ops[o].kind # "release" /\ ~Blocking(d.ops[o])
    BY DEF Blocking
  <2> HIDE DEF S
  <2>3. Careful(d, d1)
    BY <2>2, ReleaseCareHold DEF ReleaseCare, SetStatesCareful, OpStates
  <2>4. d1 \in DB /\ OpIds(d1) = OpIds(d) /\ \A o \in OpIds(d) : o \in S => d1.ops[o].kind # "release"
    <3>1. SetStatesIs
      BY OperationFactsHold DEF OperationFacts
    <3>2. LifeOnly(d, d1) /\ OpIds(d1) = OpIds(d) /\ \A o \in OpIds(d) : o \in S => d1.ops[o] = [d.ops[o] EXCEPT !.state = "abandoned"]
      BY <3>1, SMTT(30) DEF SetStatesIs, OpStates
    <3> HIDE DEF d1
    <3>3. \A o \in OpIds(d) : d.ops[o] \in OpRow
      BY RowFactsHold DEF RowFacts, DBFields
    <3> QED BY <2>2, <3>2, <3>3 DEF LifeOnly, OpRow
  <2> HIDE DEF d1
  <2>5. LifeOnly(d1, d2) /\ OpIds(d2) = OpIds(d1) /\ d2.ops = d1.ops /\ d2.q[Life] = Cancelled(d1.q[Life], S)
    BY <2>4, OperationFactsHold DEF OperationFacts, CancelPendingIs
  <2>6. d1.q[Life] \in Seq(JobRow)
    BY <2>4, RowFactsHold DEF RowFacts, DBFields, PartitionFacts
  <2> HIDE DEF d2
  <2>7. /\ \A r : Named(d2.q[Life], r) => Named(d1.q[Life], r)
        /\ \A r : r \notin S => (Named(d2.q[Life], r) <=> Named(d1.q[Life], r))
    BY <2>5, <2>6, OperationFactsHold DEF OperationFacts, CancelledIs
  <2>8. d2 \in DB /\ d2.session = d1.session /\ d2.ex = d1.ex
    BY <2>5 DEF LifeOnly
  <2>9. \A x : Calm(x, x)
    BY DEF Calm, Forward
  <2>10. \A o \in OpIds(d1) : PendingRow(d2.ops[o]) => o \notin S
    BY <2>4, <2>5 DEF PendingRow
  <2>11. Orderly(d1, d2)
    BY <2>4, <2>5, <2>7, <2>8, <2>9, <2>10, CustodyFactsHold DEF CustodyFacts, OpsOrderly
  <2>12. Careful(d1, d2)
    BY <2>4, <2>5, <2>8, <2>11, CustodyFactsHold DEF CustodyFacts, OpsCareful
  <2> QED BY <2>1, <2>3, <2>12, CustodyFactsHold DEF CustodyFacts, CarefulTrans
<1>RequestReleaseCareful. RequestReleaseCareful
  <2> SUFFICES ASSUME NEW d \in DB PROVE Careful(d, RequestRelease(d))
    BY DEF RequestReleaseCareful
  <2> DEFINE b == [d.bnd EXCEPT !.release = TRUE]
             d1 == SetBnd(d, b)
             W == {e \in Tools : d1.ex[e].state \in Waiting \cup {"pending"}}
             d2 == SettleRows(d1, W)
  <2>1. b \in BndRow
    <3>1. d.bnd \in BndRow
      BY RowFactsHold DEF RowFacts, DBFields
    <3> QED BY <3>1 DEF BndRow
  <2>2. RequestRelease(d) = AbandonDependencies(d2)
    BY DEF RequestRelease, SettleSessionWaiters
  <2> HIDE DEF b
  <2>3. Careful(d, d1) /\ d1 \in DB
    BY <2>1, ReleaseCareHold DEF ReleaseCare, SetBndCareful, Careful, Orderly
  <2> HIDE DEF d1
  <2>4. \A e \in Tools : e \in W => d1.ex[e].state \in Waiting \cup {"pending"}
    OBVIOUS
  <2> HIDE DEF W
  <2>5. Careful(d1, d2) /\ d2 \in DB
    BY <2>3, <2>4, ReleaseCareHold DEF ReleaseCare, SettleRowsCareful, Careful, Orderly
  <2> HIDE DEF d2
  <2> QED BY <2>2, <2>3, <2>5, <1>AbandonDependenciesCareful, CustodyFactsHold DEF AbandonDependenciesCareful,
     CustodyFacts, CarefulTrans
<1>EnsureSessionDeleteCareful. EnsureSessionDeleteCareful
  <2> SUFFICES ASSUME NEW d \in DB, NEW h \in Nat PROVE Careful(d, EnsureSessionDelete(d, h))
    BY DEF EnsureSessionDeleteCareful
  <2> DEFINE d1 == RequestRelease(d)
             d2 == EnsureRelease(d1, h, "session_delete")
  <2>1. Careful(d, d1) /\ d1 \in DB
    BY <1>RequestReleaseCareful DEF RequestReleaseCareful, Careful, Orderly
  <2>2. EnsureSessionDelete(d, h) = d \/ EnsureSessionDelete(d, h) = d1 \/ (EnsureSessionDelete(d, h) = d2 /\ h # 0)
    BY DEF EnsureSessionDelete
  <2> HIDE DEF d1
  <2>3. h # 0 => Careful(d, d2)
    BY <2>1, ReleaseCareHold, CustodyFactsHold DEF Reasons, ReleaseCare, EnsureReleaseCareful, CustodyFacts, CarefulTrans
  <2> HIDE DEF d2
  <2> QED BY <2>1, <2>2, <2>3, CustodyFactsHold DEF CustodyFacts, CarefulRefl
<1>EnsureFailedSessionDeleteCareful. EnsureFailedSessionDeleteCareful
  <2> SUFFICES ASSUME NEW d \in DB PROVE Careful(d, EnsureFailedSessionDelete(d))
    BY DEF EnsureFailedSessionDeleteCareful
  <2> DEFINE S == FailedReleases(d)
             d1 == RequestRelease(d)
             d2 == Supersede(d1, S, "session_delete")
  <2>1. Careful(d, d1) /\ d1 \in DB /\ Orderly(d, d1)
    BY <1>RequestReleaseCareful DEF RequestReleaseCareful, Careful, Orderly
  <2>2. EnsureFailedSessionDelete(d) \in {d, d2}
    BY DEF EnsureFailedSessionDelete
  <2> HIDE DEF d1
  <2>3. S \in SUBSET OpIds(d1)
    BY <2>1 DEF FailedReleases, Orderly
  <2>4. ASSUME Plain(d) PROVE \A o \in S : d1.ops[o].kind = "release"
    BY <2>1, <2>4 DEF FailedReleases, Orderly, Follows, Forward
  <2> HIDE DEF S
  <2>5. CASE Plain(d)
    <3>1. Careful(d1, d2)
      BY <2>1, <2>3, <2>4, <2>5, ReleaseCareHold DEF Reasons, ReleaseCare, SupersedeCareful
    <3> HIDE DEF d2
    <3> QED BY <2>1, <2>2, <3>1, CustodyFactsHold DEF CustodyFacts, CarefulTrans, CarefulRefl
  <2>6. CASE ~Plain(d)
    <3>1. Sound(d1, d2)
      BY <2>1, <2>3, ReleaseTxHold DEF Reasons, ReleaseTx, SupersedeSound
    <3>2. d2 \in DB /\ OpIds(d1) \subseteq OpIds(d2)
      <4>1. d2 \in DB /\ Len(d2.ops) >= Len(d1.ops)
        BY <3>1 DEF Sound
      <4>2. Len(d1.ops) \in Nat /\ Len(d2.ops) \in Nat
        BY <2>1, <4>1, RowFactsHold DEF RowFacts, DBFields
      <4> QED BY <4>1, <4>2, SMTT(30) DEF OpIds
    <3>3. Careful(d, d2)
      BY <2>1, <2>6, <3>2 DEF Careful, Orderly
    <3> HIDE DEF d2
    <3> QED BY <2>2, <3>3, CustodyFactsHold DEF CustodyFacts, CarefulRefl
  <2> QED BY <2>5, <2>6
<1>EnsureMaterializationCareful. EnsureMaterializationCareful
  <2> SUFFICES ASSUME NEW d \in DB PROVE Careful(d, EnsureMaterialization(d))
    BY DEF EnsureMaterializationCareful
  <2> DEFINE op0 == Operation(d, "materialize", d.bnd.handle)
             op == [op0 EXCEPT !.res = d.desired]
  <2>1. EnsureMaterialization(d) \in {d, InsertOp(d, op)}
    BY DEF EnsureMaterialization
  <2>2. d.bnd.handle \in Nat /\ d.desired \in Nat
    BY RowFactsHold DEF BndRow, RowFacts, DBFields
  <2>3. op0 \in OpRow /\ op0.kind = "materialize"
    BY <2>2, RowFactsHold, SMTT(30) DEF RowFacts, OperationIsRow
  <2> HIDE DEF op0
  <2>4. op \in OpRow /\ op.kind = "materialize"
    BY <2>2, <2>3 DEF OpRow
  <2> HIDE DEF op
  <2>5. Careful(d, InsertOp(d, op))
    BY <2>4, ReleaseCareHold DEF ReleaseCare, InsertOpCareful
  <2> QED BY <2>1, <2>5, CustodyFactsHold DEF CustodyFacts, CarefulRefl
<1>AttachToMaterializationCareful. AttachToMaterializationCareful
  <2> SUFFICES
      ASSUME NEW d \in DB, NEW W \in SUBSET Tools,
             \A e \in W : d.ex[e].state \in Waiting \cup {"pending"}
      PROVE  Careful(d, AttachToMaterialization(d, W))
    BY DEF AttachToMaterializationCareful
  <2> DEFINE d1 == EnsureMaterialization(d)
             m == CHOOSE x \in UnfinishedMaterialization(d1) : TRUE
             f == [e \in Tools |-> IF e \in W THEN AttachRow(d.ex[e], m) ELSE d.ex[e]]
             d2 == [d1 EXCEPT !.ex = f]
  <2>1. AttachToMaterialization(d, W) = d2
    BY DEF AttachToMaterialization
  <2>2. Careful(d, d1) /\ d1.ex = d.ex /\ d1 \in DB /\ UnfinishedMaterialization(d1) # {}
    BY <1>EnsureMaterializationCareful, FailureTxHold DEF EnsureMaterializationCareful, FailureTx,
       EnsureMaterializationSound, Sound
  <2> HIDE DEF d1
  <2>3. m \in Nat
    BY <2>2, ClaimTxHold DEF ClaimTx, UnfinishedAreOps
  <2> HIDE DEF m
  <2>4. f \in [Tools -> ExRow]
    <3>1. \A x \in ExRow : AttachRow(x, m) \in ExRow
      BY <2>3, ExRowFactsHold DEF ExRowFacts, AttachRowIs
    <3> QED BY <3>1, RowFactsHold DEF RowFacts, DBFields
  <2>5. ASSUME NEW e \in Tools PROVE ExCalm(d1.ex[e], f[e]) /\ ExBlocks(d1.ex[e], f[e])
    <3>1. d.ex[e] \in ExRow /\ d1.ex[e] = d.ex[e]
      BY <2>2, RowFactsHold DEF RowFacts, DBFields
    <3>2. CASE e \in W
      <4>1. f[e] = AttachRow(d.ex[e], m)
        BY <3>2
      <4>2. f[e].state = "waiting_materialization" /\ f[e].task = d.ex[e].task
        BY <2>3, <3>1, <4>1, ExRowFactsHold, SMTT(30) DEF ExRowFacts, AttachRowIs
      <4>3. d.ex[e].state \in Waiting \cup {"pending"}
        BY <3>2
      <4> QED BY <3>1, <4>2, <4>3 DEF ExCalm, ExBlocks, OpenStates, Ended, Waiting
    <3>3. CASE e \notin W
      BY <3>1, <3>3 DEF ExCalm, ExBlocks
    <3> QED BY <3>2, <3>3
  <2> HIDE DEF f
  <2>6. ExOnly(d1, d2) /\ d2.ex = f
    BY <2>2, <2>4, ExRowFactsHold DEF ExRowFacts, ExReplaced
  <2> HIDE DEF d2
  <2>7. Careful(d1, d2)
    BY <2>2, <2>5, <2>6, CustodyFactsHold DEF ExOnly, CustodyFacts, ExCareful
  <2> QED BY <2>1, <2>2, <2>7, CustodyFactsHold DEF CustodyFacts, CarefulTrans
<1>ReleaseWaitersCareful. ReleaseWaitersCareful
  <2> SUFFICES
      ASSUME NEW d \in DB, NEW W \in SUBSET Tools, \A e \in W : d.ex[e].state \in Waiting
      PROVE  Careful(d, ReleaseWaiters(d, W))
    BY DEF ReleaseWaitersCareful
  <2> DEFINE d2 == ReleaseWaiters(d, W)
  <2>1. /\ d2 \in DB /\ d2.session = d.session /\ d2.ops = d.ops /\ d2.q[Life] = d.q[Life]
        /\ \A e \in Tools : d2.ex[e] = IF e \in W THEN ReleaseRow(d.ex[e]) ELSE d.ex[e]
    BY ExRowFactsHold, SMTT(30) DEF ExRowFacts, ReleaseWaitersIs
  <2> HIDE DEF d2
  <2>2. ASSUME NEW e \in Tools PROVE ExCalm(d.ex[e], d2.ex[e]) /\ ExBlocks(d.ex[e], d2.ex[e])
    <3>1. CASE e \in W
      <4>1. d.ex[e] \in ExRow
        BY RowFactsHold DEF RowFacts, DBFields
      <4>2. d2.ex[e].state = "pending" /\ d2.ex[e].task = d.ex[e].task
        BY <2>1, <3>1, <4>1, ExRowFactsHold, SMTT(30) DEF ExRowFacts, ReleaseRowIs
      <4>3. d.ex[e].state \in Waiting
        BY <3>1
      <4> QED BY <4>2, <4>3 DEF ExCalm, ExBlocks, OpenStates, Ended, Waiting
    <3>2. CASE e \notin W
      BY <2>1, <3>2 DEF ExCalm, ExBlocks
    <3> QED BY <3>1, <3>2
  <2> QED BY <2>1, <2>2, CustodyFactsHold DEF CustodyFacts, ExCareful, d2
<1> QED BY <1>FailOpsCareful, <1>AbandonOpCareful, <1>AbandonDependenciesCareful, <1>RequestReleaseCareful,
   <1>EnsureSessionDeleteCareful, <1>EnsureFailedSessionDeleteCareful, <1>EnsureMaterializationCareful,
   <1>AttachToMaterializationCareful, <1>ReleaseWaitersCareful DEF FailureCare

-----------------------------------------------------------------------------
(* Claims and completions keep the custody of releases.                    *)

\* A sound transaction need be careful only where releases are plain.
PlainSuffices == \A d \in DB : \A d2 : Sound(d, d2) /\ (Plain(d) => Careful(d, d2)) => Careful(d, d2)

\* The next state of an operation other than a release.
SetWorkOrderly ==
  \A d \in DB : \A o \in OpIds(d), op \in OpRow :
    d.ops[o].kind # "release" /\ op.kind # "release" => Orderly(d, SetOp(d, o, op))

\* Materializations that waited go on.
RequeueMaterializationsCareful == \A d \in DB : \A o : Careful(d, RequeueMaterializations(d, o))

\* An activation completes.
CompleteActivationCareful ==
  \A d \in DB : \A o \in OpIds(d), h \in Nat :
    d.ops[o].kind # "release" => Careful(d, CompleteActivation(d, o, h))

\* An activation is asked for.
EnsureActivationCareful == \A d \in DB : \A kind : Careful(d, EnsureActivation(d, kind))

\* The job of an operation that is not a pending release goes.
RemoveJobCareful ==
  \A d \in DB : \A r :
    (Plain(d) => \A o \in OpIds(d) : o = r => ~PendingRow(d.ops[o])) => Careful(d, RemoveJob(d, Life, r))

\* A materialization waits for an activation.
WaitMaterializationForActivationCareful ==
  \A d \in DB : \A m \in OpIds(d) : \A kind :
    d.ops[m].kind # "release" => Careful(d, WaitMaterializationForActivation(d, m, kind))

\* A materialization completes.
CompleteMaterializationCareful ==
  \A d \in DB : \A m \in OpIds(d) :
    d.ops[m].kind # "release" => Careful(d, CompleteMaterialization(d, m))

\* An operation is claimed.
ClaimedCareful ==
  \A d \in DB : \A o \in OpIds(d) :
    Careful(d, Claimed(d, o)) /\ OpIds(Claimed(d, o)) = OpIds(d) /\ Claimed(d, o).ops[o].state = "running"

\* Or abandoned, or left alone.
ClaimCareful == \A d \in DB : \A o \in OpIds(d) : \A stale : Careful(d, Claim(d, o, stale).db)

\* An activation is claimed.
ClaimActivationCareful == \A d \in DB : \A o \in OpIds(d) : Careful(d, ClaimActivation(d, o).db)

\* A materialization is claimed.
ClaimMaterializationCareful == \A d \in DB : \A o \in OpIds(d) : Careful(d, ClaimMaterialization(d, o).db)

\* A claim acknowledges a release only if it is not pending.
ClaimReleaseCareful ==
  \A d \in DB : \A r \in OpIds(d), blocked \in {"park", "error"} :
    LET t == ClaimRelease(d, r, blocked) IN
    /\ Careful(d, t.db) /\ t.pc \in {"done", "look", blocked}
    /\ Plain(d) /\ t.pc \in {"done", "look"} /\ (PendingRow(d.ops[r]) => Named(d.q[Life], r)) =>
         ~PendingRow(t.db.ops[r])

\* Claims and completions.
ClaimCare ==
  /\ PlainSuffices /\ SetWorkOrderly /\ RequeueMaterializationsCareful /\ CompleteActivationCareful
  /\ EnsureActivationCareful /\ RemoveJobCareful /\ WaitMaterializationForActivationCareful
  /\ CompleteMaterializationCareful /\ ClaimedCareful /\ ClaimCareful /\ ClaimActivationCareful
  /\ ClaimMaterializationCareful /\ ClaimReleaseCareful

\* These facts hold.
LEMMA ClaimCareHold == ASSUME OrderFacts PROVE ClaimCare
<1>PlainSuffices. PlainSuffices
  <2> SUFFICES
      ASSUME NEW d \in DB, NEW d2, Sound(d, d2), ~Plain(d)
      PROVE  Careful(d, d2)
    BY DEF PlainSuffices
  <2>1. d2 \in DB /\ Len(d2.ops) >= Len(d.ops)
    BY DEF Sound
  <2>2. Len(d.ops) \in Nat /\ Len(d2.ops) \in Nat
    BY <2>1, RowFactsHold DEF RowFacts, DBFields
  <2>3. OpIds(d) \subseteq OpIds(d2)
    BY <2>1, <2>2, SMTT(30) DEF OpIds
  <2> QED BY <2>1, <2>3 DEF Careful, Orderly
<1>SetWorkOrderly. SetWorkOrderly
  BY ReleaseCareHold DEF SetWorkOrderly, ReleaseCare, SetOpOrderly, Calm, Forward, PendingRow
<1>RequeueMaterializationsCareful. RequeueMaterializationsCareful
  <2> SUFFICES ASSUME NEW d \in DB, NEW o PROVE Careful(d, RequeueMaterializations(d, o))
    BY DEF RequeueMaterializationsCareful
  <2> DEFINE D == Dependents(d, o)
             row(x) == [x EXCEPT !.state = "pending", !.wait = 0, !.rev = d.bnd.rev, !.target = d.bnd.handle]
             f == [m \in OpIds(d) |-> IF m \in D THEN row(d.ops[m]) ELSE d.ops[m]]
             d1 == [d EXCEPT !.ops = f]
  <2>1. \A x \in OpRow : row(x) \in OpRow /\ row(x).kind = x.kind /\ row(x).state = "pending"
    <3>1. d.bnd.rev \in Nat /\ d.bnd.handle \in Nat
      BY RowFactsHold DEF BndRow, RowFacts, DBFields
    <3> QED BY <3>1 DEF OpRow
  <2>2. \A m \in OpIds(d) : d.ops[m] \in OpRow
    BY RowFactsHold DEF RowFacts, DBFields
  <2>3. RequeueMaterializations(d, o) = QueueOps(d1, D) /\ D \subseteq OpIds(d)
    BY DEF RequeueMaterializations, Rebound, Dependents
  <2> HIDE DEF row
  <2>4. f \in [OpIds(d) -> OpRow]
    BY <2>1, <2>2
  <2>5. ASSUME NEW m \in OpIds(d), Plain(d)
        PROVE  Calm(d.ops[m], f[m]) /\ (Blocking(d.ops[m]) => Blocking(f[m]))
    <3>1. CASE m \in D
      <4>1. f[m].kind = d.ops[m].kind /\ d.ops[m].state = "waiting_activation"
        BY <2>1, <2>2, <3>1 DEF Dependents
      <4>2. d.ops[m].kind # "release"
        BY <2>5, <4>1 DEF Plain, Waits
      <4> HIDE DEF f
      <4> QED BY <4>1, <4>2 DEF Calm, Forward, PendingRow, Blocking
    <3>2. CASE m \notin D
      BY <3>2 DEF Calm, Forward, Blocking
    <3> QED BY <3>1, <3>2
  <2> HIDE DEF f, D
  <2>6. LifeOnly(d, d1) /\ d1.q = d.q /\ OpIds(d1) = OpIds(d) /\ d1.ops = f
    BY <2>4, RowFactsHold DEF RowFacts, OpsReplaced
  <2> HIDE DEF d1
  <2>7. d1 \in DB /\ d1.session = d.session /\ d1.ex = d.ex
    BY <2>6 DEF LifeOnly
  <2>8. Orderly(d, d1)
    BY <2>5, <2>6, <2>7, CustodyFactsHold DEF CustodyFacts, OpsOrderly
  <2>9. Careful(d, d1)
    BY <2>5, <2>6, <2>7, <2>8, CustodyFactsHold DEF CustodyFacts, OpsCareful
  <2>10. Careful(d1, QueueOps(d1, D))
    BY <2>3, <2>6, <2>7, ReleaseCareHold DEF ReleaseCare, QueueOpsCareful
  <2> QED BY <2>3, <2>9, <2>10, CustodyFactsHold DEF CustodyFacts, CarefulTrans
<1>Trans. \A d1, d2, d3 : /\ Orderly(d1, d2) /\ Orderly(d2, d3) => Orderly(d1, d3)
                          /\ Orderly(d1, d2) /\ Careful(d2, d3) => Orderly(d1, d3)
  BY CustodyFactsHold DEF CustodyFacts, OrderlyTrans, Careful
<1>CompleteActivationCareful. CompleteActivationCareful
  <2> SUFFICES
      ASSUME NEW d \in DB, NEW o \in OpIds(d), NEW h \in Nat, d.ops[o].kind # "release"
      PROVE  Careful(d, CompleteActivation(d, o, h))
    BY DEF CompleteActivationCareful
  <2> DEFINE op == d.ops[o]
             old == d.bnd.handle
             W == Waiters(d, o)
             kept == op.kind = "start" /\ old = h
             r1 == [op EXCEPT !.state = "completed"]
             r2 == [op EXCEPT !.state = "completed", !.bound = "none", !.made = h]
             b2 == [d.bnd EXCEPT !.handle = h, !.rev = @ + 1, !.mat = IF kept THEN @ ELSE 0]
             d1 == SetOp(d, o, r1)
             d0 == SetOp(d, o, r2)
             d2 == SetBnd(d0, b2)
             y == EnsureRelease(d2, old, "replaced_handle")
             d3 == IF op.kind = "replace" /\ old \notin {0, h} THEN y ELSE d2
             d4 == RequeueMaterializations(d3, o)
             x1 == ReleaseWaiters(d1, W)
             x2 == EnsureSessionDelete(d3, h)
             x3 == ReleaseWaiters(d4, W)
             x4 == AttachToMaterialization(d4, W)
             res == CASE op.rev # d.bnd.rev -> IF d.bnd.release THEN d1 ELSE x1
                      [] op.rev = d.bnd.rev /\ d.bnd.release -> x2
                      [] OTHER -> IF W = {} THEN d4
                                  ELSE IF d4.bnd.mat = d4.desired THEN x3
                                  ELSE x4
  <2>1. CompleteActivation(d, o, h) = ReadyReleases(res)
    BY DEF CompleteActivation
  <2>2. /\ r1 \in OpRow /\ r2 \in OpRow /\ r1.kind # "release" /\ r2.kind # "release"
    <3>1. op \in OpRow /\ op.kind # "release"
      BY RowFactsHold DEF RowFacts, DBFields
    <3> HIDE DEF op
    <3>2. r1 \in OpRow /\ r2 \in OpRow
      BY <3>1, ReleaseTxHold DEF OpStates, Bounds, Reasons, ReleaseTx, OpRowClosed
    <3>3. r1.kind = op.kind /\ r2.kind = op.kind
      BY <3>1 DEF OpRow
    <3> QED BY <3>1, <3>2, <3>3
  <2>3. b2 \in BndRow /\ old \in Nat
    <3>1. d.bnd \in BndRow
      BY RowFactsHold DEF RowFacts, DBFields
    <3>2. d.bnd.rev + 1 \in Nat /\ d.bnd.handle \in Nat /\ d.bnd.mat \in Nat
      BY <3>1, SMTT(30) DEF BndRow
    <3> DEFINE n == d.bnd.rev + 1
               m == IF kept THEN d.bnd.mat ELSE 0
    <3>3. m \in Nat
      BY <3>2
    <3>4. b2 = [d.bnd EXCEPT !.handle = h, !.rev = n, !.mat = m]
      BY <3>1 DEF BndRow
    <3> HIDE DEF n, m, b2, kept
    <3>5. n \in Nat
      BY <3>2 DEF n
    <3> QED BY <3>1, <3>2, <3>3, <3>4, <3>5 DEF BndRow
  <2>4. res \in {d1, x1, x2, d4, x3, x4}
    <3> HIDE DEF d1, x1, x2, d4, x3, x4
    <3> QED OBVIOUS
  <2> HIDE DEF res, r1, r2, b2, kept
  <2>5. LifeOnly(d, d1) /\ LifeOnly(d, d0)
    BY <2>2, ReleaseTxHold DEF ReleaseTx, SetOpSound
  <2>6. Orderly(d, d1) /\ Orderly(d, d0) /\ d1 \in DB /\ d0 \in DB /\ d1.ex = d.ex
    BY <2>2, <2>5, <1>SetWorkOrderly DEF SetWorkOrderly, LifeOnly
  <2> HIDE DEF d0, d1, op
  <2>7. LifeOnly(d, d2) /\ d2 \in DB
    BY <2>3, <2>5, <2>6, RowFactsHold, SMTT(30) DEF LifeOnly, RowFacts, SetBndIs, LifeOnlyTrans
  <2>8. Orderly(d, d2)
    BY <2>3, <2>6, ReleaseCareHold, <1>Trans DEF ReleaseCare, SetBndCareful
  <2> HIDE DEF d2
  <2>9. LifeOnly(d2, y) /\ (old # 0 => Careful(d2, y))
    BY <2>3, <2>7, ReleaseTxHold, ReleaseCareHold DEF Reasons, ReleaseTx, EnsureReleaseSound, ReleaseCare,
       EnsureReleaseCareful
  <2>10. d3 = d2 \/ (d3 = y /\ old # 0)
    <3> HIDE DEF y, old
    <3> QED OBVIOUS
  <2> HIDE DEF d3, y, old
  <2>11. Orderly(d, d3) /\ d3 \in DB /\ d3.ex = d.ex
    <3>1. CASE d3 = d2
      BY <2>7, <2>8, <3>1 DEF LifeOnly
    <3>2. CASE d3 = y /\ old # 0
      BY <2>7, <2>8, <2>9, <3>2, <1>Trans DEF LifeOnly
    <3> QED BY <2>10, <3>1, <3>2
  <2>12. Orderly(d, d4) /\ d4 \in DB /\ d4.ex = d.ex
    <3>1. Careful(d3, d4)
      BY <2>11, <1>RequeueMaterializationsCareful DEF RequeueMaterializationsCareful
    <3>2. d4.ex = d3.ex
      BY <2>11, ClaimTxHold DEF ClaimTx, RequeueMaterializationsSound
    <3> HIDE DEF d4
    <3> QED BY <2>11, <3>1, <3>2, <1>Trans DEF Careful, Orderly
  <2> HIDE DEF d4
  <2>13. W \in SUBSET Tools /\ \A e \in W : d.ex[e].state \in Waiting
    BY ClaimTxHold DEF ClaimTx, WaitersAre
  <2> HIDE DEF W
  <2>14. Orderly(d, x1) /\ Orderly(d, x3)
    BY <2>6, <2>12, <2>13, FailureCareHold, <1>Trans DEF FailureCare, ReleaseWaitersCareful
  <2>15. Orderly(d, x2)
    BY <2>11, FailureCareHold, <1>Trans DEF FailureCare, EnsureSessionDeleteCareful
  <2>16. Orderly(d, x4)
    BY <2>12, <2>13, FailureCareHold, <1>Trans DEF FailureCare, AttachToMaterializationCareful
  <2> HIDE DEF x1, x2, x3, x4
  <2>17. Orderly(d, res)
    BY <2>4, <2>6, <2>12, <2>14, <2>15, <2>16
  <2> QED BY <2>1, <2>17, CustodyFactsHold DEF CustodyFacts, ReadyCareful
<1>EnsureActivationCareful. EnsureActivationCareful
  <2> SUFFICES ASSUME NEW d \in DB, NEW kind PROVE Careful(d, EnsureActivation(d, kind))
    BY DEF EnsureActivationCareful
  <2> DEFINE op0 == Operation(d, "replace", 0)
             op1 == [op0 EXCEPT !.env = Generation(d)]
             op2 == Operation(d, "start", d.bnd.handle)
             op == IF kind = "start" THEN op2 ELSE op1
  <2>1. EnsureActivation(d, kind) \in {d, InsertOp(d, op)}
    BY DEF EnsureActivation
  <2>2. d.bnd.handle \in Nat /\ Generation(d) \in Nat
    BY RowFactsHold, SMTT(30) DEF BndRow, Generation, RowFacts, DBFields
  <2>3. op0 \in OpRow /\ op0.kind = "replace"
    BY RowFactsHold, SMTT(30) DEF RowFacts, OperationIsRow
  <2>4. op2 \in OpRow /\ op2.kind = "start"
    BY <2>2, RowFactsHold, SMTT(30) DEF RowFacts, OperationIsRow
  <2> HIDE DEF op0, op2
  <2>5. op1 \in OpRow /\ op1.kind = op0.kind
    BY <2>2, <2>3 DEF OpRow
  <2> HIDE DEF op1
  <2>6. op \in OpRow /\ op.kind # "release"
    BY <2>3, <2>4, <2>5
  <2> HIDE DEF op
  <2>7. Careful(d, InsertOp(d, op))
    BY <2>6, ReleaseCareHold DEF ReleaseCare, InsertOpCareful
  <2> QED BY <2>1, <2>7, CustodyFactsHold DEF CustodyFacts, CarefulRefl
<1>RemoveJobCareful. RemoveJobCareful
  <2> SUFFICES
      ASSUME NEW d \in DB, NEW r, Plain(d) => \A o \in OpIds(d) : o = r => ~PendingRow(d.ops[o])
      PROVE  Careful(d, RemoveJob(d, Life, r))
    BY DEF RemoveJobCareful
  <2> DEFINE d2 == RemoveJob(d, Life, r)
  <2>1. LifeOnly(d, d2) /\ d2.q[Life] = Removed(d.q[Life], r) /\ d2.ops = d.ops
    BY OperationFactsHold, RowFactsHold, SMTT(30) DEF OperationFacts, RemoveJobIs, RowFacts, PartitionFacts
  <2>2. d.q[Life] \in Seq(JobRow)
    BY RowFactsHold DEF RowFacts, DBFields, PartitionFacts
  <2>3. Sound(d, d2)
    BY ClaimTxHold DEF ClaimTx, RemoveJobSound
  <2> HIDE DEF d2
  <2>4. \A x : Named(d2.q[Life], x) <=> Named(d.q[Life], x) /\ x # r
    BY <2>1, <2>2, SequenceFactsHold, SMTT(30) DEF SequenceFacts, RemovedIs
  <2>5. d2 \in DB /\ d2.session = d.session /\ d2.ex = d.ex /\ OpIds(d2) = OpIds(d)
    BY <2>1 DEF LifeOnly, OpIds
  <2>6. ASSUME Plain(d) PROVE Careful(d, d2)
    <3>1. \A x : Calm(x, x)
      BY DEF Calm, Forward
    <3>2. \A o \in OpIds(d) : PendingRow(d2.ops[o]) /\ Named(d.q[Life], o) => Named(d2.q[Life], o)
      BY <2>1, <2>4, <2>6
    <3>3. Orderly(d, d2)
      BY <2>1, <2>4, <2>5, <3>1, <3>2, CustodyFactsHold DEF CustodyFacts, OpsOrderly
    <3> QED BY <2>1, <2>5, <3>3, CustodyFactsHold DEF CustodyFacts, OpsCareful
  <2> QED BY <2>3, <2>6, <1>PlainSuffices DEF PlainSuffices, d2
<1>WaitMaterializationForActivationCareful. WaitMaterializationForActivationCareful
  <2> SUFFICES
      ASSUME NEW d \in DB, NEW m \in OpIds(d), NEW kind, d.ops[m].kind # "release", Plain(d)
      PROVE  Careful(d, WaitMaterializationForActivation(d, m, kind))
    BY <1>PlainSuffices, ClaimTxHold DEF PlainSuffices, ClaimTx, WaitMaterializationForActivationSound,
       WaitMaterializationForActivationCareful
  <2> DEFINE d1 == EnsureActivation(d, kind)
             a == CHOOSE x \in UnfinishedActivation(d1) : TRUE
             r1 == [d.ops[m] EXCEPT !.state = "skipped_cold", !.job = FALSE]
             r2 == [d.ops[m] EXCEPT !.state = "waiting_activation", !.wait = a, !.job = FALSE]
             x1 == SetOp(d, m, r1)
             x2 == SetOp(d1, m, r2)
             d2 == IF Waiters(d, m) = {} THEN x1 ELSE x2
             d3 == ReadyReleases(d2)
  <2>1. WaitMaterializationForActivation(d, m, kind) = RemoveJob(d3, Life, m)
    BY DEF WaitMaterializationForActivation
  <2>2. /\ d1 \in DB /\ m \in OpIds(d1) /\ d1.ops[m] = d.ops[m]
        /\ UnfinishedActivation(d1) # {}
    BY ClaimTxHold DEF ClaimTx, EnsureActivationIs
  <2>3. Careful(d, d1)
    BY <1>EnsureActivationCareful DEF EnsureActivationCareful
  <2> HIDE DEF d1
  <2>4. a \in Nat
    BY <2>2, ClaimTxHold DEF ClaimTx, UnfinishedAreOps
  <2> HIDE DEF a
  <2>5. d.ops[m] \in OpRow
    BY RowFactsHold DEF RowFacts, DBFields
  <2>6. r1 \in OpRow /\ r2 \in OpRow
    BY <2>4, <2>5, ReleaseTxHold DEF OpStates, Bounds, Reasons, ReleaseTx, OpRowClosed
  <2>7. r1.kind = d.ops[m].kind /\ r2.kind = d.ops[m].kind
    BY <2>5 DEF OpRow
  <2> HIDE DEF r1, r2
  <2>8. Orderly(d, x1)
    BY <2>6, <2>7, <1>SetWorkOrderly DEF SetWorkOrderly
  <2>9. Orderly(d, x2)
    BY <2>2, <2>3, <2>6, <2>7, <1>SetWorkOrderly, <1>Trans DEF SetWorkOrderly, Careful
  <2> HIDE DEF x1, x2
  <2>10. Orderly(d, d2)
    BY <2>8, <2>9
  <2> HIDE DEF d2
  <2>11. Careful(d, d3) /\ d3 \in DB /\ ~PendingRow(d3.ops[m])
    <3>1. Careful(d, d3)
      BY <2>10, CustodyFactsHold DEF CustodyFacts, ReadyCareful
    <3> HIDE DEF d3
    <3> QED BY <3>1 DEF Careful, Orderly, Follows, Forward, PendingRow
  <2> HIDE DEF d3
  <2>12. Careful(d3, RemoveJob(d3, Life, m))
    BY <2>11, <1>RemoveJobCareful DEF RemoveJobCareful
  <2> QED BY <2>1, <2>11, <2>12, CustodyFactsHold DEF CustodyFacts, CarefulTrans
<1>CompleteMaterializationCareful. CompleteMaterializationCareful
  <2> SUFFICES
      ASSUME NEW d \in DB, NEW m \in OpIds(d), d.ops[m].kind # "release"
      PROVE  Careful(d, CompleteMaterialization(d, m))
    BY DEF CompleteMaterializationCareful
  <2> DEFINE op == d.ops[m]
             W == Waiters(d, m)
             r == [op EXCEPT !.state = "completed"]
             b == [d.bnd EXCEPT !.mat = op.res]
             d1 == SetOp(d, m, r)
             d2 == SetBnd(d1, b)
             x1 == ReleaseWaiters(d1, W)
             x2 == AttachToMaterialization(d2, W)
             x3 == ReleaseWaiters(d2, W)
             res == CASE op.rev # d.bnd.rev \/ op.target # d.bnd.handle -> IF d.bnd.release THEN d1 ELSE x1
                      [] OTHER -> IF d.bnd.release THEN d2 ELSE IF d.desired > op.res THEN x2 ELSE x3
  <2>1. CompleteMaterialization(d, m) = ReadyReleases(res)
    BY DEF CompleteMaterialization
  <2>2. res \in {d1, d2, x1, x2, x3}
    <3> HIDE DEF d1, x1, x2, d2, x3
    <3> QED OBVIOUS
  <2> HIDE DEF res
  <2>3. op \in OpRow /\ op.kind # "release" /\ d.bnd \in BndRow
    BY RowFactsHold DEF RowFacts, DBFields
  <2>4. r \in OpRow /\ r.kind # "release"
    <3> HIDE DEF op
    <3>1. r.kind = op.kind
      BY <2>3 DEF OpRow
    <3> QED BY <2>3, <3>1, ReleaseTxHold DEF OpStates, Bounds, Reasons, ReleaseTx, OpRowClosed
  <2>5. b \in BndRow
    BY <2>3 DEF OpRow, BndRow
  <2> HIDE DEF r, b
  <2>6. LifeOnly(d, d1) /\ Orderly(d, d1) /\ d1 \in DB
    BY <2>4, ReleaseTxHold, <1>SetWorkOrderly DEF SetWorkOrderly, LifeOnly, ReleaseTx, SetOpSound
  <2> HIDE DEF d1
  <2>7. LifeOnly(d, d2) /\ d2 \in DB
    BY <2>5, <2>6, RowFactsHold, SMTT(30) DEF LifeOnly, RowFacts, SetBndIs, LifeOnlyTrans
  <2>8. Orderly(d, d2)
    BY <2>5, <2>6, ReleaseCareHold, <1>Trans DEF ReleaseCare, SetBndCareful
  <2> HIDE DEF d2
  <2>9. d1.ex = d.ex /\ d2.ex = d.ex
    BY <2>6, <2>7 DEF LifeOnly
  <2>10. W \in SUBSET Tools /\ \A e \in W : d.ex[e].state \in Waiting
    BY ClaimTxHold DEF ClaimTx, WaitersAre
  <2> HIDE DEF W
  <2>11. Orderly(d, x1) /\ Orderly(d, x3)
    BY <2>6, <2>7, <2>8, <2>9, <2>10, FailureCareHold, <1>Trans DEF FailureCare, ReleaseWaitersCareful
  <2>12. Orderly(d, x2)
    BY <2>7, <2>8, <2>9, <2>10, FailureCareHold, <1>Trans DEF FailureCare, AttachToMaterializationCareful
  <2> HIDE DEF x1, x2, x3
  <2>13. Orderly(d, res)
    BY <2>2, <2>6, <2>8, <2>11, <2>12
  <2> QED BY <2>1, <2>13, CustodyFactsHold DEF CustodyFacts, ReadyCareful
<1>ClaimedCareful. ClaimedCareful
  <2> SUFFICES
      ASSUME NEW d \in DB, NEW o \in OpIds(d)
      PROVE  /\ Careful(d, Claimed(d, o)) /\ OpIds(Claimed(d, o)) = OpIds(d)
             /\ Claimed(d, o).ops[o].state = "running"
    BY DEF ClaimedCareful
  <2> DEFINE r == [d.ops[o] EXCEPT !.state = "running"]
  <2>1. d.ops[o] \in OpRow
    BY RowFactsHold DEF RowFacts, DBFields
  <2>2. r \in OpRow
    BY <2>1, ReleaseTxHold DEF OpStates, Bounds, Reasons, ReleaseTx, OpRowClosed
  <2>3. /\ r.kind = d.ops[o].kind /\ r.state = "running" /\ r.target = d.ops[o].target
        /\ r.sup = d.ops[o].sup
    BY <2>1 DEF OpRow
  <2>4. Claimed(d, o) = SetOp(d, o, r)
    BY DEF Claimed
  <2> HIDE DEF r
  <2>5. Calm(d.ops[o], r) /\ (Blocking(d.ops[o]) => Blocking(r))
    BY <2>3 DEF Calm, Forward, Blocking, PendingRow, Waits
  <2>6. Careful(d, SetOp(d, o, r))
    BY <2>2, <2>5, ReleaseCareHold DEF ReleaseCare, SetOpCareful
  <2>7. OpIds(SetOp(d, o, r)) = OpIds(d) /\ SetOp(d, o, r).ops = [d.ops EXCEPT ![o] = r]
    BY <2>2, RowFactsHold, SMTT(30) DEF RowFacts, SetOpIs
  <2>8. OpIds(d) = DOMAIN d.ops
    BY RowFactsHold DEF RowFacts, DBFields
  <2> QED BY <2>3, <2>4, <2>6, <2>7, <2>8
<1>ClaimCareful. ClaimCareful
  <2> SUFFICES
      ASSUME NEW d \in DB, NEW o \in OpIds(d), NEW stale
      PROVE  Careful(d, Claim(d, o, stale).db)
    BY DEF ClaimCareful
  <2>1. Claim(d, o, stale) \in {Then(d, "done"), Then(AbandonOp(d, o), "done"), Then(Claimed(d, o), "look")}
    BY DEF Claim
  <2>2. Claim(d, o, stale).db \in {d, AbandonOp(d, o), Claimed(d, o)}
    BY <2>1, SMTT(30) DEF Then
  <2> QED BY <2>2, CustodyFactsHold, FailureCareHold, <1>ClaimedCareful DEF CustodyFacts, CarefulRefl, FailureCare,
     AbandonOpCareful, ClaimedCareful
<1>ClaimActivationCareful. ClaimActivationCareful
  <2> SUFFICES
      ASSUME NEW d \in DB, NEW o \in OpIds(d)
      PROVE  Careful(d, ClaimActivation(d, o).db)
    BY DEF ClaimActivationCareful
  <2> DEFINE stale == \/ d.ops[o].rev # d.bnd.rev
                      \/ d.bnd.release
                      \/ d.ops[o].target # 0 /\ d.ops[o].target # d.bnd.handle
  <2>1. ClaimActivation(d, o) \in {Then(d, "retry"), Claim(d, o, stale)}
    BY DEF ClaimActivation
  <2> HIDE DEF stale
  <2>2. ClaimActivation(d, o).db \in {d, Claim(d, o, stale).db}
    <3>1. Then(d, "retry").db = d
      BY DEF Then
    <3> QED BY <2>1, <3>1
  <2> QED BY <2>2, <1>ClaimCareful, CustodyFactsHold DEF ClaimCareful, CustodyFacts, CarefulRefl
<1>ClaimMaterializationCareful. ClaimMaterializationCareful
  BY <1>ClaimCareful DEF ClaimMaterialization, ClaimCareful, ClaimMaterializationCareful
<1>ClaimReleaseCareful. ClaimReleaseCareful
  <2> SUFFICES
      ASSUME NEW d \in DB, NEW r \in OpIds(d), NEW blocked \in {"park", "error"}
      PROVE  LET t == ClaimRelease(d, r, blocked) IN
             /\ Careful(d, t.db) /\ t.pc \in {"done", "look", blocked}
             /\ Plain(d) /\ t.pc \in {"done", "look"} /\ (PendingRow(d.ops[r]) => Named(d.q[Life], r)) =>
                  ~PendingRow(t.db.ops[r])
    BY DEF ClaimReleaseCareful
  <2> DEFINE t == ClaimRelease(d, r, blocked)
  <2>1. \/ t = Then(d, "done") /\ (d.ops[r].state \notin {"pending", "running"} \/ ~d.ops[r].job)
        \/ t = Then(d, blocked)
        \/ t = Then(Claimed(d, r), "look")
    BY DEF ClaimRelease
  <2> HIDE DEF t
  <2>2. CASE t = Then(d, "done") /\ (d.ops[r].state \notin {"pending", "running"} \/ ~d.ops[r].job)
    <3>1. t.db = d /\ t.pc = "done"
      BY <2>2 DEF Then
    <3>2. Careful(d, t.db)
      BY <3>1, CustodyFactsHold DEF CustodyFacts, CarefulRefl
    <3>3. Plain(d) /\ PendingRow(d.ops[r]) => d.ops[r].state = "pending" /\ (Named(d.q[Life], r) => d.ops[r].job)
      BY DEF Plain, PendingRow
    <3> QED BY <2>2, <3>1, <3>2, <3>3 DEF t
  <2>3. CASE t = Then(d, blocked)
    <3>1. t.db = d /\ t.pc = blocked
      BY <2>3 DEF Then
    <3>2. Careful(d, t.db)
      BY <3>1, CustodyFactsHold DEF CustodyFacts, CarefulRefl
    <3> QED BY <3>1, <3>2 DEF t
  <2>4. CASE t = Then(Claimed(d, r), "look")
    <3>1. t.db = Claimed(d, r) /\ t.pc = "look"
      BY <2>4 DEF Then
    <3>2. Careful(d, t.db) /\ t.db.ops[r].state = "running"
      BY <3>1, <1>ClaimedCareful DEF ClaimedCareful
    <3> QED BY <3>1, <3>2 DEF t, PendingRow
  <2> QED BY <2>1, <2>2, <2>3, <2>4
<1> QED BY <1>PlainSuffices, <1>SetWorkOrderly, <1>RequeueMaterializationsCareful, <1>CompleteActivationCareful,
   <1>EnsureActivationCareful, <1>RemoveJobCareful, <1>WaitMaterializationForActivationCareful,
   <1>CompleteMaterializationCareful, <1>ClaimedCareful, <1>ClaimCareful, <1>ClaimActivationCareful,
   <1>ClaimMaterializationCareful, <1>ClaimReleaseCareful DEF ClaimCare

-----------------------------------------------------------------------------
(* The rest of the lifecycle, and the Queue, keep the custody of releases. *)

\* A missing sandbox is replaced.
ReplaceMissingActivationCareful ==
  \A d \in DB : \A o \in OpIds(d) :
    d.ops[o].kind # "release" => Careful(d, ReplaceMissingActivation(d, o).db)

\* The bound of an operation does not matter.
SetBoundCareful == \A d \in DB : \A r \in OpIds(d), bound \in Bounds : Careful(d, SetBound(d, r, bound))

\* An unknown outcome is recorded.
ObserveUnknownActivationCareful ==
  \A d \in DB : \A o \in OpIds(d) : Careful(d, ObserveUnknownActivation(d, o).db)

\* A release gives its job up only while it is blocked.
ParkBlockedReleaseKeeps ==
  \A d \in DB : \A r \in OpIds(d) :
    LET t == ParkBlockedRelease(d, r) IN
    \/ t.db = d /\ t.pc = "again"
    \/ /\ t.db \in DB /\ t.pc = "idle"
       /\ Plain(d) => Plain(t.db)
       /\ Plain(d) /\ Custody(d) => Custody(t.db)

\* A release is authorized.
AuthorizeReleaseCareful == \A d \in DB : \A r \in OpIds(d) : Careful(d, AuthorizeRelease(d, r).db)

\* A release is made submittable again.
RearmReleaseCareful == \A d \in DB : \A r \in OpIds(d) : Careful(d, RearmRelease(d, r).db)

\* A release completes.
CompleteReleaseCareful ==
  \A d \in DB : \A r \in OpIds(d) : d.ops[r].kind = "release" => Careful(d, CompleteRelease(d, r))

\* An exhausted operation is not pending any more.
FinalizeExhaustedLifecycleCareful ==
  \A d \in DB : \A o \in OpIds(d) :
    LET d2 == FinalizeExhaustedLifecycle(d, o) IN
    /\ Careful(d, d2)
    /\ Plain(d) /\ (PendingRow(d.ops[o]) => Named(d.q[Life], o)) => ~PendingRow(d2.ops[o])

\* Only the jobs' names matter, and those of the lifecycle's partition only.
SameNamesCareful ==
  \A d, d2 \in DB :
    /\ d2.session = d.session /\ d2.ops = d.ops /\ d2.ex = d.ex
    /\ \A r : Named(d2.q[Life], r) <=> Named(d.q[Life], r)
    =>
      Careful(d, d2)

\* A job is marked.
SetJobCareful ==
  \A d \in DB, p \in Partitions : \A r : \A st \in {"due", "backoff"} : Careful(d, SetJob(d, p, r, st))

\* The job of another partition goes.
RemoveOtherCareful == \A d \in DB, p \in Partitions : \A r : p # Life => Careful(d, RemoveJob(d, p, r))

\* Another partition gets a job.
EnqueueOtherCareful ==
  \A d \in DB, p \in Partitions, r \in Nat \ {0} : p # Life => Careful(d, Enqueue(d, p, r))

\* The rest of the lifecycle.
LifecycleCare ==
  /\ ReplaceMissingActivationCareful /\ SetBoundCareful /\ ObserveUnknownActivationCareful
  /\ ParkBlockedReleaseKeeps /\ AuthorizeReleaseCareful /\ RearmReleaseCareful /\ CompleteReleaseCareful
  /\ FinalizeExhaustedLifecycleCareful /\ SameNamesCareful /\ SetJobCareful /\ RemoveOtherCareful
  /\ EnqueueOtherCareful

\* These facts hold.
LEMMA LifecycleCareHold == ASSUME OrderFacts PROVE LifecycleCare
<1>ThenDb. \A d, pc : Then(d, pc).db = d /\ Then(d, pc).pc = pc
  BY DEF Then
<1>Refl. \A d \in DB : Careful(d, d)
  BY CustodyFactsHold DEF CustodyFacts, CarefulRefl
<1>ReplaceMissingActivationCareful. ReplaceMissingActivationCareful
  <2> SUFFICES
      ASSUME NEW d \in DB, NEW o \in OpIds(d), d.ops[o].kind # "release"
      PROVE  Careful(d, ReplaceMissingActivation(d, o).db)
    BY DEF ReplaceMissingActivationCareful
  <2> DEFINE op == d.ops[o]
             r0 == [op EXCEPT !.kind = "replace", !.target = 0, !.env = Generation(d), !.bound = "none"]
             r1 == [r0 EXCEPT !.state = "waiting_artifact", !.job = FALSE]
             r2 == [r0 EXCEPT !.job = FALSE]
             x0 == SetOp(d, o, r0)
             y1 == SetOp(d, o, r1)
             y2 == SetOp(d, o, r2)
             x1 == ReadyReleases(y1)
             x2 == FailOp(y2, o, "proved_not_started")
             x3 == AbandonOp(d, o)
  <2>1. ReplaceMissingActivation(d, o) \in {Then(x3, "done"), Then(x1, "done"), Then(x2, "done"), Then(x0, "look")}
    BY DEF ReplaceMissingActivation
  <2>2. op \in OpRow /\ Generation(d) \in Nat
    BY RowFactsHold, SMTT(30) DEF Generation, RowFacts, DBFields
  <2>3. r0 \in OpRow /\ r0.kind = "replace" /\ r0.state = op.state
    <3> HIDE DEF op
    <3>1. r0 \in OpRow
      BY <2>2, ReleaseTxHold DEF OpStates, Bounds, Reasons, ReleaseTx, OpRowClosed
    <3> QED BY <2>2, <3>1 DEF OpRow
  <2> HIDE DEF r0
  <2>4. r1 \in OpRow /\ r2 \in OpRow
    BY <2>3, ReleaseTxHold DEF OpStates, Bounds, Reasons, ReleaseTx, OpRowClosed
  <2>5. r1.kind = r0.kind /\ r2.kind = r0.kind /\ r2.state = r0.state
    BY <2>3 DEF OpRow
  <2> HIDE DEF r1, r2
  <2>6. Calm(op, r0) /\ Calm(op, r2)
    BY <2>3, <2>5 DEF Calm, Forward, PendingRow
  <2>7. (Blocking(op) => Blocking(r0)) /\ (Blocking(op) => Blocking(r2))
    BY <2>3, <2>5 DEF Blocking
  <2>8. Careful(d, x0) /\ Careful(d, y2)
    BY <2>3, <2>4, <2>6, <2>7, ReleaseCareHold DEF ReleaseCare, SetOpCareful
  <2>9. Orderly(d, y1)
    BY <2>3, <2>4, <2>5, ClaimCareHold DEF ClaimCare, SetWorkOrderly
  <2>10. Careful(d, x1)
    BY <2>9, CustodyFactsHold DEF CustodyFacts, ReadyCareful
  <2> HIDE DEF y1, y2
  <2>11. Careful(d, x2)
    <3>1. y2 \in DB
      BY <2>8 DEF Careful, Orderly
    <3>2. Careful(y2, x2)
      BY <3>1, FailureCareHold DEF FailOp, Bounds, FailureCare, FailOpsCareful
    <3> QED BY <2>8, <3>2, CustodyFactsHold DEF CustodyFacts, CarefulTrans
  <2>12. Careful(d, x3)
    BY FailureCareHold DEF FailureCare, AbandonOpCareful
  <2> HIDE DEF x0, x1, x2, x3
  <2> QED BY <2>1, <2>8, <2>10, <2>11, <2>12, <1>ThenDb, SMTT(30)
<1>SetBoundCareful. SetBoundCareful
  <2> SUFFICES
      ASSUME NEW d \in DB, NEW r \in OpIds(d), NEW bound \in Bounds
      PROVE  Careful(d, SetBound(d, r, bound))
    BY DEF SetBoundCareful
  <2> DEFINE op == [d.ops[r] EXCEPT !.bound = bound]
  <2>1. d.ops[r] \in OpRow
    BY RowFactsHold DEF RowFacts, DBFields
  <2>2. op \in OpRow
    BY <2>1, ReleaseTxHold DEF OpStates, Reasons, ReleaseTx, OpRowClosed
  <2>3. /\ op.kind = d.ops[r].kind /\ op.state = d.ops[r].state /\ op.target = d.ops[r].target
        /\ op.sup = d.ops[r].sup /\ op.job = d.ops[r].job
    BY <2>1 DEF OpRow
  <2>4. SetBound(d, r, bound) = SetOp(d, r, op)
    BY DEF SetBound
  <2> HIDE DEF op
  <2>5. Calm(d.ops[r], op) /\ (Blocking(d.ops[r]) => Blocking(op))
    BY <2>3 DEF Calm, Forward, PendingRow, Blocking
  <2> QED BY <2>2, <2>4, <2>5, ReleaseCareHold DEF ReleaseCare, SetOpCareful
<1>ObserveUnknownActivationCareful. ObserveUnknownActivationCareful
  <2> SUFFICES ASSUME NEW d \in DB, NEW o \in OpIds(d) PROVE Careful(d, ObserveUnknownActivation(d, o).db)
    BY DEF ObserveUnknownActivationCareful
  <2>1. ObserveUnknownActivation(d, o) \in {Then(d, "done"), Then(SetBound(d, o, "outcome_unknown"), "retry")}
    BY DEF ObserveUnknownActivation, SetBound
  <2>2. Careful(d, SetBound(d, o, "outcome_unknown"))
    BY <1>SetBoundCareful DEF Bounds, SetBoundCareful
  <2> QED BY <2>1, <2>2, <1>Refl, <1>ThenDb, SMTT(30)
<1>ParkBlockedReleaseKeeps. ParkBlockedReleaseKeeps
  <2> SUFFICES
      ASSUME NEW d \in DB, NEW r \in OpIds(d)
      PROVE  LET t == ParkBlockedRelease(d, r) IN
             \/ t.db = d /\ t.pc = "again"
             \/ /\ t.db \in DB /\ t.pc = "idle"
                /\ Plain(d) => Plain(t.db)
                /\ Plain(d) /\ Custody(d) => Custody(t.db)
    BY DEF ParkBlockedReleaseKeeps
  <2> DEFINE op == [d.ops[r] EXCEPT !.job = FALSE]
             d1 == SetOp(d, r, op)
             d2 == RemoveJob(d1, Life, r)
  <2>1. \/ ParkBlockedRelease(d, r) = Then(d2, "idle") /\ Blocked(d, r)
        \/ ParkBlockedRelease(d, r) = Then(d, "again")
    BY DEF ParkBlockedRelease
  <2>2. d.ops[r] \in OpRow
    BY RowFactsHold DEF RowFacts, DBFields
  <2>3. op \in OpRow
    BY <2>2 DEF OpRow
  <2>4. /\ op.kind = d.ops[r].kind /\ op.state = d.ops[r].state /\ op.target = d.ops[r].target
        /\ op.sup = d.ops[r].sup
    BY <2>2 DEF OpRow
  <2> HIDE DEF op
  <2>5. /\ d1 \in DB /\ d1.session = d.session /\ d1.ex = d.ex /\ OpIds(d1) = OpIds(d) /\ d1.q = d.q
        /\ d1.ops = [d.ops EXCEPT ![r] = op]
    BY <2>3, RowFactsHold, SMTT(30) DEF LifeOnly, RowFacts, SetOpIs
  <2> HIDE DEF d1
  <2>6. /\ d2 \in DB /\ d2.session = d1.session /\ d2.ex = d1.ex /\ OpIds(d2) = OpIds(d1) /\ d2.ops = d1.ops
        /\ d2.q[Life] = Removed(d1.q[Life], r)
    BY <2>5, OperationFactsHold, RowFactsHold, SMTT(30) DEF OperationFacts, RemoveJobIs, RowFacts, PartitionFacts
  <2>7. d1.q[Life] \in Seq(JobRow)
    BY <2>5, RowFactsHold DEF RowFacts, DBFields, PartitionFacts
  <2> HIDE DEF d2
  <2>8. \A x : Named(d2.q[Life], x) <=> Named(d.q[Life], x) /\ x # r
    BY <2>5, <2>6, <2>7, SequenceFactsHold, SMTT(30) DEF SequenceFacts, RemovedIs
  <2>9. d2.ex = d.ex /\ d2.session = d.session /\ OpIds(d2) = OpIds(d)
    BY <2>5, <2>6
  <2>10. /\ \A o \in OpIds(d) : /\ d2.ops[o].kind = d.ops[o].kind /\ d2.ops[o].state = d.ops[o].state
                                /\ d2.ops[o].target = d.ops[o].target /\ d2.ops[o].sup = d.ops[o].sup
         /\ \A o \in OpIds(d) : o # r => d2.ops[o] = d.ops[o]
    <3>1. OpIds(d) = DOMAIN d.ops
      BY RowFactsHold DEF RowFacts, DBFields
    <3> QED BY <2>4, <2>5, <2>6, <3>1
  <2>11. ASSUME Plain(d) PROVE Plain(d2)
    BY <2>8, <2>9, <2>10, <2>11 DEF Plain, PendingRow
  <2>12. ASSUME Custody(d), Blocked(d, r), NEW x \in OpIds(d2), PendingRelease(d2, x), ~Blocked(d2, x)
         PROVE  HasJob(d2, Life, x)
    <3>1. x \in OpIds(d) /\ PendingRelease(d, x)
      BY <2>9, <2>10, <2>12 DEF PendingRelease
    <3>2. ~Blocked(d, x)
      BY <2>9, <2>10, <2>12, <3>1 DEF Blocked
    <3>3. x # r /\ HasJob(d, Life, x)
      BY <2>12, <3>1, <3>2 DEF Custody
    <3> QED BY <2>8, <3>3 DEF HasJob
  <2>13. Blocked(d, r) /\ Custody(d) => Custody(d2)
    BY <2>12 DEF Custody
  <2> QED BY <2>1, <2>6, <2>11, <2>13, <1>ThenDb, SMTT(30)
<1>AuthorizeReleaseCareful. AuthorizeReleaseCareful
  <2> SUFFICES ASSUME NEW d \in DB, NEW r \in OpIds(d) PROVE Careful(d, AuthorizeRelease(d, r).db)
    BY DEF AuthorizeReleaseCareful
  <2>1. AuthorizeRelease(d, r) \in {Then(SetBound(d, r, "submitted"), "call"), Then(d, "done")}
    BY DEF AuthorizeRelease
  <2>2. Careful(d, SetBound(d, r, "submitted"))
    BY <1>SetBoundCareful DEF Bounds, SetBoundCareful
  <2> QED BY <2>1, <2>2, <1>Refl, <1>ThenDb, SMTT(30)
<1>RearmReleaseCareful. RearmReleaseCareful
  <2> SUFFICES ASSUME NEW d \in DB, NEW r \in OpIds(d) PROVE Careful(d, RearmRelease(d, r).db)
    BY DEF RearmReleaseCareful
  <2>1. RearmRelease(d, r) \in {Then(SetBound(d, r, "none"), "retry"), Then(d, "retry"), Then(d, "error")}
    BY DEF RearmRelease
  <2>2. Careful(d, SetBound(d, r, "none"))
    BY <1>SetBoundCareful DEF Bounds, SetBoundCareful
  <2> QED BY <2>1, <2>2, <1>Refl, <1>ThenDb, SMTT(30)
<1>CompleteReleaseCareful. CompleteReleaseCareful
  <2> SUFFICES
      ASSUME NEW d \in DB, NEW r \in OpIds(d), d.ops[r].kind = "release"
      PROVE  Careful(d, CompleteRelease(d, r))
    BY DEF CompleteReleaseCareful
  <2> DEFINE d1 == SetStates(d, {r}, "completed")
  <2>1. Careful(d, d1) /\ d1 \in DB
    BY ReleaseCareHold DEF OpStates, Waits, Blocking, ReleaseCare, SetStatesCareful, Careful, Orderly
  <2>2. CompleteRelease(d, r) = ApplyPostcondition(d1, d.ops[r].target, d.ops[r].reason)
    BY DEF CompleteRelease
  <2> HIDE DEF d1
  <2> QED BY <2>1, <2>2, ReleaseCareHold, CustodyFactsHold DEF ReleaseCare, ApplyPostconditionCareful, CustodyFacts,
     CarefulTrans
<1>FinalizeExhaustedLifecycleCareful. FinalizeExhaustedLifecycleCareful
  <2> SUFFICES
      ASSUME NEW d \in DB, NEW o \in OpIds(d)
      PROVE  LET d2 == FinalizeExhaustedLifecycle(d, o) IN
             /\ Careful(d, d2)
             /\ Plain(d) /\ (PendingRow(d.ops[o]) => Named(d.q[Life], o)) => ~PendingRow(d2.ops[o])
    BY DEF FinalizeExhaustedLifecycleCareful
  <2> DEFINE op == d.ops[o]
             b1 == IF ObserveOnly(d, o) THEN "outcome_unknown" ELSE "proved_not_started"
             b2 == IF op.bound = "outcome_unknown" THEN "outcome_unknown" ELSE "proved_not_started"
             r == [op EXCEPT !.state = "failed", !.bound = b1]
             d2 == FinalizeExhaustedLifecycle(d, o)
  <2>1. \/ d2 = d /\ (op.state \in Terminal \cup {"waiting_activation"} \/ ~op.job)
        \/ d2 = SetOp(d, o, r) /\ op.kind = "release"
        \/ d2 = FailOp(d, o, b2) /\ op.kind # "release"
    BY DEF FinalizeExhaustedLifecycle
  <2>2. b1 \in Bounds /\ b2 \in Bounds
    BY DEF Bounds
  <2>3. op \in OpRow
    BY RowFactsHold DEF RowFacts, DBFields
  <2> HIDE DEF b1, b2, d2
  <2>4. CASE d2 = d /\ (op.state \in Terminal \cup {"waiting_activation"} \/ ~op.job)
    <3>1. Plain(d) /\ PendingRow(op) => op.state = "pending" /\ (Named(d.q[Life], o) => op.job)
      BY DEF Plain, PendingRow
    <3> QED BY <2>4, <3>1, <1>Refl DEF d2, Terminal
  <2>5. CASE d2 = SetOp(d, o, r) /\ op.kind = "release"
    <3>1. r \in OpRow
      <4> HIDE DEF op
      <4> QED BY <2>2, <2>3, ReleaseTxHold DEF OpStates, Reasons, ReleaseTx, OpRowClosed
    <3>2. r.kind = op.kind /\ r.state = "failed" /\ r.target = op.target /\ r.sup = op.sup
      <4> HIDE DEF op
      <4> QED BY <2>3 DEF OpRow
    <3> HIDE DEF r
    <3>3. Calm(op, r) /\ ~Blocking(op)
      BY <2>5, <3>2 DEF Calm, Forward, PendingRow, Waits, Blocking
    <3>4. Careful(d, SetOp(d, o, r))
      BY <3>1, <3>3, ReleaseCareHold DEF ReleaseCare, SetOpCareful
    <3>5. SetOp(d, o, r).ops = [d.ops EXCEPT ![o] = r] /\ OpIds(d) = DOMAIN d.ops
      BY <3>1, RowFactsHold, SMTT(30) DEF RowFacts, SetOpIs, DBFields
    <3>6. ~PendingRow(d2.ops[o])
      BY <2>5, <3>2, <3>5 DEF PendingRow
    <3> QED BY <2>5, <3>4, <3>6 DEF d2
  <2>6. CASE d2 = FailOp(d, o, b2) /\ op.kind # "release"
    <3>1. Careful(d, d2)
      BY <2>2, <2>6, FailureCareHold DEF FailOp, FailureCare, FailOpsCareful
    <3>2. Plain(d) => ~PendingRow(d2.ops[o])
      BY <2>6, <3>1 DEF Careful, Orderly, Follows, Forward, PendingRow
    <3> QED BY <3>1, <3>2 DEF d2
  <2> QED BY <2>1, <2>4, <2>5, <2>6
<1>SameNamesCareful. SameNamesCareful
  <2> SUFFICES
      ASSUME NEW d \in DB, NEW d2 \in DB, d2.session = d.session, d2.ops = d.ops, d2.ex = d.ex,
             \A r : Named(d2.q[Life], r) <=> Named(d.q[Life], r)
      PROVE  Careful(d, d2)
    BY DEF SameNamesCareful
  <2>1. OpIds(d2) = OpIds(d)
    BY DEF OpIds
  <2>2. \A x : Calm(x, x)
    BY DEF Calm, Forward
  <2>3. Orderly(d, d2)
    BY <2>1, <2>2, CustodyFactsHold DEF CustodyFacts, OpsOrderly
  <2> QED BY <2>1, <2>3, CustodyFactsHold DEF CustodyFacts, OpsCareful
<1>SetJobCareful. SetJobCareful
  <2> SUFFICES
      ASSUME NEW d \in DB, NEW p \in Partitions, NEW r, NEW st \in {"due", "backoff"}
      PROVE  Careful(d, SetJob(d, p, r, st))
    BY DEF SetJobCareful
  <2> DEFINE d2 == SetJob(d, p, r, st)
  <2>1. /\ d2 \in DB /\ d2.q[p] = Marked(d.q[p], r, st)
        /\ \A x \in Partitions : x # p => d2.q[x] = d.q[x]
        /\ d2.ops = d.ops /\ d2.session = d.session /\ d2.ex = d.ex
    BY OperationFactsHold, SMTT(30) DEF OperationFacts, SetJobIs
  <2> HIDE DEF d2
  <2>2. d.q[p] \in Seq(JobRow)
    BY RowFactsHold DEF RowFacts, DBFields
  <2>3. \A x \in Partitions : \A y : Named(d2.q[x], y) <=> Named(d.q[x], y)
    BY <2>1, <2>2, SequenceFactsHold, SMTT(30) DEF SequenceFacts, MarkedIs
  <2> QED BY <2>1, <2>3, <1>SameNamesCareful, RowFactsHold DEF d2, SameNamesCareful, RowFacts, PartitionFacts
<1>RemoveOtherCareful. RemoveOtherCareful
  <2> SUFFICES
      ASSUME NEW d \in DB, NEW p \in Partitions, NEW r, p # Life
      PROVE  Careful(d, RemoveJob(d, p, r))
    BY DEF RemoveOtherCareful
  <2> DEFINE d2 == RemoveJob(d, p, r)
  <2>1. /\ d2 \in DB /\ \A x \in Partitions : x # p => d2.q[x] = d.q[x]
        /\ d2.ops = d.ops /\ d2.session = d.session /\ d2.ex = d.ex
    BY OperationFactsHold, SMTT(30) DEF OperationFacts, RemoveJobIs
  <2> HIDE DEF d2
  <2> QED BY <2>1, <1>SameNamesCareful, RowFactsHold DEF d2, SameNamesCareful, RowFacts, PartitionFacts
<1>EnqueueOtherCareful. EnqueueOtherCareful
  <2> SUFFICES
      ASSUME NEW d \in DB, NEW p \in Partitions, NEW r \in Nat \ {0}, p # Life
      PROVE  Careful(d, Enqueue(d, p, r))
    BY DEF EnqueueOtherCareful
  <2> DEFINE d2 == Enqueue(d, p, r)
  <2>1. /\ d2 \in DB /\ \A x \in Partitions : x # p => d2.q[x] = d.q[x]
        /\ d2.ops = d.ops /\ d2.session = d.session /\ d2.ex = d.ex
    BY OperationFactsHold, SMTT(30) DEF OperationFacts, EnqueueIs
  <2> HIDE DEF d2
  <2> QED BY <2>1, <1>SameNamesCareful, RowFactsHold DEF d2, SameNamesCareful, RowFacts, PartitionFacts
<1> QED BY <1>ReplaceMissingActivationCareful, <1>SetBoundCareful, <1>ObserveUnknownActivationCareful,
   <1>ParkBlockedReleaseKeeps, <1>AuthorizeReleaseCareful, <1>RearmReleaseCareful, <1>CompleteReleaseCareful,
   <1>FinalizeExhaustedLifecycleCareful, <1>SameNamesCareful, <1>SetJobCareful, <1>RemoveOtherCareful,
   <1>EnqueueOtherCareful DEF LifecycleCare

-----------------------------------------------------------------------------
(* The transactions of executions keep the custody of releases.            *)

\* A new row for an execution that is not opened.
SetExOrderly ==
  \A d \in DB, e \in Tools, x \in ExRow : (Plain(d) => ExCalm(d.ex[e], x)) => Orderly(d, SetEx(d, e, x))

\* One that goes on blocking.
SetExCareful ==
  \A d \in DB, e \in Tools, x \in ExRow :
    (Plain(d) => ExCalm(d.ex[e], x) /\ ExBlocks(d.ex[e], x)) => Careful(d, SetEx(d, e, x))

\* One that does not, and the releases it unblocks.
SetExReadyCareful ==
  \A d \in DB, e \in Tools, x \in ExRow :
    (Plain(d) => ExCalm(d.ex[e], x)) => Careful(d, ReadyReleases(SetEx(d, e, x)))

\* A result is recorded.
SettleCareful ==
  \A d \in DB, e \in Tools : \A g : \A out \in Outs :
    Careful(d, Settle(d, e, g, out)) /\ (Settle(d, e, g, out) = d \/ d.ex[e].state \notin Ended)

\* An execution waits for an activation.
WaitForActivationCareful ==
  \A d \in DB, e \in Tools : \A g, o, need : Careful(d, WaitForActivation(d, e, g, o, need).db)

\* An execution waits for a materialization.
WaitForMaterializationCareful ==
  \A d \in DB, e \in Tools : \A g, o : Careful(d, WaitForMaterialization(d, e, g, o).db)

\* An execution is prepared, or authorized.
TransitionCareful ==
  \A d \in DB, e \in Tools : \A g, o : \A from \in {"pending", "preparing"}, to \in {"preparing", "running"} :
    Careful(d, Transition(d, e, g, o, from, to).db)

\* A command goes on in the background: it blocks in place of its execution.
SettleBackgroundCareful == \A d \in DB, e \in Tools : \A g : Careful(d, SettleBackground(d, e, g))

\* A command gets its name.
RecordCareful == \A d \in DB, e \in Tools : \A g : Careful(d, RecordProviderCommandReference(d, e, g).db)

\* Marks that block nothing.
MarksCareful ==
  \A d \in DB, e \in Tools :
    /\ Careful(d, ClearCancellation(d, e))
    /\ Careful(d, SetEx(d, e, [d.ex[e] EXCEPT !.cancel = "submitted"]))
    /\ Careful(d, SetEx(d, e, [d.ex[e] EXCEPT !.late = TRUE]))

\* A background task ends.
TaskEndsCareful ==
  \A d \in DB, e \in Tools :
    d.ex[e].task # 0 => Careful(d, ReadyReleases(SetEx(d, e, [d.ex[e] EXCEPT !.task = 0])))

\* The budget of an execution is spent.
FinalizeExecutionCareful == \A d \in DB, e \in Tools : \A g : Careful(d, FinalizeExhaustedExecution(d, e, g).db)

\* The executions' part of the custody of releases.
ExecutionCare ==
  /\ SetExOrderly /\ SetExCareful /\ SetExReadyCareful /\ SettleCareful /\ WaitForActivationCareful
  /\ WaitForMaterializationCareful /\ TransitionCareful /\ SettleBackgroundCareful /\ RecordCareful
  /\ MarksCareful /\ TaskEndsCareful /\ FinalizeExecutionCareful

\* These facts hold.
LEMMA ExecutionCareHold == ASSUME OrderFacts PROVE ExecutionCare
<1>ThenDb. \A d, pc : Then(d, pc).db = d /\ Then(d, pc).pc = pc
  BY DEF Then
<1>Refl. \A d \in DB : Careful(d, d)
  BY CustodyFactsHold DEF CustodyFacts, CarefulRefl
<1>SetExOrderly. SetExOrderly
  <2> SUFFICES
      ASSUME NEW d \in DB, NEW e \in Tools, NEW x \in ExRow, Plain(d) => ExCalm(d.ex[e], x)
      PROVE  Orderly(d, SetEx(d, e, x))
    BY DEF SetExOrderly
  <2> DEFINE d2 == SetEx(d, e, x)
  <2>1. ExOnly(d, d2) /\ d2.ex[e] = x /\ \A f \in Tools : f # e => d2.ex[f] = d.ex[f]
    BY ExRowFactsHold DEF ExRowFacts, SetExIs
  <2> HIDE DEF d2
  <2>2. \A y : ExCalm(y, y)
    BY DEF ExCalm
  <2>3. d2 \in DB /\ d2.session = d.session /\ d2.ops = d.ops /\ d2.q[Life] = d.q[Life]
    BY <2>1 DEF ExOnly
  <2>4. Plain(d) => \A f \in Tools : ExCalm(d.ex[f], d2.ex[f])
    BY <2>1, <2>2
  <2> QED BY <2>3, <2>4, CustodyFactsHold DEF CustodyFacts, ExOrderly, d2
<1>SetExCareful. SetExCareful
  <2> SUFFICES
      ASSUME NEW d \in DB, NEW e \in Tools, NEW x \in ExRow,
             Plain(d) => ExCalm(d.ex[e], x) /\ ExBlocks(d.ex[e], x)
      PROVE  Careful(d, SetEx(d, e, x))
    BY DEF SetExCareful
  <2> DEFINE d2 == SetEx(d, e, x)
  <2>1. ExOnly(d, d2) /\ d2.ex[e] = x /\ \A f \in Tools : f # e => d2.ex[f] = d.ex[f]
    BY ExRowFactsHold DEF ExRowFacts, SetExIs
  <2> HIDE DEF d2
  <2>2. \A y : ExCalm(y, y) /\ ExBlocks(y, y)
    BY DEF ExCalm, ExBlocks
  <2>3. d2 \in DB /\ d2.session = d.session /\ d2.ops = d.ops /\ d2.q[Life] = d.q[Life]
    BY <2>1 DEF ExOnly
  <2>4. Plain(d) => \A f \in Tools : ExCalm(d.ex[f], d2.ex[f]) /\ ExBlocks(d.ex[f], d2.ex[f])
    BY <2>1, <2>2
  <2> QED BY <2>3, <2>4, CustodyFactsHold DEF CustodyFacts, ExCareful, d2
<1>SetExReadyCareful. SetExReadyCareful
  <2> SUFFICES
      ASSUME NEW d \in DB, NEW e \in Tools, NEW x \in ExRow, Plain(d) => ExCalm(d.ex[e], x)
      PROVE  Careful(d, ReadyReleases(SetEx(d, e, x)))
    BY DEF SetExReadyCareful
  <2>1. Orderly(d, SetEx(d, e, x))
    BY <1>SetExOrderly DEF SetExOrderly
  <2> QED BY <2>1, CustodyFactsHold DEF CustodyFacts, ReadyCareful
<1>SettleCareful. SettleCareful
  <2> SUFFICES
      ASSUME NEW d \in DB, NEW e \in Tools, NEW g, NEW out \in Outs
      PROVE  Careful(d, Settle(d, e, g, out)) /\ (Settle(d, e, g, out) = d \/ d.ex[e].state \notin Ended)
    BY DEF SettleCareful
  <2> DEFINE x == SettleRow(d.ex[e], out)
             d2 == ReadyReleases(SetEx(d, e, x))
  <2>1. Settle(d, e, g, out) = d \/ (Settle(d, e, g, out) = d2 /\ d.ex[e].state \notin Ended)
    <3>1. Settle(d, e, g, out) = IF d.ex[e].gen = g /\ d.ex[e].state \notin {"terminal", "consumed"} THEN d2 ELSE d
      BY DEF Settle
    <3> HIDE DEF d2
    <3>2. CASE d.ex[e].gen = g /\ d.ex[e].state \notin {"terminal", "consumed"}
      <4>1. Settle(d, e, g, out) = d2
        BY <3>1, <3>2
      <4>2. d.ex[e].state \notin Ended
        BY <3>2 DEF Ended
      <4> QED BY <4>1, <4>2
    <3>3. CASE ~(d.ex[e].gen = g /\ d.ex[e].state \notin {"terminal", "consumed"})
      <4>1. Settle(d, e, g, out) = d
        BY <3>1, <3>3
      <4> QED BY <4>1
    <3> QED BY <3>2, <3>3
  <2>2. x \in ExRow /\ x.state = "terminal"
    BY RowFactsHold, ExRowFactsHold DEF RowFacts, DBFields, ExRowFacts, SettleRowIs
  <2> HIDE DEF x
  <2>3. ExCalm(d.ex[e], x)
    BY <2>2 DEF ExCalm, Ended, OpenStates
  <2>4. Careful(d, d2)
    BY <2>2, <2>3, <1>SetExReadyCareful DEF SetExReadyCareful
  <2> HIDE DEF d2
  <2> QED BY <2>1, <2>4, <1>Refl
<1>WaitForActivationCareful. WaitForActivationCareful
  <2> SUFFICES
      ASSUME NEW d \in DB, NEW e \in Tools, NEW g, NEW o, NEW need
      PROVE  Careful(d, WaitForActivation(d, e, g, o, need).db)
    BY DEF WaitForActivationCareful
  <2> DEFINE b == [d.bnd EXCEPT !.exists = TRUE, !.rev = 1]
             d1 == IF d.bnd.exists THEN d ELSE SetBnd(d, b)
             A == UnfinishedActivation(d1)
             op == NewActivation(d1, need)
             artifact == IF op.kind = "start" THEN "ready" ELSE d.artifact[Generation(d)]
             op1 == [op EXCEPT !.state = IF artifact = "ready" THEN "pending" ELSE "waiting_artifact"]
             d2 == IF A # {} THEN d1 ELSE InsertOp(d1, op1)
             a == IF A # {} THEN CHOOSE x \in A : TRUE ELSE Len(d2.ops)
             x == [d.ex[e] EXCEPT !.state = "waiting_activation", !.op = a, !.auth = 0, !.late = FALSE]
             s0 == Settle(d, e, g, "failed")
             s1 == Settle(d1, e, g, "failed")
             d3 == ReadyReleases(SetEx(d2, e, x))
             t == WaitForActivation(d, e, g, o, need)
  <2>1. \/ t \in {Then(d, "retry"), Then(d, "error"), Then(s0, "done"), Then(s1, "done")}
        \/ t = Then(d3, "done") /\ d.ex[e].gen = g /\ d.ex[e].state \in {"pending", "preparing"}
    BY DEF WaitForActivation
  <2> HIDE DEF t
  <2>2. b \in BndRow
    <3>1. d.bnd \in BndRow
      BY RowFactsHold DEF RowFacts, DBFields
    <3> QED BY <3>1 DEF BndRow
  <2> HIDE DEF b
  <2>3. Careful(d, d1) /\ LifeOnly(d, d1)
    BY <2>2, ReleaseCareHold, ReleaseTxHold, RowFactsHold, <1>Refl DEF ReleaseCare, SetBndCareful, ReleaseTx,
       SetBndSound, RowFacts, LifeOnlyRefl
  <2> HIDE DEF d1
  <2>4. d1 \in DB /\ d1.ex = d.ex
    BY <2>3 DEF LifeOnly
  <2>5. op1 \in OpRow /\ op1.kind # "release"
    <3>1. op1 \in OpRow /\ op \in OpRow
      BY <2>4, WaitTxHold DEF OpStates, WaitTx, NewActivationIsRow
    <3>2. op.kind \in {"start", "create", "replace"}
      <4>1. CASE op = Operation(d1, "start", d1.bnd.handle)
        BY <4>1, SMTT(30) DEF Operation
      <4>2. CASE op = [Operation(d1, IF d1.bnd.handle = 0 THEN "create" ELSE "replace", 0)
                         EXCEPT !.env = Generation(d1)]
        BY <4>2, SMTT(30) DEF Operation
      <4> QED BY <4>1, <4>2 DEF NewActivation
    <3> HIDE DEF op, artifact
    <3> QED BY <3>1, <3>2 DEF OpRow
  <2> HIDE DEF op1
  <2>6. Careful(d1, d2) /\ LifeOnly(d1, d2)
    BY <2>4, <2>5, ReleaseCareHold, ReleaseTxHold, RowFactsHold, <1>Refl DEF ReleaseCare, InsertOpCareful,
       ReleaseTx, InsertOpSound, RowFacts, LifeOnlyRefl
  <2> HIDE DEF d2
  <2>7. Careful(d, d2) /\ d2 \in DB /\ d2.ex = d.ex
    BY <2>3, <2>4, <2>6, CustodyFactsHold DEF CustodyFacts, CarefulTrans, LifeOnly
  <2>8. a \in Nat
    BY <2>4, <2>7, ClaimTxHold, RowFactsHold DEF ClaimTx, UnfinishedAreOps, RowFacts, DBFields
  <2> HIDE DEF a, A
  <2>9. d.ex[e] \in ExRow
    BY RowFactsHold DEF RowFacts, DBFields
  <2>10. x \in ExRow /\ x.state = "waiting_activation" /\ x.task = d.ex[e].task
    BY <2>8, <2>9 DEF ExRow
  <2> HIDE DEF x
  <2>11. d.ex[e].state \in {"pending", "preparing"} => Careful(d, d3)
    <3>1. d.ex[e].state \in {"pending", "preparing"} => ExCalm(d2.ex[e], x)
      BY <2>7, <2>10 DEF ExCalm, OpenStates, Ended
    <3>2. d.ex[e].state \in {"pending", "preparing"} => Careful(d2, d3)
      BY <2>7, <2>10, <3>1, <1>SetExReadyCareful DEF SetExReadyCareful
    <3> QED BY <2>7, <3>2, CustodyFactsHold DEF CustodyFacts, CarefulTrans
  <2> HIDE DEF d3
  <2>12. Careful(d, s0) /\ Careful(d1, s1)
    BY <2>4, <1>SettleCareful DEF Outs, SettleCareful
  <2> HIDE DEF s0, s1
  <2>13. Careful(d, s1)
    BY <2>3, <2>12, CustodyFactsHold DEF CustodyFacts, CarefulTrans
  <2> QED BY <2>1, <2>11, <2>12, <2>13, <1>ThenDb, <1>Refl, SMTT(30) DEF t
<1>WaitForMaterializationCareful. WaitForMaterializationCareful
  <2> SUFFICES
      ASSUME NEW d \in DB, NEW e \in Tools, NEW g, NEW o
      PROVE  Careful(d, WaitForMaterialization(d, e, g, o).db)
    BY DEF WaitForMaterializationCareful
  <2> DEFINE s0 == Settle(d, e, g, "failed")
             d1 == AttachToMaterialization(d, {e})
             d3 == ReadyReleases(d1)
             t == WaitForMaterialization(d, e, g, o)
  <2>1. \/ t \in {Then(d, "retry"), Then(d, "error"), Then(s0, "done")}
        \/ t = Then(d3, "done") /\ d.ex[e].gen = g /\ d.ex[e].state = "pending"
    BY DEF WaitForMaterialization
  <2> HIDE DEF t
  <2>2. Careful(d, s0)
    BY <1>SettleCareful DEF Outs, SettleCareful
  <2> HIDE DEF s0
  <2>3. d.ex[e].state = "pending" => Careful(d, d3)
    <3>1. d.ex[e].state = "pending" => Careful(d, d1)
      BY FailureCareHold, SMTT(30) DEF FailureCare, AttachToMaterializationCareful
    <3> QED BY <3>1, CustodyFactsHold DEF CustodyFacts, ReadyCareful, Careful
  <2> HIDE DEF d3
  <2> QED BY <2>1, <2>2, <2>3, <1>ThenDb, <1>Refl, SMTT(30) DEF t
<1>TransitionCareful. TransitionCareful
  <2> SUFFICES
      ASSUME NEW d \in DB, NEW e \in Tools, NEW g, NEW o,
             NEW from \in {"pending", "preparing"}, NEW to \in {"preparing", "running"}
      PROVE  Careful(d, Transition(d, e, g, o, from, to).db)
    BY DEF TransitionCareful
  <2> DEFINE x == d.ex[e]
             x1 == [x EXCEPT !.state = "pending", !.auth = 0, !.late = FALSE]
             x2 == IF to = "preparing" THEN [x EXCEPT !.state = to, !.auth = d.bnd.handle,
                                                      !.arev = d.bnd.rev, !.late = FALSE]
                   ELSE [x EXCEPT !.state = to]
             pc == IF to = "preparing" THEN "authorize" ELSE "submit"
             s0 == Settle(d, e, g, "failed")
             r0 == ReadyReleases(d)
             r1 == ReadyReleases(SetEx(d, e, x1))
             r2 == ReadyReleases(SetEx(d, e, x2))
             t == Transition(d, e, g, o, from, to)
  <2>1. \/ t = Then(d, "done")
        \/ t = Then(s0, "done")
        \/ t = Then(r1, "retry") /\ x.state = "preparing"
        \/ t = Then(r0, "retry")
        \/ t = Then(r0, pc)
        \/ t = Then(r0, "done")
        \/ t = Then(r2, pc) /\ x.state = from
    BY DEF Transition
  <2> HIDE DEF t
  <2>2. Careful(d, s0)
    BY <1>SettleCareful DEF Outs, SettleCareful
  <2>3. Careful(d, r0)
    BY CustodyFactsHold DEF CustodyFacts, ReadyCareful
  <2>4. x \in ExRow /\ d.bnd.handle \in Nat /\ d.bnd.rev \in Nat
    BY RowFactsHold DEF BndRow, RowFacts, DBFields
  <2>5. x1 \in ExRow /\ x1.state = "pending" /\ x1.task = x.task
    BY <2>4 DEF ExRow
  <2>6. x2 \in ExRow /\ x2.state = to /\ x2.task = x.task
    <3> HIDE DEF x
    <3>1. CASE to = "preparing"
      BY <2>4, <3>1 DEF ExRow
    <3>2. CASE to = "running"
      BY <2>4, <3>2 DEF ExRow
    <3> QED BY <3>1, <3>2
  <2> HIDE DEF s0, r0, x1, x2
  <2>7. x.state = "preparing" => Careful(d, r1)
    <3>1. x.state = "preparing" => ExCalm(x, x1)
      BY <2>5 DEF ExCalm, OpenStates, Ended
    <3> QED BY <2>5, <3>1, <1>SetExReadyCareful DEF SetExReadyCareful
  <2>8. x.state = from => Careful(d, r2)
    <3>1. x.state = from => ExCalm(x, x2)
      BY <2>6 DEF ExCalm, OpenStates, Ended
    <3> QED BY <2>6, <3>1, <1>SetExReadyCareful DEF SetExReadyCareful
  <2> HIDE DEF r1, r2, x
  <2> QED BY <2>1, <2>2, <2>3, <2>7, <2>8, <1>ThenDb, <1>Refl, SMTT(30) DEF t
<1>SettleBackgroundCareful. SettleBackgroundCareful
  <2> SUFFICES
      ASSUME NEW d \in DB, NEW e \in Tools, NEW g
      PROVE  Careful(d, SettleBackground(d, e, g))
    BY DEF SettleBackgroundCareful
  <2> DEFINE h == d.ex[e].auth
             d1 == Settle(d, e, g, "ran")
             y == [d1.ex[e] EXCEPT !.task = h]
             d2 == SetEx(d1, e, y)
  <2>1. SettleBackground(d, e, g) = IF d1 = d THEN d ELSE d2
    BY DEF SettleBackground
  <2>2. /\ Careful(d, d1) /\ d1 \in DB
        /\ d1 = d \/ d.ex[e].state \notin Ended
    BY <1>SettleCareful DEF Outs, SettleCareful, Careful, Orderly
  <2>3. d1.ex[e] = SettledRow(d.ex[e], g, "ran") /\ (d1 = d \/ Settles(d, e, g))
    BY InterruptTxHold, SMTT(30) DEF Outs, SettledRow, Settles, InterruptTx, SettleIs
  <2> HIDE DEF d1
  <2>4. h \in Nat /\ d1.ex[e] \in ExRow /\ d.ex[e] \in ExRow
    BY <2>2, RowFactsHold DEF ExRow, RowFacts, DBFields
  <2> HIDE DEF h
  <2>5. y \in ExRow /\ y.state = d1.ex[e].state
    BY <2>4 DEF ExRow
  <2> HIDE DEF y
  <2>6. ASSUME d1 # d, Plain(d) PROVE d1.ex[e].state = "terminal" /\ d1.ex[e].task = 0
    <3>1. d1.ex[e] = SettleRow(d.ex[e], "ran")
      BY <2>3, <2>6 DEF SettledRow, Settles
    <3>2. d.ex[e].task = 0
      BY <2>2, <2>6 DEF Plain
    <3>3. SettleRow(d.ex[e], "ran").task = d.ex[e].task /\ SettleRow(d.ex[e], "ran").state = "terminal"
      BY <2>4 DEF SettleRow, ExRow
    <3> QED BY <3>1, <3>2, <3>3
  <2>7. ASSUME d1 # d, Plain(d) PROVE Careful(d, d2)
    <3>1. ExCalm(d1.ex[e], y) /\ ExBlocks(d1.ex[e], y)
      BY <2>5, <2>6, <2>7 DEF ExCalm, ExBlocks, OpenStates, Ended
    <3>2. Careful(d1, d2)
      BY <2>2, <2>5, <3>1, <1>SetExCareful DEF SetExCareful
    <3> QED BY <2>2, <3>2, CustodyFactsHold DEF CustodyFacts, CarefulTrans
  <2>8. d2 \in DB /\ OpIds(d) \subseteq OpIds(d2)
    <3>1. d2 \in DB /\ d2.ops = d1.ops
      BY <2>2, <2>5, ExRowFactsHold DEF ExRowFacts, SetExIs, ExOnly
    <3> QED BY <2>2, <3>1 DEF Careful, Orderly, OpIds
  <2> HIDE DEF d2
  <2>9. d1 # d => Careful(d, d2)
    BY <2>7, <2>8 DEF Careful, Orderly
  <2> QED BY <2>1, <2>9, <1>Refl
<1>RecordCareful. RecordCareful
  <2> SUFFICES
      ASSUME NEW d \in DB, NEW e \in Tools, NEW g
      PROVE  Careful(d, RecordProviderCommandReference(d, e, g).db)
    BY DEF RecordCareful
  <2> DEFINE x == d.ex[e]
             y == [x EXCEPT !.ref = TRUE]
             d2 == SetEx(d, e, y)
             t == RecordProviderCommandReference(d, e, g)
  <2>1. t = Then(d2, "observe") \/ t = Then(d, "done")
    BY DEF RecordProviderCommandReference
  <2>2. x \in ExRow
    BY RowFactsHold DEF RowFacts, DBFields
  <2>3. y \in ExRow /\ y.state = x.state /\ y.auth = x.auth /\ y.task = x.task
    BY <2>2 DEF ExRow
  <2> HIDE DEF t, y
  <2>4. ExCalm(x, y) /\ ExBlocks(x, y)
    BY <2>3 DEF ExCalm, ExBlocks
  <2>5. Careful(d, d2)
    BY <2>3, <2>4, <1>SetExCareful DEF SetExCareful
  <2> HIDE DEF d2
  <2> QED BY <2>1, <2>5, <1>ThenDb, <1>Refl, SMTT(30) DEF t
<1>MarksCareful. MarksCareful
  <2> SUFFICES
      ASSUME NEW d \in DB, NEW e \in Tools
      PROVE  /\ Careful(d, ClearCancellation(d, e))
             /\ Careful(d, SetEx(d, e, [d.ex[e] EXCEPT !.cancel = "submitted"]))
             /\ Careful(d, SetEx(d, e, [d.ex[e] EXCEPT !.late = TRUE]))
    BY DEF MarksCareful
  <2> DEFINE x == d.ex[e]
             y1 == [x EXCEPT !.cancel = "none", !.ref = FALSE]
             y2 == [x EXCEPT !.cancel = "submitted"]
             y3 == [x EXCEPT !.late = TRUE]
  <2>1. x \in ExRow
    BY RowFactsHold DEF RowFacts, DBFields
  <2>2. y1 \in ExRow /\ y1.state = x.state /\ y1.auth = x.auth /\ y1.task = x.task
    BY <2>1 DEF ExRow
  <2>3. y2 \in ExRow /\ y2.state = x.state /\ y2.auth = x.auth /\ y2.task = x.task
    BY <2>1 DEF ExRow
  <2>4. y3 \in ExRow /\ y3.state = x.state /\ y3.auth = x.auth /\ y3.task = x.task
    BY <2>1 DEF ExRow
  <2>5. ClearCancellation(d, e) = SetEx(d, e, y1)
    BY DEF ClearCancellation
  <2> HIDE DEF y1, y2, y3
  <2>6. \A y : y.state = x.state /\ y.auth = x.auth /\ y.task = x.task => ExCalm(x, y) /\ ExBlocks(x, y)
    BY DEF ExCalm, ExBlocks
  <2>7. Careful(d, SetEx(d, e, y1)) /\ Careful(d, SetEx(d, e, y2)) /\ Careful(d, SetEx(d, e, y3))
    BY <2>2, <2>3, <2>4, <2>6, <1>SetExCareful DEF SetExCareful
  <2> QED BY <2>5, <2>7 DEF y2, y3
<1>TaskEndsCareful. TaskEndsCareful
  <2> SUFFICES
      ASSUME NEW d \in DB, NEW e \in Tools, d.ex[e].task # 0
      PROVE  Careful(d, ReadyReleases(SetEx(d, e, [d.ex[e] EXCEPT !.task = 0])))
    BY DEF TaskEndsCareful
  <2> DEFINE x == d.ex[e]
             y == [x EXCEPT !.task = 0]
  <2>1. x \in ExRow
    BY RowFactsHold DEF RowFacts, DBFields
  <2>2. y \in ExRow /\ y.state = x.state
    BY <2>1 DEF ExRow
  <2> HIDE DEF y
  <2>3. Plain(d) => x.state \in Ended
    BY DEF Plain
  <2>4. Plain(d) => ExCalm(x, y)
    BY <2>2, <2>3 DEF ExCalm, OpenStates, Ended
  <2>5. Careful(d, ReadyReleases(SetEx(d, e, y)))
    BY <2>2, <2>4, <1>SetExReadyCareful DEF SetExReadyCareful
  <2> QED BY <2>5 DEF y
<1>FinalizeExecutionCareful. FinalizeExecutionCareful
  <2> SUFFICES
      ASSUME NEW d \in DB, NEW e \in Tools, NEW g
      PROVE  Careful(d, FinalizeExhaustedExecution(d, e, g).db)
    BY DEF FinalizeExecutionCareful
  <2> DEFINE out == IF d.ex[e].state = "running" THEN "unknown" ELSE "failed"
             s0 == Settle(d, e, g, out)
             t == FinalizeExhaustedExecution(d, e, g)
  <2>1. t = Then(d, "done") \/ t = Then(d, "error") \/ t = Then(s0, "done")
    BY DEF FinalizeExhaustedExecution
  <2>2. out \in Outs
    BY DEF Outs
  <2> HIDE DEF out, t
  <2>3. Careful(d, s0)
    BY <2>2, <1>SettleCareful DEF SettleCareful
  <2> HIDE DEF s0
  <2> QED BY <2>1, <2>3, <1>ThenDb, <1>Refl, SMTT(30) DEF t
<1> QED BY <1>SetExOrderly, <1>SetExCareful, <1>SetExReadyCareful, <1>SettleCareful, <1>WaitForActivationCareful,
   <1>WaitForMaterializationCareful, <1>TransitionCareful, <1>SettleBackgroundCareful, <1>RecordCareful,
   <1>MarksCareful, <1>TaskEndsCareful, <1>FinalizeExecutionCareful DEF ExecutionCare

-----------------------------------------------------------------------------
(* The transactions from outside keep the custody of releases.             *)

\* The end of the Runtime; a Session that is not live has no open executions.
ConsumeAllCareful ==
  \A d \in DB : /\ Careful(d, ReadyReleases(ConsumeAll(d)))
                /\ d.session # "live" => Careful(d, ConsumeAll(d))

\* An interrupt.
InterruptToolsCareful ==
  \A d \in DB : \A S \in SUBSET Open(d) : Careful(d, ReadyReleases(InterruptTools(d, S)))

\* Operations that waited for an artifact go on.
FanoutCareful ==
  \A d \in DB : \A g :
    Careful(d, QueueOps(SetStates(d, WaitingArtifact(d, g), "pending"), WaitingArtifact(d, g)))

\* Or fail.
FailWaitingArtifactCareful == \A d \in DB : \A g : Careful(d, FailWaitingArtifact(d, g))

\* A Tool call is accepted.
AcceptCareful ==
  \A d \in DB, e \in Tools :
    d.session = "live" /\ d.ex[e].state = "none" =>
      Careful(d, Enqueue(SetEx(d, e, [d.ex[e] EXCEPT !.state = "pending", !.gen = 1]), Exec(e), 1))

\* The Session changes while no execution is open.
SessionCareful ==
  \A d, d2 \in DB :
    /\ d2.ops = d.ops /\ d2.ex = d.ex /\ d2.q = d.q
    /\ Open(d) = {} \/ d.session # "live"
    =>
      Careful(d, d2)

\* The rows are purged.
PurgeCareful ==
  \A d, d2 \in DB :
    /\ OpIds(d2) = OpIds(d) /\ d2.q = d.q
    /\ \A o \in OpIds(d) : d2.ops[o] = [d.ops[o] EXCEPT !.state = "deleted"]
    /\ \A e \in Tools : d2.ex[e] = Execution
    =>
      Careful(d, d2)

\* The transactions from outside.
DemandCare ==
  /\ ConsumeAllCareful /\ InterruptToolsCareful /\ FanoutCareful /\ FailWaitingArtifactCareful
  /\ AcceptCareful /\ SessionCareful /\ PurgeCareful

\* These facts hold.
LEMMA DemandCareHold == ASSUME OrderFacts PROVE DemandCare
<1>ConsumeAllCareful. ConsumeAllCareful
  <2> SUFFICES
      ASSUME NEW d \in DB
      PROVE  /\ Careful(d, ReadyReleases(ConsumeAll(d)))
             /\ d.session # "live" => Careful(d, ConsumeAll(d))
    BY DEF ConsumeAllCareful
  <2> DEFINE d2 == ConsumeAll(d)
  <2>1. d2.ex = [e \in Tools |-> IF e \in Open(d) THEN Consume(d.ex[e], "expired") ELSE d.ex[e]]
    BY DEF ConsumeAll, DB
  <2>2. ExOnly(d, d2)
    BY InterruptTxHold DEF InterruptTx, ConsumeAllSound
  <2> HIDE DEF d2
  <2>3. d2 \in DB /\ d2.session = d.session /\ d2.ops = d.ops /\ d2.q[Life] = d.q[Life]
    BY <2>2 DEF ExOnly
  <2>4. ASSUME NEW e \in Tools
        PROVE  ExCalm(d.ex[e], d2.ex[e]) /\ (e \notin Open(d) => d2.ex[e] = d.ex[e])
    <3>1. CASE e \in Open(d)
      <4>1. d.ex[e] \in ExRow
        BY RowFactsHold DEF RowFacts, DBFields
      <4>2. d2.ex[e].state = "consumed"
        BY <2>1, <3>1, <4>1 DEF Consume, ExRow
      <4> QED BY <3>1, <4>2 DEF ExCalm, OpenStates, Ended
    <3>2. CASE e \notin Open(d)
      BY <2>1, <3>2 DEF ExCalm
    <3> QED BY <3>1, <3>2
  <2>5. Careful(d, ReadyReleases(d2))
    <3>1. Orderly(d, d2)
      BY <2>3, <2>4, CustodyFactsHold DEF CustodyFacts, ExOrderly
    <3> QED BY <3>1, CustodyFactsHold DEF CustodyFacts, ReadyCareful
  <2>6. ASSUME d.session # "live" PROVE Careful(d, d2)
    <3>1. ASSUME Plain(d), NEW e \in Tools PROVE e \notin Open(d)
      BY <2>6, <3>1, LifecycleTxHold DEF Plain, LifecycleTx, OpenAre
    <3>2. \A x : ExBlocks(x, x)
      BY DEF ExBlocks
    <3>3. Plain(d) => \A e \in Tools : ExCalm(d.ex[e], d2.ex[e]) /\ ExBlocks(d.ex[e], d2.ex[e])
      BY <2>4, <3>1, <3>2
    <3> QED BY <2>3, <3>3, CustodyFactsHold DEF CustodyFacts, ExCareful
  <2> QED BY <2>5, <2>6 DEF d2
<1>InterruptToolsCareful. InterruptToolsCareful
  <2> SUFFICES
      ASSUME NEW d \in DB, NEW S \in SUBSET Open(d)
      PROVE  Careful(d, ReadyReleases(InterruptTools(d, S)))
    BY DEF InterruptToolsCareful
  <2> DEFINE d2 == InterruptTools(d, S)
  <2>1. /\ d2 \in DB /\ d2.session = d.session /\ d2.ops = d.ops /\ d2.q[Life] = d.q[Life]
        /\ \A e \in Tools : d2.ex[e] = IF e \in S THEN InterruptRow(d.ex[e]) ELSE d.ex[e]
    BY InterruptTxHold, SMTT(30) DEF InterruptTx, InterruptToolsIs
  <2> HIDE DEF d2
  <2>2. ASSUME NEW e \in Tools PROVE ExCalm(d.ex[e], d2.ex[e])
    <3>1. CASE e \in S
      <4>1. d.ex[e] \in ExRow
        BY RowFactsHold DEF RowFacts, DBFields
      <4>2. InterruptRow(d.ex[e]).state = "consumed"
        BY <4>1, ExRowFactsHold DEF ExRowFacts, InterruptRowIs
      <4>3. d2.ex[e].state = "consumed"
        BY <2>1, <3>1, <4>2
      <4> QED BY <4>3 DEF ExCalm, OpenStates, Ended
    <3>2. CASE e \notin S
      BY <2>1, <3>2 DEF ExCalm
    <3> QED BY <3>1, <3>2
  <2>3. Orderly(d, d2)
    BY <2>1, <2>2, CustodyFactsHold DEF CustodyFacts, ExOrderly
  <2> QED BY <2>3, CustodyFactsHold DEF CustodyFacts, ReadyCareful, d2
<1>FanoutCareful. FanoutCareful
  <2> SUFFICES
      ASSUME NEW d \in DB, NEW g
      PROVE  Careful(d, QueueOps(SetStates(d, WaitingArtifact(d, g), "pending"), WaitingArtifact(d, g)))
    BY DEF FanoutCareful
  <2> DEFINE S == WaitingArtifact(d, g)
             d1 == SetStates(d, S, "pending")
  <2>1. S \in SUBSET OpIds(d) /\ \A o \in S : d.ops[o].state = "waiting_artifact"
    BY DEF WaitingArtifact
  <2> HIDE DEF S
  <2>2. Plain(d) => \A o \in OpIds(d) : o \in S => d.ops[o].kind # "release"
    BY <2>1 DEF Plain, Waits
  <2>3. \A o \in OpIds(d) : o \in S => ~Blocking(d.ops[o])
    BY <2>1 DEF Blocking
  <2>4. "pending" \in OpStates
    BY DEF OpStates
  <2>5. Careful(d, d1)
    BY <2>2, <2>3, <2>4, ReleaseCareHold DEF ReleaseCare, SetStatesCareful
  <2>6. LifeOnly(d, d1) /\ OpIds(d1) = OpIds(d)
    BY <2>4, OperationFactsHold, SMTT(30) DEF OperationFacts, SetStatesIs
  <2> HIDE DEF d1
  <2>7. Careful(d1, QueueOps(d1, S))
    BY <2>1, <2>6, ReleaseCareHold DEF LifeOnly, ReleaseCare, QueueOpsCareful
  <2>8. Careful(d, QueueOps(d1, S))
    BY <2>5, <2>7, CustodyFactsHold DEF CustodyFacts, CarefulTrans
  <2> QED BY <2>8 DEF S, d1
<1>FailWaitingArtifactCareful. FailWaitingArtifactCareful
  BY FailureCareHold DEF FailWaitingArtifactCareful, FailWaitingArtifact, FailureCare, FailOpsCareful, Bounds
<1>AcceptCareful. AcceptCareful
  <2> SUFFICES
      ASSUME NEW d \in DB, NEW e \in Tools, d.session = "live", d.ex[e].state = "none"
      PROVE  Careful(d, Enqueue(SetEx(d, e, [d.ex[e] EXCEPT !.state = "pending", !.gen = 1]), Exec(e), 1))
    BY DEF AcceptCareful
  <2> DEFINE x == [d.ex[e] EXCEPT !.state = "pending", !.gen = 1]
             d1 == SetEx(d, e, x)
  <2>1. d.ex[e] \in ExRow
    BY RowFactsHold DEF RowFacts, DBFields
  <2>2. x \in ExRow /\ x.state = "pending" /\ x.task = d.ex[e].task
    BY <2>1 DEF ExRow
  <2> HIDE DEF x
  <2>3. ExOnly(d, d1) /\ d1.ex[e] = x /\ \A f \in Tools : f # e => d1.ex[f] = d.ex[f]
    BY <2>2, ExRowFactsHold DEF ExRowFacts, SetExIs
  <2> HIDE DEF d1
  <2>4. d1 \in DB /\ d1.session = d.session /\ d1.ops = d.ops /\ d1.q[Life] = d.q[Life]
    BY <2>3 DEF ExOnly
  <2>5. OpIds(d1) = OpIds(d)
    BY <2>4 DEF OpIds
  <2>6. ASSUME Plain(d) PROVE Plain(d1)
    <3>1. ASSUME NEW f \in Tools
          PROVE  /\ d1.ex[f].state \in OpenStates => d1.session = "live"
                 /\ d1.ex[f].state \notin Ended => d1.ex[f].task = 0
      <4>1. CASE f = e
        <5>1. d.ex[e].task = 0
          BY <2>6 DEF Plain, Ended
        <5> QED BY <2>2, <2>3, <2>4, <4>1, <5>1
      <4>2. CASE f # e
        BY <2>3, <2>4, <2>6, <4>2 DEF Plain
      <4> QED BY <4>1, <4>2
    <3>2. \A o \in OpIds(d1) : d1.ops[o].kind = "release" => d1.ops[o].state \notin Waits /\ d1.ops[o].target # 0
      BY <2>4, <2>5, <2>6 DEF Plain
    <3>3. \A o \in OpIds(d1) : PendingRow(d1.ops[o]) /\ Named(d1.q[Life], o) => d1.ops[o].job
      BY <2>4, <2>5, <2>6 DEF Plain
    <3> QED BY <3>1, <3>2, <3>3 DEF Plain
  <2>7. Orderly(d, d1)
    <3>1. \A o \in OpIds(d) : Follows(d, d1, o)
      BY <2>4 DEF Follows, Forward
    <3> QED BY <2>4, <2>5, <2>6, <3>1 DEF Orderly
  <2>8. ASSUME Plain(d), Custody(d) PROVE Custody(d1)
    <3> SUFFICES ASSUME NEW r \in OpIds(d1), PendingRelease(d1, r), ~Blocked(d1, r) PROVE HasJob(d1, Life, r)
      BY DEF Custody
    <3>1. r \in OpIds(d) /\ PendingRelease(d, r)
      BY <2>4, <2>5 DEF PendingRelease
    <3>2. \A f \in Tools : /\ d.ex[f].state \in {"preparing", "running"} => d1.ex[f] = d.ex[f]
                           /\ d1.ex[f].task = d.ex[f].task
      BY <2>2, <2>3
    <3>3. ~Blocked(d, r)
      BY <2>4, <2>5, <3>2 DEF Blocked
    <3> QED BY <2>4, <2>8, <3>1, <3>3 DEF Custody, HasJob
  <2>9. Careful(d, d1)
    BY <2>7, <2>8 DEF Careful
  <2>10. Careful(d1, Enqueue(d1, Exec(e), 1))
    <3>1. Exec(e) \in Partitions /\ Exec(e) # Life /\ 1 \in Nat \ {0}
      BY RowFactsHold, SMTT(30) DEF RowFacts, PartitionFacts
    <3> QED BY <2>4, <3>1, LifecycleCareHold DEF LifecycleCare, EnqueueOtherCareful
  <2>11. Careful(d, Enqueue(d1, Exec(e), 1))
    BY <2>9, <2>10, CustodyFactsHold DEF CustodyFacts, CarefulTrans
  <2> QED BY <2>11 DEF d1, x
<1>SessionCareful. SessionCareful
  <2> SUFFICES
      ASSUME NEW d \in DB, NEW d2 \in DB, d2.ops = d.ops, d2.ex = d.ex, d2.q = d.q,
             Open(d) = {} \/ d.session # "live"
      PROVE  Careful(d, d2)
    BY DEF SessionCareful
  <2>1. OpIds(d2) = OpIds(d)
    BY DEF OpIds
  <2>2. ASSUME Plain(d), NEW e \in Tools PROVE d.ex[e].state \notin OpenStates
    <3>1. d.ex[e].state \in OpenStates => e \in Open(d)
      BY DEF Open, OpenStates
    <3> QED BY <2>2, <3>1 DEF Plain
  <2>3. Plain(d) => Plain(d2)
    BY <2>1, <2>2 DEF Plain
  <2>4. \A o \in OpIds(d) : Follows(d, d2, o)
    BY DEF Follows, Forward
  <2>5. Custody(d) => Custody(d2)
    BY <2>1 DEF Custody, PendingRelease, Blocked, HasJob
  <2> QED BY <2>1, <2>3, <2>4, <2>5 DEF Careful, Orderly
<1>PurgeCareful. PurgeCareful
  <2> SUFFICES
      ASSUME NEW d \in DB, NEW d2 \in DB, OpIds(d2) = OpIds(d), d2.q = d.q,
             \A o \in OpIds(d) : d2.ops[o] = [d.ops[o] EXCEPT !.state = "deleted"],
             \A e \in Tools : d2.ex[e] = Execution
      PROVE  Careful(d, d2)
    BY DEF PurgeCareful
  <2>1. ASSUME NEW o \in OpIds(d)
        PROVE  /\ d2.ops[o].kind = d.ops[o].kind /\ d2.ops[o].target = d.ops[o].target
               /\ d2.ops[o].sup = d.ops[o].sup /\ d2.ops[o].state = "deleted"
    <3>1. d.ops[o] \in OpRow
      BY RowFactsHold DEF RowFacts, DBFields
    <3> QED BY <3>1 DEF OpRow
  <2>2. Execution.state = "none" /\ Execution.task = 0
    BY DEF Execution
  <2>3. Plain(d) => Plain(d2)
    <3>1. \A e \in Tools : d2.ex[e].state \notin OpenStates /\ d2.ex[e].task = 0
      BY <2>2 DEF OpenStates
    <3>2. \A o \in OpIds(d2) : ~PendingRow(d2.ops[o]) /\ d2.ops[o].state \notin Waits
      BY <2>1 DEF PendingRow, Waits
    <3> QED BY <2>1, <3>1, <3>2 DEF Plain
  <2>4. \A o \in OpIds(d) : Follows(d, d2, o)
    BY <2>1 DEF Follows, Forward, PendingRow, Waits
  <2>5. Custody(d2)
    BY <2>1 DEF Custody, PendingRelease
  <2> QED BY <2>3, <2>4, <2>5 DEF Careful, Orderly
<1> QED BY <1>ConsumeAllCareful, <1>InterruptToolsCareful, <1>FanoutCareful, <1>FailWaitingArtifactCareful,
   <1>AcceptCareful, <1>SessionCareful, <1>PurgeCareful DEF DemandCare
=============================================================================
