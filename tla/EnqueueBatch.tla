---------------------------- MODULE EnqueueBatch ----------------------------
(***************************************************************************)
(* EnqueueBatchTx and SweepEmptyPartitionCounters of                       *)
(* internal/queue/postgresql_store.go statement by statement: concurrent   *)
(* transactions that lock partition counters, allocate sequences, insert   *)
(* jobs and delete the counters of empty partitions.                       *)
(*                                                                         *)
(* QueueStore takes a committed enqueue as one step; here its counter      *)
(* locks are taken one by one and held until commit, and what it wrote is  *)
(* not seen before.  Keys are ranks in the order the code sorts them.      *)
(***************************************************************************)
EXTENDS Integers, FiniteSets, Sequences, Functions

CONSTANTS
    Producer,   \* transactions that call EnqueueBatchTx
    Sweeper,    \* maintenance transactions
    Partition,  \* ranks of (workspace_id, partition_key)
    Batches,    \* of each producer's transaction, the request sequences it passes
                \* to EnqueueBatchTx, one after another
    Nobody,     \* no transaction holds the counter row
    MaxSeq      \* bound: last_sequence of one counter

VARIABLES
    rows,       \* committed queue_jobs rows
    counter,    \* [Partition -> Nat]: committed last_sequence, 0 when absent
    lock,       \* [Partition -> Tx \cup {Nobody}]: holder of the counter row
    tx          \* per transaction, what each open transaction has done

vars == <<rows, counter, lock, tx>>

Tx == Producer \cup Sweeper

\* A request after NormalizeEnqueueRequest; its dedupe key lives in one partition.
Request == UNION {UNION {Range(bs[n]) : n \in DOMAIN bs} : bs \in Batches}

ASSUME BatchAssumption ==
    /\ Partition \subseteq Nat /\ IsFiniteSet(Partition) /\ MaxSeq \in Nat
    /\ Batches \subseteq Seq(Seq(Request)) \ {<<>>}
    /\ \A r \in Request : r.kind \in Nat /\ r.partition \in Partition /\ r.key \in Nat
    /\ \A q, r \in Request : q.key = r.key => q = r
    /\ Nobody \notin Tx /\ Producer \cap Sweeper = {}

Idle == [phase |-> "idle", batch |-> <<>>, more |-> <<>>, todo |-> {}, made |-> {}, gone |-> {},
         last |-> [p \in Partition |-> 0]]

Held(t) == {p \in Partition : lock[p] = t}
Smallest(S) == CHOOSE p \in S : \A q \in S : p <= q
Occupied(p) == \E r \in rows : r.partition = p

Become(t, state) == tx' = [tx EXCEPT ![t] = state]

-----------------------------------------------------------------------------
(* EnqueueBatchTx.                                                         *)

Begin(t, bs) ==
    /\ tx[t].phase = "idle"
    /\ LET all == UNION {{n} \X DOMAIN bs[n] : n \in DOMAIN bs}
       IN  \A a \in all : counter[bs[a[1]][a[2]].partition] + Cardinality(all) <= MaxSeq
    /\ Become(t, [Idle EXCEPT !.phase = "locking", !.batch = Head(bs), !.more = Tail(bs),
                              !.todo = DOMAIN Head(bs)])
    /\ UNCHANGED <<rows, counter, lock>>

\* The transaction calls EnqueueBatchTx again: the deletion of a Session and the
\* repair of a lost Pod enqueue releases first, then work of the Session.
BeginNext(t) ==
    /\ tx[t].phase = "locking" /\ tx[t].todo = {} /\ tx[t].more # <<>>
    /\ Become(t, [tx[t] EXCEPT !.batch = Head(tx[t].more), !.more = Tail(@),
                               !.todo = DOMAIN Head(tx[t].more)])
    /\ UNCHANGED <<rows, counter, lock>>

\* The distinct partitions of the batch still to be locked.
Unlocked(t) == {tx[t].batch[i].partition : i \in DOMAIN tx[t].batch} \ Held(t)

\* Mutant of NextCounter: counters are locked in request order.
NextCounterInRequestOrder(t) ==
    LET b == tx[t].batch
    IN  b[CHOOSE i \in DOMAIN b :
            /\ b[i].partition \in Unlocked(t)
            /\ \A k \in DOMAIN b : b[k].partition \in Unlocked(t) => i <= k].partition

\* sort.Slice of the distinct keys: ascending, whatever the request order.
NextCounter(t) == Smallest(Unlocked(t))

\* Mutant of LockCounter: the counter is read without waiting for its holder.
LockCounterNoWait(t) ==
    /\ tx[t].phase = "locking" /\ Unlocked(t) # {}
    /\ LET p == NextCounter(t)
       IN  /\ lock' = [lock EXCEPT ![p] = t]
           /\ Become(t, [tx[t] EXCEPT !.last[p] = counter[p]])
    /\ UNCHANGED <<rows, counter>>

\* INSERT ... ON CONFLICT DO UPDATE: creates or locks the counter row, and
\* waits while another open transaction has it.
LockCounter(t) ==
    /\ tx[t].phase = "locking" /\ Unlocked(t) # {}
    /\ LET p == NextCounter(t)
       IN  /\ lock[p] = Nobody
           /\ lock' = [lock EXCEPT ![p] = t]
           /\ Become(t, [tx[t] EXCEPT !.last[p] = counter[p]])
    /\ UNCHANGED <<rows, counter>>

\* The canonical allocation order: kind, partition, dedupe key, stable.
Canonical(b, i, k) ==
    \/ b[i].kind < b[k].kind
    \/ b[i].kind = b[k].kind /\ b[i].partition < b[k].partition
    \/ b[i].kind = b[k].kind /\ b[i].partition = b[k].partition /\ b[i].key < b[k].key
    \/ b[i] = b[k] /\ i < k

\* Mutant of ActiveDuplicate: only committed rows are looked at.
ActiveDuplicateCommitted(t, r) == \E row \in rows : row.key = r.key /\ row.active

\* existingActiveDedupeJob: a committed active row, or one this transaction made.
ActiveDuplicate(t, r) ==
    \/ \E row \in rows : row.key = r.key /\ row.active
    \/ \E row \in tx[t].made : row.key = r.key

\* The request whose turn it is, once every counter is locked.
AllocationHead(t, i) ==
    /\ tx[t].phase = "locking" /\ Unlocked(t) = {}
    /\ i \in tx[t].todo
    /\ \A k \in tx[t].todo \ {i} : Canonical(tx[t].batch, i, k)

\* Mutant of Reuse: the answered request is asked again.
ReuseAsksAgain(t, i) ==
    /\ AllocationHead(t, i)
    /\ ActiveDuplicate(t, tx[t].batch[i])
    /\ UNCHANGED vars

\* The dedupe lookup answers the request with the existing job.
Reuse(t, i) ==
    /\ AllocationHead(t, i)
    /\ ActiveDuplicate(t, tx[t].batch[i])
    /\ Become(t, [tx[t] EXCEPT !.todo = @ \ {i}])
    /\ UNCHANGED <<rows, counter, lock>>

\* The lookup found nothing; the counter advances, then the row is inserted.
Advance(t, i) ==
    /\ AllocationHead(t, i)
    /\ ~ActiveDuplicate(t, tx[t].batch[i])
    /\ Become(t, [tx[t] EXCEPT !.phase = "inserting", !.last[tx[t].batch[i].partition] = @ + 1])
    /\ UNCHANGED <<rows, counter, lock>>

\* insertQueueJobTx: ON CONFLICT DO NOTHING falls back to the existing job.
Insert(t, i) ==
    LET r == tx[t].batch[i]
        row == [kind |-> r.kind, partition |-> r.partition, key |-> r.key,
                seq |-> tx[t].last[r.partition]]
    IN  /\ tx[t].phase = "inserting" /\ i \in tx[t].todo
        /\ \A k \in tx[t].todo \ {i} : Canonical(tx[t].batch, i, k)
        /\ Become(t, [tx[t] EXCEPT
                        !.phase = "locking", !.todo = @ \ {i},
                        !.made = IF ActiveDuplicate(t, r) THEN @ ELSE @ \cup {row}])
        /\ UNCHANGED <<rows, counter, lock>>

Released(t) == [p \in Partition |-> IF lock[p] = t THEN Nobody ELSE lock[p]]

Commit(t) ==
    /\ tx[t].phase = "locking" /\ tx[t].todo = {} /\ tx[t].more = <<>>
    /\ rows' = rows \cup {[kind |-> r.kind, partition |-> r.partition, key |-> r.key,
                           seq |-> r.seq, active |-> TRUE] : r \in tx[t].made}
    /\ counter' = [p \in Partition |-> IF p \in Held(t) THEN tx[t].last[p] ELSE counter[p]]
    /\ lock' = Released(t)
    /\ Become(t, Idle)

\* The producer's transaction fails, or its process ends.
Abort(t) ==
    /\ tx[t].phase # "idle"
    /\ lock' = Released(t)
    /\ Become(t, Idle)
    /\ UNCHANGED <<rows, counter>>

-----------------------------------------------------------------------------
(* SweepEmptyPartitionCounters.                                            *)

SweepBegin(t) ==
    /\ tx[t].phase = "idle"
    /\ \E p \in Partition : counter[p] > 0 /\ ~Occupied(p)
    /\ Become(t, [Idle EXCEPT !.phase = "sweeping",
                              !.todo = {p \in Partition : counter[p] > 0 /\ ~Occupied(p)}])
    /\ UNCHANGED <<rows, counter, lock>>

\* SELECT ... FOR UPDATE waits for the holder; a counter that is gone by then,
\* or was never committed, is skipped.
SweepLock(t) ==
    LET p == Smallest(tx[t].todo)
    IN  /\ tx[t].phase = "sweeping" /\ tx[t].todo # {}
        /\ \/ /\ counter[p] = 0
              /\ Become(t, [tx[t] EXCEPT !.todo = @ \ {p}])
              /\ UNCHANGED lock
           \/ /\ counter[p] > 0 /\ lock[p] = Nobody
              /\ lock' = [lock EXCEPT ![p] = t]
              /\ Become(t, [tx[t] EXCEPT !.phase = "deleting"])
        /\ UNCHANGED <<rows, counter>>

\* The NOT EXISTS of the delete, evaluated again under the lock.
StillEmpty(p) == ~Occupied(p)

SweepDelete(t) ==
    LET p == Smallest(tx[t].todo)
    IN  /\ tx[t].phase = "deleting"
        /\ Become(t, [tx[t] EXCEPT !.phase = "sweeping", !.todo = @ \ {p},
                                   !.gone = IF StillEmpty(p) THEN @ \cup {p} ELSE @])
        /\ UNCHANGED <<rows, counter, lock>>

SweepCommit(t) ==
    /\ tx[t].phase = "sweeping" /\ tx[t].todo = {}
    /\ counter' = [p \in Partition |-> IF p \in tx[t].gone THEN 0 ELSE counter[p]]
    /\ lock' = Released(t)
    /\ Become(t, Idle)
    /\ UNCHANGED rows

-----------------------------------------------------------------------------
(* Consumers and retention, from QueueStore.                               *)

Finish(r) ==
    /\ r.active
    /\ rows' = (rows \ {r}) \cup {[r EXCEPT !.active = FALSE]}
    /\ UNCHANGED <<counter, lock, tx>>

Prune(r) ==
    /\ ~r.active
    /\ rows' = rows \ {r}
    /\ UNCHANGED <<counter, lock, tx>>

-----------------------------------------------------------------------------
Init ==
    /\ rows = {}
    /\ counter = [p \in Partition |-> 0]
    /\ lock = [p \in Partition |-> Nobody]
    /\ tx = [t \in Tx |-> Idle]

Step(t) ==
    \/ LockCounter(t)
    \/ \E i \in tx[t].todo : Reuse(t, i) \/ Advance(t, i) \/ Insert(t, i)
    \/ BeginNext(t) \/ Commit(t)

SweepStep(t) == SweepLock(t) \/ SweepDelete(t) \/ SweepCommit(t)

Next ==
    \/ \E t \in Producer, bs \in Batches : Begin(t, bs)
    \/ \E t \in Producer : Step(t)
    \/ \E t \in Tx : Abort(t)
    \/ \E t \in Sweeper : SweepBegin(t) \/ SweepStep(t)
    \/ \E r \in rows : Finish(r) \/ Prune(r)

Spec == Init /\ [][Next]_vars

\* A transaction that can take its next statement takes it; PostgreSQL grants
\* a contended row lock to its waiters in turn.
Fairness ==
    /\ \A t \in Producer : SF_vars(Step(t))
    /\ \A t \in Sweeper : SF_vars(SweepStep(t))

FairSpec == Spec /\ Fairness

-----------------------------------------------------------------------------
(* Properties.                                                             *)

\* The unique indexes of queue_jobs are never what stops a producer: sequences
\* of a partition differ, and one active row has a dedupe key, although
\* counters are deleted and restarted while producers wait for them.
IndexesHold ==
    \A q, r \in rows : q # r =>
        /\ q.partition = r.partition => q.seq # r.seq
        /\ q.active /\ r.active => q.key # r.key

\* The counter that t waits for, if any, and its holder.
WaitsFor(t, u) ==
    \/ /\ tx[t].phase = "locking" /\ Unlocked(t) # {}
       /\ lock[NextCounter(t)] = u
    \/ /\ tx[t].phase = "sweeping" /\ tx[t].todo # {}
       /\ counter[Smallest(tx[t].todo)] > 0 /\ lock[Smallest(tx[t].todo)] = u

\* Producers and sweepers never wait for one another in a circle: each batch and
\* each sweep locks counters in ascending order, and so do the batches of one
\* transaction where its caller passes them in that order.
NoLockCycle ==
    ~ \E S \in (SUBSET Tx) \ {{}} : \A t \in S : \E u \in S : WaitsFor(t, u)

\* Rows of a partition become visible in sequence order: no commit publishes a
\* row behind one a consumer could already have leased.
VisibleInOrder ==
    [][\A r \in rows' \ rows : r.active =>
          \A q \in rows : q.partition = r.partition => q.seq < r.seq]_vars

\* Every batch ends, however many others want its counters.
BatchEnds == \A t \in Producer : tx[t].phase # "idle" ~> tx[t].phase = "idle"

=============================================================================
