------------------------ MODULE EnqueueBatch_proofs ------------------------
(***************************************************************************)
(* Proofs about EnqueueBatch, for any transactions, partitions and         *)
(* batches.                                                                *)
(***************************************************************************)
EXTENDS EnqueueBatch, FiniteSetTheorems, NaturalsInduction, WellFoundedInduction, TLAPS

Row == [kind : Nat, partition : Partition, key : Nat, seq : Nat, active : BOOLEAN]
MadeRow == [kind : Nat, partition : Partition, key : Nat, seq : Nat]

TxState ==
    [phase : {"idle", "locking", "inserting", "sweeping", "deleting"},
     batch : Seq(Request), more : Seq(Seq(Request)), todo : SUBSET Nat,
     made : SUBSET MadeRow, gone : SUBSET Partition, last : [Partition -> Nat]]

Typed ==
    /\ rows \in SUBSET Row
    /\ counter \in [Partition -> Nat]
    /\ lock \in [Partition -> Tx \cup {Nobody}]
    /\ tx \in [Tx -> TxState]

\* A dedupe key names one partition, since it was made from one request.
OfRequest(r) == \E q \in Request : q.key = r.key /\ q.partition = r.partition

Keyed ==
    /\ \A r \in rows : OfRequest(r)
    /\ \A t \in Tx : \A r \in tx[t].made : OfRequest(r)

\* What is committed: the two indexes, and sequences within the counters.
Committed ==
    /\ IndexesHold
    /\ \A r \in rows : r.seq <= counter[r.partition]

\* What transaction t has made is under its locks, above the committed
\* sequences, and collides neither with itself nor with a committed row.
MadeRight(t) ==
    /\ \A r \in tx[t].made :
         /\ lock[r.partition] = t
         /\ counter[r.partition] < r.seq /\ r.seq <= tx[t].last[r.partition]
         /\ \A row \in rows : row.active => row.key # r.key
    /\ \A q, r \in tx[t].made : q # r =>
         /\ q.key # r.key
         /\ q.partition = r.partition => q.seq # r.seq

\* Between the counter's advance and the insert its new sequence is unused.
Fresh(t) ==
    \E i \in tx[t].todo :
        /\ \A k \in tx[t].todo \ {i} : Canonical(tx[t].batch, i, k)
        /\ LET p == tx[t].batch[i].partition
           IN  /\ counter[p] < tx[t].last[p]
               /\ \A r \in tx[t].made : r.partition = p => r.seq < tx[t].last[p]

ProducerRight(t) ==
    /\ tx[t].phase \in {"idle", "locking", "inserting"}
    /\ tx[t].todo \subseteq DOMAIN tx[t].batch
    /\ \A p \in Partition : lock[p] = t => counter[p] <= tx[t].last[p]
    /\ tx[t].phase = "inserting" => Unlocked(t) = {} /\ Fresh(t)

\* A counter to be deleted is locked and stays without rows.
SweeperRight(t) ==
    /\ tx[t].phase \in {"idle", "sweeping", "deleting"}
    /\ tx[t].todo \subseteq Partition /\ tx[t].made = {}
    /\ \A p \in tx[t].gone : lock[p] = t /\ ~Occupied(p)
    /\ tx[t].phase = "deleting" => tx[t].todo # {} /\ lock[Smallest(tx[t].todo)] = t

TxRight(t) ==
    /\ tx[t].phase = "idle" => tx[t].made = {} /\ \A p \in Partition : lock[p] # t
    /\ MadeRight(t)
    /\ t \in Producer => ProducerRight(t)
    /\ t \in Sweeper => SweeperRight(t)

IInv == Typed /\ Keyed /\ Committed /\ \A t \in Tx : TxRight(t)

-----------------------------------------------------------------------------
(* Least elements, requests and transactions.                              *)

LEMMA SmallestIs ==
    ASSUME NEW S \in SUBSET Nat, S # {}
    PROVE  Smallest(S) \in S /\ \A y \in S : Smallest(S) <= y
<1> DEFINE Less == {ss \in Nat \X Nat : ss[1] < ss[2]}
<1>1. OpToRel(<, Nat) = Less
  BY Zenon DEF OpToRel
<1>2. IsWellFoundedOn(Less, Nat)
  BY <1>1, NatLessThanWellFounded, Zenon
<1>3. PICK x \in S : \A y \in S : <<y, x>> \notin Less
  <2> HIDE DEF Less
  <2> QED BY <1>2, WFMin
<1>4. ASSUME NEW y \in S PROVE x <= y
  <2>1. x \in Nat /\ y \in Nat
    OBVIOUS
  <2>2. ~(y < x)
    <3>1. y < x => <<y, x>> \in Less
      BY <2>1, Zenon
    <3> QED BY <3>1, <1>3
  <2> QED BY <2>1, <2>2
<1> QED BY <1>4 DEF Smallest

LEMMA RequestIs ==
    ASSUME NEW r \in Request
    PROVE  r.kind \in Nat /\ r.partition \in Partition /\ r.key \in Nat
  BY BatchAssumption

LEMMA SameKey ==
    ASSUME NEW q, NEW r, OfRequest(q), OfRequest(r), q.key = r.key
    PROVE  q.partition = r.partition
<1>1. PICK a \in Request : a.key = q.key /\ a.partition = q.partition
  BY DEF OfRequest
<1>2. PICK b \in Request : b.key = r.key /\ b.partition = r.partition
  BY DEF OfRequest
<1>3. a = b
  BY <1>1, <1>2, BatchAssumption
<1> QED BY <1>1, <1>2, <1>3

LEMMA TxIs ==
    ASSUME Typed, NEW t \in Tx
    PROVE  /\ tx[t] \in TxState
           /\ tx[t].batch \in Seq(Request) /\ tx[t].more \in Seq(Seq(Request))
           /\ tx[t].todo \in SUBSET Nat /\ tx[t].made \in SUBSET MadeRow
           /\ tx[t].gone \in SUBSET Partition /\ tx[t].last \in [Partition -> Nat]
  BY DEF Typed, TxState

LEMMA InitIInv == Init => IInv
<1> SUFFICES ASSUME Init PROVE IInv
  OBVIOUS
<1>1. Idle \in TxState
  BY DEF Idle, TxState
<1>2. Typed
  BY <1>1 DEF Init, Typed
<1>3. Keyed /\ Committed
  BY DEF Init, Keyed, Committed, IndexesHold, Idle
<1>4. ASSUME NEW t \in Tx PROVE TxRight(t)
  <2>1. tx[t] = Idle /\ t # Nobody
    BY BatchAssumption DEF Init
  <2>2. \A p \in Partition : lock[p] # t
    BY <2>1 DEF Init
  <2> QED BY <2>1, <2>2 DEF TxRight, MadeRight, ProducerRight, SweeperRight, Idle
<1> QED BY <1>2, <1>3, <1>4 DEF IInv

\* A transaction is not disturbed by the others: the counters it holds and the
\* dedupe keys active under them do not change, or only become inactive.
LEMMA Frame ==
    ASSUME IInv, Typed', Keyed', NEW u \in Tx, tx'[u] = tx[u],
           \A p \in Partition : (lock'[p] = u) <=> (lock[p] = u),
           \A p \in Partition : lock[p] = u => counter'[p] = counter[p],
           \A r \in rows' : lock[r.partition] = u =>
               \E q \in rows : /\ q.partition = r.partition /\ q.key = r.key
                               /\ r.active => q.active
    PROVE  TxRight(u)'
<1> USE DEF IInv
<1>0. /\ tx[u].made \in SUBSET MadeRow /\ tx[u].gone \in SUBSET Partition
      /\ tx[u].todo \in SUBSET Nat /\ tx[u].batch \in Seq(Request)
  BY TxIs
<1>1. TxRight(u)
  OBVIOUS
<1>2. MadeRight(u)'
  <2>1. ASSUME NEW r \in tx[u].made
        PROVE  /\ lock'[r.partition] = u
               /\ counter'[r.partition] < r.seq /\ r.seq <= tx[u].last[r.partition]
    <3>1. r.partition \in Partition
      BY <1>0 DEF MadeRow
    <3> QED BY <1>1, <3>1 DEF TxRight, MadeRight
  <2>2. ASSUME NEW r \in tx[u].made, NEW row \in rows', row.active, row.key = r.key
        PROVE  FALSE
    <3>1. OfRequest(r) /\ OfRequest(row)
      <4>1. OfRequest(r)
        BY DEF Keyed
      <4>2. OfRequest(row)
        BY DEF Keyed, OfRequest
      <4> QED BY <4>1, <4>2
    <3>2. row.partition = r.partition
      BY <2>2, <3>1, SameKey
    <3>3. lock[row.partition] = u
      BY <3>2, <1>1 DEF TxRight, MadeRight
    <3>4. PICK q \in rows : q.key = row.key /\ (row.active => q.active)
      BY <3>3
    <3> QED BY <2>2, <3>4, <1>1 DEF TxRight, MadeRight
  <2> QED BY <2>1, <2>2, <1>1 DEF TxRight, MadeRight
<1>3. ASSUME u \in Producer PROVE ProducerRight(u)'
  <2>1. ProducerRight(u)
    BY <1>1, <1>3 DEF TxRight
  <2>2. ASSUME tx[u].phase = "inserting" PROVE Unlocked(u)' = {} /\ Fresh(u)'
    <3>1. Unlocked(u) = {} /\ Fresh(u)
      BY <2>1, <2>2 DEF ProducerRight
    <3>2. Held(u)' = Held(u)
      BY DEF Held
    <3>3. Unlocked(u)' = {}
      BY <3>1, <3>2 DEF Unlocked
    <3>4. PICK i \in tx[u].todo :
            /\ \A k \in tx[u].todo \ {i} : Canonical(tx[u].batch, i, k)
            /\ counter[tx[u].batch[i].partition] < tx[u].last[tx[u].batch[i].partition]
            /\ \A r \in tx[u].made : r.partition = tx[u].batch[i].partition =>
                  r.seq < tx[u].last[tx[u].batch[i].partition]
      BY <3>1 DEF Fresh
    <3>5. i \in DOMAIN tx[u].batch
      BY <2>1 DEF ProducerRight
    <3>6. tx[u].batch[i].partition \in Partition /\ lock[tx[u].batch[i].partition] = u
      BY <3>1, <3>5 DEF Unlocked, Held
    <3>7. counter'[tx[u].batch[i].partition] = counter[tx[u].batch[i].partition]
      BY <3>6
    <3>8. /\ i \in tx'[u].todo
          /\ \A k \in tx'[u].todo \ {i} : Canonical(tx'[u].batch, i, k)
          /\ LET p == tx'[u].batch[i].partition
             IN  /\ counter'[p] < tx'[u].last[p]
                 /\ \A r \in tx'[u].made : r.partition = p => r.seq < tx'[u].last[p]
      BY <3>4, <3>7
    <3>9. Fresh(u)'
      BY <3>8, Zenon DEF Fresh
    <3> QED BY <3>3, <3>9
  <2> QED BY <2>1, <2>2 DEF ProducerRight
<1>4. ASSUME u \in Sweeper PROVE SweeperRight(u)'
  <2>1. SweeperRight(u)
    BY <1>1, <1>4 DEF TxRight
  <2>2. ASSUME NEW p \in tx[u].gone PROVE lock'[p] = u /\ ~Occupied(p)'
    BY <2>1, <1>0 DEF SweeperRight, Occupied
  <2>3. tx[u].phase = "deleting" => lock'[Smallest(tx[u].todo)] = u
    <3> SUFFICES ASSUME tx[u].phase = "deleting" PROVE lock'[Smallest(tx[u].todo)] = u
      OBVIOUS
    <3>1. Smallest(tx[u].todo) \in Partition
      BY <2>1, <1>0, SmallestIs DEF SweeperRight
    <3> QED BY <2>1, <3>1 DEF SweeperRight
  <2> QED BY <2>1, <2>2, <2>3 DEF SweeperRight
<1>5. tx'[u].phase = "idle" => tx'[u].made = {} /\ \A p \in Partition : lock'[p] # u
  BY <1>1 DEF TxRight
<1> QED BY <1>2, <1>3, <1>4, <1>5 DEF TxRight

\* A step of one transaction that commits nothing: it takes or gives back its
\* own locks, and the invariant is left to show for that transaction.
LEMMA OneTx ==
    ASSUME IInv, NEW t \in Tx, NEW s \in TxState, tx' = [tx EXCEPT ![t] = s],
           UNCHANGED <<rows, counter>>, lock' \in [Partition -> Tx \cup {Nobody}],
           \A p \in Partition :
               lock'[p] = lock[p] \/ (lock[p] \in {t, Nobody} /\ lock'[p] \in {t, Nobody}),
           \A r \in s.made : OfRequest(r),
           TxRight(t)'
    PROVE  IInv'
<1>1. Typed'
  BY DEF IInv, Typed
<1>2. \A u \in Tx : tx'[u] = IF u = t THEN s ELSE tx[u]
  BY DEF IInv, Typed
<1>3. Keyed'
  BY <1>2 DEF IInv, Keyed, OfRequest
<1>4. Committed'
  BY DEF IInv, Committed, IndexesHold
<1>5. ASSUME NEW u \in Tx, u # t PROVE TxRight(u)'
  <2>1. \A p \in Partition : (lock'[p] = u) <=> (lock[p] = u)
    BY <1>5, BatchAssumption
  <2>2. tx'[u] = tx[u]
    BY <1>2, <1>5
  <2> QED BY <1>1, <1>3, <2>1, <2>2, Frame
<1> QED BY <1>1, <1>3, <1>4, <1>5 DEF IInv

-----------------------------------------------------------------------------
(* Producers.                                                              *)

LEMMA BeginKeeps ==
    ASSUME IInv, NEW t \in Producer, NEW bs \in Batches, Begin(t, bs) PROVE IInv'
<1> DEFINE s == [Idle EXCEPT !.phase = "locking", !.batch = Head(bs), !.more = Tail(bs),
                             !.todo = DOMAIN Head(bs)]
<1>1. t \in Tx /\ tx' = [tx EXCEPT ![t] = s] /\ UNCHANGED <<rows, counter, lock>>
      /\ tx[t].phase = "idle"
  BY DEF Begin, Become, Tx
<1>2. Head(bs) \in Seq(Request) /\ Tail(bs) \in Seq(Seq(Request))
  BY BatchAssumption
<1>3. DOMAIN Head(bs) \in SUBSET Nat
  BY <1>2
<1>4. /\ s.phase = "locking" /\ s.batch = Head(bs) /\ s.todo = DOMAIN Head(bs) /\ s.made = {}
      /\ s.more = Tail(bs) /\ s \in TxState
  BY <1>2, <1>3 DEF Idle, TxState
<1> HIDE DEF s
<1>5. tx'[t] = s
  BY <1>1 DEF IInv, Typed
<1>6. \A p \in Partition : lock[p] # t
  BY <1>1 DEF IInv, TxRight
<1>7. TxRight(t)'
  BY <1>1, <1>4, <1>5, <1>6, BatchAssumption DEF TxRight, MadeRight, ProducerRight
<1> QED BY <1>1, <1>4, <1>7, OneTx DEF IInv, Typed

LEMMA BeginNextKeeps ==
    ASSUME IInv, NEW t \in Producer, BeginNext(t) PROVE IInv'
<1> DEFINE s == [tx[t] EXCEPT !.batch = Head(tx[t].more), !.more = Tail(@),
                              !.todo = DOMAIN Head(tx[t].more)]
<1>1. t \in Tx /\ tx' = [tx EXCEPT ![t] = s] /\ UNCHANGED <<rows, counter, lock>>
      /\ tx[t].phase = "locking" /\ tx[t].more # <<>>
  BY DEF BeginNext, Become, Tx
<1>2. Head(tx[t].more) \in Seq(Request) /\ Tail(tx[t].more) \in Seq(Seq(Request))
  BY <1>1, TxIs DEF IInv
<1>3. DOMAIN Head(tx[t].more) \in SUBSET Nat
  BY <1>2
<1>4. tx[t] \in TxState
  BY <1>1, TxIs DEF IInv
<1>5. /\ s.phase = "locking" /\ s.batch = Head(tx[t].more) /\ s.todo = DOMAIN Head(tx[t].more)
      /\ s.made = tx[t].made /\ s.last = tx[t].last /\ s \in TxState
  BY <1>1, <1>2, <1>3, <1>4 DEF TxState
<1> HIDE DEF s
<1>6. tx'[t] = s
  BY <1>1 DEF IInv, Typed
<1>7. TxRight(t) /\ t \notin Sweeper
  BY <1>1, BatchAssumption DEF IInv
<1>8. MadeRight(t)'
  BY <1>1, <1>5, <1>6, <1>7 DEF TxRight, MadeRight
<1>9. ProducerRight(t)'
  BY <1>1, <1>5, <1>6, <1>7 DEF TxRight, ProducerRight
<1>10. TxRight(t)'
  BY <1>5, <1>6, <1>7, <1>8, <1>9 DEF TxRight
<1>11. \A r \in s.made : OfRequest(r)
  BY <1>1, <1>5 DEF IInv, Keyed
<1> QED BY <1>1, <1>5, <1>10, <1>11, OneTx DEF IInv, Typed

LEMMA LockCounterKeeps ==
    ASSUME IInv, NEW t \in Producer, LockCounter(t) PROVE IInv'
<1> DEFINE p == NextCounter(t)
           s == [tx[t] EXCEPT !.last[p] = counter[p]]
<1>1. t \in Tx /\ tx' = [tx EXCEPT ![t] = s] /\ UNCHANGED <<rows, counter>>
      /\ tx[t].phase = "locking" /\ Unlocked(t) # {}
      /\ lock[p] = Nobody /\ lock' = [lock EXCEPT ![p] = t]
  BY DEF LockCounter, Become, Tx
<1>2. p \in Unlocked(t) /\ p \in Partition
  <2>1. Unlocked(t) \in SUBSET Partition
    <3>1. tx[t].batch \in Seq(Request)
      BY <1>1, TxIs DEF IInv
    <3> QED BY <3>1, RequestIs DEF Unlocked
  <2>2. Unlocked(t) \in SUBSET Nat
    BY <2>1, BatchAssumption
  <2> QED BY <1>1, <2>1, <2>2, SmallestIs DEF NextCounter
<1>3. tx[t] \in TxState /\ tx[t].last \in [Partition -> Nat] /\ counter[p] \in Nat
  BY <1>1, <1>2, TxIs DEF IInv, Typed
<1>4. /\ s.phase = "locking" /\ s.batch = tx[t].batch /\ s.todo = tx[t].todo
      /\ s.made = tx[t].made /\ s.last = [tx[t].last EXCEPT ![p] = counter[p]] /\ s \in TxState
  BY <1>1, <1>2, <1>3 DEF TxState
<1> HIDE DEF s, p
<1>5. tx'[t] = s
  BY <1>1 DEF IInv, Typed
<1>6. TxRight(t) /\ t \notin Sweeper /\ t # Nobody
  BY <1>1, BatchAssumption DEF IInv
<1>7. lock' \in [Partition -> Tx \cup {Nobody}] /\ \A q \in Partition : lock'[q] = IF q = p THEN t ELSE lock[q]
  BY <1>1, <1>2 DEF IInv, Typed
<1>8. \A q \in Partition : s.last[q] = IF q = p THEN counter[p] ELSE tx[t].last[q]
  BY <1>2, <1>3, <1>4
<1>9. MadeRight(t)'
  <2>1. tx[t].made \in SUBSET MadeRow
    BY <1>1, TxIs DEF IInv
  <2>2. ASSUME NEW r \in tx[t].made
        PROVE  /\ lock'[r.partition] = t
               /\ counter[r.partition] < r.seq /\ r.seq <= s.last[r.partition]
    <3>1. r.partition \in Partition /\ lock[r.partition] = t
      BY <2>1, <1>6 DEF MadeRow, TxRight, MadeRight
    <3>2. r.partition # p
      BY <3>1, <1>1, <1>6
    <3>3. lock'[r.partition] = t /\ s.last[r.partition] = tx[t].last[r.partition]
      BY <3>1, <3>2, <1>7, <1>8
    <3>4. counter[r.partition] < r.seq /\ r.seq <= tx[t].last[r.partition]
      BY <1>6 DEF TxRight, MadeRight
    <3> QED BY <3>3, <3>4
  <2>3. MadeRight(t)
    BY <1>6 DEF TxRight
  <2>4. tx'[t].made = tx[t].made /\ tx'[t].last = s.last /\ counter' = counter /\ rows' = rows
    BY <1>1, <1>4, <1>5
  <2> QED BY <2>2, <2>3, <2>4 DEF MadeRight
<1>10. ProducerRight(t)'
  <2>1. \A q \in Partition : lock'[q] = t => counter[q] <= s.last[q]
    BY <1>3, <1>6, <1>7, <1>8 DEF TxRight, ProducerRight, IInv, Typed
  <2> QED BY <2>1, <1>1, <1>4, <1>5, <1>6 DEF TxRight, ProducerRight
<1>11. TxRight(t)'
  BY <1>4, <1>5, <1>6, <1>9, <1>10 DEF TxRight
<1>12. \A r \in s.made : OfRequest(r)
  BY <1>1, <1>4 DEF IInv, Keyed
<1>13. \A q \in Partition :
         lock'[q] = lock[q] \/ (lock[q] \in {t, Nobody} /\ lock'[q] \in {t, Nobody})
  BY <1>1, <1>7
<1> QED BY <1>1, <1>4, <1>7, <1>11, <1>12, <1>13, OneTx

LEMMA ReuseKeeps ==
    ASSUME IInv, NEW t \in Producer, NEW i \in tx[t].todo, Reuse(t, i) PROVE IInv'
<1> DEFINE s == [tx[t] EXCEPT !.todo = @ \ {i}]
<1>1. t \in Tx /\ tx' = [tx EXCEPT ![t] = s] /\ UNCHANGED <<rows, counter, lock>>
      /\ tx[t].phase = "locking"
  BY DEF Reuse, AllocationHead, Become, Tx
<1>2. tx[t] \in TxState
  BY <1>1, TxIs DEF IInv
<1>3. /\ s.phase = "locking" /\ s.batch = tx[t].batch /\ s.todo = tx[t].todo \ {i}
      /\ s.made = tx[t].made /\ s.last = tx[t].last /\ s \in TxState
  BY <1>1, <1>2 DEF TxState
<1> HIDE DEF s
<1>4. tx'[t] = s
  BY <1>1 DEF IInv, Typed
<1>5. TxRight(t) /\ t \notin Sweeper
  BY <1>1, BatchAssumption DEF IInv
<1>6. MadeRight(t)'
  BY <1>1, <1>3, <1>4, <1>5 DEF TxRight, MadeRight
<1>7. ProducerRight(t)'
  BY <1>1, <1>3, <1>4, <1>5 DEF TxRight, ProducerRight
<1>8. TxRight(t)'
  BY <1>3, <1>4, <1>5, <1>6, <1>7 DEF TxRight
<1>9. \A r \in s.made : OfRequest(r)
  BY <1>1, <1>3 DEF IInv, Keyed
<1> QED BY <1>1, <1>3, <1>8, <1>9, OneTx DEF IInv, Typed

\* The request at the head has its counter locked.
LEMMA HeadLocked ==
    ASSUME IInv, NEW t \in Producer, NEW i \in tx[t].todo, Unlocked(t) = {}
    PROVE  /\ tx[t].batch[i] \in Request
           /\ tx[t].batch[i].partition \in Partition /\ lock[tx[t].batch[i].partition] = t
<1>1. t \in Tx
  BY DEF Tx
<1>2. tx[t].batch \in Seq(Request) /\ i \in DOMAIN tx[t].batch
  BY <1>1, TxIs DEF IInv, TxRight, ProducerRight
<1>3. tx[t].batch[i] \in Request
  BY <1>2
<1> QED BY <1>2, <1>3, RequestIs DEF Unlocked, Held

LEMMA AdvanceKeeps ==
    ASSUME IInv, NEW t \in Producer, NEW i \in tx[t].todo, Advance(t, i) PROVE IInv'
<1> DEFINE p == tx[t].batch[i].partition
           s == [tx[t] EXCEPT !.phase = "inserting", !.last[p] = @ + 1]
<1>1. t \in Tx /\ tx' = [tx EXCEPT ![t] = s] /\ UNCHANGED <<rows, counter, lock>>
      /\ Unlocked(t) = {} /\ \A k \in tx[t].todo \ {i} : Canonical(tx[t].batch, i, k)
  BY DEF Advance, AllocationHead, Become, Tx
<1>2. p \in Partition /\ lock[p] = t
  BY <1>1, HeadLocked
<1>3. tx[t] \in TxState /\ tx[t].last \in [Partition -> Nat] /\ tx[t].last[p] \in Nat
      /\ tx[t].made \in SUBSET MadeRow
  BY <1>1, <1>2, TxIs DEF IInv
<1>4. /\ s.phase = "inserting" /\ s.batch = tx[t].batch /\ s.todo = tx[t].todo
      /\ s.made = tx[t].made /\ s.last = [tx[t].last EXCEPT ![p] = @ + 1] /\ s \in TxState
  <2>1. tx[t].last[p] + 1 \in Nat
    BY <1>3
  <2>2. [tx[t].last EXCEPT ![p] = @ + 1] \in [Partition -> Nat]
    BY <1>2, <1>3, <2>1
  <2> HIDE DEF p
  <2>3. s = [tx[t] EXCEPT !.phase = "inserting", !.last = [tx[t].last EXCEPT ![p] = @ + 1]]
    BY <1>3 DEF TxState
  <2> QED BY <1>2, <1>3, <2>2, <2>3 DEF TxState
<1> HIDE DEF s
<1>5. tx'[t] = s
  BY <1>1 DEF IInv, Typed
<1>6. TxRight(t) /\ t \notin Sweeper
  BY <1>1, BatchAssumption DEF IInv
<1>7. \A q \in Partition : s.last[q] = IF q = p THEN tx[t].last[q] + 1 ELSE tx[t].last[q]
  BY <1>2, <1>3, <1>4
<1>8. counter[p] \in Nat /\ counter[p] <= tx[t].last[p]
  BY <1>2, <1>6 DEF IInv, Typed, TxRight, ProducerRight
<1>9. ASSUME NEW r \in tx[t].made
      PROVE  /\ r.partition \in Partition /\ r.seq \in Nat
             /\ r.seq <= tx[t].last[r.partition] /\ tx[t].last[r.partition] \in Nat
  BY <1>3, <1>6 DEF MadeRow, TxRight, MadeRight
<1>10. MadeRight(t)'
  <2>1. \A r \in tx[t].made : r.seq <= s.last[r.partition]
    BY <1>7, <1>9
  <2> QED BY <2>1, <1>1, <1>4, <1>5, <1>6 DEF TxRight, MadeRight
<1>11. Fresh(t)'
  <2>1. counter[p] < s.last[p] /\ \A r \in tx[t].made : r.partition = p => r.seq < s.last[p]
    <3>1. s.last[p] = tx[t].last[p] + 1 /\ tx[t].last[p] \in Nat
      BY <1>2, <1>3, <1>7
    <3>2. ASSUME NEW r \in tx[t].made, r.partition = p PROVE r.seq < s.last[p]
      <4>1. r.seq \in Nat /\ r.seq <= tx[t].last[p]
        BY <1>9, <3>2
      <4> HIDE DEF p
      <4> QED BY <3>1, <4>1
    <3> HIDE DEF p
    <3> QED BY <1>8, <3>1, <3>2
  <2>2. /\ i \in tx'[t].todo
        /\ \A k \in tx'[t].todo \ {i} : Canonical(tx'[t].batch, i, k)
        /\ LET q == tx'[t].batch[i].partition
           IN  /\ counter'[q] < tx'[t].last[q]
               /\ \A r \in tx'[t].made : r.partition = q => r.seq < tx'[t].last[q]
    BY <2>1, <1>1, <1>4, <1>5
  <2> QED BY <2>2, Zenon DEF Fresh
<1>12. ProducerRight(t)'
  <2>1. \A q \in Partition : lock[q] = t => counter[q] <= s.last[q]
    BY <1>3, <1>6, <1>7 DEF TxRight, ProducerRight, IInv, Typed
  <2>2. Unlocked(t)' = {}
    BY <1>1, <1>4, <1>5 DEF Unlocked, Held
  <2> QED BY <2>1, <2>2, <1>1, <1>4, <1>5, <1>6, <1>11 DEF TxRight, ProducerRight
<1>13. TxRight(t)'
  BY <1>4, <1>5, <1>6, <1>10, <1>12 DEF TxRight
<1>14. \A r \in s.made : OfRequest(r)
  BY <1>1, <1>4 DEF IInv, Keyed
<1> QED BY <1>1, <1>4, <1>13, <1>14, OneTx DEF IInv, Typed

LEMMA InsertKeeps ==
    ASSUME IInv, NEW t \in Producer, NEW i \in tx[t].todo, Insert(t, i) PROVE IInv'
<1> DEFINE b == tx[t].batch
           r0 == b[i]
           p == r0.partition
           row0 == [kind |-> r0.kind, partition |-> p, key |-> r0.key, seq |-> tx[t].last[p]]
           m == IF ActiveDuplicate(t, r0) THEN tx[t].made ELSE tx[t].made \cup {row0}
           s == [tx[t] EXCEPT !.phase = "locking", !.todo = @ \ {i}, !.made = m]
<1>1. t \in Tx /\ tx' = [tx EXCEPT ![t] = s] /\ UNCHANGED <<rows, counter, lock>>
      /\ tx[t].phase = "inserting" /\ \A k \in tx[t].todo \ {i} : Canonical(b, i, k)
  BY DEF Insert, Become, Tx
<1>2. TxRight(t) /\ ProducerRight(t) /\ t \notin Sweeper /\ Unlocked(t) = {} /\ Fresh(t)
  BY <1>1, BatchAssumption DEF IInv, TxRight, ProducerRight
<1>3. r0 \in Request /\ p \in Partition /\ lock[p] = t
  BY <1>2, HeadLocked
<1>4. tx[t] \in TxState /\ tx[t].last \in [Partition -> Nat] /\ tx[t].last[p] \in Nat
      /\ tx[t].made \in SUBSET MadeRow /\ b \in Seq(Request)
  BY <1>1, <1>3, TxIs DEF IInv
<1>5. row0 \in MadeRow /\ OfRequest(row0)
  BY <1>3, <1>4, RequestIs DEF MadeRow, OfRequest
<1>6. m \in SUBSET MadeRow /\ \A r \in m : OfRequest(r)
  BY <1>1, <1>4, <1>5 DEF IInv, Keyed
<1>7. \* The sequence taken for i is the fresh one.
      counter[p] < tx[t].last[p] /\ \A r \in tx[t].made : r.partition = p => r.seq < tx[t].last[p]
  <2>1. PICK k \in tx[t].todo :
          /\ \A l \in tx[t].todo \ {k} : Canonical(b, k, l)
          /\ counter[b[k].partition] < tx[t].last[b[k].partition]
          /\ \A r \in tx[t].made : r.partition = b[k].partition => r.seq < tx[t].last[b[k].partition]
    BY <1>2 DEF Fresh
  <2>2. k = i
    <3> SUFFICES ASSUME k # i PROVE FALSE
      OBVIOUS
    <3>1. Canonical(b, k, i) /\ Canonical(b, i, k)
      BY <1>1, <2>1
    <3>2. b[k] \in Request /\ k \in Nat /\ i \in Nat
      BY <1>2, <1>4 DEF ProducerRight
    <3>3. /\ b[k].kind \in Nat /\ b[k].partition \in Nat /\ b[k].key \in Nat
          /\ b[i].kind \in Nat /\ b[i].partition \in Nat /\ b[i].key \in Nat
      BY <3>2, <1>3, RequestIs, BatchAssumption
    <3> HIDE DEF b
    <3> QED BY <3>1, <3>2, <3>3 DEF Canonical
  <2> QED BY <2>1, <2>2
<1>8. /\ s.phase = "locking" /\ s.batch = b /\ s.todo = tx[t].todo \ {i}
      /\ s.made = m /\ s.last = tx[t].last /\ s \in TxState
  BY <1>4, <1>6 DEF TxState
<1>9. row0.partition = p /\ row0.key = r0.key /\ row0.seq = tx[t].last[p]
  OBVIOUS
<1> HIDE DEF s, row0
<1>10. tx'[t] = s
  BY <1>1 DEF IInv, Typed
<1>11. MadeRight(t)'
  <2>1. CASE ActiveDuplicate(t, r0)
    BY <2>1, <1>1, <1>2, <1>8, <1>10 DEF TxRight, MadeRight
  <2>2. CASE ~ActiveDuplicate(t, r0)
    <3>1. s.made = tx[t].made \cup {row0}
      BY <2>2, <1>8
    <3>2. /\ \A row \in rows : row.active => row.key # row0.key
          /\ \A r \in tx[t].made : r.key # row0.key
      BY <2>2, <1>9 DEF ActiveDuplicate
    <3>3. \A r \in tx[t].made : r.partition = row0.partition => r.seq # row0.seq
      <4>1. \A r \in tx[t].made : r.partition = p => r.seq < tx[t].last[p]
        BY <1>7
      <4>2. tx[t].last[p] \in Nat /\ \A r \in tx[t].made : r.seq \in Nat
        BY <1>4 DEF MadeRow
      <4> HIDE DEF p
      <4> QED BY <4>1, <4>2, <1>9
    <3>4. /\ lock[row0.partition] = t /\ counter[row0.partition] < row0.seq
          /\ row0.seq <= tx[t].last[row0.partition]
      <4>1. lock[p] = t /\ counter[p] < tx[t].last[p] /\ tx[t].last[p] \in Nat
        BY <1>3, <1>4, <1>7
      <4> HIDE DEF p
      <4> QED BY <4>1, <1>9
    <3>5. MadeRight(t)
      BY <1>2 DEF TxRight
    <3> HIDE DEF m, r0, b, p
    <3>6. ASSUME NEW r \in tx[t].made \cup {row0}
          PROVE  /\ lock[r.partition] = t
                 /\ counter[r.partition] < r.seq /\ r.seq <= tx[t].last[r.partition]
                 /\ \A row \in rows : row.active => row.key # r.key
      BY <3>2, <3>4, <3>5 DEF MadeRight
    <3>7. ASSUME NEW q \in tx[t].made \cup {row0}, NEW r \in tx[t].made \cup {row0}, q # r
          PROVE  q.key # r.key /\ (q.partition = r.partition => q.seq # r.seq)
      BY <3>2, <3>3, <3>5, <3>7 DEF MadeRight
    <3> QED BY <3>1, <3>6, <3>7, <1>1, <1>8, <1>10 DEF MadeRight
  <2> QED BY <2>1, <2>2
<1>12. ProducerRight(t)'
  BY <1>1, <1>2, <1>8, <1>10 DEF ProducerRight
<1>13. TxRight(t)'
  BY <1>2, <1>8, <1>10, <1>11, <1>12 DEF TxRight
<1> QED BY <1>1, <1>6, <1>8, <1>13, OneTx DEF IInv, Typed

LEMMA AbortKeeps ==
    ASSUME IInv, NEW t \in Tx, Abort(t) PROVE IInv'
<1>1. tx' = [tx EXCEPT ![t] = Idle] /\ UNCHANGED <<rows, counter>> /\ lock' = Released(t)
  BY DEF Abort, Become
<1>2. Idle \in TxState /\ Idle.made = {} /\ Idle.phase = "idle" /\ Idle.todo = {} /\ Idle.gone = {}
  BY DEF Idle, TxState
<1>3. \A p \in Partition : lock'[p] = IF lock[p] = t THEN Nobody ELSE lock[p]
  BY <1>1 DEF Released
<1>4. lock' \in [Partition -> Tx \cup {Nobody}]
  BY <1>1 DEF Released, IInv, Typed
<1>5. tx'[t] = Idle /\ t # Nobody
  BY <1>1, BatchAssumption DEF IInv, Typed
<1>6. TxRight(t)'
  BY <1>2, <1>3, <1>5 DEF TxRight, MadeRight, ProducerRight, SweeperRight
<1> QED BY <1>1, <1>2, <1>3, <1>4, <1>6, OneTx

-----------------------------------------------------------------------------
(* Sweepers.                                                               *)

LEMMA SweepBeginKeeps ==
    ASSUME IInv, NEW t \in Sweeper, SweepBegin(t) PROVE IInv'
<1> DEFINE T == {p \in Partition : counter[p] > 0 /\ ~Occupied(p)}
           s == [Idle EXCEPT !.phase = "sweeping", !.todo = T]
<1>1. t \in Tx /\ tx' = [tx EXCEPT ![t] = s] /\ UNCHANGED <<rows, counter, lock>>
  BY DEF SweepBegin, Become, Tx
<1>2. T \in SUBSET Partition /\ T \in SUBSET Nat
  BY BatchAssumption
<1> HIDE DEF T
<1>3. s.phase = "sweeping" /\ s.todo = T /\ s.made = {} /\ s.gone = {} /\ s \in TxState
  <2>1. Idle \in TxState /\ Idle.made = {} /\ Idle.gone = {}
    BY DEF Idle, TxState
  <2> QED BY <1>2, <2>1 DEF TxState
<1> HIDE DEF s
<1>4. tx'[t] = s /\ t \notin Producer
  BY <1>1, BatchAssumption DEF IInv, Typed
<1>5. TxRight(t)'
  BY <1>2, <1>3, <1>4 DEF TxRight, MadeRight, SweeperRight
<1> QED BY <1>1, <1>3, <1>5, OneTx DEF IInv, Typed

\* The sweeper's next counter is one of the partitions.
LEMMA SweepNext ==
    ASSUME IInv, NEW t \in Sweeper, tx[t].todo # {}
    PROVE  /\ Smallest(tx[t].todo) \in tx[t].todo /\ Smallest(tx[t].todo) \in Partition
           /\ \A q \in tx[t].todo : Smallest(tx[t].todo) <= q
<1>1. t \in Tx
  BY DEF Tx
<1>2. tx[t].todo \in SUBSET Nat /\ tx[t].todo \subseteq Partition
  BY <1>1, TxIs DEF IInv, TxRight, SweeperRight
<1> QED BY <1>2, SmallestIs

LEMMA SweepLockKeeps ==
    ASSUME IInv, NEW t \in Sweeper, SweepLock(t) PROVE IInv'
<1> DEFINE p == Smallest(tx[t].todo)
<1>1. t \in Tx /\ UNCHANGED <<rows, counter>> /\ tx[t].phase = "sweeping" /\ tx[t].todo # {}
  BY DEF SweepLock, Tx
<1>2. p \in tx[t].todo /\ p \in Partition
  BY <1>1, SweepNext
<1>3. tx[t] \in TxState /\ TxRight(t) /\ SweeperRight(t) /\ t \notin Producer
      /\ \A r \in tx[t].made : OfRequest(r)
  BY <1>1, TxIs, BatchAssumption DEF IInv, TxRight, Keyed
<1>4. CASE tx' = [tx EXCEPT ![t] = [tx[t] EXCEPT !.todo = @ \ {p}]] /\ UNCHANGED lock
  <2> DEFINE s == [tx[t] EXCEPT !.todo = @ \ {p}]
  <2>1. /\ s.phase = "sweeping" /\ s.todo = tx[t].todo \ {p} /\ s.made = tx[t].made
        /\ s.gone = tx[t].gone /\ s \in TxState
    BY <1>1, <1>3 DEF TxState
  <2>2. tx'[t] = s /\ tx' = [tx EXCEPT ![t] = s]
    BY <1>1, <1>4 DEF IInv, Typed
  <2> HIDE DEF s, p
  <2>3. TxRight(t)'
    BY <1>1, <1>3, <1>4, <2>1, <2>2 DEF TxRight, MadeRight, SweeperRight, Occupied
  <2> QED BY <1>1, <1>3, <1>4, <2>1, <2>2, <2>3, OneTx DEF IInv, Typed
<1>5. CASE /\ lock[p] = Nobody /\ lock' = [lock EXCEPT ![p] = t]
           /\ tx' = [tx EXCEPT ![t] = [tx[t] EXCEPT !.phase = "deleting"]]
  <2> DEFINE s == [tx[t] EXCEPT !.phase = "deleting"]
  <2>1. /\ s.phase = "deleting" /\ s.todo = tx[t].todo /\ s.made = tx[t].made
        /\ s.gone = tx[t].gone /\ s \in TxState
    BY <1>3 DEF TxState
  <2>2. tx'[t] = s /\ tx' = [tx EXCEPT ![t] = s]
    BY <1>1, <1>5 DEF IInv, Typed
  <2>3. lock' \in [Partition -> Tx \cup {Nobody}]
        /\ \A q \in Partition : lock'[q] = IF q = p THEN t ELSE lock[q]
    BY <1>1, <1>2, <1>5 DEF IInv, Typed
  <2> HIDE DEF s
  <2>4. SweeperRight(t)'
    <3>1. \A q \in tx[t].gone : lock'[q] = t /\ ~Occupied(q)'
      BY <1>1, <1>3, <2>3, TxIs DEF SweeperRight, Occupied, IInv
    <3>2. lock'[Smallest(s.todo)] = t
      BY <1>2, <2>1, <2>3
    <3> QED BY <3>1, <3>2, <1>1, <1>3, <2>1, <2>2 DEF SweeperRight
  <2>5. TxRight(t)'
    BY <1>3, <2>1, <2>2, <2>4 DEF TxRight, MadeRight, SweeperRight
  <2>6. \A q \in Partition :
          lock'[q] = lock[q] \/ (lock[q] \in {t, Nobody} /\ lock'[q] \in {t, Nobody})
    BY <1>5, <2>3
  <2> QED BY <1>1, <1>3, <2>1, <2>2, <2>3, <2>5, <2>6, OneTx
<1> QED BY <1>4, <1>5 DEF SweepLock, Become

LEMMA SweepDeleteKeeps ==
    ASSUME IInv, NEW t \in Sweeper, SweepDelete(t) PROVE IInv'
<1> DEFINE p == Smallest(tx[t].todo)
           g == IF StillEmpty(p) THEN tx[t].gone \cup {p} ELSE tx[t].gone
           s == [tx[t] EXCEPT !.phase = "sweeping", !.todo = @ \ {p}, !.gone = g]
<1>1. t \in Tx /\ tx' = [tx EXCEPT ![t] = s] /\ UNCHANGED <<rows, counter, lock>>
      /\ tx[t].phase = "deleting"
  BY DEF SweepDelete, Become, Tx
<1>2. tx[t] \in TxState /\ TxRight(t) /\ SweeperRight(t) /\ t \notin Producer
      /\ \A r \in tx[t].made : OfRequest(r)
  BY <1>1, TxIs, BatchAssumption DEF IInv, TxRight, Keyed
<1>3. p \in Partition /\ lock[p] = t
  BY <1>1, <1>2, SweepNext DEF SweeperRight
<1>4. g \in SUBSET Partition /\ \A q \in g : lock[q] = t /\ ~Occupied(q)
  BY <1>2, <1>3 DEF TxState, SweeperRight, StillEmpty
<1> HIDE DEF g, p
<1>5. /\ s.phase = "sweeping" /\ s.todo = tx[t].todo \ {p} /\ s.made = tx[t].made
      /\ s.gone = g /\ s \in TxState
  BY <1>2, <1>4 DEF TxState
<1> HIDE DEF s
<1>6. tx'[t] = s
  BY <1>1 DEF IInv, Typed
<1>7. \A q \in g : ~Occupied(q)'
  BY <1>1, <1>4 DEF Occupied
<1>8. SweeperRight(t)'
  BY <1>1, <1>2, <1>4, <1>5, <1>6, <1>7 DEF SweeperRight
<1>9. TxRight(t)'
  BY <1>2, <1>5, <1>6, <1>8 DEF TxRight, MadeRight, SweeperRight
<1> QED BY <1>1, <1>2, <1>5, <1>9, OneTx DEF IInv, Typed

-----------------------------------------------------------------------------
(* Commits and consumers.                                                  *)

\* A finished transaction has nothing left that could be wrong.
LEMMA IdleIsRight ==
    ASSUME NEW t \in Tx, tx'[t] = Idle, \A p \in Partition : lock'[p] # t
    PROVE  TxRight(t)'
<1>1. Idle.made = {} /\ Idle.phase = "idle" /\ Idle.todo = {} /\ Idle.gone = {}
  BY DEF Idle
<1> QED BY <1>1 DEF TxRight, MadeRight, ProducerRight, SweeperRight

\* What Commit publishes: rows above the counter, under keys no active row has.
Published(t) ==
    {[kind |-> r.kind, partition |-> r.partition, key |-> r.key,
      seq |-> r.seq, active |-> TRUE] : r \in tx[t].made}

LEMMA PublishedIs ==
    ASSUME IInv, NEW t \in Tx, NEW q \in Published(t)
    PROVE  /\ q \in Row /\ OfRequest(q) /\ lock[q.partition] = t
           /\ counter[q.partition] < q.seq /\ q.seq <= tx[t].last[q.partition]
           /\ \A row \in rows : row.active => row.key # q.key
           /\ \A r \in Published(t) : q # r =>
                q.key # r.key /\ (q.partition = r.partition => q.seq # r.seq)
<1>1. tx[t].made \in SUBSET MadeRow /\ MadeRight(t)
  BY TxIs DEF IInv, TxRight
<1>2. ASSUME NEW r \in Published(t)
      PROVE \E m \in tx[t].made : /\ r = [kind |-> m.kind, partition |-> m.partition, key |-> m.key,
                                          seq |-> m.seq, active |-> TRUE]
                                  /\ r.partition = m.partition /\ r.key = m.key /\ r.seq = m.seq
  BY DEF Published
<1>3. PICK m \in tx[t].made : /\ q = [kind |-> m.kind, partition |-> m.partition, key |-> m.key,
                                      seq |-> m.seq, active |-> TRUE]
                              /\ q.partition = m.partition /\ q.key = m.key /\ q.seq = m.seq
  BY <1>2
<1>4. m \in MadeRow
  BY <1>1
<1>5. q \in Row
  BY <1>3, <1>4 DEF MadeRow, Row
<1>6. OfRequest(q)
  BY <1>3 DEF IInv, Keyed, OfRequest
<1>7. ASSUME NEW r \in Published(t), q # r
      PROVE  q.key # r.key /\ (q.partition = r.partition => q.seq # r.seq)
  <2>1. PICK n \in tx[t].made : /\ r = [kind |-> n.kind, partition |-> n.partition, key |-> n.key,
                                        seq |-> n.seq, active |-> TRUE]
                                /\ r.partition = n.partition /\ r.key = n.key /\ r.seq = n.seq
    BY <1>2
  <2>2. m # n
    BY <2>1, <1>3, <1>7
  <2> QED BY <2>1, <2>2, <1>1, <1>3 DEF MadeRight
<1> QED BY <1>1, <1>3, <1>5, <1>6, <1>7 DEF MadeRight

LEMMA CommitKeeps ==
    ASSUME IInv, NEW t \in Producer, Commit(t) PROVE IInv'
<1>1. /\ t \in Tx /\ tx' = [tx EXCEPT ![t] = Idle] /\ rows' = rows \cup Published(t)
      /\ counter' = [p \in Partition |-> IF p \in Held(t) THEN tx[t].last[p] ELSE counter[p]]
      /\ lock' = Released(t)
  BY DEF Commit, Become, Tx, Published
<1>2. Idle \in TxState /\ Idle.made = {}
  BY DEF Idle, TxState
<1>3. /\ t # Nobody /\ TxRight(t) /\ ProducerRight(t) /\ tx[t].last \in [Partition -> Nat]
  BY <1>1, TxIs, BatchAssumption DEF IInv, TxRight
<1>4. \A p \in Partition : lock'[p] = IF lock[p] = t THEN Nobody ELSE lock[p]
  BY <1>1 DEF Released
<1>5. \A p \in Partition : counter'[p] = IF lock[p] = t THEN tx[t].last[p] ELSE counter[p]
  BY <1>1 DEF Held
<1>6. Typed'
  <2>1. rows' \in SUBSET Row
    BY <1>1, PublishedIs DEF IInv, Typed
  <2>2. counter' \in [Partition -> Nat]
    BY <1>1, <1>3 DEF IInv, Typed
  <2>3. lock' \in [Partition -> Tx \cup {Nobody}]
    BY <1>1 DEF Released, IInv, Typed
  <2>4. tx' \in [Tx -> TxState]
    BY <1>1, <1>2 DEF IInv, Typed
  <2> QED BY <2>1, <2>2, <2>3, <2>4 DEF Typed
<1>7. \A u \in Tx : tx'[u] = IF u = t THEN Idle ELSE tx[u]
  BY <1>1 DEF IInv, Typed
<1>8. Keyed'
  <2>1. \A r \in rows' : OfRequest(r)
    BY <1>1, PublishedIs DEF IInv, Keyed
  <2>2. \A u \in Tx : \A r \in tx'[u].made : OfRequest(r)
    BY <1>2, <1>7 DEF IInv, Keyed
  <2> QED BY <2>1, <2>2 DEF Keyed, OfRequest
<1>9. ASSUME NEW r \in rows
      PROVE  r \in Row /\ r.partition \in Partition /\ r.seq \in Nat /\ r.seq <= counter[r.partition]
             /\ counter[r.partition] \in Nat
  BY DEF IInv, Typed, Row, Committed
<1>10. ASSUME NEW q \in rows, NEW r \in Published(t)
       PROVE  /\ q.partition = r.partition => q.seq # r.seq
              /\ q.active /\ r.active => q.key # r.key
  <2>1. r.seq \in Nat /\ counter[r.partition] < r.seq
    BY <1>1, PublishedIs DEF Row
  <2> QED BY <1>1, <1>9, <2>1, PublishedIs
<1>11. IndexesHold'
  <2>1. ASSUME NEW q \in rows', NEW r \in rows', q # r
        PROVE  /\ q.partition = r.partition => q.seq # r.seq
               /\ q.active /\ r.active => q.key # r.key
    <3>1. CASE q \in rows /\ r \in rows
      BY <2>1, <3>1 DEF IInv, Committed, IndexesHold
    <3>2. CASE q \in Published(t) /\ r \in Published(t)
      BY <1>1, <2>1, <3>2, PublishedIs
    <3> QED BY <1>1, <1>10, <3>1, <3>2
  <2> QED BY <2>1 DEF IndexesHold
<1>12. \A r \in rows' : r.seq <= counter'[r.partition]
  <2>1. ASSUME NEW r \in rows PROVE r.seq <= counter'[r.partition]
    <3>1. lock[r.partition] = t => counter[r.partition] <= tx[t].last[r.partition]
      BY <1>3, <1>9 DEF ProducerRight
    <3>2. tx[t].last[r.partition] \in Nat
      BY <1>3, <1>9
    <3> QED BY <1>5, <1>9, <3>1, <3>2
  <2>2. ASSUME NEW r \in Published(t) PROVE r.seq <= counter'[r.partition]
    BY <1>1, <1>5, PublishedIs DEF Row
  <2> QED BY <1>1, <2>1, <2>2
<1>13. ASSUME NEW u \in Tx, u # t PROVE TxRight(u)'
  <2>1. \A p \in Partition : (lock'[p] = u) <=> (lock[p] = u)
    BY <1>4, <1>13, BatchAssumption
  <2>2. \A p \in Partition : lock[p] = u => counter'[p] = counter[p]
    BY <1>5, <1>13
  <2>3. \A r \in rows' : lock[r.partition] = u => r \in rows
    BY <1>1, <1>13, PublishedIs
  <2>4. tx'[u] = tx[u]
    BY <1>7, <1>13
  <2> QED BY <1>6, <1>8, <2>1, <2>2, <2>3, <2>4, Frame
<1>14. TxRight(t)'
  BY <1>1, <1>3, <1>4, <1>7, IdleIsRight
<1> QED BY <1>6, <1>8, <1>11, <1>12, <1>13, <1>14 DEF IInv, Committed

LEMMA SweepCommitKeeps ==
    ASSUME IInv, NEW t \in Sweeper, SweepCommit(t) PROVE IInv'
<1>1. /\ t \in Tx /\ tx' = [tx EXCEPT ![t] = Idle] /\ UNCHANGED rows
      /\ counter' = [p \in Partition |-> IF p \in tx[t].gone THEN 0 ELSE counter[p]]
      /\ lock' = Released(t)
  BY DEF SweepCommit, Become, Tx
<1>2. Idle \in TxState /\ Idle.made = {}
  BY DEF Idle, TxState
<1>3. t # Nobody /\ SweeperRight(t)
  BY <1>1, BatchAssumption DEF IInv, TxRight
<1>4. \A p \in Partition : lock'[p] = IF lock[p] = t THEN Nobody ELSE lock[p]
  BY <1>1 DEF Released
<1>5. Typed'
  <2>1. counter' \in [Partition -> Nat]
    BY <1>1 DEF IInv, Typed
  <2>2. lock' \in [Partition -> Tx \cup {Nobody}]
    BY <1>1 DEF Released, IInv, Typed
  <2> QED BY <2>1, <2>2, <1>1, <1>2 DEF IInv, Typed
<1>6. \A u \in Tx : tx'[u] = IF u = t THEN Idle ELSE tx[u]
  BY <1>1 DEF IInv, Typed
<1>7. Keyed'
  BY <1>1, <1>2, <1>6 DEF IInv, Keyed, OfRequest
<1>8. Committed'
  <2>1. ASSUME NEW r \in rows PROVE r.seq <= counter'[r.partition]
    <3>1. r.partition \in Partition /\ r.partition \notin tx[t].gone
      BY <1>3 DEF IInv, Typed, Row, SweeperRight, Occupied
    <3> QED BY <1>1, <3>1 DEF IInv, Committed
  <2> QED BY <2>1, <1>1 DEF IInv, Committed, IndexesHold
<1>9. ASSUME NEW u \in Tx, u # t PROVE TxRight(u)'
  <2>1. \A p \in Partition : (lock'[p] = u) <=> (lock[p] = u)
    BY <1>4, <1>9, BatchAssumption
  <2>2. \A p \in Partition : lock[p] = u => counter'[p] = counter[p]
    BY <1>1, <1>3, <1>9 DEF SweeperRight
  <2>3. tx'[u] = tx[u]
    BY <1>6, <1>9
  <2> QED BY <1>1, <1>5, <1>7, <2>1, <2>2, <2>3, Frame
<1>10. TxRight(t)'
  BY <1>1, <1>3, <1>4, <1>6, IdleIsRight
<1> QED BY <1>5, <1>7, <1>8, <1>9, <1>10 DEF IInv

LEMMA ConsumerKeeps ==
    ASSUME IInv, NEW r \in rows, Finish(r) \/ Prune(r) PROVE IInv'
<1>1. UNCHANGED <<counter, lock, tx>> /\ r \in Row
  BY DEF Finish, Prune, IInv, Typed
<1> DEFINE d == [r EXCEPT !.active = FALSE]
<1>2. /\ d \in Row /\ d.partition = r.partition /\ d.key = r.key /\ d.seq = r.seq /\ d.active = FALSE
  BY <1>1 DEF Row
<1> HIDE DEF d
<1>3. rows' = (rows \ {r}) \cup {d} \/ rows' = rows \ {r}
  BY DEF Finish, Prune, d
<1>4. Typed'
  BY <1>1, <1>2, <1>3 DEF IInv, Typed
<1>5. OfRequest(d)
  BY <1>2 DEF IInv, Keyed, OfRequest
<1>6. Keyed'
  <2>1. \A q \in rows' : OfRequest(q)
    BY <1>3, <1>5 DEF IInv, Keyed
  <2> QED BY <2>1, <1>1 DEF IInv, Keyed, OfRequest
<1>7. Committed'
  <2>1. IndexesHold'
    BY <1>2, <1>3 DEF IInv, Committed, IndexesHold
  <2>2. \A q \in rows' : q.seq <= counter[q.partition]
    BY <1>2, <1>3 DEF IInv, Committed
  <2> QED BY <2>1, <2>2, <1>1 DEF Committed
<1>8. ASSUME NEW u \in Tx PROVE TxRight(u)'
  <2>1. ASSUME NEW q \in rows'
        PROVE  \E o \in rows : o.partition = q.partition /\ o.key = q.key /\ (q.active => o.active)
    BY <1>2, <1>3
  <2> QED BY <1>1, <1>4, <1>6, <2>1, Frame
<1> QED BY <1>4, <1>6, <1>7, <1>8 DEF IInv

LEMMA NextKeeps == IInv /\ [Next]_vars => IInv'
<1> SUFFICES ASSUME IInv, [Next]_vars PROVE IInv'
  OBVIOUS
<1>1. ASSUME NEW t \in Producer, Step(t) PROVE IInv'
  BY <1>1, LockCounterKeeps, ReuseKeeps, AdvanceKeeps, InsertKeeps, BeginNextKeeps, CommitKeeps
     DEF Step
<1>2. ASSUME NEW t \in Sweeper, SweepBegin(t) \/ SweepStep(t) PROVE IInv'
  BY <1>2, SweepBeginKeeps, SweepLockKeeps, SweepDeleteKeeps, SweepCommitKeeps DEF SweepStep
<1>3. ASSUME UNCHANGED vars PROVE IInv'
  <2>1. Typed' /\ Keyed'
    BY <1>3 DEF vars, IInv, Typed, Keyed, OfRequest
  <2>2. Committed'
    BY <1>3 DEF vars, IInv, Committed, IndexesHold
  <2>3. \A u \in Tx : TxRight(u)'
    BY <1>3, <2>1, Frame DEF vars
  <2> QED BY <2>1, <2>2, <2>3 DEF IInv
<1> QED BY <1>1, <1>2, <1>3, BeginKeeps, AbortKeeps, ConsumerKeeps DEF Next

\* The inductive invariant holds in every reachable state.
THEOREM Invariance == Spec => []IInv
  BY InitIInv, NextKeeps, PTL DEF Spec

\* For any transactions, partitions and batches: two rows of a partition never
\* have the same sequence and two active rows never the same dedupe key,
\* although sweeps delete counters while producers wait for them.
THEOREM IndexesHoldAlways == Spec => []IndexesHold
<1>1. IInv => IndexesHold
  BY DEF IInv, Committed
<1> QED BY <1>1, Invariance, PTL

\* A commit publishes its rows above every row of the partition that is
\* already visible.
THEOREM VisibleInOrderHolds == Spec => VisibleInOrder
<1> DEFINE Publishes == \A r \in rows' \ rows : r.active =>
                           \A q \in rows : q.partition = r.partition => q.seq < r.seq
<1>1. IInv /\ [Next]_vars => [Publishes]_vars
  <2> SUFFICES ASSUME IInv, Next PROVE Publishes
    OBVIOUS
  <2>1. ASSUME NEW t \in Producer, Commit(t) PROVE Publishes
    <3>1. t \in Tx /\ rows' = rows \cup Published(t)
      BY <2>1 DEF Commit, Published, Tx
    <3>2. ASSUME NEW r \in Published(t), NEW q \in rows, q.partition = r.partition
          PROVE  q.seq < r.seq
      <4>1. r \in Row /\ counter[r.partition] < r.seq
        BY <3>1, PublishedIs
      <4>2. q \in Row /\ q.seq <= counter[q.partition] /\ counter[q.partition] \in Nat
        BY DEF IInv, Committed, Typed, Row
      <4> QED BY <3>2, <4>1, <4>2 DEF Row
    <3> QED BY <3>1, <3>2
  <2>2. ASSUME NEW r \in rows, Finish(r) \/ Prune(r) PROVE Publishes
    <3>1. r \in Row
      BY DEF IInv, Typed
    <3>2. ASSUME NEW q \in rows' \ rows PROVE ~q.active
      BY <2>2, <3>1, <3>2 DEF Finish, Prune, Row
    <3> QED BY <3>2
  <2>3. ASSUME rows' = rows PROVE Publishes
    BY <2>3
  <2> QED BY <2>1, <2>2, <2>3 DEF Next, Begin, Step, LockCounter, Reuse, Advance, Insert, BeginNext,
       Abort, SweepBegin, SweepStep, SweepLock, SweepDelete, SweepCommit
<1> QED BY <1>1, Invariance, PTL DEF Spec, VisibleInOrder

-----------------------------------------------------------------------------
(* The lock order: producers and sweeps never wait for one another in a    *)
(* circle, however many they are.                                          *)

\* The lock order over the batches of one transaction.
Ascending ==
    \A bs \in Batches : \A m, n \in DOMAIN bs : m < n =>
        \A i \in DOMAIN bs[m], k \in DOMAIN bs[n] : bs[m][i].partition <= bs[n][k].partition

\* What a transaction holds is below all it will still lock.
Ordered(t) ==
    /\ t \in Producer =>
         /\ \A h \in Held(t), p \in Unlocked(t) : h < p
         /\ \A n \in DOMAIN tx[t].more : \A k \in DOMAIN tx[t].more[n] :
              /\ \A h \in Held(t) : h <= tx[t].more[n][k].partition
              /\ \A i \in DOMAIN tx[t].batch :
                   tx[t].batch[i].partition <= tx[t].more[n][k].partition
              /\ \A m \in DOMAIN tx[t].more : m < n => \A i \in DOMAIN tx[t].more[m] :
                   tx[t].more[m][i].partition <= tx[t].more[n][k].partition
    /\ t \in Sweeper => \A h \in Held(t), p \in tx[t].todo :
         h < p \/ (tx[t].phase = "deleting" /\ p = Smallest(tx[t].todo) /\ h <= p)

OInv == \A t \in Tx : Ordered(t)

-----------------------------------------------------------------------------
(* Steps keep the order.                                                   *)

LEMMA OrderFrame ==
    ASSUME NEW u \in Tx, Ordered(u), tx'[u] = tx[u],
           \A p \in Partition : (lock'[p] = u) <=> (lock[p] = u)
    PROVE  Ordered(u)'
<1>1. Held(u)' = Held(u)
  BY DEF Held
<1>2. Unlocked(u)' = Unlocked(u)
  BY <1>1 DEF Unlocked
<1> QED BY <1>1, <1>2 DEF Ordered

\* A step of transaction t leaves the order of the others alone.
LEMMA OrderOneTx ==
    ASSUME Typed, OInv, NEW t \in Tx, NEW s, tx' = [tx EXCEPT ![t] = s],
           \A p \in Partition :
               lock'[p] = lock[p] \/ (lock[p] \in {t, Nobody} /\ lock'[p] \in {t, Nobody}),
           Ordered(t)'
    PROVE  OInv'
<1>1. ASSUME NEW u \in Tx, u # t PROVE Ordered(u)'
  <2>1. \A p \in Partition : (lock'[p] = u) <=> (lock[p] = u)
    BY <1>1, BatchAssumption
  <2>2. tx'[u] = tx[u]
    BY <1>1 DEF Typed
  <2> QED BY <2>1, <2>2, OrderFrame DEF OInv
<1> QED BY <1>1 DEF OInv

\* A transaction that holds nothing and will lock nothing is in order.
LEMMA OrderIdle ==
    ASSUME NEW t \in Tx, tx'[t] = Idle, \A p \in Partition : lock'[p] # t
    PROVE  Ordered(t)'
<1>1. Idle.batch = <<>> /\ Idle.more = <<>> /\ Idle.todo = {}
  BY DEF Idle
<1>2. Held(t)' = {}
  BY DEF Held
<1> QED BY <1>1, <1>2 DEF Ordered

\* Begin: the batches of the caller are in order.
LEMMA BeginOrdered ==
    ASSUME IInv, OInv, Ascending, NEW t \in Producer, NEW bs \in Batches, Begin(t, bs) PROVE OInv'
<1> DEFINE s == [Idle EXCEPT !.phase = "locking", !.batch = Head(bs), !.more = Tail(bs),
                             !.todo = DOMAIN Head(bs)]
<1>1. t \in Tx /\ tx' = [tx EXCEPT ![t] = s] /\ UNCHANGED lock /\ tx[t].phase = "idle"
      /\ t \notin Sweeper
  BY BatchAssumption DEF Begin, Become, Tx
<1>2. s.batch = Head(bs) /\ s.more = Tail(bs)
  BY DEF Idle
<1> HIDE DEF s
<1>3. tx'[t] = s
  BY <1>1 DEF IInv, Typed
<1>4. Held(t)' = {}
  BY <1>1 DEF IInv, TxRight, Held
<1>5. bs \in Seq(Seq(Request)) /\ bs # <<>>
  BY BatchAssumption
<1>6. /\ Head(bs) = bs[1] /\ 1 \in DOMAIN bs
      /\ \A n \in DOMAIN Tail(bs) : Tail(bs)[n] = bs[n + 1] /\ n + 1 \in DOMAIN bs /\ n \in Nat /\ n >= 1
  BY <1>5
<1>7. ASSUME NEW n \in DOMAIN Tail(bs), NEW k \in DOMAIN Tail(bs)[n]
      PROVE  /\ \A i \in DOMAIN Head(bs) : Head(bs)[i].partition <= Tail(bs)[n][k].partition
             /\ \A m \in DOMAIN Tail(bs) : m < n => \A i \in DOMAIN Tail(bs)[m] :
                  Tail(bs)[m][i].partition <= Tail(bs)[n][k].partition
  <2>1. 1 < n + 1 /\ \A m \in DOMAIN Tail(bs) : m < n => m + 1 < n + 1
    BY <1>6
  <2> QED BY <1>6, <2>1 DEF Ascending
<1>8. Ordered(t)'
  <2>1. tx'[t].batch = Head(bs) /\ tx'[t].more = Tail(bs)
    BY <1>2, <1>3
  <2>2. \A n \in DOMAIN tx'[t].more : \A k \in DOMAIN tx'[t].more[n] :
          /\ \A h \in Held(t)' : h <= tx'[t].more[n][k].partition
          /\ \A i \in DOMAIN tx'[t].batch :
               tx'[t].batch[i].partition <= tx'[t].more[n][k].partition
          /\ \A m \in DOMAIN tx'[t].more : m < n => \A i \in DOMAIN tx'[t].more[m] :
               tx'[t].more[m][i].partition <= tx'[t].more[n][k].partition
    BY <2>1, <1>4, <1>7, Zenon
  <2>3. \A h \in Held(t)', p \in Unlocked(t)' : h < p
    BY <1>4
  <2> QED BY <1>1, <2>2, <2>3, Zenon DEF Ordered
<1> QED BY <1>1, <1>8, OrderOneTx DEF IInv

\* BeginNext: what is held is at most what the next batch names.
LEMMA BeginNextOrdered ==
    ASSUME IInv, OInv, NEW t \in Producer, BeginNext(t) PROVE OInv'
<1> DEFINE more == tx[t].more
           s == [tx[t] EXCEPT !.batch = Head(more), !.more = Tail(@), !.todo = DOMAIN Head(more)]
<1>1. t \in Tx /\ tx' = [tx EXCEPT ![t] = s] /\ UNCHANGED lock /\ more # <<>> /\ t \notin Sweeper
  BY BatchAssumption DEF BeginNext, Become, Tx
<1>2. more \in Seq(Seq(Request)) /\ tx[t] \in TxState
  BY <1>1, TxIs DEF IInv
<1>3. s.batch = Head(more) /\ s.more = Tail(more)
  BY <1>2 DEF TxState
<1> HIDE DEF s
<1>4. tx'[t] = s /\ Held(t)' = Held(t)
  BY <1>1 DEF IInv, Typed, Held
<1>5. /\ Head(more) = more[1] /\ 1 \in DOMAIN more
      /\ \A n \in DOMAIN Tail(more) :
           Tail(more)[n] = more[n + 1] /\ n + 1 \in DOMAIN more /\ n \in Nat /\ n >= 1
  BY <1>1, <1>2
<1>6. Ordered(t)
  BY <1>1 DEF OInv
<1>7. ASSUME NEW n \in DOMAIN Tail(more), NEW k \in DOMAIN Tail(more)[n]
      PROVE  /\ \A h \in Held(t) : h <= Tail(more)[n][k].partition
             /\ \A i \in DOMAIN Head(more) : Head(more)[i].partition <= Tail(more)[n][k].partition
             /\ \A m \in DOMAIN Tail(more) : m < n => \A i \in DOMAIN Tail(more)[m] :
                  Tail(more)[m][i].partition <= Tail(more)[n][k].partition
  <2>1. 1 < n + 1 /\ \A m \in DOMAIN Tail(more) : m < n => m + 1 < n + 1
    BY <1>5
  <2> QED BY <1>5, <1>6, <2>1 DEF Ordered
<1>8. ASSUME NEW h \in Held(t), NEW p \in Unlocked(t)' PROVE h < p
  <2>1. PICK i \in DOMAIN Head(more) : p = Head(more)[i].partition /\ p \notin Held(t)
    BY <1>3, <1>4 DEF Unlocked
  <2>2. h <= p
    BY <1>5, <1>6, <2>1 DEF Ordered
  <2>3. Head(more)[i] \in Request
    BY <1>1, <1>2
  <2>4. h \in Nat /\ p \in Nat
    BY <2>1, <2>3, RequestIs, BatchAssumption DEF Held
  <2> QED BY <2>1, <2>2, <2>4
<1> HIDE DEF more
<1>9. Ordered(t)'
  <2>1. tx'[t].batch = Head(more) /\ tx'[t].more = Tail(more)
    BY <1>3, <1>4
  <2>2. \A n \in DOMAIN tx'[t].more : \A k \in DOMAIN tx'[t].more[n] :
          /\ \A h \in Held(t)' : h <= tx'[t].more[n][k].partition
          /\ \A i \in DOMAIN tx'[t].batch :
               tx'[t].batch[i].partition <= tx'[t].more[n][k].partition
          /\ \A m \in DOMAIN tx'[t].more : m < n => \A i \in DOMAIN tx'[t].more[m] :
               tx'[t].more[m][i].partition <= tx'[t].more[n][k].partition
    BY <2>1, <1>4, <1>7, Zenon
  <2>3. \A h \in Held(t)', p \in Unlocked(t)' : h < p
    BY <1>4, <1>8
  <2> QED BY <1>1, <2>2, <2>3, Zenon DEF Ordered
<1> QED BY <1>1, <1>9, OrderOneTx DEF IInv

\* LockCounter: the least counter of the batch is taken.
LEMMA LockCounterOrdered ==
    ASSUME IInv, OInv, NEW t \in Producer, LockCounter(t) PROVE OInv'
<1> DEFINE c == NextCounter(t)
           s == [tx[t] EXCEPT !.last[c] = counter[c]]
<1>1. t \in Tx /\ tx' = [tx EXCEPT ![t] = s] /\ t \notin Sweeper /\ Unlocked(t) # {}
      /\ lock[c] = Nobody /\ lock' = [lock EXCEPT ![c] = t]
  BY BatchAssumption DEF LockCounter, Become, Tx
<1>2. tx[t] \in TxState /\ tx[t].batch \in Seq(Request)
  BY <1>1, TxIs DEF IInv
<1>3. Unlocked(t) \in SUBSET Partition /\ Unlocked(t) \in SUBSET Nat
  <2>1. Unlocked(t) \in SUBSET Partition
    BY <1>2, RequestIs DEF Unlocked
  <2> QED BY <2>1, BatchAssumption
<1>4. c \in Unlocked(t) /\ c \in Partition /\ \A q \in Unlocked(t) : c <= q
  BY <1>1, <1>3, SmallestIs DEF NextCounter
<1>5. s.batch = tx[t].batch /\ s.more = tx[t].more
  BY <1>2 DEF TxState
<1> HIDE DEF s, c
<1>6. tx'[t].batch = tx[t].batch /\ tx'[t].more = tx[t].more
  BY <1>1, <1>5 DEF IInv, Typed
<1>7. Held(t)' = Held(t) \cup {c}
  BY <1>1, <1>4 DEF IInv, Typed, Held
<1>8. Unlocked(t)' = Unlocked(t) \ {c}
  BY <1>6, <1>7 DEF Unlocked
<1>9. PICK j \in DOMAIN tx[t].batch : c = tx[t].batch[j].partition
  BY <1>4 DEF Unlocked
<1>10. Ordered(t)
  BY <1>1 DEF OInv
<1>11. \A h \in Held(t)', p \in Unlocked(t)' : h < p
  <2>1. \A p \in Unlocked(t) \ {c} : c < p
    BY <1>3, <1>4
  <2> QED BY <2>1, <1>1, <1>7, <1>8, <1>10 DEF Ordered
<1>12. \A n \in DOMAIN tx[t].more : \A k \in DOMAIN tx[t].more[n] :
         /\ \A h \in Held(t)' : h <= tx[t].more[n][k].partition
         /\ \A i \in DOMAIN tx[t].batch :
              tx[t].batch[i].partition <= tx[t].more[n][k].partition
         /\ \A m \in DOMAIN tx[t].more : m < n => \A i \in DOMAIN tx[t].more[m] :
              tx[t].more[m][i].partition <= tx[t].more[n][k].partition
  BY <1>7, <1>9, <1>10 DEF Ordered
<1>13. Ordered(t)'
  BY <1>1, <1>6, <1>11, <1>12 DEF Ordered
<1>14. \A p \in Partition :
         lock'[p] = lock[p] \/ (lock[p] \in {t, Nobody} /\ lock'[p] \in {t, Nobody})
  BY <1>1, <1>4 DEF IInv, Typed
<1> QED BY <1>1, <1>13, <1>14, OrderOneTx DEF IInv

\* Allocation neither locks nor changes the batches.
LEMMA AllocationOrdered ==
    ASSUME IInv, OInv, NEW t \in Producer, NEW i \in tx[t].todo,
           Reuse(t, i) \/ Advance(t, i) \/ Insert(t, i)
    PROVE  OInv'
<1>1. t \in Tx /\ t \notin Sweeper /\ UNCHANGED lock
  BY BatchAssumption DEF Reuse, Advance, Insert, Tx
<1>2. tx[t] \in TxState
  BY <1>1, TxIs DEF IInv
<1>3. PICK s : tx' = [tx EXCEPT ![t] = s] /\ s.batch = tx[t].batch /\ s.more = tx[t].more
  <2>1. CASE Reuse(t, i)
    <3>1. WITNESS [tx[t] EXCEPT !.todo = @ \ {i}]
    <3> QED BY <2>1, <1>2 DEF Reuse, Become, TxState
  <2>2. CASE Advance(t, i)
    <3>1. WITNESS [tx[t] EXCEPT !.phase = "inserting", !.last[tx[t].batch[i].partition] = @ + 1]
    <3> QED BY <2>2, <1>2 DEF Advance, Become, TxState
  <2>3. CASE Insert(t, i)
    <3> DEFINE r == tx[t].batch[i]
               row == [kind |-> r.kind, partition |-> r.partition, key |-> r.key,
                       seq |-> tx[t].last[r.partition]]
    <3>1. WITNESS [tx[t] EXCEPT
                     !.phase = "locking", !.todo = @ \ {i},
                     !.made = IF ActiveDuplicate(t, r) THEN @ ELSE @ \cup {row}]
    <3> QED BY <2>3, <1>2 DEF Insert, Become, TxState
  <2> QED BY <2>1, <2>2, <2>3
<1>4. tx'[t].batch = tx[t].batch /\ tx'[t].more = tx[t].more
  BY <1>1, <1>3 DEF IInv, Typed
<1>5. Held(t)' = Held(t)
  BY <1>1 DEF Held
<1>6. Unlocked(t)' = Unlocked(t)
  BY <1>4, <1>5 DEF Unlocked
<1>7. Ordered(t)'
  BY <1>1, <1>4, <1>5, <1>6 DEF OInv, Ordered
<1> QED BY <1>1, <1>3, <1>7, OrderOneTx DEF IInv

\* A transaction that ends gives all its counters back.
LEMMA EndOrdered ==
    ASSUME IInv, OInv, NEW t \in Tx, tx' = [tx EXCEPT ![t] = Idle], lock' = Released(t)
    PROVE  OInv'
<1>1. \A p \in Partition : lock'[p] = IF lock[p] = t THEN Nobody ELSE lock[p]
  BY DEF Released
<1>2. tx'[t] = Idle /\ t # Nobody
  BY BatchAssumption DEF IInv, Typed
<1>3. Ordered(t)'
  BY <1>1, <1>2, OrderIdle
<1> QED BY <1>1, <1>3, OrderOneTx DEF IInv

\* Sweeps take the counters they selected in ascending order.
LEMMA SweepBeginOrdered ==
    ASSUME IInv, OInv, NEW t \in Sweeper, SweepBegin(t) PROVE OInv'
<1> DEFINE s == [Idle EXCEPT !.phase = "sweeping",
                             !.todo = {p \in Partition : counter[p] > 0 /\ ~Occupied(p)}]
<1>1. t \in Tx /\ t \notin Producer /\ tx' = [tx EXCEPT ![t] = s] /\ UNCHANGED lock
      /\ tx[t].phase = "idle"
  BY BatchAssumption DEF SweepBegin, Become, Tx
<1> HIDE DEF s
<1>2. Held(t)' = {}
  BY <1>1 DEF IInv, TxRight, Held
<1>3. Ordered(t)'
  BY <1>1, <1>2 DEF Ordered
<1> QED BY <1>1, <1>3, OrderOneTx DEF IInv

LEMMA SweepLockOrdered ==
    ASSUME IInv, OInv, NEW t \in Sweeper, SweepLock(t) PROVE OInv'
<1> DEFINE c == Smallest(tx[t].todo)
<1>1. t \in Tx /\ t \notin Producer /\ tx[t].phase = "sweeping" /\ tx[t].todo # {}
  BY BatchAssumption DEF SweepLock, Tx
<1>2. /\ c \in tx[t].todo /\ c \in Partition /\ \A q \in tx[t].todo : c <= q
      /\ tx[t].todo \in SUBSET Nat /\ tx[t] \in TxState
  BY <1>1, SweepNext, TxIs DEF IInv
<1>3. \A h \in Held(t), p \in tx[t].todo : h < p
  BY <1>1 DEF OInv, Ordered
<1>4. CASE tx' = [tx EXCEPT ![t] = [tx[t] EXCEPT !.todo = @ \ {c}]] /\ UNCHANGED lock
  <2>1. tx'[t].todo \subseteq tx[t].todo
    BY <1>1, <1>2, <1>4 DEF IInv, Typed, TxState
  <2>2. Held(t)' = Held(t)
    BY <1>4 DEF Held
  <2> HIDE DEF c
  <2>3. Ordered(t)'
    BY <1>1, <1>3, <2>1, <2>2 DEF Ordered
  <2> QED BY <1>1, <1>4, <2>3, OrderOneTx DEF IInv
<1>5. CASE /\ lock[c] = Nobody /\ lock' = [lock EXCEPT ![c] = t]
           /\ tx' = [tx EXCEPT ![t] = [tx[t] EXCEPT !.phase = "deleting"]]
  <2>1. tx'[t].todo = tx[t].todo /\ tx'[t].phase = "deleting"
    BY <1>1, <1>2, <1>5 DEF IInv, Typed, TxState
  <2>2. Held(t)' = Held(t) \cup {c}
    BY <1>1, <1>2, <1>5 DEF IInv, Typed, Held
  <2>3. ASSUME NEW h \in Held(t)', NEW p \in tx[t].todo
        PROVE  h < p \/ (p = c /\ h <= p)
    BY <1>2, <1>3, <2>2
  <2>4. Ordered(t)'
    BY <1>1, <2>1, <2>3 DEF Ordered
  <2>5. \A p \in Partition :
          lock'[p] = lock[p] \/ (lock[p] \in {t, Nobody} /\ lock'[p] \in {t, Nobody})
    BY <1>2, <1>5 DEF IInv, Typed
  <2> QED BY <1>1, <1>5, <2>4, <2>5, OrderOneTx DEF IInv
<1> QED BY <1>4, <1>5 DEF SweepLock, Become

LEMMA SweepDeleteOrdered ==
    ASSUME IInv, OInv, NEW t \in Sweeper, SweepDelete(t) PROVE OInv'
<1> DEFINE c == Smallest(tx[t].todo)
           s == [tx[t] EXCEPT !.phase = "sweeping", !.todo = @ \ {c},
                              !.gone = IF StillEmpty(c) THEN @ \cup {c} ELSE @]
<1>1. t \in Tx /\ t \notin Producer /\ tx' = [tx EXCEPT ![t] = s] /\ UNCHANGED lock
  BY BatchAssumption DEF SweepDelete, Become, Tx
<1>2. tx[t] \in TxState
  BY <1>1, TxIs DEF IInv
<1>3. s.todo = tx[t].todo \ {c}
  BY <1>2 DEF TxState
<1> HIDE DEF s
<1>4. tx'[t].todo = tx[t].todo \ {c}
  BY <1>1, <1>3 DEF IInv, Typed
<1>5. Held(t)' = Held(t)
  BY <1>1 DEF Held
<1>6. \A h \in Held(t), p \in tx[t].todo : h < p \/ p = c
  BY <1>1 DEF OInv, Ordered
<1> HIDE DEF c
<1>7. Ordered(t)'
  BY <1>1, <1>4, <1>5, <1>6 DEF Ordered
<1> QED BY <1>1, <1>7, OrderOneTx DEF IInv

LEMMA NextOrdered == ASSUME Ascending PROVE IInv /\ OInv /\ [Next]_vars => OInv'
<1> SUFFICES ASSUME IInv, OInv, [Next]_vars PROVE OInv'
  OBVIOUS
<1>1. ASSUME NEW t \in Producer, Step(t) PROVE OInv'
  <2>1. CASE Commit(t)
    BY <2>1, EndOrdered DEF Commit, Become, Tx
  <2> QED BY <1>1, <2>1, LockCounterOrdered, AllocationOrdered, BeginNextOrdered DEF Step
<1>2. ASSUME NEW t \in Sweeper, SweepBegin(t) \/ SweepStep(t) PROVE OInv'
  <2>1. CASE SweepCommit(t)
    BY <2>1, EndOrdered DEF SweepCommit, Become, Tx
  <2> QED BY <1>2, <2>1, SweepBeginOrdered, SweepLockOrdered, SweepDeleteOrdered DEF SweepStep
<1>3. ASSUME NEW t \in Tx, Abort(t) PROVE OInv'
  BY <1>3, EndOrdered DEF Abort, Become
<1>4. ASSUME UNCHANGED <<lock, tx>> PROVE OInv'
  BY <1>4, OrderFrame DEF OInv
<1> QED BY <1>1, <1>2, <1>3, <1>4, BeginOrdered DEF Next, vars, Finish, Prune

\* The counter a transaction waits for.
Wanted(t) == IF tx[t].phase = "locking" THEN NextCounter(t) ELSE Smallest(tx[t].todo)

LEMMA WantedIs ==
    ASSUME IInv, OInv, NEW t \in Tx, NEW u, WaitsFor(t, u)
    PROVE  /\ Wanted(t) \in Partition /\ lock[Wanted(t)] = u
           /\ \A h \in Held(t) : h < Wanted(t)
<1>1. CASE tx[t].phase = "locking" /\ Unlocked(t) # {} /\ lock[NextCounter(t)] = u
  <2>1. t \in Producer
    BY <1>1 DEF IInv, TxRight, SweeperRight, Tx
  <2>2. tx[t].batch \in Seq(Request)
    BY TxIs DEF IInv
  <2>3. Unlocked(t) \in SUBSET Partition
    BY <2>2, RequestIs DEF Unlocked
  <2>4. Unlocked(t) \in SUBSET Nat
    BY <2>3, BatchAssumption
  <2>5. NextCounter(t) \in Unlocked(t)
    BY <1>1, <2>4, SmallestIs DEF NextCounter
  <2> QED BY <1>1, <2>1, <2>3, <2>5 DEF Wanted, OInv, Ordered
<1>2. CASE tx[t].phase = "sweeping" /\ tx[t].todo # {} /\ lock[Smallest(tx[t].todo)] = u
  <2>1. t \in Sweeper
    BY <1>2 DEF IInv, TxRight, ProducerRight, Tx
  <2>2. Smallest(tx[t].todo) \in tx[t].todo /\ Smallest(tx[t].todo) \in Partition
    BY <1>2, <2>1, SweepNext
  <2> QED BY <1>2, <2>1, <2>2 DEF Wanted, OInv, Ordered
<1> QED BY <1>1, <1>2 DEF WaitsFor

\* A non-empty set of counters has a greatest one.
LEMMA GreatestExists ==
    ASSUME NEW W \in SUBSET Partition, W # {}
    PROVE  \E g \in W : \A w \in W : w <= g
<1> DEFINE Above(p) == {q \in W : p < q}
           Sizes == {Cardinality(Above(p)) : p \in W}
<1>1. IsFiniteSet(W) /\ W \in SUBSET Nat
  BY BatchAssumption, FS_Subset
<1>2. ASSUME NEW p \in W PROVE IsFiniteSet(Above(p)) /\ Cardinality(Above(p)) \in Nat
  BY <1>1, FS_Subset, FS_CardinalityType
<1>3. Sizes \in SUBSET Nat /\ Sizes # {}
  BY <1>2
<1>4. Smallest(Sizes) \in Sizes /\ \A n \in Sizes : Smallest(Sizes) <= n
  <2> HIDE DEF Sizes
  <2> QED BY <1>3, SmallestIs
<1>5. PICK g \in W : Cardinality(Above(g)) = Smallest(Sizes)
  BY <1>4
<1>6. ASSUME NEW w \in W, g < w PROVE FALSE
  <2>1. Above(w) \in SUBSET Above(g) /\ w \in Above(g) /\ w \notin Above(w)
    <3>1. g \in Nat /\ w \in Nat
      BY <1>1
    <3>2. ASSUME NEW q \in Above(w) PROVE q \in Above(g)
      <4>1. q \in W /\ w < q /\ q \in Nat
        BY <1>1
      <4> QED BY <4>1, <3>1, <1>6
    <3>3. w \in Above(g) /\ w \notin Above(w)
      BY <1>6, <3>1
    <3> HIDE DEF Above
    <3> QED BY <3>2, <3>3
  <2>2. Cardinality(Above(w)) <= Cardinality(Above(g))
        /\ Cardinality(Above(g)) # Cardinality(Above(w))
    <3> HIDE DEF Above
    <3> QED BY <2>1, <1>2, FS_Subset
  <2>3. Cardinality(Above(w)) \in Sizes
    <3> HIDE DEF Above
    <3> QED BY Zenon
  <2>4. Cardinality(Above(g)) <= Cardinality(Above(w))
    BY <2>3, <1>4, <1>5
  <2>5. Cardinality(Above(g)) \in Nat /\ Cardinality(Above(w)) \in Nat
    BY <1>2
  <2> HIDE DEF Above
  <2> QED BY <2>2, <2>4, <2>5
<1>7. \A w \in W : w <= g
  BY <1>1, <1>6
<1> QED BY <1>7

LEMMA OrderedNoCycle == IInv /\ OInv => NoLockCycle
<1> SUFFICES ASSUME IInv, OInv, NEW S \in (SUBSET Tx) \ {{}},
                    \A t \in S : \E u \in S : WaitsFor(t, u)
             PROVE  FALSE
  BY DEF NoLockCycle
<1> DEFINE W == {Wanted(t) : t \in S}
<1>1. W \in SUBSET Partition /\ W # {}
  <2>1. \A t \in S : Wanted(t) \in Partition
    BY WantedIs
  <2> QED BY <2>1
<1>2. PICK g \in W : \A w \in W : w <= g
  <2> HIDE DEF W
  <2> QED BY <1>1, GreatestExists
<1>3. PICK t \in S : g = Wanted(t)
  OBVIOUS
<1>4. PICK u \in S : WaitsFor(t, u)
  OBVIOUS
<1>5. g \in Held(u)
  BY <1>3, <1>4, WantedIs DEF Held
<1>6. PICK v \in S : WaitsFor(u, v)
  OBVIOUS
<1>7. g < Wanted(u) /\ Wanted(u) \in W
  BY <1>5, <1>6, WantedIs
<1>8. g \in Nat /\ Wanted(u) \in Nat
  BY <1>1, <1>7, BatchAssumption
<1> HIDE DEF W
<1> QED BY <1>2, <1>7, <1>8

\* Transactions whose batches name counters in ascending order from one call
\* of EnqueueBatchTx to the next never wait in a circle, with one another or
\* with the sweeps, however many they are.
THEOREM NoLockCycleHolds == ASSUME Ascending PROVE Spec => []NoLockCycle
<1>1. Init => OInv
  <2> SUFFICES ASSUME Init, NEW t \in Tx PROVE Ordered(t)
    BY DEF OInv
  <2>1. tx[t] = Idle /\ Held(t) = {}
    BY BatchAssumption DEF Init, Held
  <2> QED BY <2>1 DEF Ordered, Idle
<1>2. IInv /\ OInv /\ [Next]_vars => OInv'
  BY NextOrdered
<1>3. Spec => []OInv
  BY <1>1, <1>2, Invariance, PTL DEF Spec
<1> QED BY <1>3, Invariance, OrderedNoCycle, PTL
=============================================================================
