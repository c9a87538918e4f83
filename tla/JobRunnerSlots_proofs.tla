------------------------ MODULE JobRunnerSlots_proofs ------------------------
(***************************************************************************)
(* Proofs about JobRunnerSlots, for every capacity and every finite set of *)
(* jobs.                                                                   *)
(***************************************************************************)
EXTENDS JobRunnerSlots, FiniteSetTheorems, TLAPS

Slots == [free : Nat, reserved : Nat, active : Nat, joining : Nat, closed : BOOLEAN]
Listener == [up : BOOLEAN, note : BOOLEAN]

Typed ==
    /\ row \in [Job -> {"none", "pending", "leased", "done"}]
    /\ slots \in Slots
    /\ answer \in SUBSET Job /\ running \in SUBSET Job
    /\ unsent \in Nat /\ completed \in Nat
    /\ listener \in Listener /\ ready \in BOOLEAN

\* Slots are reserved only for a request under way, which is answered with no
\* more jobs than that.
Counting ==
    /\ SlotConservation
    /\ slots.reserved # 0 => pc \in {"reserved", "calling", "answered"}
    /\ pc = "answered" => Cardinality(answer) <= slots.reserved

\* Jobs wait in the answer only for dispatch or release.
Custody ==
    /\ CustodyOfLeases
    /\ answer # {} => pc \in {"answered", "releasing"}

\* From the Queue's look at its rows until the wait for a hint, what is
\* committed in between has its hint.
Hinted ==
    pc \in {"answered", "wait"} /\ unseen # {} => ready \/ listener.note \/ ~listener.up

IInv == Typed /\ Counting /\ Custody /\ Hinted

\* A set of jobs has a number of members.
LEMMA JobsFinite ==
    ASSUME NEW S \in SUBSET Job
    PROVE  IsFiniteSet(S) /\ Cardinality(S) \in Nat
  BY CapacityAssumption, FS_Subset, FS_CardinalityType

\* Disjoint sets of jobs are counted separately.
LEMMA JobsUnion ==
    ASSUME NEW S \in SUBSET Job, NEW T \in SUBSET Job, S \cap T = {}
    PROVE  Cardinality(S \cup T) = Cardinality(S) + Cardinality(T)
<1>1. Cardinality(S \cup T) = Cardinality(S) + Cardinality(T) - Cardinality(S \cap T)
  BY JobsFinite, FS_Union
<1> QED BY <1>1, JobsFinite, FS_EmptySet

LEMMA InitIInv == Init => IInv
<1> SUFFICES ASSUME Init PROVE IInv
  OBVIOUS
<1>1. Typed
  BY CapacityAssumption DEF Init, Typed, Slots, Listener
<1>2. Counting
  BY CapacityAssumption, FS_EmptySet DEF Init, Counting, SlotConservation
<1> QED BY <1>1, <1>2 DEF Init, IInv, Custody, CustodyOfLeases, Hinted

-----------------------------------------------------------------------------
(* The slots.                                                              *)

\* Steps that only move the coordinator: no counter and no job moves.
Moves ==
    \/ LoopEnds \/ LoopFull \/ SnapshotWake \/ Released
    \/ WaitTimer \/ WaitWoken \/ WaitClosed \/ JoinEnds

\* Steps of the process around it.
Outside ==
    \/ Cancel \/ CloseCallback \/ DrainTimeout
    \/ (\E j \in Job : Arrive(j) \/ Reclaim(j))
    \/ Notified \/ Disconnect \/ Reconnect

LEMMA MovesKeep == ASSUME IInv, Moves PROVE IInv'
<1>1. /\ UNCHANGED <<row, answer, goroutines, listener, unseen>> /\ ready' \in {ready, FALSE}
      /\ slots' \in {slots, [slots EXCEPT !.closed = TRUE]}
      /\ slots.reserved # 0 => pc' = "calling"
      /\ answer # {} => pc' = "releasing"
      /\ pc' \notin {"answered", "wait"}
  BY DEF Moves, LoopEnds, LoopFull, SnapshotWake, Released, WaitTimer, WaitWoken, WaitClosed,
     JoinEnds, IInv, Counting, Custody, hints
<1>2. Typed'
  BY <1>1 DEF IInv, Typed, Slots, goroutines
<1>3. Counting'
  BY <1>1 DEF IInv, Typed, Slots, Counting, SlotConservation, goroutines
<1>4. Custody'
  BY <1>1 DEF IInv, Custody, CustodyOfLeases, goroutines
<1> QED BY <1>1, <1>2, <1>3, <1>4 DEF IInv, Hinted

LEMMA OutsideKeeps == ASSUME IInv, Outside PROVE IInv'
<1>1. /\ UNCHANGED <<answer, goroutines, pc>>
      /\ slots' \in {slots, [slots EXCEPT !.closed = TRUE]}
  BY DEF Outside, Cancel, CloseCallback, DrainTimeout, Arrive, Reclaim, Notified, Disconnect, Reconnect
<1>2. Typed'
  <2>1. row' \in [Job -> {"none", "pending", "leased", "done"}]
    BY DEF IInv, Typed, Outside, Cancel, CloseCallback, DrainTimeout, Arrive, Reclaim, Notified,
       Disconnect, Reconnect
  <2>2. slots' \in Slots
    BY <1>1 DEF IInv, Typed, Slots
  <2>3. listener' \in Listener
    <3>1. CASE UNCHANGED listener
      BY <3>1 DEF IInv, Typed
    <3>2. CASE \E j \in Job : Arrive(j)
      BY <3>2 DEF IInv, Typed, Listener, Arrive
    <3>3. CASE Notified
      BY <3>3 DEF IInv, Typed, Listener, Notified
    <3>4. CASE Disconnect
      BY <3>4 DEF Listener, Disconnect
    <3>5. CASE Reconnect
      BY <3>5 DEF Listener, Reconnect
    <3> QED BY <3>1, <3>2, <3>3, <3>4, <3>5 DEF Outside, Cancel, CloseCallback, DrainTimeout, Reclaim, hints
  <2>4. ready' \in {ready, TRUE}
    BY DEF Outside, Cancel, CloseCallback, DrainTimeout, Arrive, Reclaim, Notified, Disconnect,
       Reconnect, Broadcast, hints
  <2> QED BY <1>1, <2>1, <2>2, <2>3, <2>4 DEF IInv, Typed, goroutines
<1>3. Counting'
  BY <1>1 DEF IInv, Typed, Slots, Counting, SlotConservation, goroutines
<1>4. Custody'
  BY <1>1 DEF IInv, Typed, Custody, CustodyOfLeases, goroutines, Outside, Cancel, CloseCallback,
     DrainTimeout, Arrive, Reclaim, Notified, Disconnect, Reconnect
<1>5. Hinted'
  BY <1>1 DEF IInv, Typed, Listener, Hinted, Outside, Cancel, CloseCallback, DrainTimeout, Arrive, Reclaim,
     Notified, Disconnect, Reconnect, Broadcast, hints
<1> QED BY <1>2, <1>3, <1>4, <1>5 DEF IInv

-----------------------------------------------------------------------------
(* The steps that move slots or jobs.                                      *)

LEMMA ReserveFreeKeeps == ASSUME IInv, ReserveFree PROVE IInv'
<1>1. slots' \in Slots
  BY DEF ReserveFree, IInv, Typed, Slots
<1>2. Typed'
  BY <1>1 DEF ReserveFree, IInv, Typed, goroutines, hints
<1>3. Counting'
  BY DEF ReserveFree, IInv, Typed, Slots, Counting, SlotConservation, goroutines
<1> QED BY <1>2, <1>3 DEF ReserveFree, IInv, Custody, CustodyOfLeases, Hinted, goroutines, hints

LEMMA AnswerKeeps == ASSUME IInv, NEW S \in SUBSET Job, Answer(S) PROVE IInv'
<1>1. Typed'
  BY DEF Answer, Leases, IInv, Typed, goroutines
<1>2. Counting'
  BY DEF Answer, IInv, Counting, SlotConservation, goroutines
<1>3. Custody'
  BY DEF Answer, Leases, IInv, Typed, Custody, CustodyOfLeases, goroutines
<1> QED BY <1>1, <1>2, <1>3 DEF Answer, IInv, Hinted

LEMMA CallFailsKeeps == ASSUME IInv, NEW S \in SUBSET Job, CallFails(S) PROVE IInv'
<1>1. Typed'
  <2>1. slots' \in Slots
    <3>1. slots.free + slots.reserved \in Nat
      BY DEF IInv, Typed, Slots
    <3> QED BY <3>1 DEF CallFails, IInv, Typed, Slots
  <2> QED BY <2>1 DEF CallFails, Leases, IInv, Typed, goroutines, hints
<1>2. Counting'
  BY DEF CallFails, IInv, Typed, Slots, Counting, SlotConservation, goroutines
<1>3. Custody'
  BY DEF CallFails, Leases, IInv, Typed, Custody, CustodyOfLeases, goroutines
<1> QED BY <1>1, <1>2, <1>3 DEF CallFails, IInv, Hinted

LEMMA DispatchKeeps == ASSUME IInv, Dispatch PROVE IInv'
<1>1. /\ Cardinality(answer) \in Nat /\ Cardinality(answer) <= slots.reserved
      /\ Cardinality(running') = Cardinality(running) + Cardinality(answer)
  BY JobsFinite, JobsUnion DEF Dispatch, IInv, Typed, Counting, Custody, CustodyOfLeases
<1>2. Typed'
  <2>1. slots.active + Cardinality(answer) \in Nat
        /\ slots.free + slots.reserved - Cardinality(answer) \in Nat
    BY <1>1 DEF IInv, Typed, Slots
  <2>2. slots' \in Slots
    BY <2>1 DEF Dispatch, IInv, Typed, Slots
  <2> QED BY <2>2 DEF Dispatch, IInv, Typed, hints
<1>3. Counting'
  BY <1>1 DEF Dispatch, IInv, Typed, Slots, Counting, SlotConservation
<1>4. Custody'
  BY DEF Dispatch, IInv, Custody, CustodyOfLeases
<1> QED BY <1>2, <1>3, <1>4 DEF Dispatch, IInv, Hinted, hints

LEMMA DispatchRefusedKeeps == ASSUME IInv, DispatchRefused PROVE IInv'
<1>1. slots' \in Slots
  <2>1. slots.free + slots.reserved \in Nat
    BY DEF IInv, Typed, Slots
  <2> QED BY <2>1 DEF DispatchRefused, IInv, Typed, Slots
<1>2. Typed'
  BY <1>1 DEF DispatchRefused, IInv, Typed, goroutines, hints
<1>3. Counting'
  BY DEF DispatchRefused, IInv, Typed, Slots, Counting, SlotConservation, goroutines
<1> QED BY <1>2, <1>3 DEF DispatchRefused, IInv, Custody, CustodyOfLeases, Hinted, goroutines

LEMMA ReleaseKeeps == ASSUME IInv, Release PROVE IInv'
<1> PICK j \in Job, applied \in BOOLEAN : ReleaseUnstarted(j, applied)
  BY DEF Release
<1>1. Typed'
  BY DEF ReleaseUnstarted, IInv, Typed, goroutines, hints
<1>2. Counting'
  BY DEF ReleaseUnstarted, IInv, Counting, SlotConservation, goroutines
<1>3. Custody'
  BY DEF ReleaseUnstarted, IInv, Typed, Custody, CustodyOfLeases, goroutines
<1> QED BY <1>1, <1>2, <1>3 DEF ReleaseUnstarted, IInv, Hinted

LEMMA CollectKeeps == ASSUME IInv, WaitCompletion \/ JoinOne PROVE IInv'
<1>1. Collect /\ pc' \notin {"answered", "wait"} /\ slots.reserved = 0 /\ answer = {}
      /\ UNCHANGED <<row, answer, running, unsent, hints>>
  BY DEF WaitCompletion, JoinOne, IInv, Counting, Custody
<1>2. slots.joining > 0
  BY <1>1 DEF Collect, IInv, Typed, Slots, Counting, SlotConservation
<1>3. slots' \in Slots
  <2>1. slots.joining - 1 \in Nat /\ slots.free + 1 \in Nat
    BY <1>2 DEF IInv, Typed, Slots
  <2> QED BY <1>1, <2>1 DEF Collect, IInv, Typed, Slots
<1>4. Typed'
  BY <1>1, <1>3 DEF Collect, IInv, Typed, hints
<1>5. Counting'
  BY <1>1 DEF Collect, IInv, Typed, Slots, Counting, SlotConservation
<1> QED BY <1>1, <1>4, <1>5 DEF IInv, Custody, CustodyOfLeases, Hinted

LEMMA FinishKeeps ==
    ASSUME IInv, NEW j \in Job, NEW status \in Outcome, Finish(j, status) PROVE IInv'
<1>1. /\ Cardinality(running) \in Nat /\ Cardinality(running') \in Nat
      /\ Cardinality(running') = Cardinality(running) - 1
  BY JobsFinite, FS_RemoveElement DEF Finish, IInv, Typed
<1>2. Typed'
  <2>1. slots.active - 1 \in Nat /\ slots.joining + 1 \in Nat
    BY <1>1 DEF IInv, Typed, Slots, Counting, SlotConservation
  <2>2. slots' \in Slots
    BY <2>1 DEF Finish, IInv, Typed, Slots
  <2> QED BY <2>2 DEF Finish, IInv, Typed, Outcome, hints
<1>3. Counting'
  BY <1>1 DEF Finish, IInv, Typed, Slots, Counting, SlotConservation
<1>4. Custody'
  BY DEF Finish, IInv, Typed, Custody, CustodyOfLeases
<1> QED BY <1>2, <1>3, <1>4 DEF Finish, IInv, Hinted, hints

LEMMA SendCompletedKeeps == ASSUME IInv, SendCompleted PROVE IInv'
<1>1. Typed' /\ Counting'
  BY DEF SendCompleted, IInv, Typed, Counting, SlotConservation, hints
<1> QED BY <1>1 DEF SendCompleted, IInv, Custody, CustodyOfLeases, Hinted, hints

-----------------------------------------------------------------------------
\* Every step of runJobRunnerLoop, its goroutines, the shutdown owner and the
\* Queue keeps the invariant.
THEOREM Invariance == Spec => []IInv
<1>1. ASSUME IInv, [Next]_vars PROVE IInv'
  <2>1. CASE Moves \/ ReserveFree \/ Dispatch \/ DispatchRefused \/ WaitCompletion \/ JoinOne
    BY <1>1, <2>1, MovesKeep, ReserveFreeKeeps, DispatchKeeps, DispatchRefusedKeeps, CollectKeeps
  <2>2. CASE Request
    BY <1>1, <2>2, AnswerKeeps, CallFailsKeeps DEF Request
  <2>3. CASE Release
    BY <1>1, <2>3, ReleaseKeeps
  <2>4. CASE \E j \in Job, status \in Outcome : Finish(j, status)
    BY <1>1, <2>4, FinishKeeps
  <2>5. CASE SendCompleted
    BY <1>1, <2>5, SendCompletedKeeps
  <2>6. CASE Outside
    BY <1>1, <2>6, OutsideKeeps
  <2>7. CASE UNCHANGED vars
    BY <1>1, <2>7 DEF vars, IInv, Typed, Counting, SlotConservation, Custody, CustodyOfLeases, Hinted
  <2> QED BY <1>1, <2>1, <2>2, <2>3, <2>4, <2>5, <2>6, <2>7 DEF Next, Coordinator, Moves, Outside
<1> QED BY <1>1, InitIInv, PTL DEF Spec

\* The counters of jobRunnerSlots add up to the capacity and say who runs,
\* whatever the capacity and however requests, dispatches, refusals and
\* completions interleave.
THEOREM SlotsConserved == Spec => []SlotConservation
<1>1. IInv => SlotConservation
  BY DEF IInv, Counting
<1> QED BY <1>1, Invariance, PTL

\* A job the process holds is leased and in one place, so it is neither run
\* and released nor run twice.
THEOREM LeasesInCustody == Spec => []CustodyOfLeases
<1>1. IInv => CustodyOfLeases
  BY DEF IInv, Custody
<1> QED BY <1>1, Invariance, PTL

\* The snapshot of the wake before the request loses no hint: a coordinator
\* that waits while a committed row is unseen is about to be woken.
THEOREM NoWakeLost == Spec => []NoLostWake
<1>1. IInv => NoLostWake
  BY DEF IInv, Hinted, NoLostWake
<1> QED BY <1>1, Invariance, PTL
=============================================================================
