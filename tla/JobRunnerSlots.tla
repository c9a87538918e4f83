--------------------------- MODULE JobRunnerSlots ---------------------------
(***************************************************************************)
(* One Job Runner process: the acquisition coordinator, its execution      *)
(* slots, the job goroutines, the wake signal and the shutdown owner       *)
(* (services/job-runner/job_runner_slots.go, run_job_runner.go and         *)
(* internal/queue/wakeup.go), against a Queue that may answer with fewer   *)
(* jobs than asked for, fail, or lose its answer after it leased.          *)
(*                                                                         *)
(* The jobs' leases do not expire while their goroutine runs (QueueStore   *)
(* has stale tokens); a lease nobody works on expires in the end.          *)
(***************************************************************************)
EXTENDS Integers, FiniteSets

CONSTANTS
    Job,        \* queue rows
    Capacity    \* Config.MaxJobs

ASSUME CapacityAssumption == Capacity \in Nat \ {0} /\ IsFiniteSet(Job)

VARIABLES
    row,        \* [Job -> status]: the row in the Queue
    slots,      \* the fields of jobRunnerSlots
    pc,         \* where the coordinator is
    answer,     \* jobs of the current LeaseJobRunnerJobs response
    running,    \* jobs whose goroutine has not reached finish
    unsent,     \* finished goroutines that have not sent on completed
    completed,  \* length of the completed channel
    cancelled,  \* AcquisitionContext is done
    workDone,   \* the work context is cancelled
    ready,      \* a broadcast followed the coordinator's wake snapshot
    listener,   \* [up, note]: the LISTEN connection and its undelivered hint
    unseen      \* rows committed since the Queue last looked for candidates

vars == <<row, slots, pc, answer, running, unsent, completed, cancelled, workDone,
          ready, listener, unseen>>
process == <<cancelled, workDone>>
hints == <<ready, listener, unseen>>
goroutines == <<running, unsent, completed>>

\* isClosedLocked observes the cancelled context before its callback ran.
Closed == slots.closed \/ cancelled

-----------------------------------------------------------------------------
(* The coordinator: runJobRunnerLoop, AcquireAndDispatch, JoinDispatched.  *)

LoopEnds ==
    /\ pc = "loop" /\ Closed
    /\ slots' = [slots EXCEPT !.closed = TRUE]
    /\ pc' = "join"
    /\ UNCHANGED <<row, answer, goroutines, process, hints>>

\* No acquisition while full: only a completion or closure proceeds.
LoopFull ==
    /\ pc = "loop" /\ ~Closed /\ slots.free = 0
    /\ pc' = "full"
    /\ UNCHANGED <<row, slots, answer, goroutines, process, hints>>

\* reserveFree takes every free slot.
ReserveFree ==
    /\ pc = "loop" /\ ~Closed /\ slots.free > 0
    /\ slots' = [slots EXCEPT !.free = 0, !.reserved = slots.free]
    /\ pc' = "reserved"
    /\ UNCHANGED <<row, answer, goroutines, process, hints>>

\* wake.Snapshot comes before the request.
SnapshotWake ==
    /\ pc = "reserved"
    /\ ready' = FALSE
    /\ pc' = "calling"
    /\ UNCHANGED <<row, slots, answer, goroutines, process, listener, unseen>>

Leases(S) == row' = [j \in Job |-> IF j \in S THEN "leased" ELSE row[j]]

\* The Queue answers with some of the due rows, at most as many as reserved.
Answer(S) ==
    /\ pc = "calling"
    /\ \A j \in S : row[j] = "pending"
    /\ Cardinality(S) <= slots.reserved
    /\ Leases(S)
    /\ answer' = S
    /\ unseen' = {}
    /\ pc' = "answered"
    /\ UNCHANGED <<slots, goroutines, process, ready, listener>>

\* Mutant of CallFails: a failed request forgets its reservation.
CallFailsKeepsSlots(S) ==
    /\ pc = "calling"
    /\ \A j \in S : row[j] = "pending"
    /\ Cardinality(S) <= slots.reserved
    /\ Leases(S)
    /\ slots' = [slots EXCEPT !.reserved = 0]
    /\ pc' = IF workDone THEN "join" ELSE "backoff"
    /\ UNCHANGED <<answer, goroutines, process, hints>>

\* The request fails or its answer is lost: the rows S were leased and nobody
\* will work on them.
CallFails(S) ==
    /\ pc = "calling"
    /\ \A j \in S : row[j] = "pending"
    /\ Cardinality(S) <= slots.reserved
    /\ Leases(S)
    /\ slots' = [slots EXCEPT !.reserved = 0, !.free = @ + slots.reserved]
    /\ pc' = IF workDone THEN "join" ELSE "backoff"
    /\ UNCHANGED <<answer, goroutines, process, hints>>

\* dispatch moves the answered jobs into slots while acquisition is open.
Dispatch ==
    /\ pc = "answered" /\ ~Closed
    /\ slots' = [slots EXCEPT !.reserved = 0, !.active = @ + Cardinality(answer),
                              !.free = @ + slots.reserved - Cardinality(answer)]
    /\ running' = running \cup answer
    /\ answer' = {}
    /\ pc' = IF answer = {} THEN "wait" ELSE "loop"
    /\ UNCHANGED <<row, unsent, completed, process, hints>>

\* dispatch finds acquisition closed: the reservation is freed and the jobs
\* go to releaseUnstarted.
DispatchRefused ==
    /\ pc = "answered" /\ Closed
    /\ slots' = [slots EXCEPT !.reserved = 0, !.free = @ + slots.reserved, !.closed = TRUE]
    /\ pc' = "releasing"
    /\ UNCHANGED <<row, answer, goroutines, process, hints>>

\* Mutant of ReleaseUnstarted: a released job stays in the answer.
ReleaseUnstartedKeeps(j, applied) ==
    /\ pc = "releasing" /\ j \in answer
    /\ row' = [row EXCEPT ![j] = IF applied THEN "pending" ELSE @]
    /\ UNCHANGED <<slots, pc, answer, goroutines, process, hints>>

\* ReleaseUnstartedJob for one undispatched job: applied, or left to expiry.
ReleaseUnstarted(j, applied) ==
    /\ pc = "releasing" /\ j \in answer
    /\ row' = [row EXCEPT ![j] = IF applied THEN "pending" ELSE @]
    /\ answer' = answer \ {j}
    /\ UNCHANGED <<slots, pc, goroutines, process, hints>>

Released ==
    /\ pc = "releasing" /\ answer = {}
    /\ pc' = "join"
    /\ UNCHANGED <<row, slots, answer, goroutines, process, hints>>

\* Mutant of Collect: the completion is taken off the channel, not collected.
CollectDrops ==
    /\ completed > 0
    /\ completed' = completed - 1
    /\ UNCHANGED slots

\* A completion is received and its slot is free again.
Collect ==
    /\ completed > 0
    /\ completed' = completed - 1
    /\ slots' = [slots EXCEPT !.joining = @ - 1, !.free = @ + 1]

\* waitForAcquisition: a completion, or what the wait was armed with.
WaitCompletion ==
    /\ pc \in {"wait", "backoff", "full"} /\ Collect
    /\ pc' = "loop"
    /\ UNCHANGED <<row, answer, running, unsent, process, hints>>

WaitTimer ==
    /\ pc \in {"wait", "backoff"}
    /\ pc' = "loop"
    /\ UNCHANGED <<row, slots, answer, goroutines, process, hints>>

WaitWoken ==
    /\ pc \in {"wait", "backoff"} /\ ready
    /\ pc' = "loop"
    /\ UNCHANGED <<row, slots, answer, goroutines, process, hints>>

WaitClosed ==
    /\ pc \in {"wait", "backoff", "full"} /\ (slots.closed \/ workDone)
    /\ pc' = "join"
    /\ UNCHANGED <<row, slots, answer, goroutines, process, hints>>

JoinOne ==
    /\ pc = "join" /\ slots.active + slots.joining > 0 /\ Collect
    /\ UNCHANGED <<row, pc, answer, running, unsent, process, hints>>

JoinEnds ==
    /\ pc = "join" /\ slots.active + slots.joining = 0
    /\ pc' = "returned"
    /\ UNCHANGED <<row, slots, answer, goroutines, process, hints>>

Coordinator ==
    \/ LoopEnds \/ LoopFull \/ ReserveFree \/ SnapshotWake
    \/ Dispatch \/ DispatchRefused \/ Released
    \/ WaitCompletion \/ WaitTimer \/ WaitWoken \/ WaitClosed
    \/ JoinOne \/ JoinEnds

-----------------------------------------------------------------------------
(* Job goroutines (runSlot).                                               *)

\* processRuntimeJob returns: settled, given back for a retry, or with an
\* error that leaves the lease to expiry; then finish moves the slot.
Finish(j, status) ==
    /\ j \in running
    /\ row' = [row EXCEPT ![j] = status]
    /\ running' = running \ {j}
    /\ slots' = [slots EXCEPT !.active = @ - 1, !.joining = @ + 1]
    /\ unsent' = unsent + 1
    /\ UNCHANGED <<pc, answer, completed, process, hints>>

\* finish sends outside the mutex.
SendCompleted ==
    /\ unsent > 0
    /\ unsent' = unsent - 1 /\ completed' = completed + 1
    /\ UNCHANGED <<row, slots, pc, answer, running, process, hints>>

-----------------------------------------------------------------------------
(* The shutdown owner (RunJobRunnerLoop).                                  *)

Cancel ==
    /\ ~cancelled /\ cancelled' = TRUE
    /\ UNCHANGED <<row, slots, pc, answer, goroutines, workDone, hints>>

\* context.AfterFunc(AcquisitionContext, slots.close)
CloseCallback ==
    /\ cancelled /\ ~slots.closed
    /\ slots' = [slots EXCEPT !.closed = TRUE]
    /\ UNCHANGED <<row, pc, answer, goroutines, process, hints>>

DrainTimeout ==
    /\ cancelled /\ ~workDone /\ pc # "returned"
    /\ workDone' = TRUE
    /\ UNCHANGED <<row, slots, pc, answer, goroutines, cancelled, hints>>

-----------------------------------------------------------------------------
(* The Queue and its notifications.                                        *)

\* A producer commits a row; its NOTIFY reaches a connected listener.
Arrive(j) ==
    /\ row[j] = "none"
    /\ row' = [row EXCEPT ![j] = "pending"]
    /\ unseen' = unseen \cup {j}
    /\ listener' = [listener EXCEPT !.note = listener.up]
    /\ UNCHANGED <<slots, pc, answer, goroutines, process, ready>>

\* The lease of a row nobody works on expires and is reclaimed.
Reclaim(j) ==
    /\ row[j] = "leased" /\ j \notin running \cup answer
    /\ row' = [row EXCEPT ![j] = "pending"]
    /\ UNCHANGED <<slots, pc, answer, goroutines, process, hints>>

Broadcast == ready' = TRUE

Notified ==
    /\ listener.note /\ Broadcast
    /\ listener' = [listener EXCEPT !.note = FALSE]
    /\ UNCHANGED <<row, slots, pc, answer, goroutines, process, unseen>>

Disconnect ==
    /\ listener.up
    /\ listener' = [up |-> FALSE, note |-> FALSE]
    /\ UNCHANGED <<row, slots, pc, answer, goroutines, process, ready, unseen>>

\* Mutant of Reconnect: no catch-up broadcast.
ReconnectQuietly ==
    /\ ~listener.up
    /\ listener' = [up |-> TRUE, note |-> FALSE]
    /\ UNCHANGED <<row, slots, pc, answer, goroutines, process, ready, unseen>>

\* onReady after every LISTEN broadcasts, for what was missed meanwhile.
Reconnect ==
    /\ ~listener.up /\ Broadcast
    /\ listener' = [up |-> TRUE, note |-> FALSE]
    /\ UNCHANGED <<row, slots, pc, answer, goroutines, process, unseen>>

-----------------------------------------------------------------------------
Init ==
    /\ row = [j \in Job |-> "none"]
    /\ slots = [free |-> Capacity, reserved |-> 0, active |-> 0, joining |-> 0, closed |-> FALSE]
    /\ pc = "loop" /\ answer = {}
    /\ running = {} /\ unsent = 0 /\ completed = 0
    /\ cancelled = FALSE /\ workDone = FALSE
    /\ ready = FALSE /\ listener = [up |-> FALSE, note |-> FALSE] /\ unseen = {}

Request == \E S \in SUBSET Job : Answer(S) \/ CallFails(S)
Release == \E j \in Job, applied \in BOOLEAN : ReleaseUnstarted(j, applied)
Outcome == {"done", "pending", "leased"}

Next ==
    \/ Coordinator \/ Request \/ Release
    \/ \E j \in Job, status \in Outcome : Finish(j, status)
    \/ SendCompleted
    \/ Cancel \/ CloseCallback \/ DrainTimeout
    \/ \E j \in Job : Arrive(j) \/ Reclaim(j)
    \/ Notified \/ Disconnect \/ Reconnect

Spec == Init /\ [][Next]_vars

\* The coordinator runs; the request and the releases have deadlines; a
\* cancelled context closes acquisition and, after the drain timeout, the work
\* context; a job ends once its context is cancelled, and only then for sure.
Fairness ==
    /\ WF_vars(Coordinator) /\ WF_vars(Request) /\ WF_vars(Release)
    /\ WF_vars(SendCompleted)
    /\ WF_vars(CloseCallback) /\ WF_vars(DrainTimeout)
    /\ \A j \in Job : WF_vars(workDone /\ \E status \in Outcome : Finish(j, status))

FairSpec == Spec /\ Fairness

-----------------------------------------------------------------------------
(* Properties.                                                             *)

\* Slots are neither lost nor invented, through failed requests, refused
\* dispatches and every order of completions; the counters say who runs.
SlotConservation ==
    /\ slots.free + slots.reserved + slots.active + slots.joining = Capacity
    /\ slots.active = Cardinality(running)
    /\ slots.joining = unsent + completed

\* A job in custody of the process is leased, and in one place: waiting in the
\* answer for dispatch or release, or running.
CustodyOfLeases ==
    /\ \A j \in answer \cup running : row[j] = "leased"
    /\ answer \cap running = {}

\* No lost wake-up: a coordinator that sleeps on the Queue's hint although a
\* committed row has not been looked at is about to be woken.
NoLostWake ==
    pc = "wait" /\ unseen # {} => ready \/ listener.note \/ ~listener.up

\* Shutdown ends: every slot is joined although jobs, requests and releases
\* are at any point when it begins.
ShutdownEnds == cancelled ~> pc = "returned"

=============================================================================
