-------------------------- MODULE QueueStore_proofs --------------------------
(***************************************************************************)
(* Theorems about QueueStore for every set of rows, work items, tokens and *)
(* Sessions and every bound.                                               *)
(***************************************************************************)
EXTENDS QueueStore, TLAPS

-----------------------------------------------------------------------------
(* What the row operators return.                                          *)

\* A transition off leased gives a row again.
LEMMA UnleasedType ==
    ASSUME NEW row \in Row, NEW status \in Status
    PROVE  /\ Unleased(row, status) \in Row
           /\ Unleased(row, status) =
                [row EXCEPT !.status = status, !.token = NoToken, !.left = 0,
                            !.previous = NoPrevious]
  BY DEF Unleased, Row, NoPrevious

\* A row given back to pending is a row.
LEMMA ReadmittedType ==
    ASSUME NEW row \in Row, NEW wait \in Nat
    PROVE  /\ Readmitted(row, wait) \in Row
           /\ Readmitted(row, wait).attempt = row.attempt
           /\ Readmitted(row, wait).defers = row.defers
  BY DEF Readmitted, Unleased, Row, NoPrevious, Status, Active

\* The lease expression keeps the attempt count a natural number.
LEMMA LeasedAttemptType ==
    ASSUME NEW row \in Row
    PROVE  LeasedAttempt(row) \in Nat
  BY DEF LeasedAttempt, Row

\* The row a fresh insert writes is a row.
LEMMA NewRowType ==
    ASSUME NEW w \in Work, NEW seq \in Nat, NEW wait \in Nat
    PROVE  NewRow(w, seq, wait) \in Row
  BY DEF NewRow, Row, Status, Active, NoPrevious

\* The vacant identity is a row.
LEMMA AbsentRowType == AbsentRow \in Row
  BY WorkAssumption DEF AbsentRow, Row, Status, NoPrevious

\* Revocation keeps the table a table.
LEMMA RevokedType ==
    ASSUME jobs \in [JobId -> Row], NEW s
    PROVE  Revoked(s) \in [JobId -> Row]
<1>1. SUFFICES ASSUME NEW j \in JobId
               PROVE  Unleased(jobs[j], "cancelled") \in Row
  BY DEF Revoked
<1> QED BY UnleasedType DEF Status, Terminal

-----------------------------------------------------------------------------
(* Type correctness.                                                       *)

\* An insert into a well-typed table leaves a table and a counter.
LEMMA InsertIntoType ==
    ASSUME TypeOK, NEW table \in [JobId -> Row], NEW j \in JobId, NEW w \in Work,
           NEW wait \in Nat, InsertInto(table, j, w, wait)
    PROVE  jobs' \in [JobId -> Row] /\ counter' \in [Partition -> Nat]
<1>1. counter[w.partition] + 1 \in Nat
  BY DEF TypeOK, Partition
<1>2. NewRow(w, counter[w.partition] + 1, wait) \in Row
  BY <1>1, NewRowType
<1> QED BY <1>1, <1>2 DEF InsertInto, TypeOK

\* A settlement that writes a row keeps the types.
LEMMA SettleType ==
    ASSUME TypeOK, NEW t \in Token, NEW j \in JobId, NEW row \in Row, Settle(t, j, row)
    PROVE  TypeOK'
<1>1. jobs' \in [JobId -> Row]
  BY DEF Settle, TypeOK
<1>2. claims' \in [Token -> Claim]
  BY DEF Settle, TypeOK, Called, Claim
<1> QED BY <1>1, <1>2 DEF Settle, TypeOK

\* A lease keeps the types.
LEMMA MintType ==
    ASSUME TypeOK, NEW c \in JobId, NEW t \in Token,
           NEW previous \in Nat \cup {NoPrevious}, Mint(c, t, previous)
    PROVE  TypeOK'
<1>1. jobs[c] \in Row /\ LeasedAttempt(jobs[c]) \in Nat
  BY LeasedAttemptType DEF TypeOK
<1> DEFINE row == [jobs[c] EXCEPT !.status = "leased", !.token = t, !.left = LeaseDuration,
                                  !.previous = previous, !.attempt = LeasedAttempt(jobs[c])]
<1>2. row \in Row
  BY <1>1, BoundsAssumption DEF Row, Status, Active
<1>3. jobs' = [jobs EXCEPT ![c] = row]
  BY <1>1 DEF Mint, TypeOK
<1>4. jobs' \in [JobId -> Row]
  BY <1>2, <1>3 DEF TypeOK
<1>5. claims' \in [Token -> Claim]
  BY DEF Mint, TypeOK, Claim
<1> QED BY <1>4, <1>5 DEF Mint, TypeOK

\* Every transaction keeps the table, the counters, the Sessions and the
\* claims of their types: no attempt count, refund, timer or sequence leaves
\* the natural numbers.
LEMMA NextType == TypeOK /\ [Next]_vars => TypeOK'
<1> SUFFICES ASSUME TypeOK, [Next]_vars PROVE TypeOK'
  OBVIOUS
<1> USE BoundsAssumption
<1>0. \A j \in JobId : jobs[j] \in Row
  BY DEF TypeOK
<1>1. ASSUME NEW w \in Work, NEW j \in JobId, NEW wait \in 0 .. MaxDelay, Enqueue(w, j, wait)
      PROVE  TypeOK'
  <2>1. jobs' \in [JobId -> Row] /\ counter' \in [Partition -> Nat]
    BY <1>1, InsertIntoType DEF Enqueue, TypeOK
  <2> QED BY <1>1, <2>1 DEF Enqueue, TypeOK
<1>2. ASSUME NEW j \in JobId, CancelTx(j)
      PROVE  TypeOK'
  BY <1>0, <1>2 DEF CancelTx, TypeOK, Row, Status, Terminal
<1>3. ASSUME NEW j \in JobId, DeadLetterExhausted(j)
      PROVE  TypeOK'
  BY <1>0, <1>3 DEF DeadLetterExhausted, TypeOK, Row, Status, Terminal
<1>4. ASSUME NEW i \in Work, Cancel(i)
      PROVE  TypeOK'
  BY <1>0, <1>4 DEF Cancel, TypeOK, Row, Status, Terminal
<1>5. ASSUME NEW c \in JobId, NEW t \in Token, Lease(c, t)
      PROVE  TypeOK'
  BY <1>5, MintType DEF Lease, NoPrevious
<1>6. ASSUME NEW c \in JobId, NEW t \in Token, LeaseJobRunnerCandidate(c, t)
      PROVE  TypeOK'
  <2>1. jobs[c].attempt \in Nat
    BY <1>0 DEF Row
  <2> QED BY <1>6, <2>1, MintType DEF LeaseJobRunnerCandidate
<1>7. ASSUME NEW t \in Token, NEW j \in JobId, Heartbeat(t, j)
      PROVE  TypeOK'
  BY <1>0, <1>7 DEF Heartbeat, TypeOK, Row
<1>8. ASSUME NEW t \in Token, NEW j \in JobId, Ack(t, j)
      PROVE  TypeOK'
  BY <1>0, <1>8, UnleasedType, SettleType DEF Ack, Status, Terminal
<1>9. ASSUME NEW t \in Token, NEW j \in JobId, DeadLetter(t, j)
      PROVE  TypeOK'
  BY <1>0, <1>9, UnleasedType, SettleType DEF DeadLetter, Status, Terminal
<1>10. ASSUME NEW t \in Token, NEW j \in JobId, NEW wait \in 0 .. MaxDelay, Retry(t, j, wait)
       PROVE  TypeOK'
  <2>1. wait \in Nat /\ 0 \in Nat
    OBVIOUS
  <2>2. Readmitted(jobs[j], wait) \in Row /\ Readmitted(jobs[j], 0) \in Row
    BY <1>0, <2>1, ReadmittedType
  <2>3. Unleased(jobs[j], "dead_lettered") \in Row
    BY <1>0, UnleasedType DEF Status, Terminal
  <2> QED BY <1>10, <2>2, <2>3, SettleType DEF Retry
<1>11. ASSUME NEW t \in Token, NEW j \in JobId,
              NEW wait \in 0 .. (MaxDelay + PollInterval), Defer(t, j, wait)
       PROVE  TypeOK'
  <2> DEFINE row == [Readmitted(jobs[j], wait) EXCEPT !.attempt = @ - 1, !.defers = @ + 1]
  <2>1. jobs[j].attempt >= 1 /\ wait \in Nat
    BY <1>11 DEF Defer
  <2>2. /\ Readmitted(jobs[j], wait) \in Row
        /\ Readmitted(jobs[j], wait).attempt = jobs[j].attempt
    BY <1>0, <2>1, ReadmittedType
  <2>3. /\ Readmitted(jobs[j], wait).attempt - 1 \in Nat
        /\ Readmitted(jobs[j], wait).defers + 1 \in Nat
    BY <1>0, <2>1, <2>2 DEF Row
  <2>4. row \in Row
    <3> HIDE DEF row
    <3>1. row = [Readmitted(jobs[j], wait) EXCEPT
                   !.attempt = Readmitted(jobs[j], wait).attempt - 1,
                   !.defers = Readmitted(jobs[j], wait).defers + 1]
      BY DEF row
    <3> QED BY <2>2, <2>3, <3>1 DEF Row
  <2> QED BY <1>11, <2>4, SettleType DEF Defer
<1>12. ASSUME NEW t \in Token, NEW j \in JobId, ReleaseUnstartedJob(t, j)
       PROVE  TypeOK'
  <2> DEFINE row == [Readmitted(jobs[j], 0) EXCEPT !.attempt = jobs[j].previous]
  <2>1. jobs[j].previous \in Nat
    BY <1>0, <1>12 DEF ReleaseUnstartedJob, Row
  <2>2. row \in Row
    BY <1>0, <2>1, ReadmittedType DEF Row
  <2> QED BY <1>12, <2>2, SettleType DEF ReleaseUnstartedJob
<1>13. ASSUME NEW t \in Token, Abandon(t)
       PROVE  TypeOK'
  BY <1>13 DEF Abandon, TypeOK, Claim, NoClaim
<1>14. ASSUME NEW s \in Session, NEW w \in Work, NEW j \in JobId, DeleteSession(s, w, j)
       PROVE  TypeOK'
  <2>1. Revoked(s) \in [JobId -> Row]
    BY RevokedType DEF TypeOK
  <2>2. jobs' \in [JobId -> Row] /\ counter' \in [Partition -> Nat]
    BY <1>14, <2>1, InsertIntoType DEF DeleteSession
  <2> QED BY <1>14, <2>2 DEF DeleteSession, TypeOK, SessionState
<1>15. ASSUME NEW s \in Session, TerminateSession(s)
       PROVE  TypeOK'
  BY <1>15, RevokedType DEF TerminateSession, TypeOK, SessionState
<1>16. ASSUME NEW j \in JobId, ReclaimExpiredLease(j)
       PROVE  TypeOK'
  BY <1>0, <1>16, ReadmittedType DEF ReclaimExpiredLease, TypeOK
<1>17. ASSUME NEW j \in JobId, PruneTerminal(j)
       PROVE  TypeOK'
  BY <1>17, AbsentRowType DEF PruneTerminal, TypeOK
<1>18. ASSUME NEW p \in Partition, SweepEmptyPartitionCounter(p)
       PROVE  TypeOK'
  BY <1>18 DEF SweepEmptyPartitionCounter, TypeOK
<1>19. CASE Tick
  <2>1. ASSUME NEW j \in JobId
        PROVE  [jobs[j] EXCEPT !.left = Down(@), !.delay = Down(@)] \in Row
    <3>1. Down(jobs[j].left) \in Nat /\ Down(jobs[j].delay) \in Nat
      BY <1>0 DEF Down, Row
    <3> QED BY <1>0, <3>1 DEF Row
  <2> QED BY <1>19, <2>1 DEF Tick, TypeOK
<1>20. CASE UNCHANGED vars
  BY <1>20 DEF vars, TypeOK
<1> QED
  BY <1>1, <1>2, <1>3, <1>4, <1>5, <1>6, <1>7, <1>8, <1>9, <1>10, <1>11, <1>12, <1>13,
     <1>14, <1>15, <1>16, <1>17, <1>18, <1>19, <1>20
  DEF Next, Produce, Acquire, Consume, EndSession, Maintain

\* Every reachable state of the queue tables is well typed, whatever the work
\* items and the bounds are.
THEOREM TypeCorrect == Spec => []TypeOK
<1>1. Init => TypeOK
  BY AbsentRowType DEF Init, TypeOK, SessionState, Claim, NoClaim
<1> QED BY <1>1, NextType, PTL DEF Spec

-----------------------------------------------------------------------------
(* Custody: what a step can do to who holds which row.                     *)

\* The row's work, status and token stay.
Keeps(j) ==
    jobs'[j].work = W(j) /\ jobs'[j].status = jobs[j].status /\ jobs'[j].token = jobs[j].token

\* The row is not leased after the step and carries no token.
Drops(j) == jobs'[j].status # "leased" /\ jobs'[j].token = NoToken

\* The step leases c under t and touches no other row.
Grants(c, t) ==
    /\ Eligible(c) /\ Fresh(t)
    /\ jobs'[c].status = "leased" /\ jobs'[c].token = t /\ jobs'[c].work = W(c)
    /\ \A j \in JobId \ {c} : jobs'[j] = jobs[j]

\* A lease is granted by Mint alone; every other step keeps custody or ends it.
LEMMA CustodyStep ==
    ASSUME TypeOK, TokenCustody, [Next]_vars
    PROVE  \/ \A j \in JobId : Keeps(j) \/ Drops(j)
           \/ \E c \in JobId, t \in Token : Grants(c, t)
<1> DEFINE Quiet == \A j \in JobId : Keeps(j) \/ Drops(j)
<1>0. \A j \in JobId : jobs[j] \in Row
  BY DEF TypeOK
<1>a. \A j \in JobId : jobs[j].status # "leased" => jobs[j].token = NoToken
  BY DEF TokenCustody, Is
<1>b. ASSUME NEW t \in Token, NEW j \in JobId, NEW row, Settle(t, j, row),
             row.status # "leased", row.token = NoToken
      PROVE  Quiet
  BY <1>b DEF Settle, Keeps, Drops, W, TypeOK
<1>c. ASSUME NEW c \in JobId, NEW t \in Token, NEW previous, Mint(c, t, previous)
      PROVE  Grants(c, t)
  BY <1>0, <1>c DEF Mint, Grants, TypeOK, Row, W
<1>d. ASSUME NEW row \in Row, NEW status \in Status \ {"leased"}
      PROVE  Unleased(row, status).status # "leased" /\ Unleased(row, status).token = NoToken
  BY DEF Unleased, Row
<1>e. ASSUME NEW row \in Row, NEW wait
      PROVE  Readmitted(row, wait).status # "leased" /\ Readmitted(row, wait).token = NoToken
  BY DEF Readmitted, Unleased, Row
<1>f. ASSUME NEW table \in [JobId -> Row], NEW j \in JobId, NEW w \in Work, NEW wait,
             InsertInto(table, j, w, wait)
      PROVE  /\ jobs'[j].status # "leased" /\ jobs'[j].token = NoToken
             /\ \A i \in JobId \ {j} : jobs'[i] = table[i]
  BY <1>f DEF InsertInto, NewRow
<1>g. ASSUME NEW s, NEW j \in JobId
      PROVE  \/ Revoked(s)[j] = jobs[j]
             \/ Revoked(s)[j].status # "leased" /\ Revoked(s)[j].token = NoToken
  BY <1>0, <1>d DEF Revoked, Status, Terminal
<1>1. ASSUME NEW w \in Work, NEW j \in JobId, NEW wait \in 0 .. MaxDelay, Enqueue(w, j, wait)
      PROVE  Quiet
  BY <1>1, <1>f DEF Enqueue, TypeOK, Keeps, Drops, W
<1>2. ASSUME NEW j \in JobId, CancelTx(j) PROVE Quiet
  BY <1>0, <1>a, <1>2 DEF CancelTx, TypeOK, Row, Keeps, Drops, W, Is
<1>3. ASSUME NEW j \in JobId, DeadLetterExhausted(j) PROVE Quiet
  BY <1>0, <1>a, <1>3 DEF DeadLetterExhausted, TypeOK, Row, Keeps, Drops, W, Is
<1>4. ASSUME NEW i \in Work, Cancel(i) PROVE Quiet
  BY <1>0, <1>a, <1>4 DEF Cancel, Fenced, TypeOK, Row, Keeps, Drops, W, Is
<1>5. ASSUME NEW c \in JobId, NEW t \in Token, Lease(c, t) PROVE Grants(c, t)
  BY <1>c, <1>5 DEF Lease
<1>6. ASSUME NEW c \in JobId, NEW t \in Token, LeaseJobRunnerCandidate(c, t) PROVE Grants(c, t)
  BY <1>c, <1>6 DEF LeaseJobRunnerCandidate
<1>7. ASSUME NEW t \in Token, NEW j \in JobId, Heartbeat(t, j) PROVE Quiet
  BY <1>0, <1>7 DEF Heartbeat, TypeOK, Row, Keeps, W
<1>8. ASSUME NEW t \in Token, NEW j \in JobId, Ack(t, j) PROVE Quiet
  BY <1>0, <1>b, <1>d, <1>8 DEF Ack, Status, Terminal
<1>9. ASSUME NEW t \in Token, NEW j \in JobId, DeadLetter(t, j) PROVE Quiet
  BY <1>0, <1>b, <1>d, <1>9 DEF DeadLetter, Status, Terminal
<1>10. ASSUME NEW t \in Token, NEW j \in JobId, NEW wait \in 0 .. MaxDelay, Retry(t, j, wait)
       PROVE  Quiet
  <2> DEFINE row == IF ~Exhausted(jobs[j]) THEN Readmitted(jobs[j], wait)
                    ELSE IF Finalized(jobs[j].work) THEN Readmitted(jobs[j], 0)
                    ELSE Unleased(jobs[j], "dead_lettered")
  <2>1. row.status # "leased" /\ row.token = NoToken
    BY <1>0, <1>d, <1>e DEF Status, Terminal
  <2> QED BY <1>b, <1>10, <2>1 DEF Retry
<1>11. ASSUME NEW t \in Token, NEW j \in JobId,
              NEW wait \in 0 .. (MaxDelay + PollInterval), Defer(t, j, wait)
       PROVE  Quiet
  <2> DEFINE row == [Readmitted(jobs[j], wait) EXCEPT !.attempt = @ - 1, !.defers = @ + 1]
  <2>1. row.status # "leased" /\ row.token = NoToken
    BY <1>0 DEF Readmitted, Unleased, Row
  <2> HIDE DEF row
  <2>2. Settle(t, j, row)
    BY <1>11 DEF Defer, row
  <2> QED BY <1>b, <2>1, <2>2
<1>12. ASSUME NEW t \in Token, NEW j \in JobId, ReleaseUnstartedJob(t, j)
       PROVE  Quiet
  <2> DEFINE row == [Readmitted(jobs[j], 0) EXCEPT !.attempt = jobs[j].previous]
  <2>1. row.status # "leased" /\ row.token = NoToken
    BY <1>0 DEF Readmitted, Unleased, Row
  <2> HIDE DEF row
  <2>2. Settle(t, j, row)
    BY <1>12 DEF ReleaseUnstartedJob, row
  <2> QED BY <1>b, <2>1, <2>2
<1>13. ASSUME NEW t \in Token, Abandon(t) PROVE Quiet
  BY <1>13 DEF Abandon, Keeps, W
<1>14. ASSUME NEW s \in Session, NEW w \in Work, NEW j \in JobId, DeleteSession(s, w, j)
       PROVE  Quiet
  <2>1. Revoked(s) \in [JobId -> Row]
    BY RevokedType DEF TypeOK
  <2> QED BY <1>f, <1>g, <1>14, <2>1 DEF DeleteSession, Keeps, Drops, W
<1>15. ASSUME NEW s \in Session, TerminateSession(s) PROVE Quiet
  BY <1>g, <1>15 DEF TerminateSession, Keeps, Drops, W
<1>16. ASSUME NEW j \in JobId, ReclaimExpiredLease(j) PROVE Quiet
  BY <1>0, <1>e, <1>16 DEF ReclaimExpiredLease, TypeOK, Keeps, Drops, W
<1>17. ASSUME NEW j \in JobId, PruneTerminal(j) PROVE Quiet
  BY <1>17 DEF PruneTerminal, AbsentRow, TypeOK, Keeps, Drops, W
<1>18. ASSUME NEW p \in Partition, SweepEmptyPartitionCounter(p) PROVE Quiet
  BY <1>18 DEF SweepEmptyPartitionCounter, Keeps, W
<1>19. CASE Tick
  BY <1>0, <1>19 DEF Tick, Row, Keeps, W
<1>20. CASE UNCHANGED vars
  BY <1>20 DEF vars, Keeps, W
<1> QED
  BY <1>1, <1>2, <1>3, <1>4, <1>5, <1>6, <1>7, <1>8, <1>9, <1>10, <1>11, <1>12, <1>13,
     <1>14, <1>15, <1>16, <1>17, <1>18, <1>19, <1>20
  DEF Next, Produce, Acquire, Consume, EndSession, Maintain

\* Token custody is preserved: a lease mints a token no row carries.
LEMMA NextTokenCustody == TypeOK /\ TokenCustody /\ [Next]_vars => TokenCustody'
<1> SUFFICES ASSUME TypeOK, TokenCustody, [Next]_vars PROVE TokenCustody'
  OBVIOUS
<1>1. CASE \A j \in JobId : Keeps(j) \/ Drops(j)
  BY <1>1 DEF Keeps, Drops, TokenCustody, Is
<1>2. ASSUME NEW c \in JobId, NEW t \in Token, Grants(c, t) PROVE TokenCustody'
  BY <1>2, NullAssumption DEF Grants, Fresh, TokenCustody, Is
<1> QED BY <1>1, <1>2, CustodyStep

\* One live holder per row, for every number of consumers: a stale token can
\* never match another row than the one it was minted for.
THEOREM TokenCustodyHolds == Spec => []TokenCustody
<1>1. Init => TokenCustody
  BY DEF Init, AbsentRow, TokenCustody, Is
<1> QED BY <1>1, TypeCorrect, NextTokenCustody, PTL DEF Spec

\* Exclusion of leases is preserved: eligibility checks every leased row.
LEMMA NextLeaseExclusion ==
    TypeOK /\ TokenCustody /\ LeaseExclusion /\ [Next]_vars => LeaseExclusion'
<1> SUFFICES ASSUME TypeOK, TokenCustody, LeaseExclusion, [Next]_vars PROVE LeaseExclusion'
  OBVIOUS
<1>1. CASE \A j \in JobId : Keeps(j) \/ Drops(j)
  BY <1>1 DEF Keeps, Drops, LeaseExclusion, Is, W, SameThread, SameSession
<1>2. ASSUME NEW c \in JobId, NEW t \in Token, Grants(c, t) PROVE LeaseExclusion'
  <2>1. \A l \in JobId \ {c} : jobs[l].status = "leased" => ~Excludes(W(l), W(c))
    BY <1>2 DEF Grants, Eligible, Is
  <2>2. \A w \in Work : Scope(w) \in {"thread", "session", "partition"}
    BY DEF Scope
  <2>3. \A j \in JobId : W(j) \in Work /\ W(j)' = W(j)
    BY <1>2 DEF Grants, TypeOK, Row, W
  <2>4. \A j \in JobId : Is(j, "leased")' <=> (j = c \/ Is(j, "leased"))
    BY <1>2 DEF Grants, Is
  <2>5. \A w \in Work : Interrupt(w) => Scope(w) = "thread"
    BY DEF Interrupt, Control, Scope
  <2>6. \A w \in Work : w.kind = "runtime_config_update" => Scope(w) = "session"
    BY DEF Scope
  <2> SUFFICES ASSUME NEW i \in JobId, NEW j \in JobId, i # j,
                      Is(i, "leased")', Is(j, "leased")'
               PROVE  /\ Scope(W(i)) = "partition" /\ Scope(W(j)) = "partition" =>
                            W(i).partition # W(j).partition
                      /\ Scope(W(i)) = "thread" /\ Scope(W(j)) = "thread" => ~SameThread(i, j)
                      /\ Scope(W(i)) = "session" /\ Scope(W(j)) = "session" => ~SameSession(i, j)
                      /\ Scope(W(i)) = "session" /\ Scope(W(j)) = "thread" /\ SameSession(i, j) =>
                            W(i).kind = "runtime_config_update" /\ Interrupt(W(j))
    BY <2>3 DEF LeaseExclusion, SameThread, SameSession
  <2>7. CASE i = c
    BY <2>1, <2>2, <2>3, <2>4, <2>5, <2>6, <2>7 DEF Is, Excludes, SameThread, SameSession
  <2>8. CASE j = c
    BY <2>1, <2>2, <2>3, <2>4, <2>5, <2>6, <2>8 DEF Is, Excludes, SameThread, SameSession
  <2>9. CASE i # c /\ j # c
    BY <2>4, <2>9 DEF LeaseExclusion
  <2> QED BY <2>7, <2>8, <2>9
<1> QED BY <1>1, <1>2, CustodyStep

\* For every number of rows, Threads, Sessions and consumers, conflicting work
\* is never leased twice at the same time.
THEOREM LeaseExclusionHolds == Spec => []LeaseExclusion
<1>1. Init => LeaseExclusion
  BY DEF Init, AbsentRow, LeaseExclusion, Is
<1> QED BY <1>1, TypeCorrect, TokenCustodyHolds, NextLeaseExclusion, PTL DEF Spec

-----------------------------------------------------------------------------
(* What a transaction can do to a row.                                     *)

\* A lease of j that has not expired ends by a call of its holder or with its
\* Session (the action of LeaseEndsByHolder).
EndsRightly(j) ==
    Is(j, "leased") /\ jobs[j].left > 0 =>
        \/ claims[jobs[j].token].job = j /\ claims'[jobs[j].token].phase = "called"
        \/ W(j).session # NoSession /\ sessions'[W(j).session] # "active"

\* Only timers move.
Held(j) ==
    /\ jobs'[j].work = jobs[j].work /\ jobs'[j].seq = jobs[j].seq
    /\ jobs'[j].status = jobs[j].status /\ jobs'[j].token = jobs[j].token
    /\ jobs'[j].attempt = jobs[j].attempt /\ jobs'[j].previous = jobs[j].previous

\* The row is closed, or given back with no more attempts than before.
Ended(j) ==
    /\ jobs'[j].work = jobs[j].work /\ jobs'[j].seq = jobs[j].seq
    /\ jobs[j].status \in Active /\ jobs'[j].status \in Terminal \cup {"pending"}
    /\ jobs'[j].status = "acknowledged" => jobs[j].status = "leased"
    /\ jobs'[j].previous = NoPrevious /\ jobs'[j].attempt <= jobs[j].attempt
    /\ EndsRightly(j)

Minted(c) ==
    /\ Eligible(c)
    /\ jobs'[c].work = jobs[c].work /\ jobs'[c].seq = jobs[c].seq
    /\ jobs'[c].status = "leased"
    /\ jobs'[c].attempt = LeasedAttempt(jobs[c])
    /\ \/ jobs'[c].previous = NoPrevious
       \/ jobs'[c].previous = jobs[c].attempt /\ W(c).kind \in RunnerKind

Inserted(j, w) ==
    /\ Is(j, "absent") /\ jobs'[j].status = "pending"
    /\ jobs'[j].work = w /\ jobs'[j].seq = counter[w.partition] + 1
    /\ jobs'[j].attempt = 0 /\ jobs'[j].previous = NoPrevious

OthersSame(j) == \A i \in JobId \ {j} : jobs'[i] = jobs[i]

TableStep ==
    \/ UNCHANGED counter /\ \A j \in JobId : Held(j) \/ Ended(j)
    \/ UNCHANGED counter /\ \E c \in JobId : Minted(c) /\ OthersSame(c)
    \/ \E j \in JobId, w \in Work :
          /\ Inserted(j, w) /\ \A i \in JobId \ {j} : Held(i) \/ Ended(i)
          /\ counter' = [counter EXCEPT ![w.partition] = @ + 1]
    \/ UNCHANGED counter /\ \E j \in JobId :
          jobs[j].status \in Terminal /\ jobs'[j] = AbsentRow /\ OthersSame(j)
    \/ UNCHANGED jobs /\ \E p \in Partition :
          Empty(p) /\ counter' = [counter EXCEPT ![p] = 0]

\* Unleased and Readmitted change no more than they say.
LEMMA UnleasedIs ==
    ASSUME NEW row \in Row, NEW status \in Status
    PROVE  /\ Unleased(row, status).work = row.work /\ Unleased(row, status).seq = row.seq
           /\ Unleased(row, status).status = status
           /\ Unleased(row, status).previous = NoPrevious
           /\ Unleased(row, status).attempt = row.attempt
  BY DEF Unleased, Row

LEMMA ReadmittedIs ==
    ASSUME NEW row \in Row, NEW wait \in Nat
    PROVE  /\ Readmitted(row, wait) \in Row
           /\ Readmitted(row, wait).work = row.work /\ Readmitted(row, wait).seq = row.seq
           /\ Readmitted(row, wait).status = "pending"
           /\ Readmitted(row, wait).previous = NoPrevious
           /\ Readmitted(row, wait).attempt = row.attempt
<1>1. Readmitted(row, wait) \in Row
  BY ReadmittedType
<1> QED BY <1>1 DEF Readmitted, Unleased, Row

\* A settlement ends the holder's own live lease.
LEMMA SettleEnds ==
    ASSUME TypeOK, NEW t \in Token, NEW j \in JobId, NEW row, Settle(t, j, row),
           row.work = jobs[j].work, row.seq = jobs[j].seq,
           row.status \in Terminal \cup {"pending"},
           row.previous = NoPrevious, row.attempt <= jobs[j].attempt
    PROVE  TableStep
<1>1. jobs'[j] = row /\ \A i \in JobId \ {j} : jobs'[i] = jobs[i]
  BY DEF Settle, TypeOK
<1>2. claims[jobs[j].token].job = j /\ claims'[jobs[j].token].phase = "called"
  BY DEF Settle, Owns, Called, TypeOK, Claim
<1>3. Ended(j)
  BY <1>1, <1>2 DEF Settle, Owns, Is, Ended, EndsRightly, Active
<1>4. \A i \in JobId \ {j} : Held(i)
  BY <1>1 DEF Held
<1> QED BY <1>3, <1>4 DEF TableStep, Settle

\* The end of a Session revokes its rows and touches no other.
LEMMA RevokedEnds ==
    ASSUME TypeOK, NEW s \in Session, sessions'[s] # "active", NEW j \in JobId,
           jobs'[j] = Revoked(s)[j]
    PROVE  Held(j) \/ Ended(j)
<1>1. CASE jobs'[j] = jobs[j]
  BY <1>1 DEF Held
<1>2. CASE /\ W(j).session = s /\ jobs[j].status \in Active
           /\ jobs'[j] = Unleased(jobs[j], "cancelled")
  <2>1. jobs[j] \in Row /\ "cancelled" \in Status /\ jobs[j].attempt <= jobs[j].attempt
    BY DEF TypeOK, Row, Status, Terminal
  <2> QED BY <1>2, <2>1, UnleasedIs, NullAssumption DEF Ended, EndsRightly, Terminal
<1> QED BY <1>1, <1>2 DEF Revoked

\* An insert writes one vacant row and advances its counter.
LEMMA InsertIs ==
    ASSUME NEW table \in [JobId -> Row], NEW j \in JobId, NEW w \in Work, NEW wait,
           jobs[j].status = table[j].status, InsertInto(table, j, w, wait),
           \A i \in JobId \ {j} : jobs'[i] = table[i] => Held(i) \/ Ended(i)
    PROVE  TableStep
<1>1. jobs'[j] = NewRow(w, counter[w.partition] + 1, wait)
  BY DEF InsertInto
<1>2. Inserted(j, w)
  BY <1>1 DEF InsertInto, Inserted, NewRow, Is
<1>3. \A i \in JobId \ {j} : jobs'[i] = table[i]
  BY DEF InsertInto
<1> QED BY <1>2, <1>3 DEF TableStep, InsertInto

\* Every transaction is a step of one of the five forms.
LEMMA NextTableStep ==
    ASSUME TypeOK, ProvenanceExact, [Next]_vars
    PROVE  TableStep
<1> USE BoundsAssumption
<1>0. \A j \in JobId : jobs[j] \in Row /\ jobs[j].attempt \in Nat /\ jobs[j].work \in Work
  BY DEF TypeOK, Row
<1>a. \A j \in JobId : jobs[j].status # "leased" => jobs[j].previous = NoPrevious
  BY DEF ProvenanceExact, Is
<1>b. ASSUME NEW j \in JobId, jobs'[j] = jobs[j] PROVE Held(j)
  BY <1>b DEF Held
<1>c. ASSUME NEW j \in JobId, NEW status \in {"cancelled", "dead_lettered"}, Is(j, "pending"),
             jobs'[j] = [jobs[j] EXCEPT !.status = status]
      PROVE  Ended(j)
  BY <1>0, <1>a, <1>c DEF Is, Row, Ended, EndsRightly, Active, Terminal
<1>d. ASSUME NEW c \in JobId, NEW t \in Token, NEW previous, Mint(c, t, previous),
             previous = NoPrevious \/ (previous = jobs[c].attempt /\ W(c).kind \in RunnerKind)
      PROVE  TableStep
  <2>1. Minted(c) /\ OthersSame(c)
    BY <1>0, <1>d DEF Mint, Minted, OthersSame, TypeOK, Row
  <2> QED BY <1>d, <2>1 DEF TableStep, Mint
<1>e. \A j \in JobId : jobs[j].attempt <= jobs[j].attempt
  BY <1>0
<1>1. ASSUME NEW w \in Work, NEW j \in JobId, NEW wait \in 0 .. MaxDelay, Enqueue(w, j, wait)
      PROVE  TableStep
  BY <1>1, <1>b, InsertIs DEF Enqueue, TypeOK
<1>2. ASSUME NEW j \in JobId, CancelTx(j) \/ DeadLetterExhausted(j) PROVE TableStep
  <2>1. /\ Is(j, "pending") /\ UNCHANGED counter
        /\ \E status \in {"cancelled", "dead_lettered"} :
              jobs' = [jobs EXCEPT ![j].status = status]
    BY <1>2 DEF CancelTx, DeadLetterExhausted
  <2>2. Ended(j)
    BY <1>c, <2>1 DEF TypeOK
  <2>3. \A i \in JobId \ {j} : Held(i)
    BY <1>b, <2>1
  <2> QED BY <2>1, <2>2, <2>3 DEF TableStep
<1>3. ASSUME NEW i \in Work, Cancel(i) PROVE TableStep
  <2>1. ASSUME NEW j \in JobId PROVE Held(j) \/ Ended(j)
    <3>1. CASE Fenced(j, i)
      BY <1>c, <1>3, <3>1 DEF Cancel, Fenced
    <3>2. CASE ~Fenced(j, i)
      BY <1>b, <1>3, <3>2 DEF Cancel
    <3> QED BY <3>1, <3>2
  <2> QED BY <1>3, <2>1 DEF TableStep, Cancel
<1>4. ASSUME NEW c \in JobId, NEW t \in Token, Lease(c, t) PROVE TableStep
  BY <1>d, <1>4 DEF Lease
<1>5. ASSUME NEW c \in JobId, NEW t \in Token, LeaseJobRunnerCandidate(c, t) PROVE TableStep
  BY <1>d, <1>5 DEF LeaseJobRunnerCandidate
<1>6. ASSUME NEW t \in Token, NEW j \in JobId, Heartbeat(t, j) PROVE TableStep
  <2>1. \A i \in JobId : Held(i)
    BY <1>0, <1>6 DEF Heartbeat, TypeOK, Row, Held
  <2> QED BY <1>6, <2>1 DEF TableStep, Heartbeat
<1>7. ASSUME NEW t \in Token, NEW j \in JobId, Ack(t, j) \/ DeadLetter(t, j) PROVE TableStep
  <2>1. PICK status \in {"acknowledged", "dead_lettered"} :
           Settle(t, j, Unleased(jobs[j], status))
    BY <1>7 DEF Ack, DeadLetter
  <2>2. status \in Status /\ status \in Terminal
    BY DEF Status, Terminal
  <2> QED BY <1>0, <1>e, <2>1, <2>2, UnleasedIs, SettleEnds
<1>8. ASSUME NEW t \in Token, NEW j \in JobId, NEW wait \in 0 .. MaxDelay, Retry(t, j, wait)
      PROVE  TableStep
  <2>1. \/ Settle(t, j, Readmitted(jobs[j], wait)) \/ Settle(t, j, Readmitted(jobs[j], 0))
        \/ Settle(t, j, Unleased(jobs[j], "dead_lettered"))
    BY <1>8 DEF Retry
  <2>2. wait \in Nat /\ 0 \in Nat
    OBVIOUS
  <2>3. CASE Settle(t, j, Unleased(jobs[j], "dead_lettered"))
    <3>1. "dead_lettered" \in Status /\ "dead_lettered" \in Terminal
      BY DEF Status, Terminal
    <3> QED BY <1>0, <1>e, <2>3, <3>1, UnleasedIs, SettleEnds
  <2>4. ASSUME NEW n \in Nat, Settle(t, j, Readmitted(jobs[j], n)) PROVE TableStep
    BY <1>0, <1>e, <2>4, ReadmittedIs, SettleEnds
  <2> QED BY <2>1, <2>2, <2>3, <2>4
<1>9. ASSUME NEW t \in Token, NEW j \in JobId,
             NEW wait \in 0 .. (MaxDelay + PollInterval), Defer(t, j, wait)
      PROVE  TableStep
  <2> DEFINE old == Readmitted(jobs[j], wait)
             row == [old EXCEPT !.attempt = @ - 1, !.defers = @ + 1]
  <2>1. /\ old \in Row /\ old.work = jobs[j].work /\ old.seq = jobs[j].seq
        /\ old.status = "pending" /\ old.previous = NoPrevious /\ old.attempt = jobs[j].attempt
    <3>1. wait \in Nat
      OBVIOUS
    <3> QED BY <1>0, <3>1, ReadmittedIs
  <2> HIDE DEF old
  <2>2. /\ row.work = old.work /\ row.seq = old.seq /\ row.status = old.status
        /\ row.previous = old.previous /\ row.attempt = old.attempt - 1
    BY <2>1 DEF Row
  <2>3. Settle(t, j, row)
    BY <1>9 DEF Defer, old
  <2> HIDE DEF row
  <2>4. row.attempt <= jobs[j].attempt
    BY <1>0, <2>1, <2>2
  <2> QED BY <2>1, <2>2, <2>3, <2>4, SettleEnds
<1>10. ASSUME NEW t \in Token, NEW j \in JobId, ReleaseUnstartedJob(t, j)
       PROVE  TableStep
  <2> DEFINE old == Readmitted(jobs[j], 0)
             row == [old EXCEPT !.attempt = jobs[j].previous]
  <2>1. /\ old \in Row /\ old.work = jobs[j].work /\ old.seq = jobs[j].seq
        /\ old.status = "pending" /\ old.previous = NoPrevious
    <3>1. 0 \in Nat
      OBVIOUS
    <3> QED BY <1>0, <3>1, ReadmittedIs
  <2> HIDE DEF old
  <2>2. /\ row.work = old.work /\ row.seq = old.seq /\ row.status = old.status
        /\ row.previous = old.previous /\ row.attempt = jobs[j].previous
    BY <2>1 DEF Row
  <2>3. Settle(t, j, row)
    BY <1>10 DEF ReleaseUnstartedJob, old
  <2> HIDE DEF row
  <2>4. jobs[j].previous <= jobs[j].attempt
    <3> DEFINE before == [jobs[j] EXCEPT !.attempt = jobs[j].previous]
    <3>1. jobs[j].previous \in Nat
      BY <1>0, <1>10 DEF ReleaseUnstartedJob, Row
    <3>2. before.attempt = jobs[j].previous
      BY <1>0 DEF Row
    <3>3. jobs[j].attempt = LeasedAttempt(before)
      BY <1>10 DEF ReleaseUnstartedJob, ProvenanceExact
    <3> HIDE DEF before
    <3>4. LeasedAttempt(before) \in {before.attempt, before.attempt + 1}
      BY DEF LeasedAttempt
    <3> QED BY <3>1, <3>2, <3>3, <3>4
  <2> QED BY <2>1, <2>2, <2>3, <2>4, SettleEnds
<1>11. ASSUME NEW s \in Session, NEW w \in Work, NEW j \in JobId, DeleteSession(s, w, j)
       PROVE  TableStep
  <2>1. sessions'[s] # "active"
    BY <1>11 DEF DeleteSession, TypeOK
  <2>2. Revoked(s) \in [JobId -> Row]
    BY RevokedType DEF TypeOK
  <2>3. InsertInto(Revoked(s), j, w, 0)
    BY <1>11 DEF DeleteSession
  <2>4. jobs[j].status = Revoked(s)[j].status
    <3>1. Revoked(s)[j].status = "absent"
      BY <2>3 DEF InsertInto
    <3>2. Unleased(jobs[j], "cancelled").status = "cancelled"
      BY <1>0, UnleasedIs DEF Status, Terminal
    <3> QED BY <3>1, <3>2 DEF Revoked
  <2> QED BY <2>1, <2>2, <2>3, <2>4, RevokedEnds, InsertIs
<1>12. ASSUME NEW s \in Session, TerminateSession(s) PROVE TableStep
  <2>1. sessions'[s] # "active" /\ UNCHANGED counter /\ jobs' = Revoked(s)
    BY <1>12 DEF TerminateSession, TypeOK
  <2> QED BY <2>1, RevokedEnds DEF TableStep
<1>13. ASSUME NEW j \in JobId, ReclaimExpiredLease(j) PROVE TableStep
  <2>1. /\ jobs'[j] = Readmitted(jobs[j], 0) /\ UNCHANGED counter
        /\ \A i \in JobId \ {j} : jobs'[i] = jobs[i]
    BY <1>13 DEF ReclaimExpiredLease, TypeOK
  <2>2. 0 \in Nat
    OBVIOUS
  <2>3. Ended(j)
    BY <1>0, <1>e, <1>13, <2>1, <2>2, ReadmittedIs
    DEF ReclaimExpiredLease, Is, Ended, EndsRightly, Active
  <2> QED BY <1>b, <2>1, <2>3 DEF TableStep
<1>14. ASSUME NEW j \in JobId, PruneTerminal(j) PROVE TableStep
  BY <1>14 DEF PruneTerminal, TableStep, OthersSame, TypeOK
<1>15. ASSUME NEW p \in Partition, SweepEmptyPartitionCounter(p) PROVE TableStep
  BY <1>15 DEF SweepEmptyPartitionCounter, TableStep
<1>16. CASE Tick
  <2>1. \A j \in JobId : Held(j)
    BY <1>0, <1>16 DEF Tick, Row, Held
  <2> QED BY <1>16, <2>1 DEF TableStep, Tick
<1>17. CASE UNCHANGED <<jobs, counter>>
  BY <1>b, <1>17 DEF TableStep
<1> QED
  BY <1>1, <1>2, <1>3, <1>4, <1>5, <1>6, <1>7, <1>8, <1>9, <1>10, <1>11, <1>12, <1>13,
     <1>14, <1>15, <1>16, <1>17
  DEF Next, Produce, Acquire, Consume, Abandon, EndSession, Maintain, vars

-----------------------------------------------------------------------------
(* Budgets and provenance.                                                 *)

\* The lease expression looks at the work and the attempt count of a row.
LEMMA LeasedAttemptIs ==
    ASSUME NEW r, NEW q, r.work = q.work, r.attempt = q.attempt
    PROVE  LeasedAttempt(r) = LeasedAttempt(q)
  BY DEF LeasedAttempt

\* A clamped lease stays within the budget it started in.
LEMMA LeaseWithinBudget ==
    ASSUME NEW w \in Work, NEW n \in Nat, NEW row, row.work = w, row.attempt = n,
           Interrupt(w) \/ w.kind = "cleanup_session" => n <= EffectiveMax(w),
           Control(w) = "agent_mail" => n <= EffectiveMax(w) + 1
    PROVE  /\ Interrupt(w) \/ w.kind = "cleanup_session" => LeasedAttempt(row) <= EffectiveMax(w)
           /\ Control(w) = "agent_mail" => LeasedAttempt(row) <= EffectiveMax(w) + 1
<1>1. EffectiveMax(w) \in Nat
  BY WorkAssumption, BoundsAssumption DEF EffectiveMax, CanonicalShape
<1> QED BY <1>1 DEF LeasedAttempt

LEMMA NextBudget ==
    TypeOK /\ ProvenanceExact /\ FinalizationBudget /\ [Next]_vars
      => ProvenanceExact' /\ FinalizationBudget'
<1> SUFFICES ASSUME TypeOK, ProvenanceExact, FinalizationBudget, [Next]_vars,
                    NEW j \in JobId
             PROVE  /\ jobs'[j].previous # NoPrevious =>
                          /\ jobs'[j].status = "leased" /\ jobs'[j].work.kind \in RunnerKind
                          /\ jobs'[j].attempt =
                               LeasedAttempt([jobs'[j] EXCEPT !.attempt = jobs'[j].previous])
                    /\ Interrupt(jobs'[j].work) \/ jobs'[j].work.kind = "cleanup_session" =>
                          jobs'[j].attempt <= EffectiveMax(jobs'[j].work)
                    /\ Control(jobs'[j].work) = "agent_mail" =>
                          jobs'[j].attempt <= EffectiveMax(jobs'[j].work) + 1
  BY DEF ProvenanceExact, FinalizationBudget, Is, W
<1>1. /\ jobs[j] \in Row /\ jobs'[j] \in Row
      /\ jobs[j].attempt \in Nat /\ jobs'[j].attempt \in Nat /\ jobs[j].work \in Work
  BY NextType DEF TypeOK, Row
<1>2. \A w \in Work : EffectiveMax(w) \in Nat
  BY WorkAssumption, BoundsAssumption DEF EffectiveMax, CanonicalShape
<1>3. CASE Held(j)
  <2>1. LeasedAttempt([jobs'[j] EXCEPT !.attempt = jobs'[j].previous])
          = LeasedAttempt([jobs[j] EXCEPT !.attempt = jobs[j].previous])
    <3>1. /\ [jobs'[j] EXCEPT !.attempt = jobs'[j].previous].work = jobs'[j].work
          /\ [jobs'[j] EXCEPT !.attempt = jobs'[j].previous].attempt = jobs'[j].previous
          /\ [jobs[j] EXCEPT !.attempt = jobs[j].previous].work = jobs[j].work
          /\ [jobs[j] EXCEPT !.attempt = jobs[j].previous].attempt = jobs[j].previous
      BY <1>1 DEF Row
    <3> QED BY <1>3, <3>1, LeasedAttemptIs DEF Held
  <2> QED BY <1>3, <2>1 DEF Held, ProvenanceExact, FinalizationBudget, Is, W
<1>4. CASE Ended(j)
  BY <1>1, <1>2, <1>4 DEF Ended, FinalizationBudget, W
<1>5. CASE Minted(j)
  <2>1. jobs'[j].attempt = LeasedAttempt(jobs[j]) /\ jobs'[j].work = jobs[j].work
    BY <1>5 DEF Minted
  <2>2. jobs'[j].previous # NoPrevious =>
           jobs'[j].attempt = LeasedAttempt([jobs'[j] EXCEPT !.attempt = jobs'[j].previous])
    <3>1. /\ [jobs'[j] EXCEPT !.attempt = jobs'[j].previous].work = jobs'[j].work
          /\ [jobs'[j] EXCEPT !.attempt = jobs'[j].previous].attempt = jobs'[j].previous
      BY <1>1 DEF Row
    <3> QED BY <1>5, <2>1, <3>1, LeasedAttemptIs DEF Minted
  <2>3. /\ Interrupt(W(j)) \/ W(j).kind = "cleanup_session" =>
              LeasedAttempt(jobs[j]) <= EffectiveMax(W(j))
        /\ Control(W(j)) = "agent_mail" => LeasedAttempt(jobs[j]) <= EffectiveMax(W(j)) + 1
    BY <1>1, LeaseWithinBudget DEF FinalizationBudget, W
  <2> QED BY <1>5, <2>1, <2>2, <2>3 DEF Minted, W
<1>6. ASSUME jobs'[j].attempt = 0, jobs'[j].previous = NoPrevious, jobs'[j].work \in Work
      PROVE  /\ jobs'[j].previous # NoPrevious => FALSE
             /\ jobs'[j].attempt <= EffectiveMax(jobs'[j].work)
             /\ jobs'[j].attempt <= EffectiveMax(jobs'[j].work) + 1
  BY <1>2, <1>6
<1>7. CASE \E w \in Work : Inserted(j, w)
  BY <1>6, <1>7 DEF Inserted
<1>8. CASE jobs'[j] = AbsentRow
  BY <1>1, <1>6, <1>8 DEF AbsentRow, Row
<1>9. jobs'[j] = jobs[j] => Held(j)
  BY DEF Held
<1>10. TableStep
  BY NextTableStep
<1> QED BY <1>3, <1>4, <1>5, <1>7, <1>8, <1>9, <1>10 DEF TableStep, OthersSame

LEMMA BudgetInvariant == Spec => [](ProvenanceExact /\ FinalizationBudget)
<1>1. Init => ProvenanceExact /\ FinalizationBudget
  <2>1. AbsentRow.work \in Work
    BY AbsentRowType DEF Row
  <2>2. EffectiveMax(AbsentRow.work) \in Nat
    BY <2>1, WorkAssumption, BoundsAssumption DEF EffectiveMax, CanonicalShape
  <2>3. AbsentRow.attempt = 0 /\ AbsentRow.previous = NoPrevious
    BY DEF AbsentRow
  <2> QED BY <2>2, <2>3 DEF Init, ProvenanceExact, FinalizationBudget, W
<1> QED BY <1>1, TypeCorrect, NextBudget, PTL DEF Spec

\* What ReleaseUnstartedJob refunds is what the direct lease charged, whatever
\* happened to the row since it was inserted.
THEOREM ProvenanceExactHolds == Spec => []ProvenanceExact
  BY BudgetInvariant, PTL

\* Interrupts, cleanups and agent mail are re-leased for finalization for ever
\* without running past their budgets.
THEOREM FinalizationBudgetHolds == Spec => []FinalizationBudget
  BY BudgetInvariant, PTL

-----------------------------------------------------------------------------
(* Sequences.                                                              *)

LEMMA NextSequence ==
    TypeOK /\ ProvenanceExact /\ SequenceCustody /\ [Next]_vars => SequenceCustody'
<1> SUFFICES ASSUME TypeOK, ProvenanceExact, SequenceCustody, [Next]_vars PROVE SequenceCustody'
  OBVIOUS
<1> DEFINE Kept(j) == /\ jobs'[j].work = jobs[j].work /\ jobs'[j].seq = jobs[j].seq
                      /\ jobs'[j].status # "absent" => jobs[j].status # "absent"
<1>0. \A j \in JobId : /\ W(j).partition \in Partition /\ jobs[j].seq \in Nat
                       /\ counter[W(j).partition] \in Nat
  BY DEF TypeOK, Row, Partition, W
<1>1. \A j \in JobId : Held(j) \/ Ended(j) \/ Minted(j) \/ jobs'[j] = jobs[j] => Kept(j)
  BY DEF Held, Ended, Minted, Eligible, Is, Active
<1>2. CASE UNCHANGED counter /\ \A j \in JobId : Kept(j)
  BY <1>2 DEF SequenceCustody, Is, W
<1>3. ASSUME NEW j \in JobId, NEW w \in Work, Inserted(j, w),
             \A i \in JobId \ {j} : Kept(i),
             counter' = [counter EXCEPT ![w.partition] = @ + 1]
      PROVE  SequenceCustody'
  <2>1. w.partition \in Partition /\ counter[w.partition] \in Nat
    BY DEF TypeOK, Partition
  <2>2. /\ counter'[w.partition] = counter[w.partition] + 1
        /\ \A p \in Partition : counter'[p] \in Nat /\ counter'[p] >= counter[p]
    BY <1>3, <2>1 DEF TypeOK
  <2>3. jobs'[j].work = w /\ jobs'[j].seq = counter[w.partition] + 1
    BY <1>3 DEF Inserted
  <2>4. ASSUME NEW i \in JobId \ {j}, jobs'[i].status # "absent"
        PROVE  /\ jobs'[i].work = W(i) /\ jobs'[i].seq = jobs[i].seq
               /\ jobs[i].seq \in 1 .. counter[W(i).partition]
               /\ jobs[i].seq \in 1 .. counter'[W(i).partition]
               /\ W(i).partition = w.partition => jobs[i].seq # counter[w.partition] + 1
    <3>1. Kept(i) /\ jobs[i].seq \in 1 .. counter[W(i).partition]
      BY <1>3, <2>4 DEF SequenceCustody, Is
    <3> QED BY <1>0, <2>1, <2>2, <3>1 DEF W
  <2>5. jobs'[j].seq \in 1 .. counter'[w.partition]
    BY <2>1, <2>2, <2>3
  <2>6. ASSUME NEW i \in JobId \ {j}, NEW k \in JobId \ {j}, i # k, jobs'[i].status # "absent",
               jobs'[k].status # "absent", W(i).partition = W(k).partition
        PROVE  jobs[i].seq # jobs[k].seq
    BY <1>3, <2>6 DEF SequenceCustody, Is
  <2> QED BY <2>3, <2>4, <2>5, <2>6 DEF SequenceCustody, Is, W
<1>4. ASSUME UNCHANGED counter, NEW j \in JobId, jobs'[j] = AbsentRow, OthersSame(j)
      PROVE  SequenceCustody'
  <2>1. jobs'[j].status = "absent"
    BY <1>4 DEF AbsentRow
  <2> QED BY <1>4, <2>1 DEF SequenceCustody, OthersSame, Is, W
<1>5. ASSUME UNCHANGED jobs, NEW p \in Partition, Empty(p), counter' = [counter EXCEPT ![p] = 0]
      PROVE  SequenceCustody'
  <2>1. \A i \in JobId : jobs[i].status # "absent" =>
           counter'[W(i).partition] = counter[W(i).partition]
    BY <1>0, <1>5 DEF Empty, Is, TypeOK
  <2> QED BY <1>5, <2>1 DEF SequenceCustody, Is, W
<1>6. TableStep
  BY NextTableStep
<1> HIDE DEF Kept
<1> QED BY <1>1, <1>2, <1>3, <1>4, <1>5, <1>6 DEF TableStep, OthersSame

\* Sequences are unique in their partition and within its counter although
\* emptied counters restart: the unique index never rejects an insert.
THEOREM SequenceCustodyHolds == Spec => []SequenceCustody
<1>1. Init => SequenceCustody
  BY DEF Init, AbsentRow, SequenceCustody, Is
<1> QED BY <1>1, TypeCorrect, BudgetInvariant, NextSequence, PTL DEF Spec

-----------------------------------------------------------------------------
(* Order within a Thread's lane.                                           *)

\* Row i is ahead of row j in the lane that LaneOrder speaks of.
Ahead(i, j) ==
    /\ Scope(W(j)) = "thread" /\ ~Interrupt(W(j)) /\ Before(i, j)
    /\ \/ Scope(W(i)) = "session" /\ SameSession(i, j)
       \/ Scope(W(i)) = "thread" /\ SameThread(i, j) /\ ~Interrupt(W(i))

\* Eligibility waits for every active row ahead.
LEMMA EligibleIsFirst ==
    ASSUME TypeOK, NEW c \in JobId, Eligible(c), NEW i \in JobId, ~Is(i, "absent"), Ahead(i, c)
    PROVE  jobs[i].status \in Terminal
<1>1. i # c
  BY DEF Ahead, Before, TypeOK, Row
<1>2. Is(i, "leased") => Excludes(W(i), W(c))
  BY DEF Ahead, Excludes, SameSession, SameThread
<1>3. Is(i, "pending") => PrecedesThreadWork(i, c)
  <2>1. Scope(W(i)) = "session" => ~Interrupt(W(i))
    BY DEF Scope, Interrupt, Control
  <2> QED BY <2>1 DEF Ahead, PrecedesThreadWork, SameThread
<1> QED BY <1>1, <1>2, <1>3 DEF Eligible, Precedes, Is, TypeOK, Row, Status, Active

LEMMA NextLaneOrder ==
    TypeOK /\ ProvenanceExact /\ SequenceCustody /\ LaneOrder /\ [Next]_vars => LaneOrder'
<1> SUFFICES ASSUME TypeOK, ProvenanceExact, SequenceCustody, LaneOrder, [Next]_vars,
                    NEW i \in JobId, NEW j \in JobId,
                    jobs'[j].status \in {"leased", "acknowledged"},
                    jobs'[i].status # "absent", Ahead(i, j)'
             PROVE  jobs'[i].status \in Terminal
  BY DEF LaneOrder, Ahead, Is
<1> DEFINE Same(k) == jobs'[k].work = jobs[k].work /\ jobs'[k].seq = jobs[k].seq
           Old(k) == Held(k) \/ Ended(k) \/ Minted(k)
<1>0. \A k \in JobId : jobs[k].seq \in Nat /\ jobs'[k].seq \in Nat /\ W(k) \in Work /\ W(k)' \in Work
  BY NextType DEF TypeOK, Row, W
<1>1. ASSUME NEW k \in JobId, jobs'[k] = jobs[k] PROVE Held(k)
  BY <1>1 DEF Held
<1>2. ASSUME NEW k \in JobId, Old(k)
      PROVE  /\ Same(k) /\ (jobs'[k].status # "absent" => jobs[k].status # "absent")
             /\ jobs[k].status \in Terminal => jobs'[k].status = jobs[k].status
  BY <1>2 DEF Held, Ended, Minted, Eligible, Is, Active, Terminal
<1>3. ASSUME Old(i), Old(j) PROVE jobs'[i].status \in Terminal
  <2>1. Ahead(i, j) /\ ~Is(i, "absent")
    <3>1. W(i)' = W(i) /\ W(j)' = W(j) /\ (Before(i, j)' <=> Before(i, j))
      BY <1>2, <1>3 DEF W, Before
    <3> QED BY <1>2, <1>3, <3>1 DEF Ahead, SameSession, SameThread, Is
  <2>2. CASE Minted(j)
    BY <1>2, <1>3, <2>1, <2>2, EligibleIsFirst DEF Minted
  <2>3. CASE ~Minted(j)
    <3>1. jobs[j].status \in {"leased", "acknowledged"}
      BY <1>3, <2>3 DEF Held, Ended, Terminal
    <3>2. jobs[i].status \in Terminal
      BY <2>1, <3>1 DEF LaneOrder, Ahead
    <3> QED BY <1>2, <1>3, <3>2
  <2> QED BY <2>2, <2>3
<1>4. ASSUME NEW k \in JobId, NEW w \in Work, Inserted(k, w),
             \A m \in JobId \ {k} : Held(m) \/ Ended(m)
      PROVE  jobs'[i].status \in Terminal
  <2>1. j # k
    BY <1>4 DEF Inserted
  <2>2. CASE i = k
    <3>1. Same(j) /\ jobs[j].status # "absent" /\ W(i)' = w /\ jobs'[i].seq = counter[w.partition] + 1
      BY <1>2, <1>4, <2>1, <2>2 DEF Inserted, W
    <3>2. W(j) \in Work /\ Scope(W(j)) = "thread" /\ Scope(w) # "partition" /\ w.session = W(j).session
      BY <1>0, <3>1 DEF Ahead, SameSession, SameThread, W
    <3>3. w.partition = W(j).partition
      BY <3>2, WorkAssumption DEF CanonicalShape
    <3>4. jobs[j].seq \in 1 .. counter[w.partition] /\ counter[w.partition] \in Nat
      BY <3>1, <3>3 DEF SequenceCustody, Is, TypeOK, Partition
    <3>5. jobs'[i].seq < jobs'[j].seq
      BY DEF Ahead, Before
    <3> QED BY <3>1, <3>4, <3>5
  <2> QED BY <1>3, <1>4, <2>1, <2>2
<1>5. ASSUME NEW k \in JobId, jobs'[k] = AbsentRow, OthersSame(k)
      PROVE  jobs'[i].status \in Terminal
  <2>1. i # k /\ j # k
    BY <1>5 DEF AbsentRow
  <2> QED BY <1>1, <1>3, <1>5, <2>1 DEF OthersSame
<1>6. TableStep
  BY NextTableStep
<1> QED BY <1>1, <1>3, <1>4, <1>5, <1>6 DEF TableStep, OthersSame

\* Ordinary Thread work starts in causal order, for any number of rows,
\* Threads and Sessions: what is leased or acknowledged has only terminal rows
\* ahead of it in its lane, through backoff, deferral, reclaim and revocation.
THEOREM LaneOrderHolds == Spec => []LaneOrder
<1>1. Init => LaneOrder
  BY DEF Init, AbsentRow, LaneOrder
<1> QED BY <1>1, TypeCorrect, BudgetInvariant, SequenceCustodyHolds, NextLaneOrder, PTL DEF Spec

-----------------------------------------------------------------------------
\* Nobody but its holder ends a lease that has not expired, except the end of
\* its Session: late calls with other tokens, reclaim, cancellation and pruning
\* all leave it alone.
THEOREM LeaseEndsByHolderHolds == Spec => LeaseEndsByHolder
<1> DEFINE A == \A j \in JobId :
          /\ Is(j, "leased") /\ jobs[j].left > 0
          /\ jobs'[j].token # jobs[j].token
          => \/ claims[jobs[j].token].job = j /\ claims'[jobs[j].token].phase = "called"
             \/ W(j).session # NoSession /\ sessions'[W(j).session] # "active"
<1>1. TypeOK /\ ProvenanceExact /\ [Next]_vars => [A]_vars
  <2> SUFFICES ASSUME TypeOK, ProvenanceExact, [Next]_vars, NEW j \in JobId,
                      Is(j, "leased"), jobs[j].left > 0, jobs'[j].token # jobs[j].token
               PROVE  EndsRightly(j) /\ Is(j, "leased") /\ jobs[j].left > 0
    BY DEF EndsRightly
  <2>1. ~Held(j) /\ jobs'[j] # jobs[j] /\ ~Minted(j) /\ \A w \in Work : ~Inserted(j, w)
    BY DEF Held, Minted, Eligible, Inserted, Is
  <2>2. jobs[j].status \notin Terminal
    BY DEF Is, Terminal
  <2>3. Ended(j)
    BY <2>1, <2>2, NextTableStep DEF TableStep, OthersSame
  <2> QED BY <2>3 DEF Ended
<1> QED BY <1>1, TypeCorrect, BudgetInvariant, PTL DEF Spec, LeaseEndsByHolder
=============================================================================
