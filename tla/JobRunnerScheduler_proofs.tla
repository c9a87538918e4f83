---------------------- MODULE JobRunnerScheduler_proofs ----------------------
(***************************************************************************)
(* Proofs about JobRunnerScheduler, for any number of workspaces, keys and *)
(* concurrent calls and any budgets.                                       *)
(***************************************************************************)
EXTENDS JobRunnerScheduler, FiniteSetTheorems, TLAPS

PC == {"idle", "loop", "proposed", "turn", "examine", "release", "return", "failed"}

PassRecord ==
    [present : BOOLEAN, busy : BOOLEAN, started : BOOLEAN, upper : Nat, after : Nat,
     known : SUBSET Key]

CallRecord ==
    [pc : PC, tenant : 0 .. Tenants, stale : BOOLEAN, visited : SUBSET Tenant, turns : Int,
     raw : Int, txs : Int, jobs : SUBSET (Tenant \X Key), pass : PassRecord,
     window : SUBSET Key, full : BOOLEAN]

Typed ==
    /\ row \in [Tenant \X Key -> {"out", "pending", "leased"}]
    /\ passes \in [Tenant -> PassRecord]
    /\ calls \in [Caller -> CallRecord]

\* Who works on a tenant has marked its pass busy, alone; who marked it works.
Ownership ==
    /\ \A c \in Caller : Working(c) => Call(c).tenant # 0 /\ passes[Call(c).tenant].busy
    /\ \A c, d \in Caller :
          Working(c) /\ Working(d) /\ Call(c).tenant = Call(d).tenant => c = d
    /\ \A t \in Tenant : passes[t].busy => \E c \in Caller : Working(c) /\ Call(c).tenant = t

\* Committed rows are with one call.
Holding ==
    /\ NothingHidden
    /\ \A c, d \in Caller : c # d => Call(c).jobs \cap Call(d).jobs = {}
    /\ \A c \in Caller : Call(c).pc = "idle" => Call(c).jobs = {}

\* The pass p of a turn continues the pass q of the map.
Continues(p, q) ==
    /\ p.present
    /\ q.started => /\ p.started /\ p.upper = q.upper /\ p.known = q.known
                    /\ p.after >= q.after

\* What a working call has continues the map's pass, and its window is ahead.
Forward ==
    /\ \A t \in Tenant : passes[t].started => passes[t].present
    /\ \A c \in Caller : Working(c) => Continues(Call(c).pass, passes[Call(c).tenant])
    /\ \A c \in Caller : Call(c).pc = "examine" =>
          Call(c).pass.started /\ \A k \in Call(c).window : k > Call(c).pass.after

IInv == Typed /\ Ownership /\ Holding /\ Forward

-----------------------------------------------------------------------------
(* Least and greatest keys.                                                *)

LEMMA SmallestIs ==
    ASSUME NEW S \in SUBSET Nat, S # {}
    PROVE  Smallest(S) \in S /\ \A y \in S : Smallest(S) <= y
<1> DEFINE Less == {ss \in Nat \X Nat : ss[1] < ss[2]}
<1>1. OpToRel(<, Nat) = Less
  BY Zenon DEF OpToRel
<1>2. IsWellFoundedOn(Less, Nat)
  BY <1>1, NatLessThanWellFounded, Zenon
<1>3. PICK x \in S : \A y \in S : <<y, x>> \notin Less
  <2> HIDE DEF Less
  <2> QED BY <1>2, WFMin
<1>4. ASSUME NEW y \in S PROVE x <= y
  <2>1. x \in Nat /\ y \in Nat
    OBVIOUS
  <2>2. ~(y < x)
    <3>1. y < x => <<y, x>> \in Less
      BY <2>1, Zenon
    <3> QED BY <3>1, <1>3
  <2> QED BY <2>1, <2>2
<1> QED BY <1>4 DEF Smallest

LEMMA LargestIs ==
    ASSUME NEW S \in SUBSET Key, S # {}
    PROVE  Largest(S) \in S
<1> DEFINE T == {Keys - x : x \in S}
<1>1. T \in SUBSET Nat /\ T # {}
  <2>1. \A x \in S : Keys - x \in Nat
    BY BudgetAssumption DEF Key
  <2> QED BY <2>1
<1>2. Smallest(T) \in T /\ \A y \in T : Smallest(T) <= y
  BY <1>1, SmallestIs
<1>3. PICK x \in S : Smallest(T) = Keys - x
  BY <1>2
<1>4. \A y \in S : Keys - x <= Keys - y
  BY <1>2, <1>3
<1>5. \A y \in S : x >= y
  BY <1>4, BudgetAssumption DEF Key
<1> QED BY <1>5 DEF Largest

LEMMA KeysFinite ==
    ASSUME NEW S \in SUBSET Key
    PROVE  Cardinality(S) \in Nat
<1>1. IsFiniteSet(Key)
  <2>1. Keys \in Int /\ 1 \in Int
    BY BudgetAssumption
  <2> QED BY <2>1, FS_Interval DEF Key
<1> QED BY <1>1, FS_Subset, FS_CardinalityType

LEMMA NextTenantIs == NextTenant \in 0 .. Tenants
<1> DEFINE busyTenants == {t \in Tenant : Pending(t) # {}}
           later == {t \in busyTenants : t > cursor}
<1>1. busyTenants \in SUBSET Nat /\ later \in SUBSET Nat
  BY DEF Tenant
<1>2. busyTenants # {} => Smallest(busyTenants) \in Tenant
  BY <1>1, SmallestIs
<1>3. later # {} => Smallest(later) \in Tenant
  BY <1>1, SmallestIs
<1> QED BY <1>2, <1>3, BudgetAssumption DEF NextTenant, Tenant

-----------------------------------------------------------------------------
(* Records.                                                                *)

LEMMA NoPassIs ==
    /\ NoPass \in PassRecord /\ ~NoPass.present /\ ~NoPass.busy /\ ~NoPass.started
    /\ NewPass \in PassRecord /\ NewPass.present /\ ~NewPass.busy /\ ~NewPass.started
  BY DEF NoPass, NewPass, PassRecord

LEMMA NoCallIs ==
    NoCall \in CallRecord /\ NoCall.pc = "idle" /\ NoCall.jobs = {}
<1>1. NoCall \in CallRecord
  BY NoPassIs, BudgetAssumption DEF NoCall, CallRecord, PC
<1> QED BY <1>1 DEF NoCall

LEMMA LeaveTurnIs ==
    ASSUME NEW call \in CallRecord, NEW pc \in PC
    PROVE  /\ LeaveTurn(call, pc) \in CallRecord
           /\ LeaveTurn(call, pc).pc = pc /\ LeaveTurn(call, pc).jobs = call.jobs
<1>1. 0 \in 0 .. Tenants /\ {} \in SUBSET Key /\ NoPass \in PassRecord
  BY NoPassIs, BudgetAssumption
<1> HIDE DEF NoPass
<1>2. LeaveTurn(call, pc) \in CallRecord
  BY <1>1 DEF LeaveTurn, CallRecord
<1> QED BY <1>2 DEF LeaveTurn, CallRecord

LEMMA GoIs ==
    ASSUME calls \in [Caller -> CallRecord], NEW c \in Caller, NEW call \in CallRecord, Go(c, call)
    PROVE  /\ calls' \in [Caller -> CallRecord] /\ calls'[c] = call
           /\ \A d \in Caller \ {c} : calls'[d] = calls[d]
  BY DEF Go

-----------------------------------------------------------------------------
(* The kinds of steps of a call, and what each keeps.                      *)

Kept(d) ==
    /\ calls'[d].pc = calls[d].pc /\ calls'[d].tenant = calls[d].tenant
    /\ calls'[d].jobs = calls[d].jobs /\ calls'[d].pass = calls[d].pass
    /\ calls'[d].window = calls[d].window

Others(c) == \A d \in Caller \ {c} : Kept(d)

SameLeased == \A r \in Tenant \X Key : row'[r] = "leased" <=> row[r] = "leased"

OutOfTurn == {"loop", "proposed", "return", "failed"}

\* Between turns.
Rests(c) ==
    /\ ~Working(c) /\ calls'[c].pc \in OutOfTurn
    /\ calls'[c].jobs = calls[c].jobs
    /\ UNCHANGED <<row, passes>>

\* Within a turn, with at most one row committed.
Works(c) ==
    /\ Working(c) /\ calls'[c].pc \in {"turn", "examine", "release"}
    /\ calls'[c].tenant = calls[c].tenant
    /\ Continues(calls'[c].pass, calls[c].pass)
    /\ calls'[c].pc = "examine" =>
          calls'[c].pass.started /\ \A k \in calls'[c].window : k > calls'[c].pass.after
    /\ \/ calls'[c].jobs = calls[c].jobs /\ UNCHANGED row
       \/ \E r \in Tenant \X Key : /\ row[r] = "pending" /\ row' = [row EXCEPT ![r] = "leased"]
                                   /\ calls'[c].jobs = calls[c].jobs \cup {r}
    /\ UNCHANGED passes

\* The turn ends.
Puts(c) ==
    /\ Working(c) /\ calls'[c].pc \in OutOfTurn
    /\ calls'[c].jobs = calls[c].jobs
    /\ SameLeased
    /\ \E q \in {NoPass, [calls[c].pass EXCEPT !.busy = FALSE]} :
          passes' = [passes EXCEPT ![calls[c].tenant] = q]

\* The turn begins.
Takes(c) ==
    LET t == calls[c].tenant
        pass == IF passes[t].present THEN passes[t] ELSE NewPass
    IN  /\ ~Working(c) /\ calls'[c].pc = "turn"
        /\ t # 0 /\ calls'[c].tenant = t
        /\ calls'[c].jobs = calls[c].jobs
        /\ ~passes[t].busy /\ calls'[c].pass = pass
        /\ passes' = [passes EXCEPT ![t] = [pass EXCEPT !.busy = TRUE]]
        /\ UNCHANGED row

Returns(c) ==
    /\ ~Working(c) /\ calls'[c].pc = "idle" /\ calls'[c].jobs = {}
    /\ row' = [r \in Tenant \X Key |-> IF r \in calls[c].jobs THEN "out" ELSE row[r]]
    /\ UNCHANGED passes

\* A pass never moves back (the action of PassGoesForward).
Monotone ==
    \A t \in Tenant : passes[t].started /\ passes'[t].present =>
        /\ passes'[t].upper = passes[t].upper /\ passes'[t].known = passes[t].known
        /\ passes'[t].after >= passes[t].after

LEMMA SamePasses == ASSUME Typed, UNCHANGED passes PROVE Monotone
  BY DEF Typed, Monotone, PassRecord

LEMMA RestsKeeps ==
    ASSUME IInv, Typed', NEW c \in Caller, Others(c), Rests(c)
    PROVE  IInv' /\ Monotone
<1> USE DEF IInv, Others, Kept, Rests, OutOfTurn, Call, Working
<1>1. Ownership'
  BY DEF Ownership
<1>2. Holding'
  BY DEF Holding, NothingHidden
<1>3. Forward'
  BY DEF Forward
<1> QED BY <1>1, <1>2, <1>3, SamePasses

LEMMA ReturnsKeeps ==
    ASSUME IInv, Typed', NEW c \in Caller, Others(c), Returns(c)
    PROVE  IInv' /\ Monotone
<1> USE DEF IInv, Others, Kept, Returns, Call, Working
<1>1. Ownership'
  BY DEF Ownership
<1>2. Holding'
  <2>1. NothingHidden'
    <3>1. ASSUME NEW r \in Tenant \X Key, r \in calls[c].jobs
          PROVE  row'[r] # "leased" /\ \A d \in Caller : r \notin calls'[d].jobs
      BY <3>1 DEF Holding
    <3>2. ASSUME NEW r \in Tenant \X Key, r \notin calls[c].jobs
          PROVE  row'[r] = row[r] /\ \A d \in Caller : r \in calls'[d].jobs <=> r \in calls[d].jobs
      BY <3>2
    <3> QED BY <3>1, <3>2 DEF Holding, NothingHidden
  <2> QED BY <2>1 DEF Holding
<1>3. Forward'
  BY DEF Forward
<1> QED BY <1>1, <1>2, <1>3, SamePasses

LEMMA WorksKeeps ==
    ASSUME IInv, Typed', NEW c \in Caller, Others(c), Works(c)
    PROVE  IInv' /\ Monotone
<1> USE DEF IInv, Others, Kept, Call, Working
<1>1. Ownership'
  BY DEF Ownership, Works
<1>2. Holding'
  <2>1. CASE calls'[c].jobs = calls[c].jobs /\ UNCHANGED row
    BY <2>1 DEF Works, Holding, NothingHidden
  <2>2. ASSUME NEW r \in Tenant \X Key, row[r] = "pending", row' = [row EXCEPT ![r] = "leased"],
               calls'[c].jobs = calls[c].jobs \cup {r}
        PROVE  Holding'
    <3>1. \A d \in Caller : r \notin calls[d].jobs
      BY <2>2 DEF Holding, NothingHidden
    <3>2. NothingHidden'
      <4>1. \A q \in Tenant \X Key : q # r =>
               /\ row'[q] = row[q]
               /\ \A d \in Caller : q \in calls'[d].jobs <=> q \in calls[d].jobs
        BY <2>2 DEF Typed
      <4>2. row'[r] = "leased" /\ r \in calls'[c].jobs
        BY <2>2 DEF Typed
      <4> QED BY <4>1, <4>2 DEF Holding, NothingHidden
    <3> QED BY <2>2, <3>1, <3>2 DEF Works, Holding
  <2> QED BY <2>1, <2>2 DEF Works
<1>3. Forward'
  <2>1. Continues(calls'[c].pass, passes[calls[c].tenant])
    <3>1. calls[c].tenant \in Tenant
      BY DEF Works, Ownership, Typed, CallRecord, Tenant
    <3> QED BY <3>1 DEF Works, Forward, Continues, Typed, CallRecord, PassRecord
  <2>2. \A d \in Caller \ {c} :
           Working(d)' => Continues(calls'[d].pass, passes'[calls'[d].tenant])
    BY DEF Works, Forward, Continues
  <2> QED BY <2>1, <2>2 DEF Works, Forward, Continues
<1> QED BY <1>1, <1>2, <1>3, SamePasses DEF Works

\* A call in its turn works on a tenant whose pass is busy.
LEMMA WorkingOnTenant ==
    ASSUME Typed, Ownership, NEW d \in Caller, Working(d)
    PROVE  calls[d].tenant \in Tenant /\ passes[calls[d].tenant].busy
<1>1. calls[d] \in CallRecord
  BY DEF Typed
<1>2. calls[d].tenant # 0 /\ passes[calls[d].tenant].busy
  BY DEF Ownership, Call
<1> QED BY <1>1, <1>2, BudgetAssumption DEF CallRecord, Tenant

LEMMA PutsKeeps ==
    ASSUME IInv, Typed', NEW c \in Caller, Others(c), Puts(c)
    PROVE  IInv' /\ Monotone
<1> USE DEF IInv, Others, Kept, Call, Working
<1> DEFINE t == calls[c].tenant
<1>1. PICK q \in {NoPass, [calls[c].pass EXCEPT !.busy = FALSE]} :
         passes' = [passes EXCEPT ![t] = q]
  BY DEF Puts
<1>2. t \in Tenant /\ passes'[t] = q /\ \A u \in Tenant \ {t} : passes'[u] = passes[u]
  <2>1. t \in Tenant
    BY DEF Puts, Ownership, Typed, CallRecord, Tenant
  <2> QED BY <1>1, <2>1 DEF Typed
<1>3. /\ ~q.busy /\ (q.started => q.present)
      /\ \/ ~q.present
         \/ /\ q.upper = calls[c].pass.upper /\ q.known = calls[c].pass.known
            /\ q.after = calls[c].pass.after
  <2>1. CASE q = NoPass
    BY <2>1, NoPassIs
  <2>2. CASE q = [calls[c].pass EXCEPT !.busy = FALSE]
    <3>1. calls[c].pass \in PassRecord /\ calls[c].pass.present
      BY DEF Puts, Forward, Continues, Typed, CallRecord
    <3> QED BY <2>2, <3>1 DEF PassRecord
  <2> QED BY <2>1, <2>2
<1>4. ASSUME NEW d \in Caller \ {c}, Working(d) PROVE calls[d].tenant \in Tenant \ {t}
  <2>1. Working(c)
    BY DEF Puts
  <2>2. calls[d].tenant # t
    BY <1>4, <2>1 DEF Ownership
  <2> QED BY <1>4, <2>2, WorkingOnTenant
<1>5. Ownership'
  <2>1. ~Working(c)'
    BY DEF Puts, OutOfTurn
  <2>2. \A u \in Tenant \ {t} : passes[u].busy => \E d \in Caller \ {c} : Working(d) /\ calls[d].tenant = u
    BY DEF Ownership
  <2> QED BY <1>2, <1>3, <1>4, <2>1, <2>2 DEF Ownership
<1>6. Holding'
  BY DEF Puts, OutOfTurn, SameLeased, Holding, NothingHidden
<1>7. Forward'
  BY <1>2, <1>3, <1>4 DEF Puts, OutOfTurn, Forward
<1>8. Monotone
  <2>1. ASSUME passes[t].started, q.present
        PROVE  q.upper = passes[t].upper /\ q.known = passes[t].known /\ q.after >= passes[t].after
    BY <1>3, <2>1 DEF Puts, Forward, Continues
  <2>2. \A u \in Tenant : passes[u].after >= passes[u].after
    BY DEF Typed, PassRecord
  <2> QED BY <1>2, <2>1, <2>2 DEF Monotone
<1> QED BY <1>5, <1>6, <1>7, <1>8

LEMMA TakesKeeps ==
    ASSUME IInv, Typed', NEW c \in Caller, Others(c), Takes(c)
    PROVE  IInv' /\ Monotone
<1> USE DEF IInv, Others, Kept, Call, Working
<1> DEFINE t == calls[c].tenant
           pass == IF passes[t].present THEN passes[t] ELSE NewPass
           q == [pass EXCEPT !.busy = TRUE]
<1>1. t \in Tenant
  BY DEF Takes, Typed, CallRecord, Tenant
<1>2. pass \in PassRecord /\ pass.present /\ (passes[t].started => pass = passes[t])
  BY <1>1, NoPassIs DEF Typed, Forward
<1>3. /\ q.busy /\ q.present /\ q.started = pass.started /\ q.upper = pass.upper
      /\ q.known = pass.known /\ q.after = pass.after /\ pass.after \in Nat
  <2> HIDE DEF pass
  <2> QED BY <1>2 DEF PassRecord
<1>4. passes'[t] = q /\ calls'[c].pass = pass /\ \A u \in Tenant \ {t} : passes'[u] = passes[u]
  BY <1>1 DEF Takes, Typed
<1> HIDE DEF pass, q
<1>5. ASSUME NEW d \in Caller, Working(d) PROVE calls[d].tenant \in Tenant \ {t}
  <2>1. ~passes[t].busy
    BY DEF Takes
  <2> QED BY <1>5, <2>1, WorkingOnTenant
<1>6. Ownership'
  <2>1. /\ Working(c)' /\ calls'[c].tenant = t /\ t # 0
        /\ \A d \in Caller : Working(d) => d # c
    BY DEF Takes
  <2>2. \A u \in Tenant \ {t} : passes[u].busy => \E d \in Caller \ {c} : Working(d) /\ calls[d].tenant = u
    BY <2>1 DEF Ownership
  <2> QED BY <1>1, <1>3, <1>4, <1>5, <2>1, <2>2 DEF Ownership
<1>7. Holding'
  BY DEF Takes, Holding, NothingHidden
<1>8. Forward'
  <2>1. Continues(calls'[c].pass, passes'[t])
    BY <1>2, <1>3, <1>4 DEF Continues
  <2>2. \A d \in Caller \ {c} : Working(d)' =>
           Continues(calls'[d].pass, passes'[calls'[d].tenant])
    BY <1>4, <1>5 DEF Forward
  <2>3. \A u \in Tenant : passes'[u].started => passes'[u].present
    BY <1>3, <1>4 DEF Forward
  <2> QED BY <2>1, <2>2, <2>3 DEF Takes, Forward
<1>9. Monotone
  <2>1. \A u \in Tenant : passes[u].after >= passes[u].after
    BY DEF Typed, PassRecord
  <2> QED BY <1>2, <1>3, <1>4, <2>1 DEF Monotone
<1> QED BY <1>6, <1>7, <1>8, <1>9

\* The worker, quiesce and the producers.
LEMMA AroundKeeps ==
    ASSUME IInv, Typed', UNCHANGED calls, SameLeased,
           \A t \in Tenant : \/ passes'[t] = passes[t]
                             \/ passes'[t] = NoPass /\ ~passes[t].busy
    PROVE  IInv' /\ Monotone
<1> USE DEF IInv, Call, Working
<1>1. \A t \in Tenant : passes'[t].busy <=> passes[t].busy
  BY NoPassIs
<1>2. \A c \in Caller : Working(c) => calls[c].tenant \in Tenant /\ passes[calls[c].tenant].busy
  BY DEF Ownership, Typed, CallRecord, Tenant
<1>3. Ownership'
  BY <1>1, <1>2 DEF Ownership
<1>4. Holding'
  BY DEF Holding, NothingHidden, SameLeased
<1>5. Forward'
  <2>1. \A c \in Caller : Working(c) => passes'[calls[c].tenant] = passes[calls[c].tenant]
    BY <1>2
  <2> QED BY <2>1, NoPassIs DEF Forward
<1>6. Monotone
  BY NoPassIs DEF Monotone, Typed, PassRecord
<1> QED BY <1>3, <1>4, <1>5, <1>6

-----------------------------------------------------------------------------
(* The steps of a call.                                                    *)

\* The result of a step that moves only the call itself.
LEMMA LocalIs ==
    ASSUME IInv, NEW c \in Caller, NEW call \in CallRecord, Go(c, call),
           UNCHANGED <<row, passes>>
    PROVE  Typed' /\ calls'[c] = call /\ Others(c)
  BY GoIs DEF IInv, Typed, Others, Kept

LEMMA RestingSteps ==
    ASSUME IInv, NEW c \in Caller, NEW how \in {"return", "failed"},
           \/ Admit(c) \/ LoopStops(c) \/ Seek(c) \/ ProposalStale(c) \/ DiscoveryEnds(c)
           \/ SeekFails(c, how)
    PROVE  Typed' /\ Others(c) /\ Rests(c)
<1> DEFINE call == calls[c]
<1>0. call \in CallRecord
  BY DEF IInv, Typed
<1> SUFFICES ASSUME NEW new \in CallRecord, Go(c, new), UNCHANGED <<row, passes>>,
                    ~Working(c), new.pc \in OutOfTurn, new.jobs = call.jobs
             PROVE  Typed' /\ Others(c) /\ Rests(c)
  <2>1. CASE Admit(c)
    <3> DEFINE new == [NoCall EXCEPT !.pc = "loop", !.turns = Turns, !.raw = RawCandidates,
                                     !.txs = LeaseTxs]
    <3>1. Turns \in Int /\ RawCandidates \in Int /\ LeaseTxs \in Int /\ "loop" \in PC
      BY BudgetAssumption DEF PC
    <3>2. new \in CallRecord /\ new.pc = "loop" /\ new.jobs = NoCall.jobs
      BY <3>1, NoCallIs DEF CallRecord
    <3>3. new.jobs = call.jobs
      BY <2>1, <3>2, NoCallIs DEF Admit, IInv, Holding, Call
    <3> QED BY <2>1, <3>2, <3>3 DEF Admit, Working, Call, OutOfTurn
  <2>2. CASE LoopStops(c) \/ SeekFails(c, how)
    <3>1. PICK pc \in {"return", "failed"} : Go(c, [call EXCEPT !.pc = pc])
      BY <2>2 DEF LoopStops, SeekFails, Call
    <3> DEFINE new == [call EXCEPT !.pc = pc]
    <3>2. new \in CallRecord /\ new.pc = pc /\ new.jobs = call.jobs
      BY <1>0 DEF CallRecord, PC
    <3>3. ~Working(c) /\ UNCHANGED <<row, passes>>
      BY <2>2 DEF LoopStops, SeekFails, Working, Call
    <3> QED BY <3>1, <3>2, <3>3 DEF OutOfTurn
  <2>3. CASE Seek(c)
    <3> DEFINE new == [call EXCEPT !.pc = "proposed", !.turns = @ - 1, !.tenant = NextTenant,
                                   !.stale = FALSE]
    <3>1. call.turns - 1 \in Int /\ "proposed" \in PC
      BY <1>0 DEF CallRecord, PC
    <3>2. new \in CallRecord /\ new.pc = "proposed" /\ new.jobs = call.jobs
      BY <1>0, <3>1, NextTenantIs DEF CallRecord
    <3> QED BY <2>3, <3>2 DEF Seek, Working, Call, OutOfTurn
  <2>4. CASE ProposalStale(c) \/ DiscoveryEnds(c)
    <3>1. PICK pc \in {"loop", "return"} : Go(c, LeaveTurn(call, pc))
      BY <2>4 DEF ProposalStale, DiscoveryEnds, Call
    <3>2. ~Working(c) /\ UNCHANGED <<row, passes>>
      BY <2>4 DEF ProposalStale, DiscoveryEnds, Working, Call
    <3> QED BY <1>0, <3>1, <3>2, LeaveTurnIs DEF PC, OutOfTurn
  <2> QED BY <2>1, <2>2, <2>3, <2>4
<1>1. Typed' /\ calls'[c] = new /\ Others(c)
  BY LocalIs
<1> QED BY <1>1 DEF Rests

LEMMA ReturnStep ==
    ASSUME IInv, NEW c \in Caller, Return(c)
    PROVE  Typed' /\ Others(c) /\ Returns(c)
<1>1. calls' \in [Caller -> CallRecord] /\ calls'[c] = NoCall /\ Others(c)
  BY NoCallIs, GoIs DEF Return, IInv, Typed, Others, Kept
<1> QED BY <1>1, NoCallIs DEF Return, Returns, IInv, Typed, Working, Call

LEMMA MoveCursorStep ==
    ASSUME IInv, NEW c \in Caller, MoveCursor(c)
    PROVE  Typed' /\ Others(c) /\ (Rests(c) \/ Takes(c))
<1> DEFINE call == calls[c]
           t == call.tenant
           pass == IF passes[t].present THEN passes[t] ELSE NewPass
           visit == [call EXCEPT !.visited = @ \cup {t}]
           begun == [visit EXCEPT !.pc = "turn", !.pass = pass]
           mine == IF Vacant(t) THEN begun ELSE LeaveTurn(visit, "loop")
<1>1. call \in CallRecord /\ t \in Tenant /\ ~Working(c) /\ passes[t] \in PassRecord
  BY DEF MoveCursor, IInv, Typed, CallRecord, Tenant, Working, Call
<1>2. pass \in PassRecord /\ [pass EXCEPT !.busy = TRUE] \in PassRecord
  <2>1. pass \in PassRecord
    BY <1>1, NoPassIs
  <2> HIDE DEF pass
  <2> QED BY <2>1 DEF PassRecord
<1>3. visit \in CallRecord /\ visit.jobs = call.jobs /\ visit.tenant = t
  BY <1>1 DEF CallRecord
<1>4. /\ begun \in CallRecord /\ begun.pc = "turn" /\ begun.pass = pass
      /\ begun.jobs = call.jobs /\ begun.tenant = t
  <2> HIDE DEF pass, visit
  <2> QED BY <1>2, <1>3 DEF CallRecord, PC
<1>5. /\ LeaveTurn(visit, "loop") \in CallRecord /\ LeaveTurn(visit, "loop").pc = "loop"
      /\ LeaveTurn(visit, "loop").jobs = call.jobs
  <2> HIDE DEF visit
  <2> QED BY <1>3, LeaveTurnIs DEF PC
<1>6. calls' = [d \in Caller |-> IF d = c THEN mine
                             ELSE [calls[d] EXCEPT !.stale = calls[d].pc = "proposed"]]
  BY DEF MoveCursor, Call
<1> HIDE DEF begun, visit, pass
<1>7. ASSUME NEW d \in Caller \ {c} PROVE calls'[d] \in CallRecord /\ Kept(d)
  <2>1. calls[d] \in CallRecord /\ (calls[d].pc = "proposed") \in BOOLEAN
    BY DEF IInv, Typed
  <2> DEFINE b == calls[d].pc = "proposed"
  <2>2. calls'[d] = [calls[d] EXCEPT !.stale = b]
    BY <1>6
  <2> HIDE DEF b
  <2> QED BY <2>1, <2>2 DEF Kept, CallRecord, b
<1>8. Others(c)
  BY <1>7 DEF Others
<1>9. calls'[c] = mine /\ mine \in CallRecord
  BY <1>4, <1>5, <1>6
<1>10. calls' \in [Caller -> CallRecord]
  <2>1. \A d \in Caller : calls'[d] \in CallRecord
    BY <1>7, <1>9
  <2> HIDE DEF mine
  <2> QED BY <1>6, <2>1
<1>11. CASE Vacant(t)
  <2>1. passes' = [passes EXCEPT ![t] = [pass EXCEPT !.busy = TRUE]] /\ UNCHANGED row
    BY <1>11 DEF MoveCursor, Call, pass
  <2>2. passes' \in [Tenant -> PassRecord]
    BY <1>1, <1>2, <2>1 DEF IInv, Typed
  <2>3. Takes(c)
    BY <1>1, <1>4, <1>9, <1>11, <2>1 DEF Takes, Vacant, Tenant, pass
  <2> QED BY <1>8, <1>10, <2>1, <2>2, <2>3 DEF IInv, Typed
<1>12. CASE ~Vacant(t)
  <2>1. UNCHANGED <<row, passes>>
    BY <1>12 DEF MoveCursor, Call
  <2>2. Rests(c)
    BY <1>1, <1>5, <1>9, <1>12, <2>1 DEF Rests, OutOfTurn
  <2> QED BY <1>8, <1>10, <2>1, <2>2 DEF IInv, Typed
<1> QED BY <1>11, <1>12

\* What a working call is known to have.
LEMMA WorkingHas ==
    ASSUME IInv, NEW c \in Caller, Working(c)
    PROVE  /\ calls[c] \in CallRecord /\ calls[c].tenant \in Tenant
           /\ calls[c].pass \in PassRecord /\ calls[c].pass.present
           /\ Continues(calls[c].pass, calls[c].pass)
<1>1. calls[c] \in CallRecord /\ calls[c].tenant # 0 /\ calls[c].pass.present
  BY DEF IInv, Typed, Ownership, Forward, Continues, Call
<1> QED BY <1>1 DEF CallRecord, PassRecord, Tenant, Continues

LEMMA StartPassStep ==
    ASSUME IInv, NEW c \in Caller, StartPass(c)
    PROVE  Typed' /\ Others(c) /\ Works(c)
<1> DEFINE call == calls[c]
           pending == Pending(call.tenant)
           pass == [call.pass EXCEPT !.started = TRUE, !.upper = Largest(pending), !.known = pending]
           new == [call EXCEPT !.pass = pass]
<1>1. Working(c) /\ call.pc = "turn" /\ ~call.pass.started
  BY DEF StartPass, Working, Call
<1>2. call \in CallRecord /\ call.pass \in PassRecord /\ call.pass.present
  BY <1>1, WorkingHas
<1>3. pending \in SUBSET Key /\ Largest(pending) \in Nat
  <2>1. pending \in SUBSET Key /\ pending # {}
    BY DEF StartPass, Pending, Call
  <2>2. Largest(pending) \in Key
    BY <2>1, LargestIs
  <2> QED BY <2>1, <2>2 DEF Key
<1>4. Go(c, new) /\ UNCHANGED <<row, passes>>
  <2>1. [call EXCEPT !.pass.started = TRUE, !.pass.upper = Largest(pending), !.pass.known = pending]
          = new
    BY <1>2 DEF CallRecord, PassRecord
  <2> QED BY <2>1 DEF StartPass, Call
<1> HIDE DEF pending
<1>5. pass \in PassRecord /\ pass.present
  BY <1>2, <1>3 DEF PassRecord
<1> HIDE DEF pass
<1>6. /\ new \in CallRecord /\ new.pass = pass /\ new.pc = "turn" /\ new.jobs = call.jobs
      /\ new.tenant = call.tenant
  BY <1>1, <1>2, <1>5 DEF CallRecord
<1> HIDE DEF new
<1>7. Typed' /\ calls'[c] = new /\ Others(c)
  BY <1>4, <1>6, LocalIs
<1> QED BY <1>1, <1>4, <1>5, <1>6, <1>7 DEF Works, Continues

LEMMA FetchWindowStep ==
    ASSUME IInv, NEW c \in Caller, FetchWindow(c)
    PROVE  Typed' /\ Others(c) /\ Works(c)
<1> DEFINE call == calls[c]
           limit == IF Window < call.raw THEN Window ELSE call.raw
           window == FirstKeys(call.tenant, call.pass, limit)
           full == Cardinality(window) = limit
           new == [call EXCEPT !.pc = "examine", !.window = window,
                               !.raw = @ - Cardinality(window), !.full = full]
<1>1. Working(c) /\ call.pass.started
  BY DEF FetchWindow, Working, Call
<1>2. call \in CallRecord /\ call.pass \in PassRecord /\ Continues(call.pass, call.pass)
  BY <1>1, WorkingHas
<1>3. window \in SUBSET Key /\ \A k \in window : k > call.pass.after
  <2>1. \A k \in window : k \in Key /\ call.pass.after < k
    BY DEF FirstKeys, Pending
  <2> QED BY <1>2, <2>1 DEF PassRecord, Key
<1>4. call.raw - Cardinality(window) \in Int /\ full \in BOOLEAN
  BY <1>2, <1>3, KeysFinite DEF CallRecord
<1>5. Go(c, new) /\ UNCHANGED <<row, passes>>
  BY DEF FetchWindow, Call
<1> HIDE DEF window, full
<1>6. /\ new \in CallRecord /\ new.pass = call.pass /\ new.pc = "examine"
      /\ new.jobs = call.jobs /\ new.tenant = call.tenant /\ new.window = window
  BY <1>2, <1>3, <1>4 DEF CallRecord, PC
<1> HIDE DEF new
<1>7. Typed' /\ calls'[c] = new /\ Others(c)
  BY <1>5, <1>6, LocalIs
<1> QED BY <1>1, <1>2, <1>3, <1>5, <1>6, <1>7 DEF Works

\* Past a candidate the rest of the window is ahead.
LEMMA PastIs ==
    ASSUME IInv, NEW c \in Caller, CanExamine(c)
    PROVE  /\ Past(c) \in CallRecord
           /\ Past(c).pc = "examine" /\ Past(c).tenant = calls[c].tenant
           /\ Past(c).jobs = calls[c].jobs
           /\ Past(c).pass.started /\ Continues(Past(c).pass, calls[c].pass)
           /\ \A k \in Past(c).window : k > Past(c).pass.after
           /\ Candidate(c) \in Tenant \X Key /\ Working(c)
<1> DEFINE call == calls[c]
           least == Smallest(call.window)
           pass == [call.pass EXCEPT !.after = least]
           new == [call EXCEPT !.window = @ \ {Smallest(@)}, !.pass = pass]
<1>1. Working(c) /\ call.pc = "examine" /\ call.window # {}
  BY DEF CanExamine, Working, Call
<1>2. /\ call \in CallRecord /\ call.pass \in PassRecord /\ call.pass.present
      /\ call.tenant \in Tenant
  BY <1>1, WorkingHas
<1>3. call.pass.started /\ \A k \in call.window : k > call.pass.after
  BY <1>1 DEF IInv, Forward, Call
<1>4. call.window \in SUBSET Key
  BY <1>2 DEF CallRecord
<1>5. least \in call.window /\ \A y \in call.window : least <= y
  BY <1>1, <1>4, SmallestIs DEF Key
<1>6. Past(c) = new
  BY <1>2 DEF Past, Call, CallRecord, PassRecord
<1> HIDE DEF least
<1>7. least \in Key /\ least \in Nat /\ least >= call.pass.after
  BY <1>2, <1>3, <1>4, <1>5 DEF Key, PassRecord
<1>8. /\ pass \in PassRecord /\ pass.present /\ pass.started /\ pass.after = least
      /\ pass.upper = call.pass.upper /\ pass.known = call.pass.known
  BY <1>2, <1>3, <1>7 DEF PassRecord
<1> HIDE DEF pass
<1>9. /\ new \in CallRecord /\ new.pc = "examine" /\ new.tenant = call.tenant
      /\ new.jobs = call.jobs /\ new.pass = pass /\ new.window = call.window \ {least}
  BY <1>1, <1>2, <1>4, <1>8 DEF CallRecord, least
<1>10. \A k \in new.window : k > pass.after
  BY <1>4, <1>5, <1>7, <1>8, <1>9 DEF Key
<1>11. Candidate(c) \in Tenant \X Key
  BY <1>2, <1>7 DEF Candidate, Call, least
<1> HIDE DEF new
<1> QED BY <1>1, <1>6, <1>7, <1>8, <1>9, <1>10, <1>11 DEF Continues

LEMMA ExamineSteps ==
    ASSUME IInv, NEW c \in Caller, SkipLater(c) \/ MissLease(c) \/ CommitLease(c)
    PROVE  Typed' /\ Others(c) /\ Works(c)
<1>1. CanExamine(c)
  BY DEF SkipLater, MissLease, CommitLease
<1> DEFINE past == Past(c)
           less == [past EXCEPT !.txs = @ - 1]
           done == [past EXCEPT !.pc = "release", !.txs = @ - 1, !.jobs = @ \cup {Candidate(c)}]
<1>2. /\ past \in CallRecord /\ past.pc = "examine" /\ past.tenant = calls[c].tenant
      /\ past.jobs = calls[c].jobs /\ past.pass.started /\ Continues(past.pass, calls[c].pass)
      /\ \A k \in past.window : k > past.pass.after
      /\ Candidate(c) \in Tenant \X Key /\ Working(c)
  BY <1>1, PastIs
<1> HIDE DEF past
<1>3. past.txs - 1 \in Int
  BY <1>2 DEF CallRecord
<1>4. CASE SkipLater(c)
  <2>1. Typed' /\ calls'[c] = past /\ Others(c) /\ UNCHANGED <<row, passes>>
    BY <1>2, <1>4, LocalIs DEF SkipLater, past
  <2> QED BY <1>2, <2>1 DEF Works
<1>5. CASE MissLease(c)
  <2>1. /\ less \in CallRecord /\ less.pc = "examine" /\ less.tenant = past.tenant
        /\ less.jobs = past.jobs /\ less.pass = past.pass /\ less.window = past.window
    BY <1>2, <1>3 DEF CallRecord
  <2>2. Go(c, less) /\ UNCHANGED <<row, passes>>
    BY <1>5 DEF MissLease, past
  <2> HIDE DEF less
  <2>3. Typed' /\ calls'[c] = less /\ Others(c)
    BY <2>1, <2>2, LocalIs
  <2> QED BY <1>2, <2>1, <2>2, <2>3 DEF Works
<1>6. CASE CommitLease(c)
  <2>1. past.jobs \cup {Candidate(c)} \in SUBSET (Tenant \X Key) /\ "release" \in PC
    BY <1>2 DEF CallRecord, PC
  <2>2. /\ done \in CallRecord /\ done.pc = "release" /\ done.tenant = past.tenant
        /\ done.jobs = past.jobs \cup {Candidate(c)} /\ done.pass = past.pass
    <3> DEFINE jobs == past.jobs \cup {Candidate(c)}
    <3>1. done = [past EXCEPT !.pc = "release", !.txs = @ - 1, !.jobs = jobs]
      OBVIOUS
    <3> HIDE DEF jobs, done
    <3> QED BY <1>2, <1>3, <2>1, <3>1 DEF CallRecord, jobs
  <2>3. /\ Go(c, done) /\ UNCHANGED passes
        /\ row[Candidate(c)] = "pending" /\ row' = [row EXCEPT ![Candidate(c)] = "leased"]
    BY <1>6 DEF CommitLease, past
  <2> HIDE DEF done
  <2>4. calls' \in [Caller -> CallRecord] /\ calls'[c] = done /\ Others(c)
    BY <2>2, <2>3, GoIs DEF IInv, Typed, Others, Kept
  <2>5. Typed'
    BY <2>3, <2>4 DEF IInv, Typed
  <2> QED BY <1>2, <2>2, <2>3, <2>4, <2>5 DEF Works
<1> QED BY <1>4, <1>5, <1>6

LEMMA EndWindowStep ==
    ASSUME IInv, NEW c \in Caller, EndWindow(c)
    PROVE  Typed' /\ Others(c) /\ Works(c)
<1> DEFINE call == calls[c]
           new == [call EXCEPT !.pc = "release"]
<1>1. Working(c)
  BY DEF EndWindow, Working, Call
<1>2. call \in CallRecord /\ Continues(call.pass, call.pass)
  BY <1>1, WorkingHas
<1>3. /\ new \in CallRecord /\ new.pc = "release" /\ new.tenant = call.tenant
      /\ new.jobs = call.jobs /\ new.pass = call.pass
  BY <1>2 DEF CallRecord, PC
<1>4. Go(c, new) /\ UNCHANGED <<row, passes>>
  BY DEF EndWindow, Call
<1> HIDE DEF new
<1>5. Typed' /\ calls'[c] = new /\ Others(c)
  BY <1>3, <1>4, LocalIs
<1> QED BY <1>1, <1>2, <1>3, <1>4, <1>5 DEF Works

\* The five ways a turn ends.
LEMMA PutBackSteps ==
    ASSUME IInv, NEW c \in Caller, NEW how \in {"return", "failed"}, NEW committed \in BOOLEAN,
           \/ StartPassEmpty(c) \/ DiscoveryFails(c, how) \/ FailLease(c, committed)
           \/ ReleaseTurn(c) \/ Deadline(c)
    PROVE  Typed' /\ Others(c) /\ Puts(c)
<1> DEFINE call == calls[c]
           less == [call EXCEPT !.txs = @ - 1]
<1>1. Working(c)
  BY DEF StartPassEmpty, DiscoveryFails, FailLease, CanExamine, ReleaseTurn, Deadline, Working, Call
<1>2. call \in CallRecord /\ call.tenant \in Tenant /\ call.pass \in PassRecord
  BY <1>1, WorkingHas
<1>3. PICK complete \in BOOLEAN : PutBack(c, call.pass, complete)
  <2>1. PassComplete(call) \in BOOLEAN
    BY DEF PassComplete
  <2> QED BY <2>1 DEF StartPassEmpty, DiscoveryFails, FailLease, ReleaseTurn, Deadline, Call
<1>4. PICK q \in {NoPass, [call.pass EXCEPT !.busy = FALSE]} :
         passes' = [passes EXCEPT ![call.tenant] = q]
  BY <1>3 DEF PutBack, Call
<1>5. q \in PassRecord
  BY <1>2, NoPassIs DEF PassRecord
<1>6. passes' \in [Tenant -> PassRecord]
  BY <1>4, <1>5 DEF IInv, Typed
<1>7. less \in CallRecord /\ less.jobs = call.jobs
  BY <1>2 DEF CallRecord
<1> HIDE DEF less
<1>8. PICK left \in {call, less}, pc \in {"loop", "return", "failed"} : Go(c, LeaveTurn(left, pc))
  BY DEF StartPassEmpty, DiscoveryFails, FailLease, ReleaseTurn, Deadline, Call, less
<1>9. /\ LeaveTurn(left, pc) \in CallRecord /\ LeaveTurn(left, pc).pc = pc
      /\ LeaveTurn(left, pc).jobs = call.jobs
  BY <1>2, <1>7, LeaveTurnIs DEF PC
<1>10. /\ calls' \in [Caller -> CallRecord] /\ calls'[c] = LeaveTurn(left, pc) /\ Others(c)
  BY <1>8, <1>9, GoIs DEF IInv, Typed, Others, Kept
<1>11. row' \in [Tenant \X Key -> {"out", "pending", "leased"}] /\ SameLeased
  <2>1. CASE UNCHANGED row
    BY <2>1 DEF IInv, Typed, SameLeased
  <2>2. CASE row[Candidate(c)] = "pending" /\ row' = [row EXCEPT ![Candidate(c)] = "out"]
    BY <2>2 DEF IInv, Typed, SameLeased
  <2> QED BY <2>1, <2>2 DEF StartPassEmpty, DiscoveryFails, FailLease, ReleaseTurn, Deadline
<1> QED BY <1>1, <1>4, <1>6, <1>9, <1>10, <1>11 DEF Puts, OutOfTurn, Typed

LEMMA AroundSteps ==
    ASSUME IInv, Worker \/ Close \/ Quiesced \/ \E r \in Tenant \X Key : Arrive(r) \/ Leave(r)
    PROVE  IInv' /\ Monotone
<1> USE DEF Worker, CleanupProbe, CleanupDelete, CleanupFails, Close, Quiesced, Arrive, Leave
<1>1. UNCHANGED calls
  OBVIOUS
<1>2. row' \in [Tenant \X Key -> {"out", "pending", "leased"}] /\ SameLeased
  <2>1. CASE UNCHANGED row
    BY <2>1 DEF IInv, Typed, SameLeased
  <2>2. CASE \E r \in Tenant \X Key : Arrive(r) \/ Leave(r)
    BY <2>2 DEF IInv, Typed, SameLeased
  <2> QED BY <2>1, <2>2
<1>3. /\ passes' \in [Tenant -> PassRecord]
      /\ \A t \in Tenant : passes'[t] = passes[t] \/ (passes'[t] = NoPass /\ ~passes[t].busy)
  <2>1. CASE UNCHANGED passes
    BY <2>1 DEF IInv, Typed
  <2>2. CASE CleanupDelete
    BY <2>2, NoPassIs DEF IInv, Typed
  <2>3. CASE Quiesced
    <3>1. \A t \in Tenant : ~passes[t].busy
      BY <2>3 DEF IInv, Ownership, Working
    <3> QED BY <2>3, <3>1, NoPassIs
  <2> QED BY <2>1, <2>2, <2>3
<1>4. Typed'
  BY <1>1, <1>2, <1>3 DEF IInv, Typed
<1> QED BY <1>1, <1>2, <1>3, <1>4, AroundKeeps

-----------------------------------------------------------------------------
LEMMA InitIInv == Init => IInv
<1> SUFFICES ASSUME Init PROVE IInv
  OBVIOUS
<1>1. \A c \in Caller : calls[c] = NoCall
  BY DEF Init
<1>2. \A t \in Tenant : passes[t] = NoPass
  BY DEF Init
<1>3. Typed
  BY NoCallIs, NoPassIs DEF Init, Typed
<1>4. \A c \in Caller : Call(c).pc = "idle" /\ Call(c).jobs = {} /\ ~Working(c)
  BY <1>1, NoCallIs DEF Call, Working
<1>5. Ownership
  BY <1>2, <1>4, NoPassIs DEF Ownership
<1>6. Holding
  BY <1>4 DEF Init, Holding, NothingHidden
<1>7. Forward
  BY <1>2, <1>4, NoPassIs DEF Forward
<1> QED BY <1>3, <1>5, <1>6, <1>7 DEF IInv

LEMMA StepKeeps == ASSUME IInv, [Next]_vars PROVE IInv' /\ Monotone
<1>1. ASSUME NEW c \in Caller, Admit(c) \/ Advance(c) \/ Fail(c)
      PROVE  IInv' /\ Monotone
  <2>1. CASE \/ Admit(c) \/ LoopStops(c) \/ Seek(c) \/ ProposalStale(c) \/ DiscoveryEnds(c)
             \/ \E how \in {"return", "failed"} : SeekFails(c, how)
    BY <2>1, RestingSteps, RestsKeeps
  <2>2. CASE Return(c)
    BY <2>2, ReturnStep, ReturnsKeeps
  <2>3. CASE MoveCursor(c)
    BY <2>3, MoveCursorStep, RestsKeeps, TakesKeeps
  <2>4. CASE \/ StartPass(c) \/ FetchWindow(c) \/ EndWindow(c)
             \/ SkipLater(c) \/ MissLease(c) \/ CommitLease(c)
    BY <2>4, StartPassStep, FetchWindowStep, EndWindowStep, ExamineSteps, WorksKeeps
  <2>5. CASE \/ StartPassEmpty(c) \/ ReleaseTurn(c) \/ Deadline(c)
             \/ \E how \in {"return", "failed"} : DiscoveryFails(c, how)
             \/ \E committed \in BOOLEAN : FailLease(c, committed)
    BY <2>5, PutBackSteps, PutsKeeps
  <2> QED BY <1>1, <2>1, <2>2, <2>3, <2>4, <2>5 DEF Advance, Fail
<1>2. CASE UNCHANGED vars
  <2>1. IInv'
    BY <1>2 DEF vars, IInv, Typed, Ownership, Holding, NothingHidden, Forward, Working, Call
  <2> QED BY <1>2, <2>1, SamePasses DEF vars, IInv
<1> QED BY <1>1, <1>2, AroundSteps DEF Next

\* The invariant of every execution of LeaseJobRunnerJobs.
THEOREM Invariance == Spec => []IInv
  BY InitIInv, StepKeeps, PTL DEF Spec

\* A tenant's turn has exactly one owner while its pass is busy and none
\* otherwise: concurrent calls, the cleanup worker and quiesce never take a
\* pass from the call that works on it.
THEOREM OneOwnerHolds == Spec => []OneOwner
<1>1. IInv => OneOwner
  <2> SUFFICES ASSUME IInv, NEW t \in Tenant
               PROVE  Cardinality({c \in Caller : Working(c) /\ Call(c).tenant = t})
                        = IF passes[t].busy THEN 1 ELSE 0
    BY DEF OneOwner
  <2> DEFINE owners == {c \in Caller : Working(c) /\ Call(c).tenant = t}
  <2>1. CASE passes[t].busy
    <3>1. PICK c \in Caller : Working(c) /\ Call(c).tenant = t
      BY <2>1 DEF IInv, Ownership
    <3>2. owners = {c}
      BY <3>1 DEF IInv, Ownership
    <3> QED BY <2>1, <3>2, FS_Singleton
  <2>2. CASE ~passes[t].busy
    <3>1. owners = {}
      BY <2>2 DEF IInv, Ownership
    <3> QED BY <2>2, <3>1, FS_EmptySet
  <2> QED BY <2>1, <2>2
<1> QED BY <1>1, Invariance, PTL

\* A committed lease is with the one call that committed it until that call
\* hands it over, through budget stops, timeouts and failures.
THEOREM NothingHiddenHolds == Spec => []NothingHidden
<1>1. IInv => NothingHidden
  BY DEF IInv, Holding
<1> QED BY <1>1, Invariance, PTL

\* A pass goes forward whichever calls continue it: its bounds stay and its
\* cursor never moves back until it ends.
THEOREM PassesGoForward == Spec => PassGoesForward
<1>1. ASSUME IInv, [Next]_vars PROVE [Monotone]_vars
  BY <1>1, StepKeeps
<1> QED BY <1>1, Invariance, PTL DEF Spec, PassGoesForward, Monotone
=============================================================================
