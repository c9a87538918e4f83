---------------------------- MODULE InputCustody ----------------------------
(***************************************************************************)
(* What the platform promises about one user input, whatever Job Runner,   *)
(* Bridge and Runtime do among themselves: one owner at a time, a Runtime  *)
(* that lost the input never gets it again, and one outcome that never     *)
(* changes.  RuntimeDelivery implements it.                                *)
(***************************************************************************)
EXTENDS Naturals

VARIABLES
    at,         \* who has the input, or how it ended
    last,       \* the last Runtime that had it, 0 for none
    reported    \* an exhaustion event tells the user that delivery failed

vars == <<at, last, reported>>

Init == at = "queue" /\ last = 0 /\ reported = FALSE

\* Runtimes are numbered in the order in which they are placed.
Bind == at = "queue" /\ at' = "runtime" /\ last' \in Nat /\ last' > last /\ UNCHANGED reported

HandBack == at = "runtime" /\ at' = "queue" /\ UNCHANGED <<last, reported>>

Commit == at = "runtime" /\ at' = "committed" /\ UNCHANGED <<last, reported>>

Fail ==
    /\ at \in {"queue", "runtime"}
    /\ at' = "dead_lettered" /\ reported' \in BOOLEAN
    /\ UNCHANGED last

Next == Bind \/ HandBack \/ Commit \/ Fail

Spec == Init /\ [][Next]_vars
=============================================================================
