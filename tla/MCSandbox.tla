----------------------------- MODULE MCSandbox ------------------------------
(* Small instances of Sandbox for TLC. *)
EXTENDS Sandbox, TLC

\* Tool calls differ in nothing but their name.
Symmetry == Permutations(Tools)
=============================================================================
