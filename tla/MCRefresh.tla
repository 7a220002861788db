------------------------------ MODULE MCRefresh ------------------------------
(* Refresh for TLC: the run of the safety properties.                      *)
EXTENDS Refresh, TLC

\* Neither the gauge settings nor the sets of hidden rows are told apart by
\* anything but equality; the invariants are, so states that differ in their
\* names need no second visit.
Symmetry == Permutations(Gauges) \cup Permutations(Rows)
=============================================================================
