------------------------------ MODULE MCBatch ------------------------------
(* Small instances of Batch for TLC: drivers and requests are model values  *)
(* and interchangeable, so safety runs may use the symmetry of both.        *)
EXTENDS Batch, TLC

CONSTANTS d1, d2, d3, q1, q2

TwoDrivers == {d1, d2}
ThreeDrivers == {d1, d2, d3}
TwoRequests == {q1, q2}

Symmetry == Permutations(Drivers) \cup Permutations(Requests)
=============================================================================
