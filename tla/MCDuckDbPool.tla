---------------------------- MODULE MCDuckDbPool ----------------------------
(* Small instances of DuckDbPool.                                          *)
EXTENDS DuckDbPool

CONSTANTS r1, w1, w2, v1

OneRead == {r1}
TwoWrites == {w1, w2}
OneVacuum == {v1}
Handles == 1..4
TwoInstances == {11, 12}
=============================================================================
