-------------------------- MODULE MCReadModelSync --------------------------
(* Instances of ReadModelSync for TLC: two webhooks, the second of which   *)
(* owns only the last event, so that a purge can take the highest offset.  *)
EXTENDS ReadModelSync

CONSTANTS e1, e2, w1, w2

TwoEvents == {e1, e2}
TwoWebhooks == {w1, w2}
OwnerOfTwo == [e \in TwoEvents |-> IF e = e2 THEN w2 ELSE w1]
=============================================================================
