---------------------------- MODULE MCForwarding ----------------------------
(* Instances of Forwarding for TLC: three forwards and a replay; the last  *)
(* forward goes to a host of its own, the others share one; the retries    *)
(* allowed are two, none, one and two.                                     *)
EXTENDS Forwarding

CONSTANTS f1, f2, f3, p1, h1, h2

ThreeForwards == {f1, f2, f3}
OneReplay == {p1}
TwoHosts == {h1, h2}
Targets == [t \in Requests |-> IF t = f3 THEN h2 ELSE h1]
Retries == [t \in Requests |-> IF t = f3 THEN 1 ELSE IF t = f2 THEN 0 ELSE 2]
Once == [t \in Requests |-> 1]
=============================================================================
