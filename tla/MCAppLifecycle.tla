---------------------------- MODULE MCAppLifecycle ----------------------------
(* Instance of AppLifecycle for TLC.                                       *)
EXTENDS AppLifecycle

CONSTANTS a, b, excessive, broken

SomeInputs == {a, b, excessive, broken}
=============================================================================
