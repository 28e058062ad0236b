----------------------------- MODULE EventSource -----------------------------
(***************************************************************************)
(* What the ingest path promises the read model: an event is announced at  *)
(* most once (LOG_RECEIVED), and becomes an item of the dataset at most    *)
(* once, never before it is announced.  An item that is never announced    *)
(* (the startup record, an error item) counts as announced by itself, and  *)
(* an announced event need not become an item.                             *)
(***************************************************************************)
CONSTANT Events

VARIABLES
  announced,   \* events that were announced, or never will be
  kept         \* events in the dataset

sourceVars == <<announced, kept>>

SourceInit == announced = {} /\ kept = {}

Announce(e) ==
  /\ e \notin announced
  /\ announced' = announced \cup {e}
  /\ UNCHANGED kept

Keep(e) ==
  /\ e \notin kept
  /\ kept' = kept \cup {e}
  /\ announced' = announced \cup {e}

SourceNext == \E e \in Events : Announce(e) \/ Keep(e)

SourceSpec == SourceInit /\ [][SourceNext]_sourceVars
=============================================================================
