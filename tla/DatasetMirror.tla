--------------------------- MODULE DatasetMirror ---------------------------
(***************************************************************************)
(* What the read model promises of the dataset, without jobs, caches or    *)
(* limiters (docs/architecture.md, "Disposable Read Model"): a view of an  *)
(* append-only log that may show an event early, takes the log in by       *)
(* contiguous pieces that never start beyond what it already took, forgets *)
(* what the retention cleanup deletes, and may be lost and rebuilt.        *)
(***************************************************************************)
EXTENDS Integers, Sequences

CONSTANT Events

VARIABLES
  log,        \* the durable log
  view,       \* the events the read model shows
  placed,     \* those of them that were taken from the log
  forgotten   \* the events the cleanup has deleted at some time

mirrorVars == <<log, view, placed, forgotten>>

MirrorInit == log = <<>> /\ view = {} /\ placed = {} /\ forgotten = {}

(* Everything up to item n was taken in, or deleted since.                 *)
TakenUpTo(n) == \A k \in 1..n : log[k] \in placed \cup forgotten

LogAppend(e) ==
  /\ log' = Append(log, e)
  /\ UNCHANGED <<view, placed, forgotten>>

ShowEarly(e) ==
  /\ view' = view \cup {e}
  /\ UNCHANGED <<log, placed, forgotten>>

TakeIn(from, to) ==
  LET piece == {log[k] : k \in from..to}
  IN  /\ TakenUpTo(from - 1)
      /\ view' = view \cup piece
      /\ placed' = placed \cup piece
      /\ UNCHANGED <<log, forgotten>>

Forget(S) ==
  /\ view' = view \ S
  /\ placed' = placed \ S
  /\ forgotten' = forgotten \cup S
  /\ UNCHANGED log

Lose ==
  /\ view' = {} /\ placed' = {}
  /\ UNCHANGED <<log, forgotten>>

MirrorNext ==
  \/ \E e \in Events : LogAppend(e) \/ ShowEarly(e)
  \/ \E from, to \in 1..Len(log) : TakeIn(from, to)
  \/ \E S \in SUBSET view : Forget(S)
  \/ Lose

MirrorSpec == MirrorInit /\ [][MirrorNext]_mirrorVars
=============================================================================
