------------------------------- MODULE LogQuery -------------------------------
(***************************************************************************)
(* GET /logs over the read model: LogRepository's queries, and a client    *)
(* that follows nextOffset or nextCursor from page to page while rows      *)
(* arrive, late ones included, and the rows of an expired webhook go.      *)
(*                                                                         *)
(* A cursor page is one query. An offset page is two, a count and the      *)
(* rows, with other writes between them.                                   *)
(***************************************************************************)
EXTENDS Integers, Sequences, FiniteSets, FiniteSetsExt, SequencesExt

CONSTANTS
  Row,           \* the columns of each row that is ever inserted, by its id
  Filters,       \* sets of conditions that clients give
  Sorts,         \* sequences of sort rules that clients give
  Asked,         \* limits that clients ask for: numbers, Absent or Garbage
  DefaultLimit,  \* DEFAULT_PAGE_LIMIT
  MaxLimit,      \* MAX_PAGE_LIMIT
  Absent, Garbage

VARIABLES
  rows,      \* ids in the table
  page,      \* the client: its mode, query and position
  got,       \* history: ids of the rows it was given, in that order
  stayed,    \* history: matching rows present ever since it began
  disturbed  \* history: a matching row came or went since it began

query == <<rows, page, got, stayed, disturbed>>

Ids == DOMAIN Row
Columns == {"id", "timestamp", "webhookId", "statusCode", "requestUrl"}

ASSUME QueryAssumption ==
  /\ DefaultLimit \in Nat \ {0} /\ MaxLimit \in Nat \ {0}
  /\ IsFiniteSet(Ids) /\ Ids \subseteq Nat /\ Absent \notin Nat
  /\ \A i \in Ids : Row[i].timestamp \in Int
  /\ \A asked \in Asked : asked \in {Absent, Garbage} \/ asked \in Int

-----------------------------------------------------------------------------
(* The value of a column; the id is compared like any other.               *)
At(i, column) == IF column = "id" THEN i ELSE Row[i][column]

(* parseRangeQuery, #buildWhereClause: a condition with an unknown         *)
(* operator, and the `id` of the query string, are ignored. "like" is      *)
(* ILIKE: its value stands for the set of texts that contain it.           *)
Understood(c) ==
  c.column # "id" /\ c.operator \in {"gt", "gte", "lt", "lte", "ne", "eq", "like"}

Meets(v, c) ==
  \/ c.operator = "gt"   /\ v > c.value
  \/ c.operator = "gte"  /\ v >= c.value
  \/ c.operator = "lt"   /\ v < c.value
  \/ c.operator = "lte"  /\ v <= c.value
  \/ c.operator = "ne"   /\ v # c.value
  \/ c.operator = "eq"   /\ v = c.value
  \/ c.operator = "like" /\ v \in c.value

Where(filter) == {i \in Ids :
  \A c \in filter : Understood(c) => Meets(At(i, c.column), c)}

(* The handler's limit, and the one that the repository makes of it.       *)
HandlerLimit(asked) ==
  IF asked = Absent THEN MaxLimit
  ELSE IF asked \in {Garbage, 0} THEN DefaultLimit
  ELSE Max({asked, 1})

PageLimit(limit) == IF limit <= 0 THEN DefaultLimit ELSE Min({limit, MaxLimit})

(* #buildOrderBy: rules for unknown columns are dropped.                   *)
OrderBy(sort) ==
  LET known == SelectSeq(sort, LAMBDA r : r.column \in Columns)
  IN IF known = <<>> THEN <<[column |-> "timestamp", dir |-> "DESC"]>> ELSE known

Differ(i, j, rule) == At(i, rule.column) # At(j, rule.column)

(* ORDER BY puts i before j: the first rule that tells them apart decides. *)
Before(i, j, rules) == \E n \in DOMAIN rules :
  /\ \A m \in 1..(n - 1) : ~Differ(i, j, rules[m])
  /\ Differ(i, j, rules[n])
  /\ (At(i, rules[n].column) < At(j, rules[n].column)) <=> (rules[n].dir = "ASC")

(* The orders that a query may return a set of rows in: ties are open.     *)
Ordered(S, rules) == {o \in SetToSeqs(S) :
  \A a, b \in DOMAIN o : a < b => ~Before(o[b], o[a], rules)}

Newest == <<[column |-> "timestamp", dir |-> "DESC"],
            [column |-> "id", dir |-> "DESC"]>>

\* Seeded fault: the cursor condition compares timestamps only.
Beyond_StampOnly(i, cursor) ==
  cursor = Absent \/ At(i, "timestamp") < At(cursor, "timestamp")

(* The cursor condition. A cursor that does not decode is no cursor.       *)
Beyond(i, cursor) == cursor = Absent \/ Before(cursor, i, Newest)

-----------------------------------------------------------------------------
NoPage == [stage |-> "idle"]

Init ==
  /\ rows \in SUBSET Ids
  /\ page = NoPage /\ got = <<>> /\ stayed = {} /\ disturbed = FALSE

(* A client begins: with an offset of 0, or with a cursor that does not    *)
(* decode, since only a page by cursor gives out cursors.                  *)
Begin(mode, filter, sort, asked) ==
  /\ page.stage = "idle"
  /\ page' = [stage |-> "request", mode |-> mode, match |-> Where(filter),
              rules |-> OrderBy(sort), limit |-> HandlerLimit(asked),
              offset |-> 0, total |-> 0, cursor |-> Absent]
  /\ got' = <<>>
  /\ stayed' = rows \cap Where(filter)
  /\ disturbed' = FALSE
  /\ UNCHANGED rows

Matching == rows \cap page.match

(* findLogs, first query.                                                  *)
Count ==
  /\ page.stage = "request" /\ page.mode = "offset"
  /\ page' = [page EXCEPT !.stage = "counted", !.total = Cardinality(Matching)]
  /\ UNCHANGED <<rows, got, stayed, disturbed>>

\* Seeded fault: the next page begins at the next multiple of the default.
NextOffset_Default(given) ==
  IF page.offset + given < page.total THEN page.offset + DefaultLimit ELSE Absent

(* By the limit that was asked for, not by the rows that were given.       *)
NextOffset(given) ==
  IF page.offset + given < page.total THEN page.offset + page.limit ELSE Absent

(* findLogs, second query, and the answer with nextOffset.                 *)
ReadPage ==
  /\ page.stage = "counted"
  /\ \E all \in Ordered(Matching, page.rules) :
       LET items == SubSeq(all, page.offset + 1,
                           Min({Len(all), page.offset + PageLimit(page.limit)}))
           next == NextOffset(Len(items))
       IN /\ got' = got \o items
          /\ page' = IF next = Absent THEN [page EXCEPT !.stage = "done"]
                     ELSE [page EXCEPT !.stage = "request", !.offset = next]
  /\ UNCHANGED <<rows, stayed, disturbed>>

(* findLogsCursor: one row more than the page is asked for, to see whether *)
(* there is a next page; sort rules and offset do not count.               *)
ReadCursorPage ==
  /\ page.stage = "request" /\ page.mode = "cursor"
  /\ LET size == PageLimit(page.limit)
         beyond == {i \in Matching : Beyond(i, page.cursor)}
         hasMore == Cardinality(beyond) > size
     IN \E all \in Ordered(beyond, Newest) :
          LET items == SubSeq(all, 1, Min({Len(all), size}))
          IN /\ got' = got \o items
             /\ page' = IF hasMore THEN [page EXCEPT !.cursor = Last(items)]
                        ELSE [page EXCEPT !.stage = "done"]
  /\ UNCHANGED <<rows, stayed, disturbed>>

Leave ==
  /\ page.stage = "done"
  /\ page' = NoPage /\ got' = <<>> /\ stayed' = {} /\ disturbed' = FALSE
  /\ UNCHANGED rows

(* The table changes under the client.                                     *)
Becomes(new) ==
  /\ rows' = new
  /\ UNCHANGED <<page, got>>
  /\ IF page.stage = "idle" THEN UNCHANGED <<stayed, disturbed>>
     ELSE /\ stayed' = stayed \cap new
          /\ disturbed' = (disturbed \/ new \cap page.match # Matching)

(* insertLog or batchInsertLogs, of new and of old events; a row that is   *)
(* there keeps its columns.                                                *)
Insert(batch) == batch # {} /\ Becomes(rows \cup batch)

(* deleteLogsByWebhookId                                                   *)
DeleteRows(w) == Becomes({i \in rows : Row[i].webhookId # w})

Next ==
  \/ \E mode \in {"offset", "cursor"}, f \in Filters, s \in Sorts, a \in Asked :
       Begin(mode, f, s, a)
  \/ Count \/ ReadPage \/ ReadCursorPage \/ Leave
  \/ \E batch \in SUBSET (Ids \ rows) : Insert(batch)
  \/ \E w \in {Row[i].webhookId : i \in Ids} : DeleteRows(w)

Spec == Init /\ [][Next]_query

-----------------------------------------------------------------------------
(* The position of a client is one that the handler accepts: whatever it   *)
(* asked for, the limit is positive and the offset is not negative.        *)
QueryTypeOK ==
  /\ rows \subseteq Ids /\ stayed \subseteq rows /\ disturbed \in BOOLEAN
  /\ got \in Seq(Ids)
  /\ page = NoPage \/
     /\ page.stage \in {"request", "counted", "done"}
     /\ page.mode \in {"offset", "cursor"} /\ page.match \subseteq Ids
     /\ page.limit \in Nat \ {0} /\ page.offset \in Nat /\ page.total \in Nat
     /\ page.cursor \in Ids \cup {Absent}

(* Whatever is inserted or deleted meanwhile, a client that follows the    *)
(* cursor gets matching rows only, newest first and none twice, and at the *)
(* end it has every row that was there all along, ties of the timestamp    *)
(* included. (LogRepository.findLogsCursor.)                               *)
CursorExact ==
  page.stage # "idle" /\ page.mode = "cursor" =>
    /\ ToSet(got) \subseteq page.match
    /\ \A a, b \in DOMAIN got : a < b => Before(got[a], got[b], Newest)
    /\ page.stage = "done" => stayed \subseteq ToSet(got)

(* A client that follows nextOffset gets every matching row exactly once,  *)
(* in the order it asked for, when the matching rows stay as they are, no  *)
(* two of them are equal under its sort, and its limit is within           *)
(* MAX_PAGE_LIMIT: the conditions that the code needs, each of them.       *)
(* (LogRepository.findLogs, createLogsHandler.)                            *)
OffsetExact ==
  /\ page.stage # "idle" /\ page.mode = "offset" /\ ~disturbed
  /\ page.limit <= MaxLimit
  /\ \A i, j \in Matching : i = j \/ Before(i, j, page.rules) \/ Before(j, i, page.rules)
  => /\ \A a, b \in DOMAIN got : a < b => Before(got[a], got[b], page.rules)
     /\ page.stage = "done" => ToSet(got) = Matching
=============================================================================
