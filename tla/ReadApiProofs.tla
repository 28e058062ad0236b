---------------------------- MODULE ReadApiProofs -----------------------------
(***************************************************************************)
(* Proofs about LogQuery for any table, filters, sort rules and limits:    *)
(* what a client that follows the cursor of findLogsCursor, or nextOffset  *)
(* of findLogs, is given. And about its composition with RateLimiter.      *)
(***************************************************************************)
EXTENDS MCReadApi, RateLimiterProofs, SequenceTheorems

-----------------------------------------------------------------------------
(* The order of a listing by cursor.                                       *)

Stamp(i) == Row[i].timestamp

LEMMA NewestFirst ==
  ASSUME NEW i \in Ids, NEW j \in Ids
  PROVE  Before(i, j, Newest)
           <=> Stamp(j) < Stamp(i) \/ (Stamp(j) = Stamp(i) /\ j < i)
  <1>1. /\ DOMAIN Newest = 1..2
        /\ Newest[1].column = "timestamp" /\ Newest[1].dir = "DESC"
        /\ Newest[2].column = "id" /\ Newest[2].dir = "DESC"
    BY DEF Newest
  <1>2. /\ At(i, "timestamp") = Stamp(i) /\ At(j, "timestamp") = Stamp(j)
        /\ At(i, "id") = i /\ At(j, "id") = j
    BY DEF At, Stamp
  <1>3. Stamp(i) \in Int /\ Stamp(j) \in Int /\ i \in Int /\ j \in Int
    BY QueryAssumption DEF Stamp
  <1>4. Differ(i, j, Newest[1]) <=> Stamp(i) # Stamp(j)
    BY <1>1, <1>2 DEF Differ
  <1>5. Differ(i, j, Newest[2]) <=> i # j
    BY <1>1, <1>2 DEF Differ
  <1>6. Before(i, j, Newest)
          <=> \/ Stamp(i) # Stamp(j) /\ ~(Stamp(i) < Stamp(j))
              \/ Stamp(i) = Stamp(j) /\ i # j /\ ~(i < j)
    <2>1. ASSUME Before(i, j, Newest)
          PROVE  \/ Stamp(i) # Stamp(j) /\ ~(Stamp(i) < Stamp(j))
                 \/ Stamp(i) = Stamp(j) /\ i # j /\ ~(i < j)
      <3>1. PICK n \in 1..2 :
              /\ \A m \in 1..(n - 1) : ~Differ(i, j, Newest[m])
              /\ Differ(i, j, Newest[n])
              /\ (At(i, Newest[n].column) < At(j, Newest[n].column)) <=> (Newest[n].dir = "ASC")
        BY <1>1, <2>1 DEF Before
      <3>2. CASE n = 1
        BY <1>1, <1>2, <1>4, <3>1, <3>2
      <3>3. CASE n = 2
        <4>1. ~Differ(i, j, Newest[1])
          BY <3>1, <3>3
        <4> QED
          BY <1>1, <1>2, <1>4, <1>5, <3>1, <3>3, <4>1
      <3> QED
        BY <3>2, <3>3
    <2>2. ASSUME Stamp(i) # Stamp(j) /\ ~(Stamp(i) < Stamp(j))
          PROVE  Before(i, j, Newest)
      <3>1. /\ \A m \in 1..(1 - 1) : ~Differ(i, j, Newest[m])
            /\ Differ(i, j, Newest[1])
            /\ (At(i, Newest[1].column) < At(j, Newest[1].column)) <=> (Newest[1].dir = "ASC")
        BY <1>1, <1>2, <1>4, <2>2
      <3> QED
        BY <1>1, <3>1 DEF Before
    <2>3. ASSUME Stamp(i) = Stamp(j) /\ i # j /\ ~(i < j)
          PROVE  Before(i, j, Newest)
      <3>1. \A m \in 1..(2 - 1) : m = 1
        OBVIOUS
      <3>2. /\ \A m \in 1..(2 - 1) : ~Differ(i, j, Newest[m])
            /\ Differ(i, j, Newest[2])
            /\ (At(i, Newest[2].column) < At(j, Newest[2].column)) <=> (Newest[2].dir = "ASC")
        BY <1>1, <1>2, <1>4, <1>5, <2>3, <3>1
      <3> QED
        BY <1>1, <3>2 DEF Before
    <2> QED
      BY <2>1, <2>2, <2>3
  <1> QED
    BY <1>3, <1>6

(* It is a strict total order of the rows.                                 *)
LEMMA NewestIsTotal ==
  ASSUME NEW i \in Ids, NEW j \in Ids
  PROVE  /\ i = j \/ Before(i, j, Newest) \/ Before(j, i, Newest)
         /\ ~(Before(i, j, Newest) /\ Before(j, i, Newest))
         /\ ~Before(i, i, Newest)
  BY NewestFirst, QueryAssumption DEF Stamp

LEMMA NewestIsTransitive ==
  ASSUME NEW i \in Ids, NEW j \in Ids, NEW k \in Ids,
         Before(i, j, Newest), Before(j, k, Newest)
  PROVE  Before(i, k, Newest)
  <1>1. /\ Stamp(i) \in Int /\ Stamp(j) \in Int /\ Stamp(k) \in Int
        /\ i \in Int /\ j \in Int /\ k \in Int
    BY QueryAssumption DEF Stamp
  <1> QED
    BY <1>1, NewestFirst

-----------------------------------------------------------------------------
(* The sequence of one page.                                               *)

Descending(s) == \A a, b \in DOMAIN s : a < b => Before(s[a], s[b], Newest)

LEMMA OrderedIsSeq ==
  ASSUME NEW S \in SUBSET Ids, NEW rules, NEW all \in Ordered(S, rules)
  PROVE  all \in Seq(S) /\ Len(all) \in Nat /\ Len(all) = Cardinality(S)
  <1>1. Cardinality(S) \in Nat
    BY QueryAssumption, FS_Subset, FS_CardinalityType
  <1>2. all \in [1..Cardinality(S) -> S]
    BY DEF Ordered, SetToSeqs
  <1> QED
    BY <1>1, <1>2

(* A query returns each of its rows once.                                  *)
Lists(all, S) ==
  /\ all \in Seq(S) /\ Len(all) = Cardinality(S) /\ Len(all) \in Nat
  /\ DOMAIN all = 1..Len(all)
  /\ \A a \in 1..Len(all) : all[a] \in S
  /\ \A i \in S : \E k \in 1..Len(all) : all[k] = i
  /\ \A a, b \in 1..Len(all) : a # b => all[a] # all[b]

LEMMA OrderedIsAll ==
  ASSUME NEW S \in SUBSET Ids, NEW rules, NEW all \in Ordered(S, rules)
  PROVE  Lists(all, S)
  <1> DEFINE n == Len(all)
  <1>1. all \in Seq(S) /\ n \in Nat /\ n = Cardinality(S) /\ DOMAIN all = 1..n
    BY OrderedIsSeq, LenProperties
  <1>2. all \in [1..n -> S] /\ \A a \in 1..n : all[a] \in S
    BY <1>1, ElementOfSeq
  <1> HIDE DEF n
  <1>3. \A a, b \in 1..n : a # b => all[a] # all[b]
    BY <1>1 DEF Ordered, SetToSeqs
  <1>4. all \in Surjection(1..n, S)
    <2>1. all \in Injection(1..n, S)
      BY <1>2, <1>3 DEF Injection, IsInjective
    <2>2. IsFiniteSet(S)
      BY QueryAssumption, FS_Subset
    <2>3. IsFiniteSet(1..n) /\ Cardinality(1..n) = n
      BY <1>1, FS_Interval
    <2> QED
      BY <1>1, <2>1, <2>2, <2>3, FS_Injection
  <1>5. \A i \in S : \E k \in 1..n : all[k] = i
    BY <1>4 DEF Surjection
  <1> QED
    BY <1>1, <1>2, <1>3, <1>5 DEF n, Lists

LEMMA NewestIsDescending ==
  ASSUME NEW S \in SUBSET Ids, NEW all \in Ordered(S, Newest)
  PROVE  Descending(all)
  <1>1. Lists(all, S)
    BY OrderedIsAll
  <1>2. ASSUME NEW a \in DOMAIN all, NEW b \in DOMAIN all, a < b
        PROVE  Before(all[a], all[b], Newest)
    <2>1. a # b
      BY <1>1, <1>2 DEF Lists
    <2>2. all[a] \in Ids /\ all[b] \in Ids /\ all[a] # all[b]
      BY <1>1, <2>1 DEF Lists
    <2>3. ~Before(all[b], all[a], Newest)
      BY <1>2 DEF Ordered
    <2> QED
      BY <2>2, <2>3, NewestIsTotal
  <1> QED
    BY <1>2 DEF Descending

LEMMA Least == ASSUME NEW a \in Nat, NEW b \in Nat PROVE Min({a, b}) = IF a <= b THEN a ELSE b
  <1> DEFINE m == IF a <= b THEN a ELSE b
  <1>1. m \in {a, b} /\ (\A y \in {a, b} : m <= y) /\ \A x \in {a, b} : (\A y \in {a, b} : x <= y) => x = m
    OBVIOUS
  <1> QED
    BY <1>1 DEF Min

(* The first n of them: those that are left out come after the last.       *)
LEMMA FirstRows ==
  ASSUME NEW S \in SUBSET Ids, NEW all \in Ordered(S, Newest), NEW n \in Nat, n <= Len(all)
  PROVE  LET items == SubSeq(all, 1, n)
         IN  /\ items \in Seq(S) /\ Len(items) = n /\ DOMAIN items = 1..n
             /\ Descending(items)
             /\ n # 0 => Last(items) \in S /\ Last(items) = items[n]
             /\ \A i \in S : \/ \E k \in 1..n : items[k] = i
                             \/ n < Len(all) /\ (n # 0 => Before(items[n], i, Newest))
  <1> DEFINE items == SubSeq(all, 1, n)
  <1>1. /\ all \in Seq(S) /\ Len(all) \in Nat /\ DOMAIN all = 1..Len(all)
        /\ \A i \in S : \E k \in 1..Len(all) : all[k] = i
        /\ Descending(all)
    BY OrderedIsAll, NewestIsDescending DEF Lists
  <1>2. 1 \in Int /\ n \in Int /\ \A k \in 1..n : all[k] \in S /\ k \in 1..Len(all)
    BY <1>1, ElementOfSeq
  <1>3. /\ items \in Seq(S) /\ Len(items) = IF 1 <= n THEN n - 1 + 1 ELSE 0
        /\ \A k \in 1..(n - 1 + 1) : items[k] = all[1 + k - 1]
    BY <1>2, SubSeqProperties
  <1> HIDE DEF items
  <1>4. Len(items) = n /\ DOMAIN items = 1..n /\ \A k \in 1..n : items[k] = all[k]
    BY <1>3, LenProperties
  <1>5. Descending(items)
    BY <1>1, <1>2, <1>4 DEF Descending
  <1>6. n # 0 => Last(items) \in S /\ Last(items) = items[n]
    BY <1>2, <1>4 DEF Last
  <1>7. ASSUME NEW i \in S
        PROVE  \/ \E k \in 1..n : items[k] = i
               \/ n < Len(all) /\ (n # 0 => Before(items[n], i, Newest))
    <2>1. PICK k \in 1..Len(all) : all[k] = i
      BY <1>1
    <2>2. CASE k <= n
      BY <1>4, <2>1, <2>2
    <2>3. CASE n < k
      <3>1. n # 0 => Before(all[n], all[k], Newest)
        BY <1>1, <2>3 DEF Descending
      <3> QED
        BY <1>1, <1>4, <2>1, <2>3, <3>1
    <2> QED
      BY <1>1, <2>2, <2>3
  <1> QED
    BY <1>3, <1>4, <1>5, <1>6, <1>7 DEF items

(* A page appended to pages that all of it comes after.                    *)
LEMMA PagesAppend ==
  ASSUME NEW s \in Seq(Ids), NEW t \in Seq(Ids), Descending(s), Descending(t),
         s # <<>> => \A k \in 1..Len(t) : Before(Last(s), t[k], Newest)
  PROVE  Descending(s \o t)
  <1> DEFINE r == s \o t
             m == Len(s)
  <1>1. /\ r \in Seq(Ids) /\ Len(r) = m + Len(t) /\ m \in Nat /\ Len(t) \in Nat
        /\ \A k \in 1..(m + Len(t)) : r[k] = IF k <= m THEN s[k] ELSE t[k - m]
        /\ DOMAIN r = 1..(m + Len(t)) /\ DOMAIN s = 1..m /\ DOMAIN t = 1..Len(t)
    BY ConcatProperties, LenProperties
  <1>2. /\ \A k \in 1..m : s[k] \in Ids
        /\ \A k \in 1..Len(t) : t[k] \in Ids
    BY ElementOfSeq
  <1>3. m # 0 => s # <<>> /\ Last(s) = s[m]
    BY EmptySeq DEF Last
  <1> HIDE DEF r, m
  <1>4. ASSUME NEW a \in 1..(m + Len(t)), NEW b \in 1..(m + Len(t)), a < b
        PROVE  Before(r[a], r[b], Newest)
    <2>1. CASE b <= m
      <3>1. a \in 1..m /\ b \in 1..m /\ r[a] = s[a] /\ r[b] = s[b]
        BY <1>1, <1>4, <2>1
      <3> QED
        BY <1>1, <1>4, <3>1 DEF Descending
    <2>2. CASE m < a
      <3>1. r[a] = t[a - m] /\ r[b] = t[b - m] /\ a - m < b - m
            /\ a - m \in 1..Len(t) /\ b - m \in 1..Len(t)
        BY <1>1, <1>4, <2>2
      <3> QED
        BY <1>1, <3>1 DEF Descending
    <2>3. CASE a <= m /\ m < b
      <3>1. r[a] = s[a] /\ r[b] = t[b - m] /\ b - m \in 1..Len(t) /\ m # 0 /\ a \in 1..m /\ m \in 1..m
        BY <1>1, <1>4, <2>3
      <3>2. Before(s[m], t[b - m], Newest)
        BY <1>3, <3>1
      <3>3. a = m \/ Before(s[a], s[m], Newest)
        <4>1. a = m \/ a < m
          BY <1>1, <3>1
        <4> QED
          BY <1>1, <3>1, <4>1 DEF Descending
      <3> QED
        BY <1>2, <3>1, <3>2, <3>3, NewestIsTransitive
    <2> QED
      BY <1>1, <2>1, <2>2, <2>3
  <1> QED
    BY <1>1, <1>4 DEF Descending, r

-----------------------------------------------------------------------------
(* Types.                                                                  *)

Pages == [stage : {"request", "counted", "done"}, mode : {"offset", "cursor"},
          match : SUBSET Ids, rules : {OrderBy(sort) : sort \in Sorts},
          limit : Nat \ {0}, offset : Nat, total : Nat, cursor : Ids \cup {Absent}]

Types ==
  /\ rows \subseteq Ids /\ stayed \subseteq rows /\ disturbed \in BOOLEAN
  /\ got \in Seq(Ids)
  /\ (page = NoPage /\ stayed = {}) \/ page \in Pages

LEMMA LimitPositive == ASSUME NEW asked \in Asked PROVE HandlerLimit(asked) \in Nat \ {0}
  <1>1. CASE asked \in {Absent, Garbage, 0}
    BY <1>1, QueryAssumption DEF HandlerLimit
  <1>2. CASE asked \in Int /\ asked \notin {Absent, Garbage, 0}
    <2>1. Max({asked, 1}) = IF asked >= 1 THEN asked ELSE 1
      <3> DEFINE m == IF asked >= 1 THEN asked ELSE 1
      <3>1. /\ m \in {asked, 1} /\ \A y \in {asked, 1} : m >= y
            /\ \A x \in {asked, 1} : (\A y \in {asked, 1} : x >= y) => x = m
        BY <1>2
      <3> QED
        BY <3>1 DEF Max
    <2> QED
      BY <1>2, <2>1 DEF HandlerLimit
  <1> QED
    BY <1>1, <1>2, QueryAssumption

LEMMA SizePositive ==
  ASSUME NEW n \in Nat \ {0}
  PROVE  PageLimit(n) \in Nat \ {0} /\ PageLimit(n) = Min({n, MaxLimit})
  <1>1. Min({n, MaxLimit}) = IF n <= MaxLimit THEN n ELSE MaxLimit
    BY QueryAssumption, Least
  <1> QED
    BY <1>1, QueryAssumption DEF PageLimit

LEMMA RowsFinite == ASSUME NEW S \in SUBSET Ids PROVE IsFiniteSet(S) /\ Cardinality(S) \in Nat
  BY QueryAssumption, FS_Subset, FS_CardinalityType

-----------------------------------------------------------------------------
(* Where a client that follows the cursor stands: its cursor is the last   *)
(* row that it was given, and a row that stayed was given or is beyond.    *)
Following ==
  page # NoPage /\ page.mode = "cursor" =>
    /\ page.stage \in {"request", "done"}
    /\ got \in Seq(page.match) /\ Descending(got)
    /\ stayed \subseteq page.match
    /\ page.stage = "request" =>
         /\ page.cursor = IF got = <<>> THEN Absent ELSE Last(got)
         /\ \A i \in stayed : (\E k \in 1..Len(got) : got[k] = i) \/ Beyond(i, page.cursor)
    /\ page.stage = "done" => \A i \in stayed : \E k \in 1..Len(got) : got[k] = i

IInv == Types /\ Following

LEMMA InitIInv == Init => IInv
  BY EmptySeq DEF Init, IInv, Types, Following, NoPage

LEMMA BeginIInv ==
  ASSUME IInv, NEW mode \in {"offset", "cursor"}, NEW f \in Filters, NEW s \in Sorts,
         NEW a \in Asked, Begin(mode, f, s, a)
  PROVE  IInv'
  <1>1. /\ Where(f) \in SUBSET Ids /\ HandlerLimit(a) \in Nat \ {0}
        /\ OrderBy(s) \in {OrderBy(sort) : sort \in Sorts}
    BY LimitPositive DEF Where
  <1>2. page' = [stage |-> "request", mode |-> mode, match |-> Where(f),
                 rules |-> OrderBy(s), limit |-> HandlerLimit(a),
                 offset |-> 0, total |-> 0, cursor |-> Absent]
    BY DEF Begin
  <1>3. got' = <<>> /\ stayed' = rows \cap Where(f) /\ disturbed' = FALSE /\ rows' = rows
    BY DEF Begin
  <1>4. page' \in Pages
    BY <1>1, <1>2 DEF Pages
  <1>5. Types'
    BY <1>3, <1>4, EmptySeq DEF Types, IInv
  <1>6. Following'
    <2>1. /\ page'.stage = "request" /\ page'.cursor = Absent /\ page'.match = Where(f)
      BY <1>2
    <2>2. got' \in Seq(page'.match) /\ Descending(got')
      BY <1>3, <2>1, EmptySeq DEF Descending
    <2> QED
      BY <1>3, <2>1, <2>2 DEF Following, Beyond
  <1> QED
    BY <1>5, <1>6 DEF IInv

LEMMA OffsetIInv == ASSUME IInv, Count \/ ReadPage PROVE IInv'
  <1>1. /\ page \in Pages /\ page.mode = "offset"
        /\ UNCHANGED <<rows, stayed, disturbed>>
    <2>1. page.stage # "idle"
      BY DEF Count, ReadPage
    <2>2. page \in Pages
      BY <2>1 DEF IInv, Types, NoPage
    <2>3. page # NoPage /\ page.mode \in {"offset", "cursor"}
      BY <2>1, <2>2 DEF NoPage, Pages
    <2>4. page.mode = "offset"
      BY <2>3 DEF Count, ReadPage, IInv, Following
    <2>5. UNCHANGED <<rows, stayed, disturbed>>
      BY DEF Count, ReadPage
    <2> QED
      BY <2>2, <2>4, <2>5
  <1>2. CASE Count
    <2>1. Matching \in SUBSET Ids
      BY DEF Matching, IInv, Types
    <2>2. Cardinality(Matching) \in Nat
      BY <2>1, RowsFinite
    <2>3. page' = [page EXCEPT !.stage = "counted", !.total = Cardinality(Matching)] /\ got' = got
      BY <1>2 DEF Count
    <2>4. page' \in Pages /\ page'.mode = "offset"
      BY <1>1, <2>2, <2>3 DEF Pages
    <2> QED
      BY <1>1, <2>3, <2>4 DEF IInv, Types, Following
  <1>3. CASE ReadPage
    <2>1. PICK all \in Ordered(Matching, page.rules) :
            LET items == SubSeq(all, page.offset + 1,
                                Min({Len(all), page.offset + PageLimit(page.limit)}))
                next == NextOffset(Len(items))
            IN /\ got' = got \o items
               /\ page' = IF next = Absent THEN [page EXCEPT !.stage = "done"]
                          ELSE [page EXCEPT !.stage = "request", !.offset = next]
      BY <1>3 DEF ReadPage
    <2> DEFINE first == page.offset + 1
               last == Min({Len(all), page.offset + PageLimit(page.limit)})
               items == SubSeq(all, first, last)
               next == NextOffset(Len(items))
    <2>2. Matching \in SUBSET Ids
      BY DEF Matching, IInv, Types
    <2>3. all \in Seq(Ids) /\ Len(all) \in Nat
      BY <2>2, OrderedIsSeq, SeqMonotonic
    <2>4. page.offset \in Nat /\ page.limit \in Nat \ {0}
      BY <1>1 DEF Pages
    <2>5. first \in Int /\ last \in Int /\ 1 <= first /\ last <= Len(all)
      <3>1. page.offset + PageLimit(page.limit) \in Nat
        <4>1. PageLimit(page.limit) \in Nat
          BY <2>4, SizePositive
        <4> QED
          BY <2>4, <4>1
      <3> QED
        BY <2>3, <2>4, <3>1, Least
    <2>6. \A k \in first..last : all[k] \in Ids
      <3> HIDE DEF first, last
      <3>1. \A k \in first..last : k \in 1..Len(all)
        BY <2>3, <2>5
      <3> QED
        BY <2>3, <3>1, ElementOfSeq
    <2>7. items \in Seq(Ids)
      <3> HIDE DEF first, last
      <3> QED
        BY <2>5, <2>6, SubSeqProperties
    <2>8. got' \in Seq(Ids)
      BY <2>1, <2>7, ConcatProperties DEF IInv, Types
    <2>9. next = Absent \/ next \in Nat
      <3> HIDE DEF items
      <3>1. page.offset + page.limit \in Nat
        BY <2>4
      <3> QED
        BY <3>1 DEF NextOffset
    <2>10. \/ page' = [page EXCEPT !.stage = "done"]
           \/ next \in Nat /\ page' = [page EXCEPT !.stage = "request", !.offset = next]
      BY <2>1, <2>9
    <2>11. page' \in Pages /\ page'.mode = "offset"
      <3> HIDE DEF next
      <3> QED
        BY <1>1, <2>10 DEF Pages
    <2> QED
      BY <1>1, <2>8, <2>11 DEF IInv, Types, Following
  <1> QED
    BY <1>2, <1>3

LEMMA CursorIInv == ASSUME IInv, ReadCursorPage PROVE IInv'
  <1> DEFINE size == PageLimit(page.limit)
             beyond == {i \in Matching : Beyond(i, page.cursor)}
             hasMore == Cardinality(beyond) > size
  <1>1. page \in Pages /\ page # NoPage /\ page.mode = "cursor" /\ page.stage = "request"
    BY DEF ReadCursorPage, IInv, Types, NoPage
  <1>2. PICK all \in Ordered(beyond, Newest) :
          LET items == SubSeq(all, 1, Min({Len(all), size}))
          IN /\ got' = got \o items
             /\ page' = IF hasMore THEN [page EXCEPT !.cursor = Last(items)]
                        ELSE [page EXCEPT !.stage = "done"]
    BY DEF ReadCursorPage
  <1> DEFINE n == Min({Len(all), size})
             items == SubSeq(all, 1, n)
  <1>3. UNCHANGED <<rows, stayed, disturbed>>
    BY DEF ReadCursorPage
  <1>4. beyond \in SUBSET Ids /\ beyond \subseteq page.match /\ page.match \subseteq Ids
    BY <1>1 DEF Matching, IInv, Types, Pages
  <1>5. size \in Nat \ {0}
    BY <1>1, SizePositive DEF Pages
  <1>6. Len(all) \in Nat /\ Len(all) = Cardinality(beyond)
    BY <1>4, OrderedIsSeq
  <1>7. /\ n \in Nat /\ n <= Len(all)
        /\ hasMore <=> n < Len(all)
        /\ hasMore => n # 0
    <2> HIDE DEF size, beyond
    <2> QED
      BY <1>5, <1>6, Least
  <1> HIDE DEF n, size, hasMore, beyond
  <1>8. /\ items \in Seq(beyond) /\ Len(items) = n /\ DOMAIN items = 1..n
        /\ Descending(items)
        /\ n # 0 => Last(items) \in beyond /\ Last(items) = items[n]
        /\ \A i \in beyond : \/ \E k \in 1..n : items[k] = i
                             \/ n < Len(all) /\ (n # 0 => Before(items[n], i, Newest))
    BY <1>4, <1>7, FirstRows
  <1> HIDE DEF items
  <1>9. /\ got' = got \o items
        /\ page' = IF hasMore THEN [page EXCEPT !.cursor = Last(items)]
                   ELSE [page EXCEPT !.stage = "done"]
    BY <1>2 DEF items, n, size, hasMore, beyond
  <1>10. /\ got \in Seq(page.match) /\ Descending(got) /\ stayed \subseteq page.match
         /\ page.cursor = IF got = <<>> THEN Absent ELSE Last(got)
         /\ \A i \in stayed : (\E k \in 1..Len(got) : got[k] = i) \/ Beyond(i, page.cursor)
    BY <1>1 DEF IInv, Following
  <1>11. page' \in Pages /\ page'.match = page.match /\ page'.mode = "cursor"
    BY <1>1, <1>4, <1>7, <1>8, <1>9 DEF Pages
  <1>12. got' \in Seq(page.match) /\ got' \in Seq(Ids)
    <2>1. items \in Seq(page.match)
      BY <1>4, <1>8, SeqMonotonic
    <2>2. got' \in Seq(page.match)
      BY <1>9, <1>10, <2>1, ConcatProperties
    <2> QED
      BY <1>4, <2>2, SeqMonotonic
  <1>13. Descending(got')
    <2>1. got \in Seq(Ids) /\ items \in Seq(Ids)
      BY <1>4, <1>8, <1>10, SeqMonotonic
    <2>2. ASSUME got # <<>>, NEW k \in 1..Len(items) PROVE Before(Last(got), items[k], Newest)
      <3>1. items[k] \in beyond
        BY <1>8, ElementOfSeq
      <3>2. Last(got) \in Ids
        BY <2>1, <2>2, EmptySeq, ElementOfSeq DEF Last
      <3>3. Beyond(items[k], Last(got))
        BY <1>10, <2>2, <3>1 DEF beyond
      <3> QED
        BY <3>2, <3>3, QueryAssumption DEF Beyond
    <2> QED
      BY <1>8, <1>9, <1>10, <2>1, <2>2, PagesAppend
  <1>14. /\ \A i : (\E k \in 1..Len(got) : got[k] = i) => \E k \in 1..Len(got') : got'[k] = i
         /\ \A i : (\E k \in 1..n : items[k] = i) => \E k \in 1..Len(got') : got'[k] = i
         /\ n # 0 => got' # <<>> /\ Last(got') = Last(items)
    <2>1. got \in Seq(Ids) /\ items \in Seq(Ids)
      BY <1>4, <1>8, <1>10, SeqMonotonic
    <2>2. /\ Len(got') = Len(got) + n /\ Len(got) \in Nat
          /\ \A k \in 1..(Len(got) + n) : got'[k] = IF k <= Len(got) THEN got[k] ELSE items[k - Len(got)]
      BY <1>8, <1>9, <2>1, ConcatProperties, LenProperties
    <2>3. ASSUME NEW k \in 1..Len(got) PROVE k \in 1..Len(got') /\ got'[k] = got[k]
      BY <1>7, <2>2
    <2>4. ASSUME NEW k \in 1..n
          PROVE  Len(got) + k \in 1..Len(got') /\ got'[Len(got) + k] = items[k]
      <3>1. /\ Len(got) + k \in 1..(Len(got) + n) /\ ~(Len(got) + k <= Len(got))
            /\ (Len(got) + k) - Len(got) = k
        BY <1>7, <2>2
      <3> QED
        BY <2>2, <3>1
    <2>5. ASSUME n # 0 PROVE got' # <<>> /\ Last(got') = Last(items)
      <3>1. Len(got') # 0 /\ n \in 1..n /\ Len(got') = Len(got) + n
        BY <1>7, <2>2, <2>5
      <3>2. got'[Len(got) + n] = items[n]
        BY <2>4, <3>1
      <3> QED
        BY <1>8, <2>5, <3>1, <3>2, EmptySeq DEF Last
    <2> QED
      BY <2>3, <2>4, <2>5
  <1>15. ASSUME NEW i \in stayed
         PROVE  \/ \E k \in 1..Len(got') : got'[k] = i
                \/ hasMore /\ Beyond(i, Last(items))
    <2>1. CASE \E k \in 1..Len(got) : got[k] = i
      BY <1>14, <2>1
    <2>2. CASE Beyond(i, page.cursor)
      <3>1. i \in beyond
        BY <1>10, <2>2 DEF beyond, Matching, IInv, Types
      <3>2. \/ \E k \in 1..n : items[k] = i
            \/ n < Len(all) /\ (n # 0 => Before(items[n], i, Newest))
        BY <1>8, <3>1
      <3> QED
        BY <1>7, <1>8, <1>14, <3>2 DEF Beyond
    <2> QED
      BY <1>10, <2>1, <2>2
  <1>16. CASE hasMore
    <2>1. page'.stage = "request" /\ page'.cursor = Last(items)
      BY <1>1, <1>9, <1>16 DEF Pages
    <2>2. page'.cursor = IF got' = <<>> THEN Absent ELSE Last(got')
      BY <1>7, <1>14, <1>16, <2>1
    <2>3. Following'
      BY <1>3, <1>10, <1>11, <1>12, <1>13, <1>15, <2>1, <2>2 DEF Following
    <2> QED
      BY <1>3, <1>11, <1>12, <2>3 DEF IInv, Types
  <1>17. CASE ~hasMore
    <2>1. page'.stage = "done"
      BY <1>1, <1>9, <1>17 DEF Pages
    <2>2. Following'
      BY <1>3, <1>10, <1>11, <1>12, <1>13, <1>15, <1>17, <2>1 DEF Following
    <2> QED
      BY <1>3, <1>11, <1>12, <2>2 DEF IInv, Types
  <1> QED
    BY <1>16, <1>17

LEMMA TableIInv ==
  ASSUME IInv, NEW new \in SUBSET Ids, Becomes(new)
  PROVE  IInv'
  <1>1. UNCHANGED <<page, got>> /\ rows' = new
    BY DEF Becomes
  <1>2. CASE page.stage = "idle"
    <2>1. page = NoPage /\ stayed = {}
      BY <1>2 DEF IInv, Types, Pages
    <2>2. UNCHANGED <<stayed, disturbed>>
      BY <1>2 DEF Becomes
    <2>3. Types'
      BY <1>1, <2>1, <2>2 DEF IInv, Types
    <2> QED
      BY <1>1, <2>1, <2>3 DEF IInv, Following
  <1>3. CASE page.stage # "idle"
    <2>1. stayed' = stayed \cap new /\ disturbed' \in BOOLEAN
      BY <1>3 DEF Becomes, IInv, Types
    <2>2. Types'
      BY <1>1, <2>1 DEF IInv, Types
    <2>3. Following'
      BY <1>1, <2>1 DEF IInv, Following
    <2> QED
      BY <2>2, <2>3 DEF IInv
  <1> QED
    BY <1>2, <1>3

LEMMA NextIInv == ASSUME IInv, [Next]_query PROVE IInv'
  <1>1. ASSUME NEW mode \in {"offset", "cursor"}, NEW f \in Filters, NEW s \in Sorts,
               NEW a \in Asked, Begin(mode, f, s, a)
        PROVE  IInv'
    BY <1>1, BeginIInv
  <1>2. CASE Leave
    BY <1>2, EmptySeq DEF Leave, IInv, Types, Following
  <1>3. ASSUME NEW batch \in SUBSET (Ids \ rows), Insert(batch) PROVE IInv'
    <2>1. rows \cup batch \in SUBSET Ids
      BY DEF IInv, Types
    <2> QED
      BY <1>3, <2>1, TableIInv DEF Insert
  <1>4. ASSUME NEW w, DeleteRows(w) PROVE IInv'
    <2>1. {i \in rows : Row[i].webhookId # w} \in SUBSET Ids
      BY DEF IInv, Types
    <2> QED
      BY <1>4, <2>1, TableIInv DEF DeleteRows
  <1>5. CASE UNCHANGED query
    BY <1>5 DEF query, IInv, Types, Following, Matching
  <1> QED
    BY <1>1, <1>2, <1>3, <1>4, <1>5, OffsetIInv, CursorIInv DEF Next

LEMMA Invariant == Spec => []IInv
  BY InitIInv, NextIInv, PTL DEF Spec

-----------------------------------------------------------------------------
(* Where a client that follows nextOffset stands: as long as the matching  *)
(* rows stay as they are, what it was given is the beginning of the one    *)
(* order that a query can return them in.                                  *)

(* The sort tells any two of the rows apart.                               *)
Told(S, rules) == \A i, j \in S : i = j \/ Before(i, j, rules) \/ Before(j, i, rules)

Begins(s, all) == Len(s) <= Len(all) /\ \A k \in 1..Len(s) : s[k] = all[k]

(* The rows that come before the k-th of such an order are k - 1.          *)
LEMMA RankOf ==
  ASSUME NEW S \in SUBSET Ids, NEW rules, Told(S, rules),
         NEW all \in Ordered(S, rules), NEW k \in 1..Len(all)
  PROVE  Cardinality({i \in S : Before(i, all[k], rules)}) = k - 1
  <1> DEFINE n == Cardinality(S)
             earlier == {i \in S : Before(i, all[k], rules)}
             m == k - 1
             f == [a \in 1..m |-> all[a]]
  <1>1. all \in Seq(S) /\ Len(all) = n /\ n \in Nat
    BY OrderedIsSeq
  <1> HIDE DEF n
  <1>2. /\ \A a, b \in 1..n : a # b => all[a] # all[b]
        /\ \A a \in 1..n : all[a] \in S
        /\ \A i \in S : \E a \in 1..n : all[a] = i
        /\ DOMAIN all = 1..n
    BY <1>1, OrderedIsAll DEF Lists, n
  <1>0. \A a, b \in 1..n : a < b => ~Before(all[b], all[a], rules)
    BY <1>2 DEF Ordered
  <1>3. k \in 1..n /\ m \in Nat /\ k \in Nat /\ m = k - 1 /\ \A a \in 1..m : a \in 1..n /\ a < k
    BY <1>1
  <1>4. ASSUME NEW i \in S PROVE Before(i, all[k], rules) <=> \E a \in 1..m : all[a] = i
    <2>1. PICK a \in 1..n : all[a] = i
      BY <1>2
    <2>2. CASE a < k
      <3>1. all[a] # all[k] /\ ~Before(all[k], all[a], rules) /\ all[a] \in S /\ all[k] \in S
        BY <1>0, <1>2, <1>3, <2>2
      <3>2. Before(i, all[k], rules)
        BY <2>1, <3>1 DEF Told
      <3>3. a \in 1..m
        BY <1>3, <2>1, <2>2
      <3> QED
        BY <2>1, <3>2, <3>3
    <2>3. CASE k < a
      <3>1. ~Before(i, all[k], rules)
        BY <1>0, <1>3, <2>1, <2>3
      <3>2. \A b \in 1..m : b # a /\ b \in 1..n
        BY <1>3, <2>1, <2>3
      <3>3. \A b \in 1..m : all[b] # i
        BY <1>2, <2>1, <3>2
      <3> QED
        BY <3>1, <3>3
    <2>4. CASE a = k
      <3>1. ~Before(i, i, rules)
        BY DEF Before, Differ
      <3>2. \A b \in 1..m : b # k /\ b \in 1..n
        BY <1>3
      <3>3. \A b \in 1..m : all[b] # all[k]
        BY <1>2, <1>3, <3>2
      <3> QED
        BY <2>1, <2>4, <3>1, <3>3
    <2> QED
      BY <1>3, <2>1, <2>2, <2>3, <2>4
  <1> HIDE DEF m
  <1>5. f \in Bijection(1..m, earlier)
    <2>1. f \in [1..m -> earlier]
      BY <1>2, <1>3, <1>4
    <2>2. \A a, b \in 1..m : a # b => f[a] # f[b]
      BY <1>2, <1>3
    <2>3. \A i \in earlier : \E a \in 1..m : f[a] = i
      BY <1>4
    <2> HIDE DEF f, earlier
    <2> QED
      BY <2>1, <2>2, <2>3 DEF Bijection, Injection, Surjection, IsInjective
  <1>6. IsFiniteSet(1..m) /\ Cardinality(1..m) = m
    BY <1>3, FS_Interval
  <1>7. Cardinality(earlier) = Cardinality(1..m)
    BY <1>5, <1>6, FS_Bijection DEF ExistsBijection
  <1> QED
    BY <1>3, <1>6, <1>7

(* So a set of rows that the sort tells apart has one order.               *)
LEMMA OneOrder ==
  ASSUME NEW S \in SUBSET Ids, NEW rules, Told(S, rules),
         NEW one \in Ordered(S, rules), NEW other \in Ordered(S, rules)
  PROVE  Len(one) = Len(other) /\ \A k \in 1..Len(one) : one[k] = other[k]
  <1>0. Lists(one, S) /\ Lists(other, S)
    BY OrderedIsAll
  <1>1. /\ Len(one) \in Nat /\ Len(other) = Len(one)
        /\ \A k \in 1..Len(one) : one[k] \in S
        /\ \A i \in S : \E a \in 1..Len(other) : other[a] = i
    BY <1>0 DEF Lists
  <1>2. ASSUME NEW k \in 1..Len(one) PROVE one[k] = other[k]
    <2>2. PICK a \in 1..Len(other) : other[a] = one[k]
      BY <1>1
    <2>3. Cardinality({i \in S : Before(i, one[k], rules)}) = k - 1
      BY RankOf
    <2>4. Cardinality({i \in S : Before(i, other[a], rules)}) = a - 1
      BY RankOf
    <2>5. a = k
      BY <1>1, <2>2, <2>3, <2>4
    <2> QED
      BY <2>2, <2>5
  <1> QED
    BY <1>1, <1>2

(* Pages that begin an order, and the rows after them up to the n-th.      *)
LEMMA BeginningGrows ==
  ASSUME NEW S, NEW all \in Seq(S), NEW s \in Seq(S), NEW n \in Nat,
         Begins(s, all), Len(s) <= n, n <= Len(all)
  PROVE  LET r == s \o SubSeq(all, Len(s) + 1, n)
         IN  Len(r) = n /\ Begins(r, all)
  <1> DEFINE m == Len(s)
             t == SubSeq(all, m + 1, n)
             r == s \o t
  <1>1. m \in Nat /\ Len(all) \in Nat
    BY LenProperties
  <1>2. m + 1 \in Int /\ n \in Int /\ \A k \in (m + 1)..n : all[k] \in S
    <2>1. \A k \in (m + 1)..n : k \in 1..Len(all)
      BY <1>1
    <2> QED
      BY <1>1, <2>1, ElementOfSeq
  <1> HIDE DEF m
  <1>3. /\ t \in Seq(S) /\ Len(t) = IF m + 1 <= n THEN n - (m + 1) + 1 ELSE 0
        /\ \A k \in 1..(n - (m + 1) + 1) : t[k] = all[m + 1 + k - 1]
    BY <1>2, SubSeqProperties
  <1> HIDE DEF t
  <1>4. Len(t) = n - m /\ \A k \in 1..(n - m) : t[k] = all[m + k]
    <2>1. m <= n /\ n - (m + 1) + 1 = n - m
      BY <1>1 DEF m
    <2>2. \A k \in 1..(n - m) : m + 1 + k - 1 = m + k
      BY <1>1
    <2> QED
      BY <1>1, <1>3, <2>1, <2>2
  <1>5. Len(r) = n /\ \A k \in 1..n : r[k] = IF k <= m THEN s[k] ELSE t[k - m]
    <2>1. Len(r) = m + Len(t) /\ \A k \in 1..(m + Len(t)) : r[k] = IF k <= m THEN s[k] ELSE t[k - m]
      BY <1>3, ConcatProperties DEF m
    <2>2. m + Len(t) = n
      BY <1>1, <1>4
    <2> QED
      BY <2>1, <2>2
  <1>6. ASSUME NEW k \in 1..n PROVE r[k] = all[k]
    <2>1. CASE k <= m
      BY <1>1, <1>5, <2>1 DEF Begins, m
    <2>2. CASE ~(k <= m)
      <3>1. k - m \in 1..(n - m) /\ m + (k - m) = k
        BY <1>1, <2>2
      <3> QED
        BY <1>4, <1>5, <2>2, <3>1
    <2> QED
      BY <2>1, <2>2
  <1> QED
    BY <1>5, <1>6 DEF Begins, r, t, m

Undisturbed ==
  /\ page # NoPage /\ page.mode = "offset" /\ ~disturbed
  /\ page.limit <= MaxLimit /\ Told(Matching, page.rules)

Listing ==
  Undisturbed =>
    /\ page.stage = "counted" => page.total = Cardinality(Matching)
    /\ page.stage = "done" => Len(got) = Cardinality(Matching)
    /\ page.stage # "done" => Len(got) = page.offset
    /\ got = <<>> \/ \E all \in Ordered(Matching, page.rules) : Begins(got, all)

LEMMA CountListing == ASSUME IInv, Listing, Count PROVE Listing'
  <1>1. page \in Pages /\ page # NoPage /\ page' \in Pages
    <2>1. page.stage = "request"
      BY DEF Count
    <2>2. page \in Pages
      BY <2>1 DEF NoPage, IInv, Types
    <2>3. page' = [page EXCEPT !.stage = "counted", !.total = Cardinality(Matching)]
      BY DEF Count
    <2>4. page'.stage = "counted"
      BY <2>2, <2>3 DEF Pages
    <2>5. page' # NoPage /\ page # NoPage
      BY <2>1, <2>4 DEF NoPage
    <2> QED
      BY <2>2, <2>5, OffsetIInv DEF IInv, Types
  <1>2. /\ page.stage = "request"
        /\ page' = [page EXCEPT !.stage = "counted", !.total = Cardinality(Matching)]
        /\ UNCHANGED <<rows, got, disturbed>>
    BY DEF Count
  <1>3. /\ page'.stage = "counted" /\ page'.total = Cardinality(Matching)
        /\ page'.mode = page.mode /\ page'.match = page.match /\ page'.rules = page.rules
        /\ page'.limit = page.limit /\ page'.offset = page.offset
    BY <1>1, <1>2 DEF Pages
  <1>4. Matching' = Matching
    BY <1>2, <1>3 DEF Matching
  <1>5. Undisturbed' => Undisturbed
    BY <1>1, <1>2, <1>3, <1>4 DEF Undisturbed
  <1> QED
    BY <1>2, <1>3, <1>4, <1>5 DEF Listing

LEMMA ReadListing == ASSUME IInv, Listing, ReadPage PROVE Listing'
  <1>1. PICK all \in Ordered(Matching, page.rules) :
          LET items == SubSeq(all, page.offset + 1,
                              Min({Len(all), page.offset + PageLimit(page.limit)}))
              next == NextOffset(Len(items))
          IN /\ got' = got \o items
             /\ page' = IF next = Absent THEN [page EXCEPT !.stage = "done"]
                        ELSE [page EXCEPT !.stage = "request", !.offset = next]
    BY DEF ReadPage
  <1>2. page \in Pages /\ page # NoPage /\ page.stage = "counted" /\ UNCHANGED <<rows, disturbed>>
    BY DEF ReadPage, IInv, Types, NoPage
  <1> DEFINE last == Min({Len(all), page.offset + PageLimit(page.limit)})
             items == SubSeq(all, page.offset + 1, last)
             next == NextOffset(Len(items))
  <1>3. /\ page'.mode = page.mode /\ page'.match = page.match /\ page'.rules = page.rules
        /\ page'.limit = page.limit
        /\ next = Absent => page'.stage = "done"
        /\ next # Absent => page'.stage = "request" /\ page'.offset = next
    <2> HIDE DEF next
    <2>1. page' = IF next = Absent THEN [page EXCEPT !.stage = "done"]
                  ELSE [page EXCEPT !.stage = "request", !.offset = next]
      BY <1>1 DEF next
    <2> QED
      BY <1>2, <2>1 DEF Pages
  <1>4. Matching' = Matching
    BY <1>2, <1>3 DEF Matching
  <1> SUFFICES ASSUME Undisturbed' PROVE Listing'
    BY DEF Listing
  <1>5. Undisturbed
    BY <1>2, <1>3, <1>4 DEF Undisturbed
  <1>6. Matching \in SUBSET Ids /\ Lists(all, Matching)
    <2>1. Matching \in SUBSET Ids
      BY DEF Matching, IInv, Types
    <2> QED
      BY <2>1, OrderedIsAll
  <1>7. /\ page.total = Len(all) /\ Len(got) = page.offset /\ Begins(got, all)
    <2>1. page.total = Cardinality(Matching) /\ Len(got) = page.offset
      BY <1>2, <1>5 DEF Listing
    <2>2. CASE got = <<>>
      <3>1. Len(got) = 0 /\ Len(all) \in Nat
        BY <1>6, <2>2, EmptySeq DEF Lists
      <3>2. Begins(got, all)
        BY <3>1 DEF Begins
      <3> QED
        BY <1>6, <2>1, <3>2 DEF Lists
    <2>3. ASSUME NEW other \in Ordered(Matching, page.rules), Begins(got, other)
          PROVE  Begins(got, all)
      <3>1. Told(Matching, page.rules)
        BY <1>5 DEF Undisturbed
      <3>3. Len(all) = Len(other) /\ \A k \in 1..Len(all) : all[k] = other[k]
        BY <1>6, <3>1, OneOrder
      <3>2. Len(got) \in Nat /\ Len(all) \in Nat
        BY <1>6, LenProperties DEF IInv, Types, Lists
      <3> QED
        BY <2>3, <3>3, <3>2 DEF Begins
    <2> QED
      BY <1>2, <1>5, <1>6, <2>1, <2>2, <2>3 DEF Listing, Lists
  <1>8. /\ page.offset \in Nat /\ page.limit \in Nat \ {0} /\ Len(all) \in Nat
        /\ page.offset <= Len(all) /\ PageLimit(page.limit) = page.limit
    <2>1. page.offset \in Nat /\ page.limit \in Nat \ {0} /\ page.limit <= MaxLimit
      BY <1>2, <1>5 DEF Pages, Undisturbed
    <2>2. PageLimit(page.limit) = page.limit
      BY <2>1, SizePositive, Least, QueryAssumption
    <2> QED
      BY <1>6, <1>7, <2>1, <2>2 DEF Lists, Begins
  <1>9. /\ last = IF Len(all) <= page.offset + page.limit THEN Len(all) ELSE page.offset + page.limit
        /\ last \in Nat /\ page.offset <= last /\ last <= Len(all)
    <2>1. page.offset + page.limit \in Nat /\ page.offset <= page.offset + page.limit
      BY <1>8
    <2> QED
      BY <1>8, <2>1, Least
  <1> HIDE DEF last
  <1>10. Len(got') = last /\ Begins(got', all) /\ Len(items) = last - page.offset
    <2>1. all \in Seq(Ids) /\ got \in Seq(Ids)
      BY <1>6, SeqMonotonic DEF Lists, IInv, Types
    <2>2. got' = got \o SubSeq(all, Len(got) + 1, last)
      BY <1>1, <1>7 DEF last
    <2>3. Len(got') = last /\ Begins(got', all)
      BY <1>7, <1>9, <2>1, <2>2, BeginningGrows
    <2>4. items \in Seq(Ids) /\ Len(items) \in Nat
      <3>1. \A k \in (page.offset + 1)..last : all[k] \in Ids
        <4>1. \A k \in (page.offset + 1)..last : k \in 1..Len(all)
          BY <1>8, <1>9
        <4> QED
          BY <2>1, <4>1, ElementOfSeq
      <3>2. page.offset + 1 \in Int /\ last \in Int
        BY <1>8, <1>9
      <3> QED
        BY <3>1, <3>2, SubSeqProperties, LenProperties
    <2>5. got' = got \o items
      BY <1>1 DEF last
    <2> HIDE DEF items
    <2>6. Len(got') = Len(got) + Len(items)
      BY <2>1, <2>4, <2>5, ConcatProperties
    <2> QED
      BY <1>7, <1>8, <1>9, <2>3, <2>4, <2>6
  <1>11. /\ last < Len(all) => next # Absent /\ next = last
         /\ ~(last < Len(all)) => next = Absent
    <2> HIDE DEF items
    <2>1. page.offset + Len(items) = last
      BY <1>8, <1>9, <1>10
    <2>2. next = IF last < Len(all) THEN page.offset + page.limit ELSE Absent
      BY <1>7, <2>1 DEF NextOffset
    <2>3. last < Len(all) => next = last
      BY <1>8, <1>9, <2>2
    <2>4. last # Absent
      BY <1>9, QueryAssumption
    <2> QED
      BY <2>2, <2>3, <2>4
  <1> HIDE DEF next, items
  <1>12. \E o \in Ordered(Matching', page'.rules) : Begins(got', o)
    BY <1>3, <1>4, <1>10
  <1>13. CASE last < Len(all)
    <2>1. page'.stage = "request" /\ Len(got') = page'.offset
      BY <1>3, <1>10, <1>11, <1>13
    <2> QED
      BY <1>12, <2>1 DEF Listing
  <1>14. CASE ~(last < Len(all))
    <2>1. page'.stage = "done"
      BY <1>3, <1>11, <1>14
    <2>2. Len(got') = Cardinality(Matching')
      BY <1>4, <1>6, <1>8, <1>9, <1>10, <1>14 DEF Lists
    <2> QED
      BY <1>12, <2>1, <2>2 DEF Listing
  <1> QED
    BY <1>13, <1>14

LEMMA NextListing == ASSUME IInv, Listing, [Next]_query PROVE Listing'
  <1>1. ASSUME NEW mode \in {"offset", "cursor"}, NEW f \in Filters, NEW s \in Sorts,
               NEW a \in Asked, Begin(mode, f, s, a)
        PROVE  Listing'
    BY <1>1, EmptySeq DEF Begin, Listing
  <1>2. CASE ReadCursorPage
    <2>1. page # NoPage /\ page \in Pages /\ page.mode = "cursor"
      BY <1>2 DEF ReadCursorPage, IInv, Types, NoPage
    <2>2. page' = [page EXCEPT !.stage = "done"] \/ \E c : page' = [page EXCEPT !.cursor = c]
      BY <1>2 DEF ReadCursorPage
    <2>3. page'.mode = "cursor"
      BY <2>1, <2>2 DEF Pages
    <2> QED
      BY <2>3 DEF Listing, Undisturbed
  <1>3. CASE Leave
    BY <1>3 DEF Leave, Listing, Undisturbed
  <1>4. ASSUME NEW new, Becomes(new) PROVE Listing'
    <2>1. UNCHANGED <<page, got>> /\ rows' = new
      BY <1>4 DEF Becomes
    <2>2. CASE page.stage = "idle"
      <3>1. page = NoPage
        BY <2>2 DEF IInv, Types, Pages
      <3> QED
        BY <2>1, <3>1 DEF Listing, Undisturbed
    <2>3. CASE page.stage # "idle" /\ ~disturbed'
      <3>1. ~disturbed /\ Matching' = Matching
        BY <1>4, <2>1, <2>3 DEF Becomes, Matching
      <3>2. Undisturbed' => Undisturbed
        BY <2>1, <3>1 DEF Undisturbed
      <3> QED
        BY <2>1, <3>1, <3>2 DEF Listing
    <2>4. CASE disturbed'
      BY <2>4 DEF Listing, Undisturbed
    <2> QED
      BY <2>2, <2>3, <2>4
  <1>5. CASE UNCHANGED query
    BY <1>5 DEF query, Listing, Undisturbed, Matching
  <1> QED
    BY <1>1, <1>2, <1>3, <1>4, <1>5, CountListing, ReadListing DEF Next, Insert, DeleteRows

-----------------------------------------------------------------------------
(* The positions that the repository gives out are ones that the handler   *)
(* accepts, whatever limit the client asked for.                           *)
THEOREM TypeCorrect == Spec => []QueryTypeOK
  <1>1. IInv => QueryTypeOK
    BY DEF IInv, Types, Pages, QueryTypeOK, NoPage
  <1> QED
    BY <1>1, Invariant, PTL

(* A listing by cursor is sorted, without repetition, and complete for the *)
(* rows that stayed, for any table, limit, filter and number of writes     *)
(* between its pages. (LogRepository.findLogsCursor.)                      *)
THEOREM CursorExactHolds == Spec => []CursorExact
  <1>1. IInv => CursorExact
    <2> SUFFICES ASSUME IInv, page.stage # "idle", page.mode = "cursor"
                 PROVE  /\ ToSet(got) \subseteq page.match
                        /\ \A a, b \in DOMAIN got : a < b => Before(got[a], got[b], Newest)
                        /\ page.stage = "done" => stayed \subseteq ToSet(got)
      BY DEF CursorExact
    <2>1. /\ got \in Seq(page.match) /\ Descending(got)
          /\ page.stage = "done" => \A i \in stayed : \E k \in 1..Len(got) : got[k] = i
      BY DEF IInv, Following, NoPage
    <2>2. DOMAIN got = 1..Len(got) /\ \A k \in 1..Len(got) : got[k] \in page.match
      BY <2>1, LenProperties, ElementOfSeq
    <2> QED
      BY <2>1, <2>2 DEF ToSet, Descending
  <1> QED
    BY <1>1, Invariant, PTL

(* A listing by offset is exact under the conditions of OffsetExact, for   *)
(* any table, filter, sort rules and limit: its pages are the beginning of *)
(* one order, whichever order each query picked. (LogRepository.findLogs.) *)
THEOREM OffsetExactHolds == Spec => []OffsetExact
  <1>1. Init => Listing
    BY DEF Init, Listing, Undisturbed
  <1>2. IInv /\ Listing => OffsetExact
    <2> SUFFICES ASSUME IInv, Listing, page.stage # "idle", page.mode = "offset", ~disturbed,
                        page.limit <= MaxLimit, Told(Matching, page.rules)
                 PROVE  /\ \A a, b \in DOMAIN got : a < b => Before(got[a], got[b], page.rules)
                        /\ page.stage = "done" => ToSet(got) = Matching
      BY DEF OffsetExact, Told
    <2>1. Undisturbed
      BY DEF Undisturbed, NoPage
    <2>2. DOMAIN got = 1..Len(got) /\ Len(got) \in Nat
      BY LenProperties DEF IInv, Types
    <2>3. Matching \in SUBSET Ids
      BY DEF Matching, IInv, Types
    <2>4. CASE got = <<>>
      <3>1. Len(got) = 0 /\ DOMAIN got = {} /\ ToSet(got) = {}
        BY <2>2, <2>4 DEF ToSet
      <3>2. page.stage = "done" => Cardinality(Matching) = 0
        BY <2>1, <3>1 DEF Listing
      <3>3. Cardinality(Matching) = 0 => Matching = {}
        BY <2>3, RowsFinite, FS_EmptySet
      <3> QED
        BY <3>1, <3>2, <3>3
    <2>5. ASSUME NEW all \in Ordered(Matching, page.rules), Begins(got, all)
          PROVE  /\ \A a, b \in DOMAIN got : a < b => Before(got[a], got[b], page.rules)
                 /\ page.stage = "done" => ToSet(got) = Matching
      <3>1. Lists(all, Matching)
        BY <2>3, OrderedIsAll
      <3>2. \A k \in DOMAIN got : k \in DOMAIN all /\ got[k] = all[k] /\ got[k] \in Matching
        BY <2>2, <2>5, <3>1 DEF Begins, Lists
      <3>3. ASSUME NEW a \in DOMAIN got, NEW b \in DOMAIN got, a < b
            PROVE  Before(got[a], got[b], page.rules)
        <4>1. ~Before(all[b], all[a], page.rules)
          BY <3>2, <3>3 DEF Ordered
        <4>2. all[a] # all[b]
          BY <2>2, <3>1, <3>2, <3>3 DEF Lists
        <4> QED
          BY <3>2, <4>1, <4>2 DEF Told
      <3>4. ASSUME page.stage = "done" PROVE ToSet(got) = Matching
        <4>1. Len(got) = Len(all)
          BY <2>1, <3>1, <3>4 DEF Listing, Lists
        <4>2. \A i \in Matching : \E k \in DOMAIN got : got[k] = i
          BY <2>2, <3>1, <3>2, <4>1 DEF Lists
        <4> QED
          BY <3>2, <4>2 DEF ToSet
      <3> QED
        BY <3>3, <3>4
    <2> QED
      BY <2>1, <2>4, <2>5 DEF Listing
  <1> QED
    BY <1>1, <1>2, NextListing, Invariant, PTL DEF Spec

-----------------------------------------------------------------------------
(* Each of the two parts of the read API behaves in the composition as it  *)
(* does alone, so that what is proved of one holds beside the other.       *)
LEMMA Composition == MCSpec => Spec /\ LimiterSpec
  <1>1. MCInit => Init /\ LimiterInit
    BY DEF MCInit
  <1>2. [MCNext]_vars => [Next]_query /\ [LimiterNext]_limiter
    BY DEF MCNext, vars, query
  <1> QED
    BY <1>1, <1>2, PTL DEF MCSpec, Spec, LimiterSpec

(* The positions of clients and the Map of the limiter are well formed.    *)
THEOREM BothTypesCorrect == MCSpec => []TypeOK
  BY Composition, TypeCorrect, LimiterTypeCorrect, PTL DEF TypeOK
=============================================================================
