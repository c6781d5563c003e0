-------------------------- MODULE AuditTrail_proofs --------------------------
(***************************************************************************)
(* Proofs about AuditTrail, for tables of any size, pages of any size and  *)
(* any number of requests under way.                                       *)
(*                                                                         *)
(* The argument: a row only sinks.  Rows are added and never removed, so   *)
(* the rank of a row never falls, and a row that was not on the first k    *)
(* pages can only be found further down (Covered).  The number of rows is  *)
(* taken after the rows of the page, so a row that lies beyond the page    *)
(* makes it larger than what the page reaches, and there is a next one.    *)
(***************************************************************************)
EXTENDS AuditTrail, FiniteSetTheorems, TLAPS

-----------------------------------------------------------------------------
(* Ranks.                                                                  *)

\* The rows before a row are rows, without the row itself.
LEMMA RankType ==
  ASSUME NEW s \in Seq(Times), NEW i \in RowIds(s)
  PROVE  /\ IsFiniteSet(Before(s, i)) /\ Before(s, i) \subseteq RowIds(s) \ {i}
         /\ Rank(s, i) \in Nat
         /\ Rank(s, i) < Len(s)
<1>1. Before(s, i) \subseteq RowIds(s) \ {i}
  <2>1. Len(s) \in Nat /\ s \in [1 .. Len(s) -> Times] /\ i \in Int
    BY DEF RowIds
  <2>2. s[i] \in Int
    BY <2>1, AuditAssumption DEF RowIds
  <2> QED BY <2>1, <2>2 DEF Before
<1>2. IsFiniteSet(RowIds(s)) /\ Cardinality(RowIds(s)) = Len(s)
  <2>1. Len(s) \in Nat
    OBVIOUS
  <2> HIDE DEF RowIds
  <2>2. IsFiniteSet(1 .. Len(s)) /\ Cardinality(1 .. Len(s)) = Len(s)
    BY <2>1, FS_Interval
  <2> QED BY <2>2 DEF RowIds
<1>3. IsFiniteSet(RowIds(s) \ {i}) /\ Cardinality(RowIds(s) \ {i}) = Len(s) - 1
  BY <1>2, FS_RemoveElement
<1>4. IsFiniteSet(Before(s, i)) /\ Cardinality(Before(s, i)) <= Len(s) - 1
  BY <1>1, <1>3, FS_Subset
<1>5. Cardinality(Before(s, i)) \in Nat
  BY <1>4, FS_CardinalityType
<1> QED BY <1>1, <1>4, <1>5 DEF Rank

\* A new row, whatever its time, never raises an old one.
LEMMA RankGrows ==
  ASSUME NEW s \in Seq(Times), NEW now \in Times, NEW i \in RowIds(s)
  PROVE  /\ i \in RowIds(Append(s, now))
         /\ Rank(Append(s, now), i) >= Rank(s, i)
<1> USE AuditAssumption
<1> DEFINE s2 == Append(s, now)
<1>1. s2 \in Seq(Times) /\ Len(s2) = Len(s) + 1 /\ \A j \in RowIds(s) : s2[j] = s[j]
  BY DEF RowIds
<1> HIDE DEF s2
<1>2. i \in RowIds(s2) /\ RowIds(s) \subseteq RowIds(s2)
  BY <1>1 DEF RowIds
<1>3. Before(s, i) \subseteq Before(s2, i)
  BY <1>1, <1>2 DEF Before
<1>4. IsFiniteSet(Before(s2, i))
  BY <1>1, <1>2, RankType
<1>5. Cardinality(Before(s, i)) <= Cardinality(Before(s2, i))
  BY <1>3, <1>4, FS_Subset
<1>6. Rank(s, i) \in Nat /\ Rank(s2, i) \in Nat
  BY <1>1, <1>2, RankType
<1> QED BY <1>2, <1>5, <1>6 DEF Rank, s2

-----------------------------------------------------------------------------
(* Arithmetic of pages.                                                    *)

LEMMA PageArithmetic ==
  ASSUME NEW p \in Nat, NEW q \in Nat, p <= q
  PROVE  /\ p * PageSize \in Nat
         /\ p * PageSize <= q * PageSize
         /\ (p + 1) * PageSize = p * PageSize + PageSize
<1> USE AuditAssumption
<1>1. q - p \in Nat /\ q * PageSize = p * PageSize + (q - p) * PageSize
  OBVIOUS
<1>2. (q - p) * PageSize \in Nat /\ p * PageSize \in Nat
  BY <1>1
<1>3. q * PageSize \in Nat
  OBVIOUS
<1> QED BY <1>1, <1>2, <1>3

\* A page has no next one only if it reaches the last row.
LEMMA LastPageReaches ==
  ASSUME NEW total \in Nat, NEW page \in Nat, ~(page < TotalPages(total))
  PROVE  total <= page * PageSize
<1> USE AuditAssumption
<1> DEFINE x == total + PageSize - 1
           d == x \div PageSize
<1>1. x \in Nat
  OBVIOUS
<1>2. d \in Nat /\ PageSize * d <= x /\ x < PageSize * d + PageSize
  BY <1>1
<1>3. d <= page
  BY <1>2 DEF TotalPages
<1> HIDE DEF d
<1>4. d * PageSize <= page * PageSize /\ d * PageSize = PageSize * d
  BY <1>2, <1>3, PageArithmetic
<1>5. x < page * PageSize + PageSize /\ page * PageSize \in Nat
  BY <1>1, <1>2, <1>4, PageArithmetic
<1> QED BY <1>5

-----------------------------------------------------------------------------
(* The inductive invariant.                                                *)

\* Of the rows owed, those not in `had' lie beyond the first `pages' pages.
Covered(t, owed, had, pages) ==
  \A i \in owed : i \in had \/ Rank(log[t], i) >= pages * PageSize

\* An answer that is complete: what it owes and has not shown makes its total
\* larger than what its page reaches.
Honest(a, had) ==
  /\ a.owed \subseteq RowIds(log[a.table])
  /\ Covered(a.table, a.owed, had, a.page)
  /\ \A i \in a.owed : i \in had \/ a.total > a.page * PageSize

FetchInv(f) ==
  /\ f.at = "sent" /\ f.page > 1 =>
       /\ f.owed \subseteq RowIds(log[f.table])
       /\ Covered(f.table, f.owed, seen[f.table], f.page - 1)
  /\ f.at = "listed" =>
       /\ f.owed \subseteq RowIds(log[f.table])
       /\ Covered(f.table, f.owed, seen[f.table] \cup f.rows, f.page)
  /\ f.at = "counted" => Honest(f, seen[f.table] \cup f.rows)

ShownInv(t) == shown[t] # None => shown[t].table = t /\ Honest(shown[t], seen[t])

IInv ==
  /\ TypeOK
  /\ \A n \in Slots : FetchInv(fetch[n])
  /\ \A t \in Tables : ShownInv(t)

\* The three kinds of request have one form each.
LEMMA RequestKinds ==
  ASSUME TypeOK, NEW n \in Slots
  PROVE  /\ fetch[n].at = "sent" => fetch[n] \in Sent
         /\ fetch[n].at = "listed" => fetch[n] \in Listed
         /\ fetch[n].at = "counted" => fetch[n] \in Counted
BY DEF TypeOK, None, Sent, Listed, Counted

LEMMA PageIsRows ==
  ASSUME NEW s \in Seq(Times), NEW page \in Nat \ {0}
  PROVE  PageOf(s, page) \subseteq Nat
BY DEF PageOf, RowIds

LEMMA TypeInductive == ASSUME TypeOK, [Next]_vars PROVE TypeOK'
<1> USE AuditAssumption, RequestKinds
<1>1. ASSUME NEW t \in Tables, NEW now \in Times, Record(t, now) PROVE TypeOK'
  BY <1>1 DEF TypeOK, Record
<1>2. ASSUME NEW t \in Tables, NEW page \in Nat \ {0}, NEW owed \in SUBSET Nat, Ask(t, page, owed)
      PROVE TypeOK'
  BY <1>2 DEF TypeOK, Ask, Sent
<1>3. ASSUME NEW t \in Tables, shown[t].at = "counted"
      PROVE  shown[t].page \in Nat \ {0} /\ shown[t].owed \in SUBSET Nat
  BY <1>3 DEF TypeOK, None, Counted
<1>4. ASSUME NEW t \in Tables, OpenTab(t) \/ NextPage(t) \/ PreviousPage(t) PROVE TypeOK'
  <2>1. CASE OpenTab(t)
    BY <1>2, <2>1 DEF OpenTab
  <2>2. CASE NextPage(t)
    <3>1. shown[t].page + 1 \in Nat \ {0} /\ shown[t].owed \in SUBSET Nat
      BY <1>3, <2>2 DEF NextPage, HasNext
    <3> QED BY <1>2, <2>2, <3>1 DEF NextPage
  <2>3. CASE PreviousPage(t)
    <3>1. shown[t].page - 1 \in Nat \ {0} /\ shown[t].owed \in SUBSET Nat
      BY <1>3, <2>3 DEF PreviousPage, HasPrevious
    <3> QED BY <1>2, <2>3, <3>1 DEF PreviousPage
  <2> QED BY <1>4, <2>1, <2>2, <2>3
<1>5. ASSUME NEW n \in Slots, ListRows(n) PROVE TypeOK'
  <2>1. fetch[n] \in Sent /\ log[fetch[n].table] \in Seq(Times)
    BY <1>5 DEF ListRows, TypeOK, Sent
  <2>2. PageOf(log[fetch[n].table], fetch[n].page) \subseteq Nat /\ RowIds(log[fetch[n].table]) \subseteq Nat
    BY <2>1, PageIsRows DEF Sent, RowIds
  <2>3. fetch'[n] \in Listed /\ fetch' = [fetch EXCEPT ![n] = fetch'[n]]
    BY <1>5, <2>1, <2>2 DEF ListRows, TypeOK, Sent, Listed
  <2> QED BY <1>5, <2>3 DEF ListRows, TypeOK
<1>6. ASSUME NEW n \in Slots, CountRows(n) PROVE TypeOK'
  <2>1. fetch[n] \in Listed /\ Len(log[fetch[n].table]) \in Nat
    BY <1>6 DEF CountRows, TypeOK, Listed
  <2>2. fetch'[n] \in Counted /\ fetch' = [fetch EXCEPT ![n] = fetch'[n]]
    BY <1>6, <2>1 DEF CountRows, TypeOK, Listed, Counted
  <2> QED BY <1>6, <2>2 DEF CountRows, TypeOK
<1>7. ASSUME NEW n \in Slots, Render(n) PROVE TypeOK'
  <2>1. fetch[n] \in Counted
    BY <1>7 DEF Render
  <2> QED BY <1>7, <2>1 DEF Render, TypeOK, Counted
<1>8. ASSUME NEW n \in Slots, Lose(n) PROVE TypeOK'
  BY <1>8 DEF Lose, TypeOK
<1>9. CASE UNCHANGED vars
  BY <1>9 DEF TypeOK, vars
<1> QED BY <1>1, <1>4, <1>5, <1>6, <1>7, <1>8, <1>9 DEF Next

-----------------------------------------------------------------------------
(* Each action preserves the inductive invariant.                          *)

\* A larger set of rows shown covers as much; so does a shorter way.
LEMMA CoveredWeaken ==
  ASSUME TypeOK, NEW t \in Tables, NEW owed, NEW had, NEW more, NEW p \in Nat, NEW q \in Nat,
         owed \subseteq RowIds(log[t]), had \subseteq more, p <= q,
         Covered(t, owed, had, q)
  PROVE  Covered(t, owed, more, p)
<1> SUFFICES ASSUME NEW i \in owed, i \notin more PROVE Rank(log[t], i) >= p * PageSize
  BY DEF Covered
<1>1. log[t] \in Seq(Times) /\ i \in RowIds(log[t])
  BY DEF TypeOK
<1>2. Rank(log[t], i) \in Nat
  BY <1>1, RankType
<1>3. Rank(log[t], i) >= q * PageSize
  BY DEF Covered
<1>4. p * PageSize \in Nat /\ p * PageSize <= q * PageSize /\ q * PageSize \in Nat
  BY PageArithmetic
<1> QED BY <1>2, <1>3, <1>4

\* A new row keeps what was covered covered.
LEMMA CoveredRecord ==
  ASSUME TypeOK, NEW t \in Tables, NEW now \in Times, Record(t, now),
         NEW u \in Tables, NEW owed, NEW had, NEW p \in Nat,
         owed \subseteq RowIds(log[u]), Covered(u, owed, had, p)
  PROVE  owed \subseteq RowIds(log'[u]) /\ Covered(u, owed, had, p)'
<1>1. log[u] \in Seq(Times) /\ log[t] \in Seq(Times)
  BY DEF TypeOK
<1>2. log'[u] = IF u = t THEN Append(log[u], now) ELSE log[u]
  BY DEF Record, TypeOK
<1>3. ASSUME NEW i \in owed PROVE i \in RowIds(log'[u]) /\ Rank(log'[u], i) >= Rank(log[u], i)
  <2>1. i \in RowIds(log[u]) /\ Rank(log[u], i) \in Nat
    BY <1>1, <1>3, RankType
  <2>2. CASE u = t
    BY <1>1, <1>2, <2>1, <2>2, RankGrows
  <2>3. CASE u # t
    BY <1>2, <2>1, <2>3
  <2> QED BY <2>2, <2>3
<1>4. ASSUME NEW i \in owed, i \notin had PROVE Rank(log'[u], i) >= p * PageSize
  <2>1. Rank(log[u], i) >= p * PageSize
    BY <1>4 DEF Covered
  <2>2. Rank(log[u], i) \in Nat /\ p * PageSize \in Nat
    <3>1. i \in RowIds(log[u])
      BY <1>4
    <3>2. p * PageSize \in Nat
      BY AuditAssumption
    <3> QED BY <1>1, <3>1, <3>2, RankType
  <2>3. log'[u] \in Seq(Times)
    BY <1>1, <1>2
  <2>4. Rank(log'[u], i) \in Nat
    BY <1>3, <1>4, <2>3, RankType
  <2> QED BY <1>3, <1>4, <2>1, <2>2, <2>4
<1> QED BY <1>3, <1>4 DEF Covered

\* What a request and an answer say of the past stays true when a row is added.
LEMMA RecordKeeps ==
  ASSUME IInv, NEW t \in Tables, NEW now \in Times, Record(t, now)
  PROVE  IInv'
<1>1. TypeOK /\ TypeOK'
  BY TypeInductive DEF IInv, Next
<1>2. UNCHANGED <<fetch, shown, seen>>
  BY DEF Record
<1>3. ASSUME NEW n \in Slots PROVE FetchInv(fetch[n])'
  <2> DEFINE f == fetch[n]
  <2>0. FetchInv(f)
    BY DEF IInv
  <2>1. ASSUME f.at = "sent", f.page > 1
        PROVE  f.owed \subseteq RowIds(log'[f.table]) /\ Covered(f.table, f.owed, seen[f.table], f.page - 1)'
    <3>1. f.table \in Tables /\ f.page - 1 \in Nat
      BY <1>1, <2>1, RequestKinds DEF Sent
    <3> QED BY <1>1, <1>2, <2>0, <2>1, <3>1, CoveredRecord DEF FetchInv
  <2>2. ASSUME f.at = "listed"
        PROVE  f.owed \subseteq RowIds(log'[f.table]) /\ Covered(f.table, f.owed, seen[f.table] \cup f.rows, f.page)'
    <3>1. f.table \in Tables /\ f.page \in Nat
      BY <1>1, <2>2, RequestKinds DEF Listed
    <3> QED BY <1>1, <1>2, <2>0, <2>2, <3>1, CoveredRecord DEF FetchInv
  <2>3. ASSUME f.at = "counted" PROVE Honest(f, seen[f.table] \cup f.rows)'
    <3>1. f.table \in Tables /\ f.page \in Nat
      BY <1>1, <2>3, RequestKinds DEF Counted
    <3> QED BY <1>1, <1>2, <2>0, <2>3, <3>1, CoveredRecord DEF FetchInv, Honest
  <2> QED BY <1>2, <2>1, <2>2, <2>3 DEF FetchInv
<1>4. ASSUME NEW u \in Tables PROVE ShownInv(u)'
  <2> SUFFICES ASSUME shown[u] # None PROVE shown[u].table = u /\ Honest(shown[u], seen[u])'
    BY <1>2 DEF ShownInv
  <2>1. shown[u].table = u /\ Honest(shown[u], seen[u]) /\ shown[u].page \in Nat
    BY <1>1 DEF IInv, ShownInv, TypeOK, Counted
  <2> QED BY <1>1, <1>2, <2>1, CoveredRecord DEF Honest
<1> QED BY <1>1, <1>3, <1>4 DEF IInv

\* The buttons of an answer lead to where it vouches for.
LEMMA ButtonKeeps ==
  ASSUME IInv, NEW t \in Tables, OpenTab(t) \/ NextPage(t) \/ PreviousPage(t)
  PROVE  IInv'
<1>1. TypeOK /\ TypeOK'
  BY TypeInductive DEF IInv, Next
<1>2. UNCHANGED <<log, shown, seen>>
  BY DEF OpenTab, NextPage, PreviousPage, Ask
<1>3. ASSUME NEW page \in Nat \ {0}, NEW owed, Ask(t, page, owed),
             page > 1 => owed \subseteq RowIds(log[t]) /\ Covered(t, owed, seen[t], page - 1)
      PROVE  \A n \in Slots : FetchInv(fetch[n])'
  <2> SUFFICES ASSUME NEW n \in Slots PROVE FetchInv(fetch[n])'
    OBVIOUS
  <2>1. CASE fetch'[n] = fetch[n]
    BY <1>2, <2>1 DEF IInv, FetchInv, Honest, Covered
  <2>2. CASE fetch'[n] = [at |-> "sent", table |-> t, page |-> page, owed |-> owed]
    BY <1>2, <1>3, <2>2 DEF FetchInv, Covered
  <2> QED BY <1>1, <1>3, <2>1, <2>2 DEF Ask, TypeOK
<1>4. ASSUME NextPage(t) \/ PreviousPage(t)
      PROVE  /\ shown[t].page \in Nat \ {0}
             /\ shown[t].owed \subseteq RowIds(log[t])
             /\ Covered(t, shown[t].owed, seen[t], shown[t].page)
  <2>1. shown[t] \in Counted /\ shown[t] # None
    BY <1>1, <1>4 DEF NextPage, PreviousPage, HasNext, HasPrevious, TypeOK, None
  <2>2. shown[t].table = t /\ Honest(shown[t], seen[t])
    BY <2>1 DEF IInv, ShownInv
  <2> QED BY <2>1, <2>2 DEF Counted, Honest
<1>5. \A n \in Slots : FetchInv(fetch[n])'
  <2>1. CASE OpenTab(t)
    BY <1>3, <2>1 DEF OpenTab
  <2>2. CASE NextPage(t)
    <3> DEFINE page == shown[t].page + 1
    <3>1. page \in Nat \ {0} /\ page - 1 = shown[t].page
      BY <1>4, <2>2
    <3> QED BY <1>3, <1>4, <2>2, <3>1 DEF NextPage
  <2>3. CASE PreviousPage(t)
    <3> DEFINE page == shown[t].page - 1
    <3>1. page \in Nat \ {0} /\ page - 1 \in Nat /\ page - 1 <= shown[t].page
      BY <1>4, <2>3 DEF PreviousPage, HasPrevious
    <3>2. Covered(t, shown[t].owed, seen[t], page - 1)
      BY <1>1, <1>4, <2>3, <3>1, CoveredWeaken
    <3> QED BY <1>3, <1>4, <2>3, <3>1, <3>2 DEF PreviousPage
  <2> QED BY <2>1, <2>2, <2>3
<1>6. \A u \in Tables : ShownInv(u)'
  BY <1>2 DEF IInv, ShownInv, Honest, Covered
<1> QED BY <1>1, <1>5, <1>6 DEF IInv

\* A request or an answer that nothing happens to keeps what it says, when no row
\* is added and no row shown is forgotten.
LEMMA OthersKeep ==
  ASSUME IInv, log' = log, NEW m \in Slots, fetch'[m] = fetch[m],
         \A t \in Tables : seen[t] \subseteq seen'[t]
  PROVE  FetchInv(fetch[m])'
<1> DEFINE f == fetch[m]
<1>1. TypeOK /\ FetchInv(f)
  BY DEF IInv
<1>2. CASE f.at = "sent"
  <2>1. f.table \in Tables
    BY <1>1, <1>2, RequestKinds DEF Sent
  <2> QED BY <1>1, <1>2, <2>1 DEF FetchInv, Covered
<1>3. CASE f.at = "listed"
  <2>1. f.table \in Tables
    BY <1>1, <1>3, RequestKinds DEF Listed
  <2> QED BY <1>1, <1>3, <2>1 DEF FetchInv, Covered
<1>4. CASE f.at = "counted"
  <2>1. f.table \in Tables
    BY <1>1, <1>4, RequestKinds DEF Counted
  <2> QED BY <1>1, <1>4, <2>1 DEF FetchInv, Honest, Covered
<1> QED BY <1>2, <1>3, <1>4 DEF FetchInv

\* The rows of a page: whoever had the pages before it has this page covered too.
LEMMA ListKeeps == ASSUME IInv, NEW n \in Slots, ListRows(n) PROVE IInv'
<1> DEFINE f == fetch[n]
           s == log[f.table]
           g == fetch'[n]
<1>1. TypeOK /\ TypeOK'
  BY TypeInductive DEF IInv, Next
<1>2. UNCHANGED <<log, shown, seen>> /\ f.at = "sent"
  BY DEF ListRows
<1>3. f \in Sent /\ s \in Seq(Times) /\ f.page \in Nat \ {0} /\ f.table \in Tables
  BY <1>1, <1>2, RequestKinds DEF TypeOK, Sent
<1>4. /\ g.at = "listed" /\ g.table = f.table /\ g.page = f.page
      /\ g.rows = PageOf(s, f.page)
      /\ g.owed = IF f.page = 1 THEN RowIds(s) ELSE f.owed
      /\ \A m \in Slots \ {n} : fetch'[m] = fetch[m]
  BY <1>1 DEF ListRows, TypeOK
<1>5. g.owed \subseteq RowIds(s) /\ Covered(f.table, g.owed, seen[f.table], f.page - 1)
  <2>1. CASE f.page = 1
    <3>1. ASSUME NEW i \in RowIds(s) PROVE Rank(s, i) >= (1 - 1) * PageSize
      BY <1>3, <3>1, RankType, AuditAssumption
    <3> QED BY <1>4, <2>1, <3>1 DEF Covered
  <2>2. CASE f.page > 1
    <3>1. FetchInv(f)
      BY DEF IInv
    <3>2. f.owed \subseteq RowIds(s) /\ Covered(f.table, f.owed, seen[f.table], f.page - 1)
      BY <1>2, <2>2, <3>1 DEF FetchInv
    <3>3. g.owed = f.owed
      BY <1>3, <1>4, <2>2
    <3> HIDE DEF f, g, s
    <3> QED BY <3>2, <3>3
  <2>3. f.page = 1 \/ f.page > 1
    BY <1>3
  <2> QED BY <2>1, <2>2, <2>3
<1>6. Covered(f.table, g.owed, seen[f.table] \cup g.rows, f.page)
  <2> SUFFICES ASSUME NEW i \in g.owed, i \notin seen[f.table], Rank(s, i) < f.page * PageSize
               PROVE  i \in g.rows
    <3>1. ASSUME NEW i \in g.owed PROVE Rank(s, i) \in Nat /\ f.page * PageSize \in Nat
      BY <1>3, <1>5, <3>1, RankType, AuditAssumption
    <3> QED BY <3>1 DEF Covered
  <2>1. i \in RowIds(s) /\ Rank(s, i) \in Nat
    BY <1>3, <1>5, RankType
  <2>2. Rank(s, i) >= Offset(f.page)
    BY <1>5 DEF Covered, Offset
  <2>3. f.page - 1 \in Nat /\ Offset(f.page) \in Nat /\ f.page * PageSize = Offset(f.page) + PageSize
    <3> DEFINE p == f.page - 1
    <3>1. p \in Nat /\ p <= p /\ f.page = p + 1
      BY <1>3
    <3> HIDE DEF p
    <3>2. p * PageSize \in Nat /\ (p + 1) * PageSize = p * PageSize + PageSize
      BY <3>1, PageArithmetic
    <3> QED BY <3>1, <3>2 DEF Offset, p
  <2> QED BY <1>4, <2>1, <2>2, <2>3, AuditAssumption DEF PageOf
<1>7. FetchInv(fetch[n])'
  BY <1>2, <1>3, <1>4, <1>5, <1>6 DEF FetchInv, Covered
<1>8. \A m \in Slots : FetchInv(fetch[m])'
  BY <1>2, <1>4, <1>7, OthersKeep
<1>9. \A t \in Tables : ShownInv(t)'
  BY <1>2 DEF IInv, ShownInv, Honest, Covered
<1> QED BY <1>1, <1>8, <1>9 DEF IInv

\* The number of rows, taken after the rows of the page: a row beyond the page
\* counts in it.
LEMMA CountKeeps == ASSUME IInv, NEW n \in Slots, CountRows(n) PROVE IInv'
<1> DEFINE f == fetch[n]
           s == log[f.table]
           g == fetch'[n]
<1>1. TypeOK /\ TypeOK'
  BY TypeInductive DEF IInv, Next
<1>2. UNCHANGED <<log, shown, seen>> /\ f.at = "listed"
  BY DEF CountRows
<1>3. f \in Listed /\ s \in Seq(Times) /\ f.page \in Nat \ {0} /\ f.table \in Tables
  BY <1>1, <1>2, RequestKinds DEF TypeOK, Listed
<1>4. /\ g.at = "counted" /\ g.table = f.table /\ g.page = f.page
      /\ g.rows = f.rows /\ g.owed = f.owed /\ g.total = Len(s)
      /\ \A m \in Slots \ {n} : fetch'[m] = fetch[m]
  BY <1>1 DEF CountRows, TypeOK
<1>5. f.owed \subseteq RowIds(s) /\ Covered(f.table, f.owed, seen[f.table] \cup f.rows, f.page)
  BY <1>2 DEF IInv, FetchInv
<1>6. ASSUME NEW i \in f.owed, i \notin seen[f.table] \cup f.rows PROVE Len(s) > f.page * PageSize
  <2>1. i \in RowIds(s)
    BY <1>5, <1>6
  <2>2. Rank(s, i) \in Nat /\ Rank(s, i) < Len(s)
    BY <1>3, <2>1, RankType
  <2>3. Rank(s, i) >= f.page * PageSize
    BY <1>5, <1>6 DEF Covered
  <2>4. f.page * PageSize \in Nat /\ Len(s) \in Nat
    BY <1>3, AuditAssumption
  <2> QED BY <2>2, <2>3, <2>4
<1>7. FetchInv(fetch[n])'
  BY <1>2, <1>3, <1>4, <1>5, <1>6 DEF FetchInv, Honest, Covered
<1>8. \A m \in Slots : FetchInv(fetch[m])'
  BY <1>2, <1>4, <1>7, OthersKeep
<1>9. \A t \in Tables : ShownInv(t)'
  BY <1>2 DEF IInv, ShownInv, Honest, Covered
<1> QED BY <1>1, <1>8, <1>9 DEF IInv

\* An answer that is shown adds its rows to what was shown.
LEMMA RenderKeeps == ASSUME IInv, NEW n \in Slots, Render(n) PROVE IInv'
<1> DEFINE f == fetch[n]
<1>1. TypeOK /\ TypeOK'
  BY TypeInductive DEF IInv, Next
<1>2. f \in Counted /\ f.table \in Tables /\ f.at = "counted"
  BY <1>1, RequestKinds DEF Render, Counted
<1>3. /\ log' = log /\ fetch'[n] = None
      /\ shown' = [shown EXCEPT ![f.table] = f]
      /\ seen' = [seen EXCEPT ![f.table] = @ \cup f.rows]
      /\ \A m \in Slots \ {n} : fetch'[m] = fetch[m]
  BY <1>1 DEF Render, TypeOK
<1>4. \A t \in Tables : seen[t] \subseteq seen'[t]
  BY <1>1, <1>3 DEF TypeOK
<1>5. FetchInv(fetch[n])'
  BY <1>3 DEF FetchInv, None
<1>6. \A m \in Slots : FetchInv(fetch[m])'
  BY <1>3, <1>4, <1>5, OthersKeep
<1>7. ASSUME NEW t \in Tables PROVE ShownInv(t)'
  <2>1. CASE t = f.table
    <3>1. shown'[t] = f /\ seen'[t] = seen[t] \cup f.rows
      BY <1>1, <1>2, <1>3, <2>1 DEF TypeOK
    <3>2. Honest(f, seen[t] \cup f.rows)
      BY <1>2, <2>1 DEF IInv, FetchInv
    <3> QED BY <1>2, <1>3, <2>1, <3>1, <3>2 DEF ShownInv, Honest, Covered
  <2>2. CASE t # f.table
    <3>1. shown'[t] = shown[t] /\ seen'[t] = seen[t]
      BY <1>1, <1>3, <2>2 DEF TypeOK
    <3>2. ShownInv(t)
      BY DEF IInv
    <3> QED BY <1>3, <3>1, <3>2 DEF ShownInv, Honest, Covered
  <2> QED BY <2>1, <2>2
<1> QED BY <1>1, <1>6, <1>7 DEF IInv

LEMMA LoseKeeps == ASSUME IInv, NEW n \in Slots, Lose(n) PROVE IInv'
<1>1. TypeOK /\ TypeOK'
  BY TypeInductive DEF IInv, Next
<1>2. UNCHANGED <<log, shown, seen>> /\ fetch'[n] = None /\ \A m \in Slots \ {n} : fetch'[m] = fetch[m]
  BY <1>1 DEF Lose, TypeOK
<1>3. FetchInv(fetch[n])'
  BY <1>2 DEF FetchInv, None
<1>4. \A m \in Slots : FetchInv(fetch[m])'
  BY <1>2, <1>3, OthersKeep
<1>5. \A t \in Tables : ShownInv(t)'
  BY <1>2 DEF IInv, ShownInv, Honest, Covered
<1> QED BY <1>1, <1>4, <1>5 DEF IInv

LEMMA InitInv == ASSUME Init PROVE IInv
<1>1. TypeOK
  BY DEF Init, TypeOK
<1>2. \A n \in Slots : FetchInv(fetch[n])
  BY DEF Init, FetchInv, None
<1>3. \A t \in Tables : ShownInv(t)
  BY DEF Init, ShownInv
<1> QED BY <1>1, <1>2, <1>3 DEF IInv

LEMMA NextInv == ASSUME IInv, [Next]_vars PROVE IInv'
<1>1. CASE Next
  BY <1>1, RecordKeeps, ButtonKeeps, ListKeeps, CountKeeps, RenderKeeps, LoseKeeps DEF Next
<1>2. CASE UNCHANGED vars
  <2>1. TypeOK'
    BY <1>2, TypeInductive DEF IInv
  <2> QED BY <1>2, <2>1 DEF vars, IInv, FetchInv, ShownInv, Honest, Covered
<1> QED BY <1>1, <1>2

-----------------------------------------------------------------------------
\* The variables keep their types.
THEOREM TypeCorrect == Spec => []TypeOK
<1>1. Init => TypeOK
  BY InitInv DEF IInv
<1>2. TypeOK /\ [Next]_vars => TypeOK'
  BY TypeInductive
<1> QED BY <1>1, <1>2, PTL DEF Spec

\* Leafing to a page without a next one shows every row that was there at the
\* start, for tables, pages and numbers of requests of any size.
THEOREM PagingIsComplete == Spec => []PagingComplete
<1>1. Init => IInv
  BY InitInv
<1>2. IInv /\ [Next]_vars => IInv'
  BY NextInv
<1>3. IInv => PagingComplete
  <2> SUFFICES ASSUME IInv, NEW t \in Tables, shown[t] # None, ~HasNext(shown[t])
               PROVE  shown[t].owed \subseteq seen[t]
    BY DEF PagingComplete
  <2>1. shown[t] \in Counted /\ Honest(shown[t], seen[t])
    BY DEF IInv, TypeOK, ShownInv
  <2>2. shown[t].total \in Nat /\ shown[t].page \in Nat /\ ~(shown[t].page < TotalPages(shown[t].total))
    BY <2>1 DEF Counted, HasNext
  <2>3. shown[t].total <= shown[t].page * PageSize /\ shown[t].page * PageSize \in Nat
    BY <2>2, LastPageReaches, AuditAssumption
  <2> QED BY <2>1, <2>2, <2>3 DEF Honest
<1> QED BY <1>1, <1>2, <1>3, PTL DEF Spec

-----------------------------------------------------------------------------
(* No empty page: ranks are distinct, so every rank below the number of    *)
(* rows is taken, the first one of a page among them.                      *)

LEMMA RanksDiffer ==
  ASSUME NEW s \in Seq(Times), NEW i \in RowIds(s), NEW j \in Before(s, i)
  PROVE  Rank(s, j) < Rank(s, i)
<1>1. Len(s) \in Nat /\ s \in [1 .. Len(s) -> Times] /\ i \in 1 .. Len(s) /\ j \in RowIds(s)
  BY DEF Before, RowIds
<1>2. s \in [1 .. Len(s) -> Int]
  BY <1>1, AuditAssumption
<1>3. Before(s, j) \subseteq Before(s, i) \ {j}
  <2> SUFFICES ASSUME NEW k \in Before(s, j) PROVE k \in Before(s, i) /\ k # j
    OBVIOUS
  <2>1. k \in RowIds(s) /\ k # j
    BY <1>1, RankType
  <2>2. s[i] \in Int /\ s[j] \in Int /\ s[k] \in Int /\ i \in Int /\ j \in Int /\ k \in Int
    BY <1>1, <1>2, <2>1 DEF RowIds
  <2> QED BY <2>1, <2>2 DEF Before
<1>4. IsFiniteSet(Before(s, i)) /\ Cardinality(Before(s, i)) \in Nat
  BY RankType DEF Rank
<1>5. IsFiniteSet(Before(s, i) \ {j}) /\ Cardinality(Before(s, i) \ {j}) = Cardinality(Before(s, i)) - 1
  BY <1>4, FS_RemoveElement
<1>6. Cardinality(Before(s, j)) <= Cardinality(Before(s, i) \ {j})
  BY <1>3, <1>5, FS_Subset
<1>7. Cardinality(Before(s, j)) \in Nat
  BY <1>1, RankType DEF Rank
<1> QED BY <1>4, <1>5, <1>6, <1>7 DEF Rank

LEMMA RankTaken ==
  ASSUME NEW s \in Seq(Times), NEW r \in Nat, r < Len(s)
  PROVE  \E i \in RowIds(s) : Rank(s, i) = r
<1> SUFFICES ASSUME \A i \in RowIds(s) : Rank(s, i) # r PROVE FALSE
  OBVIOUS
<1>1. Len(s) \in Nat /\ Len(s) - 1 \in Int /\ 0 \in Int /\ 1 \in Int
  OBVIOUS
<1>2. IsFiniteSet(RowIds(s)) /\ Cardinality(RowIds(s)) = Len(s)
  <2> HIDE DEF RowIds
  <2>1. IsFiniteSet(1 .. Len(s)) /\ Cardinality(1 .. Len(s)) = Len(s)
    BY <1>1, FS_Interval
  <2> QED BY <2>1 DEF RowIds
<1>3. IsFiniteSet(0 .. Len(s) - 1) /\ Cardinality(0 .. Len(s) - 1) = Len(s)
  <2> DEFINE m == Len(s) - 1
  <2>1. m \in Int /\ (0 > m \/ m - 0 + 1 = Len(s)) /\ (0 > m => Len(s) = 0)
    BY <1>1
  <2> HIDE DEF m
  <2>2. IsFiniteSet(0 .. m) /\ Cardinality(0 .. m) = IF 0 > m THEN 0 ELSE m - 0 + 1
    BY <1>1, <2>1, FS_Interval
  <2> QED BY <2>1, <2>2 DEF m
<1> DEFINE Ranks == (0 .. Len(s) - 1) \ {r}
           f == [i \in RowIds(s) |-> Rank(s, i)]
<1>4. IsFiniteSet(Ranks) /\ Cardinality(Ranks) = Len(s) - 1
  <2>1. r \in 0 .. Len(s) - 1
    BY <1>1
  <2> QED BY <1>3, <2>1, FS_RemoveElement
<1>5. f \in [RowIds(s) -> Ranks]
  <2> SUFFICES ASSUME NEW i \in RowIds(s) PROVE Rank(s, i) \in Ranks
    OBVIOUS
  <2>1. Rank(s, i) \in Nat /\ Rank(s, i) < Len(s) /\ Rank(s, i) # r
    BY RankType
  <2> QED BY <1>1, <2>1
<1>6. ASSUME NEW i \in RowIds(s), NEW j \in RowIds(s), i # j PROVE Rank(s, i) # Rank(s, j)
  <2>1. s \in [1 .. Len(s) -> Times] /\ i \in 1 .. Len(s) /\ j \in 1 .. Len(s)
    BY DEF RowIds
  <2>2. s[i] \in Times /\ s[j] \in Times
    BY <2>1
  <2> HIDE DEF f, Ranks
  <2>3. s[i] \in Int /\ s[j] \in Int
    BY <2>2, AuditAssumption
  <2>7. i \in Int /\ j \in Int
    BY <1>1, <2>1
  <2>4. j \in Before(s, i) \/ i \in Before(s, j)
    BY <1>6, <2>3, <2>7 DEF Before
  <2>5. Rank(s, i) \in Nat /\ Rank(s, j) \in Nat
    BY RankType
  <2>6. Rank(s, j) < Rank(s, i) \/ Rank(s, i) < Rank(s, j)
    BY <2>4, RanksDiffer
  <2> QED BY <2>5, <2>6
<1>7. \A i, j \in RowIds(s) : i # j => f[i] # f[j]
  BY <1>6
<1> HIDE DEF Ranks, f
<1>8. Cardinality(RowIds(s)) > Cardinality(Ranks)
  BY <1>1, <1>2, <1>4
<1>9. \E i, j \in RowIds(s) : i # j /\ f[i] = f[j]
  BY <1>2, <1>4, <1>5, <1>8, FS_PigeonHole
<1> QED BY <1>7, <1>9

LEMMA PageNotEmpty ==
  ASSUME NEW s \in Seq(Times), NEW page \in Nat \ {0}, Len(s) > Offset(page)
  PROVE  PageOf(s, page) # {}
<1>1. page - 1 \in Nat /\ PageSize \in Nat \ {0}
  BY AuditAssumption
<1>2. Offset(page) \in Nat
  BY <1>1 DEF Offset
<1>3. PICK i \in RowIds(s) : Rank(s, i) = Offset(page)
  BY <1>2, RankTaken
<1>4. Rank(s, i) \in Offset(page) .. Offset(page) + PageSize - 1
  BY <1>1, <1>2, <1>3
<1> QED BY <1>4 DEF PageOf

\* A page that has a next one does not reach the last row.
LEMMA NextPageReaches ==
  ASSUME NEW total \in Nat, NEW page \in Nat, page < TotalPages(total)
  PROVE  total > Offset(page + 1)
<1> USE AuditAssumption
<1> DEFINE x == total + PageSize - 1
           d == x \div PageSize
<1>1. x \in Nat
  OBVIOUS
<1>2. d \in Nat /\ PageSize * d <= x
  BY <1>1
<1>3. page + 1 <= d
  BY <1>2 DEF TotalPages
<1> HIDE DEF d
<1>4. (page + 1) * PageSize <= d * PageSize /\ d * PageSize = PageSize * d
  BY <1>2, <1>3, PageArithmetic
<1>5. (page + 1) * PageSize = page * PageSize + PageSize /\ page * PageSize \in Nat
  BY PageArithmetic
<1>6. page * PageSize + PageSize <= x
  BY <1>1, <1>2, <1>4, <1>5
<1>7. Offset(page + 1) = page * PageSize
  BY DEF Offset
<1> QED BY <1>5, <1>6, <1>7

-----------------------------------------------------------------------------
(* The invariant behind NoEmptyPage: a page is only asked for when there   *)
(* are rows on it, and there still are when it is read.                    *)

\* What is known of a request, or of an answer, for a page after the first, when
\* the tables are l.
Reached(a, l) ==
  a.at # "none" =>
    /\ a.page > 1 => Len(l[a.table]) > Offset(a.page)
    /\ a.at # "sent" /\ a.page > 1 => a.rows # {}
    /\ a.at = "counted" => a.total <= Len(l[a.table])

EInv ==
  /\ TypeOK
  /\ \A n \in Slots : Reached(fetch[n], log)
  /\ \A t \in Tables : shown[t] # None => shown[t].table = t /\ Reached(shown[t], log)

\* Pages are asked for in order.
LEMMA OffsetMonotone ==
  ASSUME NEW p \in Nat \ {0}, NEW q \in Nat \ {0}, p <= q
  PROVE  Offset(p) \in Nat /\ Offset(q) \in Nat /\ Offset(p) <= Offset(q)
<1> DEFINE u == p - 1
           v == q - 1
<1>1. u \in Nat /\ v \in Nat /\ u <= v
  OBVIOUS
<1> HIDE DEF u, v
<1>2. u * PageSize \in Nat /\ v * PageSize \in Nat /\ u * PageSize <= v * PageSize
  BY <1>1, PageArithmetic
<1> QED BY <1>2 DEF Offset, u, v

\* The lengths of the tables never fall.
LEMMA LogGrows ==
  ASSUME TypeOK, [Next]_vars, NEW t \in Tables
  PROVE  Len(log[t]) \in Nat /\ Len(log'[t]) \in Nat /\ Len(log'[t]) >= Len(log[t])
<1>1. log[t] \in Seq(Times)
  BY DEF TypeOK
<1>2. CASE log' = log
  BY <1>1, <1>2
<1>3. CASE \E u \in Tables : \E now \in Times : Record(u, now)
  <2>1. PICK u \in Tables, now \in Times : Record(u, now)
    BY <1>3
  <2>2. log'[t] = IF t = u THEN Append(log[t], now) ELSE log[t]
    BY <2>1 DEF Record, TypeOK
  <2> QED BY <1>1, <2>2
<1> QED
  BY <1>2, <1>3 DEF Next, vars, OpenTab, NextPage, PreviousPage, Ask, ListRows, CountRows, Render, Lose

\* A request or an answer that is not touched stays right.
LEMMA ReachedStays ==
  ASSUME NEW a \in {None} \cup Sent \cup Listed \cup Counted, NEW l, NEW k, Reached(a, l),
         \A t \in Tables : Len(l[t]) \in Nat /\ Len(k[t]) \in Nat /\ Len(k[t]) >= Len(l[t])
  PROVE  Reached(a, k)
<1>1. CASE a = None
  BY <1>1 DEF Reached, None
<1>2. CASE a \in Sent \cup Listed \cup Counted
  <2>1. a.table \in Tables /\ a.page \in Nat \ {0} /\ (a.at = "counted" => a.total \in Nat)
    BY <1>2 DEF Sent, Listed, Counted
  <2>2. Offset(a.page) \in Nat
    BY <2>1, OffsetMonotone
  <2> QED BY <2>1, <2>2 DEF Reached
<1> QED BY <1>1, <1>2

LEMMA UntouchedReached ==
  ASSUME EInv, [Next]_vars
  PROVE  /\ \A n \in Slots : Reached(fetch[n], log')
         /\ \A t \in Tables : shown[t] # None => Reached(shown[t], log')
<1>1. \A t \in Tables : Len(log[t]) \in Nat /\ Len(log'[t]) \in Nat /\ Len(log'[t]) >= Len(log[t])
  BY LogGrows DEF EInv
<1>2. ASSUME NEW n \in Slots PROVE Reached(fetch[n], log')
  <2>1. fetch[n] \in {None} \cup Sent \cup Listed \cup Counted /\ Reached(fetch[n], log)
    BY DEF EInv, TypeOK
  <2> QED BY <1>1, <2>1, ReachedStays
<1>3. ASSUME NEW t \in Tables, shown[t] # None PROVE Reached(shown[t], log')
  <2>1. shown[t] \in {None} \cup Sent \cup Listed \cup Counted /\ Reached(shown[t], log)
    BY <1>3 DEF EInv, TypeOK
  <2> QED BY <1>1, <2>1, ReachedStays
<1> QED BY <1>2, <1>3

\* One request changes and no answer: the request is what has to be looked at.
LEMMA OneRequest ==
  ASSUME EInv, [Next]_vars, shown' = shown, NEW n \in Slots, Reached(fetch'[n], log'),
         \A m \in Slots \ {n} : fetch'[m] = fetch[m]
  PROVE  EInv'
<1>1. TypeOK'
  BY TypeInductive DEF EInv
<1>2. \A m \in Slots : Reached(fetch'[m], log')
  BY UntouchedReached
<1>3. \A t \in Tables : shown'[t] # None => shown'[t].table = t /\ Reached(shown'[t], log')
  BY UntouchedReached DEF EInv
<1> QED BY <1>1, <1>2, <1>3 DEF EInv

\* The three buttons: a next page is only offered when there is a row on it, and
\* a previous one lies before rows that are there.
LEMMA AskReaches ==
  ASSUME EInv, NEW t \in Tables, NEW page, NEW owed, Ask(t, page, owed), [Next]_vars,
         page > 1 => Len(log[t]) > Offset(page)
  PROVE  EInv'
<1>1. PICK n \in Slots :
        /\ fetch' = [fetch EXCEPT ![n] = [at |-> "sent", table |-> t, page |-> page, owed |-> owed]]
        /\ UNCHANGED <<log, shown, seen>>
  BY DEF Ask
<1>2. /\ fetch'[n] = [at |-> "sent", table |-> t, page |-> page, owed |-> owed]
      /\ \A m \in Slots \ {n} : fetch'[m] = fetch[m]
  BY <1>1 DEF EInv, TypeOK
<1>3. Reached(fetch'[n], log')
  BY <1>1, <1>2 DEF Reached
<1> QED BY <1>1, <1>2, <1>3, OneRequest

LEMMA ButtonsReach ==
  ASSUME EInv, NEW t \in Tables, OpenTab(t) \/ NextPage(t) \/ PreviousPage(t)
  PROVE  EInv'
<1>1. [Next]_vars
  BY DEF Next
<1>2. CASE OpenTab(t)
  BY <1>1, <1>2, AskReaches DEF OpenTab
<1> DEFINE a == shown[t]
<1>3. ASSUME a.at = "counted"
      PROVE  /\ a.table = t /\ a.page \in Nat \ {0} /\ a.total \in Nat
             /\ a.total <= Len(log[t]) /\ Len(log[t]) \in Nat
             /\ a.page > 1 => Len(log[t]) > Offset(a.page)
  <2>1. a \in Counted
    BY <1>3 DEF EInv, TypeOK, None
  <2>2. a.table = t /\ Reached(a, log)
    BY <1>3 DEF EInv, None
  <2>3. log[t] \in Seq(Times)
    BY DEF EInv, TypeOK
  <2> QED BY <1>3, <2>1, <2>2, <2>3 DEF Counted, Reached
<1>4. CASE NextPage(t)
  <2>1. a.at = "counted" /\ a.page < TotalPages(a.total) /\ Ask(t, a.page + 1, a.owed)
    BY <1>4 DEF NextPage, HasNext
  <2>2. a.total > Offset(a.page + 1)
    BY <1>3, <2>1, NextPageReaches
  <2>3. Offset(a.page + 1) \in Nat
    BY <1>3, <2>1, OffsetMonotone
  <2>4. Len(log[t]) > Offset(a.page + 1)
    BY <1>3, <2>1, <2>2, <2>3
  <2> QED BY <1>1, <2>1, <2>4, AskReaches
<1>5. CASE PreviousPage(t)
  <2>1. a.at = "counted" /\ a.page > 1 /\ Ask(t, a.page - 1, a.owed)
    BY <1>5 DEF PreviousPage, HasPrevious
  <2>2. a.page - 1 \in Nat \ {0} /\ a.page - 1 <= a.page
    BY <1>3, <2>1
  <2>3. Offset(a.page - 1) \in Nat /\ Offset(a.page) \in Nat /\ Offset(a.page - 1) <= Offset(a.page)
    BY <1>3, <2>1, <2>2, OffsetMonotone
  <2>4. Len(log[t]) > Offset(a.page - 1)
    BY <1>3, <2>1, <2>3
  <2> QED BY <1>1, <2>1, <2>4, AskReaches
<1> QED BY <1>2, <1>4, <1>5

\* Reading the rows, counting them, losing a request and showing an answer.
LEMMA ServiceReaches ==
  ASSUME EInv, NEW n \in Slots, ListRows(n) \/ CountRows(n) \/ Lose(n) \/ Render(n)
  PROVE  EInv'
<1> DEFINE f == fetch[n]
           s == log[f.table]
<1>1. [Next]_vars /\ TypeOK /\ Reached(f, log)
  BY DEF Next, EInv
<1>2. CASE ListRows(n)
  <2>1. f \in Sent /\ s \in Seq(Times) /\ f.page \in Nat \ {0} /\ f.at = "sent"
    BY <1>1, <1>2, RequestKinds DEF ListRows, TypeOK, Sent
  <2>2. /\ UNCHANGED <<log, shown>>
        /\ fetch'[n].at = "listed" /\ fetch'[n].table = f.table /\ fetch'[n].page = f.page
        /\ fetch'[n].rows = PageOf(s, f.page)
        /\ \A m \in Slots \ {n} : fetch'[m] = fetch[m]
    BY <1>1, <1>2 DEF ListRows, TypeOK
  <2>3. f.page > 1 => Len(s) > Offset(f.page)
    BY <1>1, <2>1 DEF Reached
  <2>4. f.page > 1 => PageOf(s, f.page) # {}
    BY <2>1, <2>3, PageNotEmpty
  <2>5. Reached(fetch'[n], log')
    BY <2>2, <2>3, <2>4 DEF Reached
  <2> QED BY <1>1, <2>2, <2>5, OneRequest
<1>3. CASE CountRows(n)
  <2>1. f \in Listed /\ s \in Seq(Times) /\ f.at = "listed"
    BY <1>1, <1>3, RequestKinds DEF CountRows, TypeOK, Listed
  <2>2. /\ UNCHANGED <<log, shown>>
        /\ fetch'[n].at = "counted" /\ fetch'[n].table = f.table /\ fetch'[n].page = f.page
        /\ fetch'[n].rows = f.rows /\ fetch'[n].total = Len(s)
        /\ \A m \in Slots \ {n} : fetch'[m] = fetch[m]
    BY <1>1, <1>3 DEF CountRows, TypeOK
  <2>3. Len(s) \in Nat /\ (f.page > 1 => Len(s) > Offset(f.page) /\ f.rows # {})
    BY <1>1, <2>1 DEF Reached
  <2>4. Reached(fetch'[n], log')
    BY <2>2, <2>3 DEF Reached
  <2> QED BY <1>1, <2>2, <2>4, OneRequest
<1>4. CASE Lose(n)
  <2>1. /\ UNCHANGED <<log, shown>> /\ fetch'[n] = None
        /\ \A m \in Slots \ {n} : fetch'[m] = fetch[m]
    BY <1>1, <1>4 DEF Lose, TypeOK
  <2>2. Reached(fetch'[n], log')
    BY <2>1 DEF Reached, None
  <2> QED BY <1>1, <2>1, <2>2, OneRequest
<1>5. CASE Render(n)
  <2>1. f \in Counted /\ f.table \in Tables
    BY <1>1, <1>5, RequestKinds DEF Render, Counted
  <2>2. /\ log' = log /\ shown' = [shown EXCEPT ![f.table] = f]
        /\ \A m \in Slots : fetch'[m] = fetch[m] \/ fetch'[m] = None
    BY <1>1, <1>5 DEF Render, TypeOK
  <2>3. \A m \in Slots : Reached(fetch'[m], log')
    BY <2>2 DEF EInv, Reached, None
  <2>4. \A t \in Tables : shown'[t] = IF t = f.table THEN f ELSE shown[t]
    BY <1>1, <2>2 DEF TypeOK
  <2>5. \A t \in Tables : shown'[t] # None => shown'[t].table = t /\ Reached(shown'[t], log')
    BY <1>1, <2>2, <2>4 DEF EInv
  <2>6. TypeOK'
    BY <1>1, TypeInductive
  <2> QED BY <2>3, <2>5, <2>6 DEF EInv
<1> QED BY <1>2, <1>3, <1>4, <1>5

\* The rows of a table are only added to, so nothing known is undone.
LEMMA RecordReaches ==
  ASSUME EInv, [Next]_vars, UNCHANGED <<fetch, shown>> PROVE EInv'
<1>1. TypeOK'
  BY TypeInductive DEF EInv
<1>2. \A n \in Slots : Reached(fetch'[n], log')
  BY UntouchedReached
<1>3. \A t \in Tables : shown'[t] # None => shown'[t].table = t /\ Reached(shown'[t], log')
  BY UntouchedReached DEF EInv
<1> QED BY <1>1, <1>2, <1>3 DEF EInv

\* The buttons never lead to an empty page, for tables, pages and numbers of
\* requests of any size.
THEOREM NoEmptyPages == Spec => []NoEmptyPage
<1>1. Init => EInv
  <2> SUFFICES ASSUME Init PROVE EInv
    OBVIOUS
  <2>1. TypeOK
    BY InitInv DEF IInv
  <2> QED BY <2>1 DEF Init, EInv, Reached, None
<1>2. EInv /\ [Next]_vars => EInv'
  <2> SUFFICES ASSUME EInv, [Next]_vars PROVE EInv'
    OBVIOUS
  <2>1. CASE \E t \in Tables : \E now \in Times : Record(t, now)
    BY <2>1, RecordReaches DEF Record
  <2>2. CASE \E t \in Tables : OpenTab(t) \/ NextPage(t) \/ PreviousPage(t)
    BY <2>2, ButtonsReach
  <2>3. CASE \E n \in Slots : ListRows(n) \/ CountRows(n) \/ Render(n) \/ Lose(n)
    BY <2>3, ServiceReaches
  <2>4. CASE UNCHANGED vars
    BY <2>4, RecordReaches DEF vars
  <2> QED BY <2>1, <2>2, <2>3, <2>4 DEF Next
<1>3. EInv => NoEmptyPage
  <2> SUFFICES ASSUME EInv, NEW t \in Tables, shown[t] # None, shown[t].page > 1
               PROVE  shown[t].rows # {}
    BY DEF NoEmptyPage
  <2>1. shown[t] \in Counted /\ Reached(shown[t], log)
    BY DEF EInv, TypeOK
  <2> QED BY <2>1 DEF Counted, Reached
<1> QED BY <1>1, <1>2, <1>3, PTL DEF Spec
=============================================================================
