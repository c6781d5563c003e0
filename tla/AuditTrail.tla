----------------------------- MODULE AuditTrail -----------------------------
(***************************************************************************)
(* The audit trail: the tables action_logs, auth_attempts and stream_views *)
(* (db.go), to which every handler adds rows and from which none is ever   *)
(* removed, and the administrator's page that leafs through them           *)
(* (admin_handler.go, www/admin.html).                                     *)
(*                                                                         *)
(* A page of a table is the answer to two statements: the rows, ordered by *)
(* time and cut with LIMIT and OFFSET, and then their number, from which   *)
(* the buttons are made.  Rows are added before, between and after them,   *)
(* and between one page and the next.  The time of a row is the local      *)
(* clock in whole seconds: rows share it, and it can run backwards.        *)
(*                                                                         *)
(* A row is its number in its table (the AUTOINCREMENT id); a table is the *)
(* sequence of the times of its rows.  The three tables are read by the    *)
(* same code three times over.  What a tab holds counts as shown, for a    *)
(* tab is filled whether it is the one in front or not.                    *)
(***************************************************************************)
EXTENDS Integers, Sequences, FiniteSets

CONSTANTS
  Tables,     \* the tables that have a tab on the page
  Times,      \* what the clock may show
  PageSize,   \* rows of a page (50)
  MaxRows,    \* bound on the rows of a table
  MaxFetches  \* bound on the fetches under way

ASSUME AuditAssumption ==
  /\ Times \subseteq Int
  /\ PageSize \in Nat \ {0}
  /\ MaxRows \in Nat /\ MaxFetches \in Nat

VARIABLES
  log,    \* table -> the times of its rows
  fetch,  \* the requests of the page that are under way, by number
  shown,  \* table -> the answer its tab shows
  seen    \* history: table -> the rows its tab has shown

vars == <<log, fetch, shown, seen>>

Slots == 1 .. MaxFetches
RowIds(s) == 1 .. Len(s)

\* `owed' of a request and of its answer is a history: the rows there were when
\* the first page, from which the reader came here, was read.
None == [at |-> "none"]
Sent == [at : {"sent"}, table : Tables, page : Nat \ {0}, owed : SUBSET Nat]
Listed == [at : {"listed"}, table : Tables, page : Nat \ {0}, owed : SUBSET Nat, rows : SUBSET Nat]
Counted == [at : {"counted"}, table : Tables, page : Nat \ {0}, owed : SUBSET Nat,
            rows : SUBSET Nat, total : Nat]

TypeOK ==
  /\ log \in [Tables -> Seq(Times)]
  /\ fetch \in [Slots -> {None} \cup Sent \cup Listed \cup Counted]
  /\ shown \in [Tables -> {None} \cup Counted]
  /\ seen \in [Tables -> SUBSET Nat]

-----------------------------------------------------------------------------
(* The two statements of a page.                                           *)

\* ORDER BY created_at DESC: of two rows with one time the later comes first, for
\* the index on the time is read backwards.
Before(s, i) == {j \in RowIds(s) : s[j] > s[i] \/ (s[j] = s[i] /\ j > i)}
Rank(s, i) == Cardinality(Before(s, i))

Offset(page) == (page - 1) * PageSize

\* LIMIT ? OFFSET ?
PageOf(s, page) == {i \in RowIds(s) : Rank(s, i) \in Offset(page) .. Offset(page) + PageSize - 1}

\* A page too many (for a mutant).
TotalPagesFloor(total) == total \div PageSize + 1

\* renderPager: Math.ceil(total / pageSize).
TotalPages(total) == (total + PageSize - 1) \div PageSize

HasNext(a) == a.at = "counted" /\ a.page < TotalPages(a.total)
HasPrevious(a) == a.at = "counted" /\ TotalPages(a.total) > 1 /\ a.page > 1

-----------------------------------------------------------------------------
Init ==
  /\ log = [t \in Tables |-> <<>>]
  /\ fetch = [n \in Slots |-> None]
  /\ shown = [t \in Tables |-> None]
  /\ seen = [t \in Tables |-> {}]

\* RecordAction, RecordAuthAttempt, RecordStreamView: one row, by any handler.
Record(t, now) ==
  /\ Len(log[t]) < MaxRows                    \* bound of the model
  /\ log' = [log EXCEPT ![t] = Append(@, now)]
  /\ UNCHANGED <<fetch, shown, seen>>

Ask(t, page, owed) ==
  /\ \E n \in Slots :
       /\ fetch[n] = None
       /\ fetch' = [fetch EXCEPT ![n] = [at |-> "sent", table |-> t, page |-> page, owed |-> owed]]
  /\ UNCHANGED <<log, shown, seen>>

\* switchTab: the first page.
OpenTab(t) == Ask(t, 1, {})

\* The buttons of the answer shown.
NextPage(t) == HasNext(shown[t]) /\ Ask(t, shown[t].page + 1, shown[t].owed)

PreviousPage(t) == HasPrevious(shown[t]) /\ Ask(t, shown[t].page - 1, shown[t].owed)

\* HandleAdminVisitors and its two likes, first statement: RecentActions.
ListRows(n) ==
  /\ fetch[n].at = "sent"
  /\ LET f == fetch[n]
         s == log[f.table]
     IN fetch' = [fetch EXCEPT ![n] =
                    [at |-> "listed", table |-> f.table, page |-> f.page,
                     owed |-> IF f.page = 1 THEN RowIds(s) ELSE f.owed,
                     rows |-> PageOf(s, f.page)]]
  /\ UNCHANGED <<log, shown, seen>>

\* The number of rows, unless it was taken with the first page (for a mutant).
CountRowsOnce(n) ==
  /\ fetch[n].at = "listed"
  /\ LET f == fetch[n]
         total == IF shown[f.table].at = "counted" THEN shown[f.table].total ELSE Len(log[f.table])
     IN fetch' = [fetch EXCEPT ![n] =
                    [at |-> "counted", table |-> f.table, page |-> f.page,
                     owed |-> f.owed, rows |-> f.rows, total |-> total]]
  /\ UNCHANGED <<log, shown, seen>>

\* Second statement: CountActions.
CountRows(n) ==
  /\ fetch[n].at = "listed"
  /\ LET f == fetch[n]
     IN fetch' = [fetch EXCEPT ![n] =
                    [at |-> "counted", table |-> f.table, page |-> f.page,
                     owed |-> f.owed, rows |-> f.rows, total |-> Len(log[f.table])]]
  /\ UNCHANGED <<log, shown, seen>>

\* loadVisitors, the answer: rows and buttons are replaced, by whichever answer
\* comes last.
Render(n) ==
  /\ fetch[n].at = "counted"
  /\ LET f == fetch[n]
     IN /\ shown' = [shown EXCEPT ![f.table] = f]
        /\ seen' = [seen EXCEPT ![f.table] = @ \cup f.rows]
  /\ fetch' = [fetch EXCEPT ![n] = None]
  /\ UNCHANGED log

\* The request or the answer is lost, or refused.
Lose(n) ==
  /\ fetch[n] # None
  /\ fetch' = [fetch EXCEPT ![n] = None]
  /\ UNCHANGED <<log, shown, seen>>

Next ==
  \/ \E t \in Tables : \E now \in Times : Record(t, now)
  \/ \E t \in Tables : OpenTab(t) \/ NextPage(t) \/ PreviousPage(t)
  \/ \E n \in Slots : ListRows(n) \/ CountRows(n) \/ Render(n) \/ Lose(n)

Spec == Init /\ [][Next]_vars

-----------------------------------------------------------------------------
\* Whoever leafs from the first page to one that has no next has been shown every
\* row there was when the first page was read, although rows are added between the
\* pages and between the two statements of a page, the clock runs backwards, and
\* answers overtake each other (admin_handler.go:21-40, db.go:351).
PagingComplete ==
  \A t \in Tables :
    shown[t] # None /\ ~HasNext(shown[t]) => shown[t].owed \subseteq seen[t]

\* The buttons never lead to an empty page (admin.html:545).
NoEmptyPage ==
  \A t \in Tables : shown[t] # None /\ shown[t].page > 1 => shown[t].rows # {}

\* No row is shown on two pages of one answer's way through the table: refuted, a
\* row added between two pages pushes the last of the first onto the second.
PagesDisjoint ==
  [][\A n \in Slots : Render(n) =>
       LET s == shown[fetch[n].table] IN
       s # None /\ s.page # fetch[n].page => s.rows \cap fetch[n].rows = {}]_vars
=============================================================================
