--------------------------- MODULE DiceRoom_proofs ---------------------------
(***************************************************************************)
(* Proofs about DiceRoom, for any number of pages, rooms, rolls and        *)
(* fetches under way, with lost messages or without.                       *)
(***************************************************************************)
EXTENDS DiceRoom, FiniteSetTheorems, WellFoundedInduction, TLAPS

-----------------------------------------------------------------------------
(* What Min and Max of the library find.                                   *)

\* A set of numbers has a smallest element.
LEMMA MinOf ==
  ASSUME NEW S \in SUBSET Nat, S # {}
  PROVE  Min(S) \in S /\ \A y \in S : Min(S) <= y
<1>1. PICK x \in S : \A y \in S : ~ (<<y, x>> \in OpToRel(<, Nat))
  BY NatLessThanWellFounded, WFMin
<1>2. \A y \in S : x <= y
  <2> SUFFICES ASSUME NEW y \in S, ~(x <= y) PROVE FALSE
    OBVIOUS
  <2>1. x \in Nat /\ y \in Nat /\ y < x
    OBVIOUS
  <2> QED BY <1>1, <2>1 DEF OpToRel
<1> QED BY <1>2 DEF Min

\* A set of numbers up to n has a largest one: the distance to n is smallest there.
LEMMA MaxOf ==
  ASSUME NEW n \in Nat, NEW S \in SUBSET (0 .. n), S # {}
  PROVE  Max(S) \in S /\ \A y \in S : Max(S) >= y
<1> DEFINE T == {n - y : y \in S}
<1>1. \A y \in S : y \in Nat /\ n - y \in Nat /\ n - y \in T
  OBVIOUS
<1>2. T \in SUBSET Nat
  BY <1>1
<1>3. T # {}
  BY <1>1
<1> HIDE DEF T
<1>4. Min(T) \in T /\ \A t \in T : Min(T) <= t
  BY <1>2, <1>3, MinOf
<1>5. PICK x \in S : Min(T) = n - x
  BY <1>4 DEF T
<1>6. ASSUME NEW y \in S PROVE x >= y
  <2>1. n - x <= n - y
    BY <1>1, <1>4, <1>5
  <2> QED BY <1>1, <2>1
<1> QED BY <1>6 DEF Max

-----------------------------------------------------------------------------
(* The k-th newest of some rolls.                                          *)

Newer(S, i) == {j \in S : j >= i}

LEMMA NewerType ==
  ASSUME NEW S \in SUBSET Ids, NEW i \in S
  PROVE  /\ IsFiniteSet(S) /\ Cardinality(S) \in Nat
         /\ IsFiniteSet(Newer(S, i)) /\ Cardinality(Newer(S, i)) \in 1 .. Cardinality(S)
<1>1. IsFiniteSet(S)
  BY DiceRoomAssumption, FS_BoundedSetOfNaturals DEF Ids
<1>2. IsFiniteSet(Newer(S, i)) /\ Cardinality(Newer(S, i)) <= Cardinality(S)
  BY <1>1, FS_Subset DEF Newer
<1>3. i \in Newer(S, i)
  BY DEF Newer, Ids
<1>4. Cardinality(Newer(S, i)) # 0
  BY <1>2, <1>3, FS_EmptySet
<1>5. Cardinality(S) \in Nat /\ Cardinality(Newer(S, i)) \in Nat
  BY <1>1, <1>2, FS_CardinalityType
<1> QED BY <1>1, <1>2, <1>4, <1>5

\* Of two rolls the older has more that are not older.
LEMMA NewerDiffer ==
  ASSUME NEW S \in SUBSET Ids, NEW i \in S, NEW j \in S, i # j
  PROVE  Cardinality(Newer(S, i)) # Cardinality(Newer(S, j))
<1>1. ASSUME NEW a \in S, NEW b \in S, a < b
      PROVE  Cardinality(Newer(S, b)) # Cardinality(Newer(S, a))
  <2>1. Newer(S, b) \subseteq Newer(S, a) /\ a \in Newer(S, a) /\ a \notin Newer(S, b)
    <3>1. a \in Int /\ b \in Int /\ \A x \in S : x \in Int
      BY DEF Ids
    <3>2. \A x \in S : x >= b => x >= a
      BY <1>1, <3>1
    <3>3. a >= a /\ ~(a >= b)
      BY <1>1, <3>1
    <3> QED BY <3>2, <3>3 DEF Newer
  <2>2. IsFiniteSet(Newer(S, a))
    BY NewerType
  <2> QED BY <2>1, <2>2, FS_Subset
<1>2. i < j \/ j < i
  BY DEF Ids
<1> QED BY <1>1, <1>2

\* There is a k-th newest roll, whatever the rolls are.
LEMMA KthNewest ==
  ASSUME NEW S \in SUBSET Ids, NEW k \in 1 .. Cardinality(S)
  PROVE  \E i \in S : Cardinality({j \in S : j >= i}) = k
<1> SUFFICES ASSUME \A i \in S : Cardinality(Newer(S, i)) # k PROVE FALSE
  BY DEF Newer
<1>1. IsFiniteSet(S)
  BY DiceRoomAssumption, FS_BoundedSetOfNaturals DEF Ids
<1> DEFINE c == Cardinality(S)
           Places == (1 .. c) \ {k}
           f == [i \in S |-> Cardinality(Newer(S, i))]
<1>2. c \in Nat
  BY <1>1, FS_CardinalityType
<1>3. IsFiniteSet(1 .. c) /\ Cardinality(1 .. c) = c
  <2> HIDE DEF c
  <2>1. Cardinality(1 .. c) = IF 1 > c THEN 0 ELSE c - 1 + 1
    BY <1>2, FS_Interval
  <2> QED BY <1>2, <2>1, FS_Interval
<1>4. IsFiniteSet(Places) /\ Cardinality(Places) = c - 1
  BY <1>3, FS_RemoveElement
<1>5. f \in [S -> Places]
  BY NewerType
<1>6. \A i, j \in S : i # j => f[i] # f[j]
  BY NewerDiffer
<1> HIDE DEF c, Places, f
<1>7. Cardinality(Places) < Cardinality(S)
  BY <1>2, <1>4 DEF c
<1> QED BY <1>1, <1>4, <1>5, <1>6, <1>7, FS_PigeonHole

-----------------------------------------------------------------------------
(* Lists of rolls.                                                         *)

Distinct(l) == \A i, j \in DOMAIN l : l[i] = l[j] => i = j
Within(l, S) == \A i \in DOMAIN l : l[i] \in S

\* One list on top of another that it has no roll of.
LEMMA OnTop ==
  ASSUME NEW l \in Seq(Ids), NEW m \in Seq(Ids), NEW S, NEW R,
         Distinct(l), Distinct(m), Within(l, R), Within(m, S), R \cap S = {}
  PROVE  l \o m \in Seq(Ids) /\ Distinct(l \o m) /\ Within(l \o m, R \cup S)
<1> DEFINE lm == l \o m
<1>1. lm \in Seq(Ids) /\ Len(l) \in Nat /\ Len(m) \in Nat /\ Len(lm) = Len(l) + Len(m)
  OBVIOUS
<1>2. /\ DOMAIN l = 1 .. Len(l) /\ DOMAIN m = 1 .. Len(m) /\ DOMAIN lm = 1 .. Len(lm)
      /\ \A i \in 1 .. Len(lm) : lm[i] = IF i <= Len(l) THEN l[i] ELSE m[i - Len(l)]
  BY <1>1
<1> HIDE DEF lm
<1>3. ASSUME NEW i \in DOMAIN lm
      PROVE  \/ i \in DOMAIN l /\ lm[i] = l[i]
             \/ i - Len(l) \in DOMAIN m /\ lm[i] = m[i - Len(l)]
  BY <1>1, <1>2
<1>4. Within(lm, R \cup S)
  BY <1>3 DEF Within
<1>5. ASSUME NEW i \in DOMAIN lm, NEW j \in DOMAIN lm, lm[i] = lm[j] PROVE i = j
  <2>1. i \in Int /\ j \in Int
    BY <1>2
  <2>2. CASE i \in DOMAIN l /\ lm[i] = l[i] /\ j \in DOMAIN l /\ lm[j] = l[j]
    BY <1>5, <2>2 DEF Distinct
  <2>3. CASE i - Len(l) \in DOMAIN m /\ lm[i] = m[i - Len(l)] /\ j - Len(l) \in DOMAIN m /\ lm[j] = m[j - Len(l)]
    <3>1. i - Len(l) = j - Len(l)
      BY <1>5, <2>3 DEF Distinct
    <3> QED BY <1>1, <2>1, <3>1
  <2>4. CASE i \in DOMAIN l /\ lm[i] = l[i] /\ j - Len(l) \in DOMAIN m /\ lm[j] = m[j - Len(l)]
    BY <1>5, <2>4 DEF Within
  <2>5. CASE j \in DOMAIN l /\ lm[j] = l[j] /\ i - Len(l) \in DOMAIN m /\ lm[i] = m[i - Len(l)]
    BY <1>5, <2>5 DEF Within
  <2> QED BY <1>3, <2>2, <2>3, <2>4, <2>5
<1> QED BY <1>1, <1>4, <1>5 DEF Distinct, lm

LEMMA Joined ==
  ASSUME NEW a \in Seq(Ids), NEW b \in Seq(Ids)
  PROVE  /\ a \o b \in Seq(Ids) /\ Len(a \o b) = Len(a) + Len(b)
         /\ DOMAIN (a \o b) = 1 .. Len(a) + Len(b)
         /\ \A i \in 1 .. Len(a) + Len(b) :
              (a \o b)[i] = IF i <= Len(a) THEN a[i] ELSE b[i - Len(a)]
OBVIOUS

\* A roll taken out is gone, and the others stay.
LEMMA TakenOut ==
  ASSUME NEW l \in Seq(Ids), NEW id \in Ids, NEW S, Distinct(l), Within(l, S)
  PROVE  LET m == RemoveFirst(l, id)
         IN m \in Seq(Ids) /\ Distinct(m) /\ Within(m, S \ {id})
<1> DEFINE m == RemoveFirst(l, id)
           hits == {i \in 1 .. Len(l) : l[i] = id}
<1>1. Len(l) \in Nat /\ DOMAIN l = 1 .. Len(l) /\ l \in [1 .. Len(l) -> Ids]
  OBVIOUS
<1>2. CASE hits = {}
  <2>1. m = l
    BY <1>2 DEF RemoveFirst
  <2> QED BY <1>1, <1>2, <2>1 DEF Within
<1>3. CASE hits # {}
  <2> DEFINE k == Min(hits)
  <2>1. hits \in SUBSET Nat
    OBVIOUS
  <2>2. k \in hits
    BY <1>3, <2>1, MinOf
  <2>3. m = SubSeq(l, 1, k - 1) \o SubSeq(l, k + 1, Len(l))
    BY <1>3 DEF RemoveFirst, RemoveAt, SelectInSeq
  <2> HIDE DEF m, hits, k
  <2>4. k \in 1 .. Len(l) /\ l[k] = id
    BY <2>2 DEF hits
  <2> DEFINE a == SubSeq(l, 1, k - 1)
             b == SubSeq(l, k + 1, Len(l))
  <2>5. a \in Seq(Ids) /\ Len(a) = k - 1 /\ \A i \in 1 .. k - 1 : a[i] = l[i]
    BY <1>1, <2>4
  <2>6. b \in Seq(Ids) /\ Len(b) = Len(l) - k /\ \A i \in 1 .. Len(l) - k : b[i] = l[k + i]
    BY <1>1, <2>4
  <2>m. m = a \o b
    BY <2>3
  <2> HIDE DEF a, b
  <2>7. m \in Seq(Ids) /\ Len(m) = Len(l) - 1 /\ DOMAIN m = 1 .. Len(l) - 1
    <3>1. m \in Seq(Ids) /\ Len(m) = Len(a) + Len(b) /\ DOMAIN m = 1 .. Len(a) + Len(b)
      BY <2>m, <2>5, <2>6, Joined
    <3>2. Len(a) + Len(b) = Len(l) - 1
      BY <1>1, <2>4, <2>5, <2>6
    <3> QED BY <3>1, <3>2
  <2>8. ASSUME NEW i \in 1 .. Len(l) - 1
        PROVE  m[i] = IF i < k THEN l[i] ELSE l[i + 1]
    <3>1. Len(a) = k - 1 /\ Len(b) = Len(l) - k /\ k \in 1 .. Len(l) /\ i \in 1 .. Len(a) + Len(b)
      BY <1>1, <2>4, <2>5, <2>6
    <3>2. m[i] = IF i <= Len(a) THEN a[i] ELSE b[i - Len(a)]
      BY <2>m, <2>5, <2>6, <3>1, Joined
    <3>3. CASE i < k
      <4>1. i <= Len(a) /\ i \in 1 .. k - 1
        BY <1>1, <3>1, <3>3
      <4> QED BY <2>5, <3>2, <3>3, <4>1
    <3>4. CASE ~(i < k)
      <4>1. /\ ~(i <= Len(a)) /\ i - Len(a) \in 1 .. Len(l) - k
            /\ k + (i - Len(a)) = i + 1
        BY <1>1, <3>1, <3>4
      <4>2. b[i - Len(a)] = l[k + (i - Len(a))]
        BY <2>6, <4>1
      <4> QED BY <3>2, <3>4, <4>1, <4>2
    <3> QED BY <3>3, <3>4
  <2> DEFINE back(i) == IF i < k THEN i ELSE i + 1
  <2>9. \A i \in DOMAIN m : back(i) \in DOMAIN l /\ back(i) # k /\ m[i] = l[back(i)]
    BY <1>1, <2>4, <2>7, <2>8
  <2>10. \A i, j \in DOMAIN m : back(i) = back(j) => i = j
    BY <1>1, <2>4, <2>7
  <2> HIDE DEF back
  <2>11. Distinct(m)
    BY <2>9, <2>10 DEF Distinct
  <2>12. Within(m, S \ {id})
    BY <1>1, <2>4, <2>9 DEF Within, Distinct
  <2> QED BY <2>7, <2>11, <2>12 DEF m
<1> QED BY <1>2, <1>3

-----------------------------------------------------------------------------
(* Pages, fetches and actions.                                             *)

PageType == [room : Rooms, cursor : 0 .. MaxId, list : Seq(Ids), seen : SUBSET Ids]

\* What a page shows it shows once, and takes for shown.
Tidy(g) == Distinct(g.list) /\ Within(g.list, g.seen)

\* What does not depend on the actions under way: also the proof of RoomLogged
\* needs the types alone.
IInv == TypeOK /\ \A p \in Pages : Tidy(page[p])

LEMMA PageEmptied ==
  ASSUME NEW room \in Rooms
  PROVE  EmptyAt(room) \in PageType /\ Tidy(EmptyAt(room))
<1>1. <<>> \in Seq(Ids) /\ DOMAIN <<>> = {}
  OBVIOUS
<1> QED BY <1>1, DiceRoomAssumption DEF EmptyAt, PageType, Tidy, Distinct, Within

LEMMA PageAppended ==
  ASSUME NEW g \in PageType, Tidy(g), NEW id \in Ids
  PROVE  Appended(g, id) \in PageType /\ Tidy(Appended(g, id))
<1>1. CASE id \in g.seen
  BY <1>1 DEF Appended
<1>2. CASE id \notin g.seen
  <2> DEFINE l == <<id>>
  <2>1. l \in Seq(Ids) /\ DOMAIN l = {1} /\ l[1] = id
    OBVIOUS
  <2>2. Distinct(l) /\ Within(l, {id})
    BY <2>1 DEF Distinct, Within
  <2> HIDE DEF l
  <2>3. g.list \in Seq(Ids) /\ g.seen \in SUBSET Ids
    BY DEF PageType
  <2>4. /\ l \o g.list \in Seq(Ids) /\ Distinct(l \o g.list)
        /\ Within(l \o g.list, {id} \cup g.seen)
    BY <1>2, <2>1, <2>2, <2>3, OnTop DEF Tidy
  <2>5. Appended(g, id) = [g EXCEPT !.list = l \o g.list, !.seen = g.seen \cup {id}]
    BY <1>2 DEF Appended, l
  <2>6. g.seen \cup {id} = {id} \cup g.seen
    OBVIOUS
  <2> QED BY <2>3, <2>4, <2>5, <2>6 DEF PageType, Tidy
<1> QED BY <1>1, <1>2

LEMMA PagePrepended ==
  ASSUME NEW g \in PageType, Tidy(g), NEW ids \in SUBSET Ids
  PROVE  Prepended(g, ids) \in PageType /\ Tidy(Prepended(g, ids))
<1> DEFINE new == ids \ g.seen
           rank(i) == Cardinality({j \in new : j >= i})
           kth(k) == CHOOSE i \in new : rank(i) = k
           l == [k \in 1 .. Cardinality(new) |-> kth(k)]
<1>1. new \in SUBSET Ids /\ g.list \in Seq(Ids) /\ g.seen \in SUBSET Ids
  BY DEF PageType
<1>2. Cardinality(new) \in Nat
  BY <1>1, DiceRoomAssumption, FS_BoundedSetOfNaturals, FS_CardinalityType DEF Ids
<1>3. \A k \in 1 .. Cardinality(new) : kth(k) \in new /\ rank(kth(k)) = k
  <2> TAKE k \in 1 .. Cardinality(new)
  <2>1. \E i \in new : rank(i) = k
    <3> HIDE DEF new
    <3> QED BY <1>1, KthNewest
  <2> HIDE DEF new, rank
  <2> QED BY <2>1
<1>4. Prepended(g, ids) = [g EXCEPT !.list = l \o g.list, !.seen = g.seen \cup ids]
  BY DEF Prepended
<1>5. new \cap g.seen = {} /\ new \cup g.seen = g.seen \cup ids
  OBVIOUS
<1> HIDE DEF new, rank, kth
<1>6. l \in Seq(Ids) /\ DOMAIN l = 1 .. Cardinality(new)
  BY <1>1, <1>2, <1>3
<1>7. Distinct(l) /\ Within(l, new)
  BY <1>3, <1>6 DEF Distinct, Within
<1> HIDE DEF l
<1>8. /\ l \o g.list \in Seq(Ids) /\ Distinct(l \o g.list)
      /\ Within(l \o g.list, new \cup g.seen)
  BY <1>1, <1>5, <1>6, <1>7, OnTop DEF Tidy
<1> QED BY <1>1, <1>4, <1>5, <1>8 DEF PageType, Tidy

LEMMA Larger ==
  ASSUME NEW S \in SUBSET (0 .. MaxId), S # {}
  PROVE  Max(S) \in 0 .. MaxId
BY DiceRoomAssumption, MaxOf

LEMMA CursorMoved ==
  ASSUME NEW g \in PageType, Tidy(g), NEW c \in 0 .. MaxId
  PROVE  [g EXCEPT !.cursor = c] \in PageType /\ Tidy([g EXCEPT !.cursor = c])
BY DEF PageType, Tidy

LEMMA PageFilled ==
  ASSUME NEW g \in PageType, Tidy(g), NEW ids \in SUBSET Ids
  PROVE  Filled(g, ids) \in PageType /\ Tidy(Filled(g, ids))
<1>1. ids \cup {g.cursor} \in SUBSET (0 .. MaxId)
  <2>1. g.cursor \in 0 .. MaxId
    BY DEF PageType
  <2>2. Ids \subseteq 0 .. MaxId
    BY DiceRoomAssumption DEF Ids
  <2> QED BY <2>1, <2>2
<1>2. Max(ids \cup {g.cursor}) \in 0 .. MaxId
  BY <1>1, Larger
<1>3. Prepended(g, ids) \in PageType /\ Tidy(Prepended(g, ids))
  BY PagePrepended
<1> QED BY <1>2, <1>3, CursorMoved DEF Filled

LEMMA PageHinted ==
  ASSUME NEW g \in PageType
  PROVE  [g EXCEPT !.list = <<>>] \in PageType /\ Tidy([g EXCEPT !.list = <<>>])
<1>1. <<>> \in Seq(Ids) /\ DOMAIN <<>> = {}
  OBVIOUS
<1> QED BY <1>1 DEF PageType, Tidy, Distinct, Within

LEMMA PageWithout ==
  ASSUME NEW g \in PageType, Tidy(g), NEW id \in Ids
  PROVE  LET h == [g EXCEPT !.list = RemoveFirst(@, id), !.seen = @ \ {id}]
         IN h \in PageType /\ Tidy(h)
<1>1. g.list \in Seq(Ids) /\ g.seen \in SUBSET Ids
  BY DEF PageType
<1>2. /\ RemoveFirst(g.list, id) \in Seq(Ids) /\ Distinct(RemoveFirst(g.list, id))
      /\ Within(RemoveFirst(g.list, id), g.seen \ {id})
  BY <1>1, TakenOut DEF Tidy
<1> QED BY <1>1, <1>2 DEF PageType, Tidy

\* The state of a fetch tells what it carries ...
LEMMA FetchKinds ==
  ASSUME NEW f \in Fetch
  PROVE  /\ f.at \in {"sent", "latest", "rows"}
         /\ f.n \in 1 .. MaxFetches /\ f.page \in Pages /\ f.initial \in BOOLEAN
         /\ f.at \in {"sent", "latest"} => f.room \in Rooms /\ f.since \in 0 .. MaxId
         /\ f.at = "latest" => f.latest \in 0 .. MaxId
         /\ f.at = "rows" => f.latest \in 0 .. MaxId /\ f.ids \in SUBSET Ids
<1>1. CASE f \in [at : {"sent"}, n : 1 .. MaxFetches, page : Pages, room : Rooms,
                  since : 0 .. MaxId, initial : BOOLEAN]
  BY <1>1
<1>2. CASE f \in [at : {"latest"}, n : 1 .. MaxFetches, page : Pages, room : Rooms,
                  since : 0 .. MaxId, initial : BOOLEAN, latest : 0 .. MaxId]
  BY <1>2
<1>3. CASE f \in [at : {"rows"}, n : 1 .. MaxFetches, page : Pages, initial : BOOLEAN,
                  latest : 0 .. MaxId, ids : SUBSET Ids]
  BY <1>3
<1> QED BY <1>1, <1>2, <1>3 DEF Fetch

\* ... and so does the state of a roll, a delete and a clear.
LEMMA ActKinds ==
  ASSUME NEW a \in Act
  PROVE  /\ a.at \in {"idle", "roll", "insert", "log", "rolled", "delete", "deleted", "clear", "cleared"}
         /\ a.at \in {"roll", "insert", "log", "clear"} => a.room \in Rooms
         /\ a.at = "insert" => a.isNew \in BOOLEAN
         /\ a.at \in {"log", "rolled", "delete", "deleted"} => a.id \in Ids
<1>1. CASE a = Idle
  BY <1>1 DEF Idle
<1>2. CASE a \in [at : {"roll"}, room : Rooms] \cup [at : {"clear"}, room : Rooms] \cup [at : {"cleared"}]
  BY <1>2
<1>3. CASE a \in [at : {"insert"}, room : Rooms, isNew : BOOLEAN]
  BY <1>3
<1>4. CASE a \in [at : {"log"}, room : Rooms, id : Ids]
  BY <1>4
<1>5. CASE a \in [at : {"rolled", "delete", "deleted"}, id : Ids]
  BY <1>5
<1> QED BY <1>1, <1>2, <1>3, <1>4, <1>5 DEF Act

\* Whose a roll, delete or clear is.
LEMMA OwnerType == \A s \in Slots : Owner(s) \in Pages
BY DEF Slots, Owner

LEMMA RequestMade ==
  ASSUME NEW p \in Pages, NEW n \in 1 .. MaxFetches, NEW b \in BOOLEAN,
         NEW since \in 0 .. MaxId, NEW room \in Rooms
  PROVE  Request(p, n, b, since, room) \in Fetch
BY DEF Request, Fetch

LEMMA Bounds == 0 \in 0 .. MaxId /\ 1 \in 1 .. MaxFetches
BY DiceRoomAssumption

LEMMA FreeNumber ==
  ASSUME NEW p \in Pages, FreeNumbers(p) # {}
  PROVE  Min(FreeNumbers(p)) \in 1 .. MaxFetches
<1>1. FreeNumbers(p) \in SUBSET Nat /\ FreeNumbers(p) \subseteq 1 .. MaxFetches
  BY DiceRoomAssumption DEF FreeNumbers
<1> QED BY <1>1, MinOf

LEMMA RowsOfRoom ==
  ASSUME TypeOK, NEW room \in Rooms, NEW since \in 0 .. MaxId
  PROVE  /\ InRoom(room) \in SUBSET Ids /\ LatestId(room) \in 0 .. MaxId
         /\ Rows(room, since) \in SUBSET Ids
<1>1. 1 .. lastId \subseteq Ids /\ Ids \subseteq 0 .. MaxId /\ 0 \in 0 .. MaxId
  BY DiceRoomAssumption DEF TypeOK, Ids
<1>2. InRoom(room) \in SUBSET Ids
  BY <1>1 DEF TypeOK, InRoom
<1>3. Rows(room, since) \subseteq InRoom(room)
  BY DEF Rows, Newest
<1>4. InRoom(room) # {} => Max(InRoom(room)) \in 0 .. MaxId
  BY <1>1, <1>2, Larger
<1> QED BY <1>1, <1>2, <1>3, <1>4 DEF LatestId

-----------------------------------------------------------------------------
(* Types, and every roll shown once.                                       *)

LEMMA InitInv == ASSUME Init PROVE IInv
<1>1. rolls \in [DOMAIN rolls -> [room : Rooms, by : Pages]] /\ DOMAIN rolls \subseteq 1 .. lastId
  BY DEF Init
<1>2. fetch \subseteq Fetch
  BY DiceRoomAssumption, Bounds, RequestMade DEF Init
<1>3. \A p \in Pages : page[p] \in PageType /\ Tidy(page[p])
  BY DiceRoomAssumption, PageEmptied DEF Init
<1>4. page \in [Pages -> PageType]
  BY <1>3 DEF Init
<1>5. act \in [Slots -> Act] /\ lastId \in 0 .. MaxId /\ logged \subseteq Rooms
  BY DiceRoomAssumption DEF Init, Act
<1> QED BY <1>1, <1>2, <1>3, <1>4, <1>5 DEF IInv, TypeOK, PageType

\* A step that changes nothing but what one page shows.
LEMMA PageStep ==
  ASSUME IInv, NEW p \in Pages, NEW g \in PageType, Tidy(g), page' = [page EXCEPT ![p] = g]
  PROVE  page' \in [Pages -> PageType] /\ \A q \in Pages : Tidy(page'[q])
<1>1. page \in [Pages -> PageType] /\ \A q \in Pages : Tidy(page[q])
  BY DEF IInv, TypeOK, PageType
<1> QED BY <1>1

LEMMA ActStep ==
  ASSUME IInv, NEW s \in Slots, NEW a \in Act, Goto(s, a)
  PROVE  act' \in [Slots -> Act]
BY DEF IInv, TypeOK, Goto

\* Polls, fetches, their answers and their losses.
LEMMA FetchType ==
  ASSUME IInv,
         \/ \E p \in Pages : Poll(p)
         \/ \E p \in Pages, room \in Rooms : EnterRoom(p, room)
         \/ \E f \in fetch : ListLatest(f) \/ ListRows(f) \/ Receive(f) \/ LoseFetch(f)
  PROVE  IInv'
<1>1. fetch \subseteq Fetch /\ page \in [Pages -> PageType] /\ \A q \in Pages : Tidy(page[q])
  BY DEF IInv, TypeOK, PageType
<1>2. SUFFICES /\ UNCHANGED <<rolls, lastId, logged, act>> /\ fetch' \subseteq Fetch
               /\ page' \in [Pages -> PageType] /\ \A q \in Pages : Tidy(page'[q])
  BY DEF IInv, TypeOK, PageType
<1>3. ASSUME NEW p \in Pages, Poll(p) PROVE fetch' \subseteq Fetch
  <2>1. page[p].cursor \in 0 .. MaxId /\ page[p].room \in Rooms
    BY <1>1 DEF PageType
  <2>2. Request(p, Min(FreeNumbers(p)), FALSE, page[p].cursor, page[p].room) \in Fetch
    BY <1>3, <2>1, FreeNumber, RequestMade DEF Poll
  <2> QED BY <1>1, <1>3, <2>2 DEF Poll
<1>4. ASSUME NEW p \in Pages, NEW room \in Rooms, EnterRoom(p, room)
      PROVE  /\ fetch' \subseteq Fetch
             /\ page' \in [Pages -> PageType] /\ \A q \in Pages : Tidy(page'[q])
  <2>1. Request(p, Min(FreeNumbers(p)), TRUE, 0, room) \in Fetch
    BY <1>4, Bounds, FreeNumber, RequestMade DEF EnterRoom
  <2>2. page' = [page EXCEPT ![p] = EmptyAt(room)]
    BY <1>4 DEF EnterRoom
  <2> QED BY <1>1, <1>4, <2>1, <2>2, PageEmptied, PageStep DEF EnterRoom
<1>5. ASSUME NEW f \in fetch, ListLatest(f) PROVE fetch' \subseteq Fetch
  <2>1. f \in Fetch /\ f.at = "sent"
    BY <1>1, <1>5 DEF ListLatest
  <2>2. /\ f.n \in 1 .. MaxFetches /\ f.page \in Pages /\ f.initial \in BOOLEAN
        /\ f.room \in Rooms /\ f.since \in 0 .. MaxId
    BY <2>1, FetchKinds
  <2>3. LatestId(f.room) \in 0 .. MaxId
    BY <2>2, RowsOfRoom DEF IInv
  <2> QED BY <1>1, <1>5, <2>2, <2>3 DEF ListLatest, Fetch
<1>6. ASSUME NEW f \in fetch, ListRows(f) PROVE fetch' \subseteq Fetch
  <2>1. f \in Fetch /\ f.at = "latest"
    BY <1>1, <1>6 DEF ListRows
  <2>2. /\ f.n \in 1 .. MaxFetches /\ f.page \in Pages /\ f.initial \in BOOLEAN
        /\ f.room \in Rooms /\ f.since \in 0 .. MaxId /\ f.latest \in 0 .. MaxId
    BY <2>1, FetchKinds
  <2>3. Rows(f.room, f.since) \in SUBSET Ids
    BY <2>2, RowsOfRoom DEF IInv
  <2> QED BY <1>1, <1>6, <2>2, <2>3 DEF ListRows, Fetch
<1>7. ASSUME NEW f \in fetch, Receive(f)
      PROVE  /\ fetch' \subseteq Fetch
             /\ page' \in [Pages -> PageType] /\ \A q \in Pages : Tidy(page'[q])
  <2>1. f \in Fetch /\ f.at = "rows"
    BY <1>1, <1>7 DEF Receive
  <2>2. /\ f.n \in 1 .. MaxFetches /\ f.page \in Pages /\ f.initial \in BOOLEAN
        /\ f.latest \in 0 .. MaxId /\ f.ids \in SUBSET Ids
    BY <2>1, FetchKinds
  <2> DEFINE p == f.page
             g == page[p]
  <2>3. g \in PageType /\ Tidy(g) /\ g.room \in Rooms
    BY <1>1, <2>2 DEF PageType
  <2>4. CASE Outdated(f)
    <3>1. Request(p, f.n, TRUE, 0, g.room) \in Fetch
      BY <2>2, <2>3, Bounds, RequestMade
    <3>2. /\ page' = [page EXCEPT ![p] = EmptyAt(g.room)]
          /\ fetch' = (fetch \ {f}) \cup {Request(p, f.n, TRUE, 0, g.room)}
      BY <1>7, <2>4 DEF Receive
    <3> QED BY <1>1, <2>2, <2>3, <3>1, <3>2, PageEmptied, PageStep
  <2>5. CASE ~Outdated(f)
    <3> DEFINE h == IF f.initial /\ f.ids = {} THEN [g EXCEPT !.list = <<>>] ELSE Filled(g, f.ids)
    <3>1. page' = [page EXCEPT ![p] = h] /\ fetch' = fetch \ {f}
      BY <1>7, <2>5 DEF Receive
    <3>2. h \in PageType /\ Tidy(h)
      <4> HIDE DEF g, p
      <4> QED BY <2>2, <2>3, PageHinted, PageFilled
    <3> HIDE DEF h
    <3> QED BY <1>1, <2>2, <3>1, <3>2, PageStep
  <2> QED BY <2>4, <2>5
<1>8. ASSUME NEW f \in fetch, LoseFetch(f) PROVE fetch' \subseteq Fetch
  BY <1>1, <1>8 DEF LoseFetch
<1> QED
  BY <1>1, <1>3, <1>4, <1>5, <1>6, <1>7, <1>8
  DEF Poll, EnterRoom, ListLatest, ListRows, Receive, LoseFetch

\* Clicks and the server: no page changes.
LEMMA ServerType ==
  ASSUME IInv, NEW s \in Slots,
         \/ Roll(s) \/ Clear(s) \/ LoseAct(s)
         \/ \E id \in Shown(Owner(s)) : Delete(s, id)
         \/ RollLookup(s) \/ RollInsert(s) \/ RollLog(s) \/ RollLogFails(s)
         \/ DeleteRow(s) \/ ClearRows(s)
  PROVE  IInv'
<1>1. /\ act[s] \in Act /\ page[Owner(s)] \in PageType /\ Tidy(page[Owner(s)]) /\ page[Owner(s)].room \in Rooms
      /\ DOMAIN rolls \subseteq 1 .. lastId /\ lastId \in 0 .. MaxId /\ logged \subseteq Rooms
      /\ rolls \in [DOMAIN rolls -> [room : Rooms, by : Pages]]
  BY OwnerType DEF IInv, TypeOK, PageType
<1>2. SUFFICES /\ UNCHANGED <<fetch, page>>
               /\ act' \in [Slots -> Act]
               /\ DOMAIN rolls' \subseteq 1 .. lastId' /\ lastId' \in 0 .. MaxId /\ logged' \subseteq Rooms
               /\ rolls' \in [DOMAIN rolls' -> [room : Rooms, by : Pages]]
  BY DEF IInv, TypeOK
<1> DEFINE Same == UNCHANGED <<rolls, lastId, logged, fetch, page>> /\ act' \in [Slots -> Act]
<1>3. ASSUME Roll(s) PROVE Same
  <2>1. [at |-> "roll", room |-> page[Owner(s)].room] \in Act
    BY <1>1 DEF Act
  <2> QED BY <1>3, <2>1, ActStep DEF Roll
<1>4. ASSUME Clear(s) PROVE Same
  <2>1. [at |-> "clear", room |-> page[Owner(s)].room] \in Act
    BY <1>1 DEF Act
  <2> QED BY <1>4, <2>1, ActStep DEF Clear
<1>5. ASSUME LoseAct(s) PROVE Same
  <2>1. Idle \in Act
    BY DEF Act
  <2> QED BY <1>5, <2>1, ActStep DEF LoseAct
<1>6. ASSUME NEW id \in Shown(Owner(s)), Delete(s, id) PROVE Same
  <2>1. id \in Ids
    BY <1>1 DEF Shown, PageType
  <2>2. [at |-> "delete", id |-> id] \in Act
    BY <2>1 DEF Act
  <2> QED BY <1>6, <2>2, ActStep DEF Delete
<1>7. ASSUME RollLookup(s) PROVE Same
  <2>1. act[s].room \in Rooms
    BY <1>1, <1>7, ActKinds DEF RollLookup
  <2>2. [at |-> "insert", room |-> act[s].room, isNew |-> InRoom(act[s].room) = {}] \in Act
    BY <2>1 DEF Act
  <2> QED BY <1>7, <2>2, ActStep DEF RollLookup
<1>8. ASSUME RollInsert(s)
      PROVE  /\ UNCHANGED <<logged, fetch, page>> /\ act' \in [Slots -> Act]
             /\ DOMAIN rolls' \subseteq 1 .. lastId' /\ lastId' \in 0 .. MaxId
             /\ rolls' \in [DOMAIN rolls' -> [room : Rooms, by : Pages]]
  <2> DEFINE id == lastId + 1
             room == act[s].room
             a == IF act[s].isNew THEN [at |-> "log", room |-> room, id |-> id]
                  ELSE [at |-> "rolled", id |-> id]
  <2>1. room \in Rooms
    BY <1>1, <1>8, ActKinds DEF RollInsert
  <2>2. id \in Ids /\ id \in 0 .. MaxId /\ 1 .. id = (1 .. lastId) \cup {id}
    BY <1>1, <1>8, DiceRoomAssumption DEF RollInsert, Ids
  <2>3. /\ lastId' = id /\ Goto(s, a) /\ UNCHANGED <<logged, fetch, page>>
        /\ rolls' = [i \in DOMAIN rolls \cup {id} |-> IF i = id THEN [room |-> room, by |-> Owner(s)] ELSE rolls[i]]
    BY <1>8 DEF RollInsert
  <2>4. a \in Act
    BY <2>1, <2>2 DEF Act
  <2> HIDE DEF id, room, a
  <2> QED BY <1>1, <2>1, <2>2, <2>3, <2>4, ActStep, OwnerType
<1>9. ASSUME RollLog(s)
      PROVE  /\ UNCHANGED <<rolls, lastId, fetch, page>> /\ act' \in [Slots -> Act]
             /\ logged' \subseteq Rooms
  <2>1. act[s].room \in Rooms /\ act[s].id \in Ids
    BY <1>1, <1>9, ActKinds DEF RollLog
  <2>2. [at |-> "rolled", id |-> act[s].id] \in Act
    BY <2>1 DEF Act
  <2> QED BY <1>1, <1>9, <2>1, <2>2, ActStep DEF RollLog
<1>10. ASSUME DeleteRow(s) \/ ClearRows(s)
       PROVE  /\ UNCHANGED <<lastId, logged, fetch, page>> /\ act' \in [Slots -> Act]
              /\ DOMAIN rolls' \subseteq DOMAIN rolls
              /\ rolls' \in [DOMAIN rolls' -> [room : Rooms, by : Pages]]
  <2>1. ASSUME NEW S, DeleteRows(S)
        PROVE  /\ DOMAIN rolls' \subseteq DOMAIN rolls
               /\ rolls' \in [DOMAIN rolls' -> [room : Rooms, by : Pages]]
    BY <1>1, <2>1 DEF DeleteRows
  <2>2. CASE DeleteRow(s)
    <3> DEFINE mine == {i \in DOMAIN rolls : i = act[s].id /\ (Owner(s) \in Admins \/ rolls[i].by = Owner(s))}
               a == IF mine = {} THEN Idle ELSE [at |-> "deleted", id |-> act[s].id]
    <3>1. act[s].id \in Ids
      BY <1>1, <2>2, ActKinds DEF DeleteRow
    <3>2. a \in Act
      BY <3>1 DEF Act
    <3>3. DeleteRows(mine) /\ Goto(s, a) /\ UNCHANGED <<lastId, logged, fetch, page>>
      BY <2>2 DEF DeleteRow
    <3> HIDE DEF mine, a
    <3> QED BY <2>1, <3>2, <3>3, ActStep
  <2>3. CASE ClearRows(s)
    <3>1. [at |-> "cleared"] \in Act
      BY DEF Act
    <3> QED BY <2>1, <2>3, <3>1, ActStep DEF ClearRows
  <2> QED BY <1>10, <2>2, <2>3
<1>11. ASSUME RollLogFails(s) PROVE Same
  <2>1. act[s].id \in Ids
    BY <1>1, <1>11, ActKinds DEF RollLogFails
  <2>2. [at |-> "rolled", id |-> act[s].id] \in Act /\ Idle \in Act
    BY <2>1 DEF Act
  <2> QED BY <1>11, <2>2, ActStep DEF RollLogFails
<1> QED BY <1>1, <1>3, <1>4, <1>5, <1>6, <1>7, <1>8, <1>9, <1>10, <1>11

\* The answers to rolls, deletes and clears.
LEMMA AnswerType ==
  ASSUME IInv, NEW s \in Slots, RollAnswer(s) \/ DeleteAnswer(s) \/ ClearAnswer(s)
  PROVE  IInv'
<1> DEFINE g == page[Owner(s)]
           id == act[s].id
<1>1. act[s] \in Act /\ g \in PageType /\ Tidy(g) /\ g.room \in Rooms /\ g.cursor \in 0 .. MaxId
  BY OwnerType DEF IInv, TypeOK, PageType
<1>2. Idle \in Act
  BY DEF Act
<1>3. SUFFICES \E h \in PageType : Tidy(h) /\ page' = [page EXCEPT ![Owner(s)] = h]
  <2>1. Goto(s, Idle) /\ UNCHANGED <<rolls, lastId, logged, fetch>>
    BY DEF RollAnswer, DeleteAnswer, ClearAnswer
  <2> QED BY <1>2, <1>3, <2>1, OwnerType, ActStep, PageStep DEF IInv, TypeOK, PageType
<1>4. CASE RollAnswer(s)
  <2>1. id \in Ids
    BY <1>1, <1>4, ActKinds DEF RollAnswer
  <2> DEFINE h == [Appended(g, id) EXCEPT !.cursor = Max({Appended(g, id).cursor, id})]
             c == Max({Appended(g, id).cursor, id})
  <2>2. page' = [page EXCEPT ![Owner(s)] = h]
    BY <1>4 DEF RollAnswer
  <2>3. Appended(g, id) \in PageType /\ Tidy(Appended(g, id))
    BY <1>1, <2>1, PageAppended
  <2>4. c \in 0 .. MaxId
    <3>1. Appended(g, id).cursor \in 0 .. MaxId /\ id \in 0 .. MaxId
      BY <2>1, <2>3, DiceRoomAssumption DEF PageType, Ids
    <3>2. {Appended(g, id).cursor, id} \in SUBSET (0 .. MaxId)
      BY <3>1
    <3> QED BY <3>2, Larger
  <2>5. h = [Appended(g, id) EXCEPT !.cursor = c]
    OBVIOUS
  <2> HIDE DEF h, c, g, id
  <2>6. h \in PageType /\ Tidy(h)
    BY <2>3, <2>4, <2>5, CursorMoved
  <2> QED BY <2>2, <2>6
<1>5. CASE DeleteAnswer(s)
  <2>1. id \in Ids
    BY <1>1, <1>5, ActKinds DEF DeleteAnswer
  <2> DEFINE h == [g EXCEPT !.list = RemoveFirst(@, id), !.seen = @ \ {id}]
  <2>2. page' = [page EXCEPT ![Owner(s)] = h]
    BY <1>5 DEF DeleteAnswer
  <2>3. h \in PageType /\ Tidy(h)
    BY <1>1, <2>1, PageWithout
  <2> QED BY <2>2, <2>3
<1>6. CASE ClearAnswer(s)
  BY <1>1, <1>6, PageEmptied DEF ClearAnswer
<1> QED BY <1>4, <1>5, <1>6

LEMMA StepInv == ASSUME IInv, [Next]_vars PROVE IInv'
<1>1. CASE UNCHANGED vars
  BY <1>1 DEF vars, IInv, TypeOK
<1>2. CASE Server
  BY <1>2, FetchType, ServerType DEF Server
<1>3. CASE Answers
  BY <1>3, FetchType, AnswerType DEF Answers
<1>4. CASE Clicks
  BY <1>4, DiceRoomAssumption, FetchType, ServerType DEF Clicks
<1>5. CASE Losses
  BY <1>5, FetchType, ServerType DEF Losses
<1>6. CASE \E p \in Pages : Poll(p)
  BY <1>6, FetchType
<1> QED BY <1>1, <1>2, <1>3, <1>4, <1>5, <1>6 DEF Next

\* Every state is well typed: the types of rolls, fetches under way and pages.
THEOREM TypeCorrect == Spec => []TypeOK
<1>1. IInv => TypeOK
  BY DEF IInv
<1> QED BY <1>1, InitInv, StepInv, PTL DEF Spec

\* No page ever shows a roll twice, with however many pages, fetches under way, lost
\* messages, changes of the room, deletes and clears (appendRoll, prependRolls).
THEOREM NeverTwice == Spec => []NoRollTwice
<1>1. IInv => NoRollTwice
  BY DEF IInv, Tidy, Distinct, NoRollTwice
<1> QED BY <1>1, InitInv, StepInv, PTL DEF Spec

-----------------------------------------------------------------------------
(* The log entry of a room.                                                *)

\* The entry is written, or about to be.
Told(r) == r \in logged \/ \E s \in Slots : act[s].at = "log" /\ act[s].room = r

\* Once a room has records, or a roll on its way into it has found it known, no roll
\* need be told any more that it is new: one was.
Known(r) ==
  \/ InRoom(r) # {}
  \/ \E s \in Slots : act[s].at = "insert" /\ act[s].room = r /\ ~act[s].isNew

EntryInv == \A r \in Rooms \ Failing : Known(r) => Told(r)

\* Steps that add no roll, and leave alone what rolls under way have found out.
LEMMA EntryKept ==
  ASSUME IInv, EntryInv, logged \subseteq logged', \A r \in Rooms : InRoom(r)' \subseteq InRoom(r),
         \A s \in Slots : \/ act'[s] = act[s]
                          \/ act[s].at # "log" /\ act'[s].at # "insert"
  PROVE  EntryInv'
<1> SUFFICES ASSUME NEW r \in Rooms \ Failing, Known(r)' PROVE Told(r)'
  BY DEF EntryInv
<1>1. Known(r)
  BY DEF Known
<1>2. Told(r)
  BY <1>1 DEF EntryInv
<1> QED BY <1>2 DEF Told

LEMMA EntryStep == ASSUME IInv, IInv', EntryInv, [Next]_vars PROVE EntryInv'
<1>1. act \in [Slots -> Act] /\ act' \in [Slots -> Act]
  BY DEF IInv, TypeOK
<1>2. CASE UNCHANGED <<rolls, logged, act>>
  BY <1>2 DEF EntryInv, Known, Told, InRoom
<1>3. ASSUME NEW s \in Slots,
             Roll(s) \/ Clear(s) \/ LoseAct(s) \/ RollAnswer(s) \/ DeleteAnswer(s) \/ ClearAnswer(s)
               \/ \E id \in Shown(Owner(s)) : Delete(s, id)
      PROVE  EntryInv'
  <2>1. /\ UNCHANGED <<rolls, logged>> /\ act[s].at # "log"
        /\ \E a : Goto(s, a) /\ a.at # "insert"
    <3>1. CASE Roll(s) \/ Clear(s) \/ \E id \in Shown(Owner(s)) : Delete(s, id)
      <4>1. act[s] = Idle /\ UNCHANGED <<rolls, logged>>
        BY <3>1 DEF Roll, Clear, Delete, Ready
      <4> DEFINE Plain == \E a : Goto(s, a) /\ a.at # "insert"
      <4>2. ASSUME Roll(s) PROVE Plain
        <5>1. Goto(s, [at |-> "roll", room |-> page[Owner(s)].room])
          BY <4>2 DEF Roll
        <5> QED BY <5>1
      <4>3. ASSUME Clear(s) PROVE Plain
        <5>1. Goto(s, [at |-> "clear", room |-> page[Owner(s)].room])
          BY <4>3 DEF Clear
        <5> QED BY <5>1
      <4>4. ASSUME NEW id, Delete(s, id) PROVE Plain
        <5>1. Goto(s, [at |-> "delete", id |-> id])
          BY <4>4 DEF Delete
        <5> QED BY <5>1
      <4> HIDE DEF Plain
      <4>5. Plain
        BY <3>1, <4>2, <4>3, <4>4
      <4> QED BY <4>1, <4>5 DEF Idle, Plain
    <3>2. CASE LoseAct(s) \/ RollAnswer(s) \/ DeleteAnswer(s) \/ ClearAnswer(s)
      <4>1. Goto(s, Idle) /\ Idle.at # "insert"
        BY <3>2 DEF LoseAct, RollAnswer, DeleteAnswer, ClearAnswer, Idle
      <4>2. act[s].at # "log" /\ UNCHANGED <<rolls, logged>>
        BY <3>2 DEF LoseAct, RollAnswer, DeleteAnswer, ClearAnswer
      <4> QED BY <4>1, <4>2
    <3> QED BY <1>3, <3>1, <3>2
  <2>2. \A q \in Slots : act'[q] = act[q] \/ (act[q].at # "log" /\ act'[q].at # "insert")
    BY <1>1, <2>1 DEF Goto
  <2> QED BY <2>1, <2>2, EntryKept DEF InRoom
<1>4. ASSUME NEW s \in Slots, DeleteRow(s) \/ ClearRows(s) PROVE EntryInv'
  <2>1. \A S : DeleteRows(S) => \A r \in Rooms : InRoom(r)' \subseteq InRoom(r)
    BY DEF DeleteRows, InRoom
  <2>2. /\ UNCHANGED logged /\ act[s].at # "log"
        /\ \E S : DeleteRows(S)
    BY <1>4 DEF DeleteRow, ClearRows
  <2>a. \E a : Goto(s, a) /\ a.at \in {"idle", "deleted", "cleared"}
    BY <1>4 DEF DeleteRow, ClearRows, Idle
  <2>3. \A q \in Slots : act'[q] = act[q] \/ (act[q].at # "log" /\ act'[q].at # "insert")
    BY <1>1, <2>2, <2>a DEF Goto
  <2> QED BY <2>1, <2>2, <2>3, EntryKept
<1>5. ASSUME NEW s \in Slots, RollLookup(s) PROVE EntryInv'
  <2> SUFFICES ASSUME NEW r \in Rooms \ Failing, Known(r)' PROVE Told(r)'
    BY DEF EntryInv
  <2>1. /\ UNCHANGED <<rolls, logged>> /\ act[s].at = "roll"
        /\ act' = [act EXCEPT ![s] =
             [at |-> "insert", room |-> act[s].room, isNew |-> InRoom(act[s].room) = {}]]
    BY <1>5 DEF RollLookup, Goto
  <2>2. Told(r) => Told(r)'
    BY <1>1, <2>1 DEF Told
  <2>3. Known(r)
    <3>1. CASE InRoom(r)' # {}
      BY <2>1, <3>1 DEF Known, InRoom
    <3>2. ASSUME NEW q \in Slots, act'[q].at = "insert", act'[q].room = r, ~act'[q].isNew
          PROVE  Known(r)
      BY <1>1, <2>1, <3>2 DEF Known
    <3> QED BY <3>1, <3>2 DEF Known
  <2> QED BY <2>2, <2>3 DEF EntryInv
<1>6. ASSUME NEW s \in Slots, RollInsert(s) PROVE EntryInv'
  <2> SUFFICES ASSUME NEW r \in Rooms \ Failing, Known(r)' PROVE Told(r)'
    BY DEF EntryInv
  <2> DEFINE id == lastId + 1
             room == act[s].room
             a == IF act[s].isNew THEN [at |-> "log", room |-> room, id |-> id]
                  ELSE [at |-> "rolled", id |-> id]
  <2>1. /\ act[s].at = "insert" /\ logged' = logged /\ act' = [act EXCEPT ![s] = a]
        /\ rolls' = [i \in DOMAIN rolls \cup {id} |-> IF i = id THEN [room |-> room, by |-> Owner(s)] ELSE rolls[i]]
    BY <1>6 DEF RollInsert, Goto
  <2>2. Told(r) => Told(r)'
    BY <1>1, <2>1 DEF Told
  <2>3. CASE r = room /\ act[s].isNew
    <3>1. act'[s].at = "log" /\ act'[s].room = r
      BY <1>1, <2>1, <2>3
    <3> QED BY <3>1 DEF Told
  <2>4. CASE r = room /\ ~act[s].isNew
    <3>1. Known(r)
      BY <2>1, <2>4 DEF Known
    <3> QED BY <2>2, <3>1 DEF EntryInv
  <2>5. CASE r # room
    <3>1. InRoom(r)' \subseteq InRoom(r)
      BY <2>1, <2>5 DEF InRoom
    <3>2. \A q \in Slots : act'[q].at = "insert" => act'[q] = act[q]
      <4>1. act'[s].at # "insert"
        BY <1>1, <2>1
      <4> QED BY <1>1, <2>1, <4>1
    <3>3. Known(r)
      BY <3>1, <3>2 DEF Known
    <3> QED BY <2>2, <3>3 DEF EntryInv
  <2> QED BY <2>3, <2>4, <2>5
<1>7. ASSUME NEW s \in Slots, RollLog(s) PROVE EntryInv'
  <2> SUFFICES ASSUME NEW r \in Rooms \ Failing, Known(r)' PROVE Told(r)'
    BY DEF EntryInv
  <2>1. /\ UNCHANGED rolls /\ logged' = logged \cup {act[s].room}
        /\ act' = [act EXCEPT ![s] = [at |-> "rolled", id |-> act[s].id]]
    BY <1>7 DEF RollLog, Goto
  <2>2. \A q \in Slots : q # s => act'[q] = act[q]
    BY <1>1, <2>1
  <2>3. act'[s].at # "insert"
    BY <1>1, <2>1
  <2>4. Known(r)
    BY <2>1, <2>2, <2>3 DEF Known, InRoom
  <2>5. Told(r)
    BY <2>4 DEF EntryInv
  <2> QED BY <2>1, <2>2, <2>5 DEF Told
<1>8. ASSUME \/ \E p \in Pages : Poll(p)
             \/ \E p \in Movers, room \in Rooms : EnterRoom(p, room)
             \/ \E f \in fetch : ListLatest(f) \/ ListRows(f) \/ Receive(f) \/ LoseFetch(f)
             \/ UNCHANGED vars
      PROVE  UNCHANGED <<rolls, logged, act>>
  BY <1>8 DEF Poll, EnterRoom, ListLatest, ListRows, Receive, LoseFetch, vars
<1>9. ASSUME NEW s \in Slots, RollLogFails(s) PROVE EntryInv'
  <2> SUFFICES ASSUME NEW r \in Rooms \ Failing, Known(r)' PROVE Told(r)'
    BY DEF EntryInv
  <2>1. /\ UNCHANGED <<rolls, logged>> /\ act[s].at = "log" /\ act[s].room # r
        /\ \E a : Goto(s, a) /\ a.at \in {"rolled", "idle"}
    <3>1. UNCHANGED <<rolls, logged>> /\ act[s].at = "log" /\ act[s].room # r
      BY <1>9 DEF RollLogFails
    <3>2. Goto(s, [at |-> "rolled", id |-> act[s].id]) \/ Goto(s, Idle)
      BY <1>9 DEF RollLogFails
    <3> QED BY <3>1, <3>2 DEF Idle
  <2>2. \A q \in Slots : q # s => act'[q] = act[q]
    BY <1>1, <2>1 DEF Goto
  <2>3. act'[s].at # "insert"
    BY <1>1, <2>1 DEF Goto
  <2>4. Known(r)
    BY <2>1, <2>2, <2>3 DEF Known, InRoom
  <2>5. Told(r)
    BY <2>4 DEF EntryInv
  <2> QED BY <2>1, <2>2, <2>5 DEF Told
<1> QED
  BY <1>2, <1>3, <1>4, <1>5, <1>6, <1>7, <1>8, <1>9 DEF Next, Server, Answers, Clicks, Losses

\* A room with records is in the action log, or about to be, with any number of pages
\* rolling, deleting and clearing at once, where writing the entry does not fail
\* (HandleDiceRoll).
THEOREM RoomEntered == Spec => []RoomLogged
<1>1. Init => EntryInv
  <2>1. ASSUME Init PROVE \A r \in Rooms : ~Known(r)
    BY <2>1 DEF Init, Known, InRoom, Idle
  <2> QED BY <2>1 DEF EntryInv
<1>2. IInv /\ IInv' /\ EntryInv /\ [Next]_vars => EntryInv'
  BY EntryStep
<1>3. EntryInv => RoomLogged
  BY DEF EntryInv, Known, Told, RoomLogged
<1> QED BY <1>1, <1>2, <1>3, InitInv, StepInv, PTL DEF Spec

-----------------------------------------------------------------------------
(* A page that only watches, and loses no message.                         *)

\* A roll that an answer passed over although it belongs to the newest Limit up to
\* the newest roll of the answer.
Passed(ids, i) ==
  i \notin ids /\ (\E m \in ids : i <= m) /\ \A m \in ids : WithinLimit(i, m)

\* Above T the page has no gap.
NoGapAbove(T, R, g) ==
  \A i \in R : T < i /\ i <= g.cursor /\ WithinLimit(i, g.cursor) => i \in g.seen

\* What a fetch under way will not bring is below the cursor or not above T: it was
\* sent with an old cursor, or was served before the page started again.
Fits(T, R, g, f) ==
  \A i \in R : (IF f.at = "rows" THEN Passed(f.ids, i) ELSE i <= f.since)
                 => i <= g.cursor \/ i <= T

\* An answer that has no gap up to T, and reaches as far as the rolls up to T do.
WholeUpTo(T, R, ids) ==
  /\ ids \subseteq 1 .. T
  /\ \A i \in R : i <= T => (\E m \in ids : i <= m) /\ ~Passed(ids, i)

\* A reload under way that will close every gap up to T: it is served yet, or was
\* when T was the last roll.
Reloads(T, R, f) == f.initial /\ (f.at = "rows" => WholeUpTo(T, R, f.ids))

\* What a page asks for, and what it has and is about to have, is rolled already.
Asked(last, g, f) ==
  IF f.at = "rows" THEN f.ids \subseteq 1 .. last
  ELSE f.room = g.room /\ f.since <= last /\ (f.initial => f.since = 0)

Rolled(last, g, F) == g.cursor <= last /\ \A f \in F : Asked(last, g, f)

\* There are gaps at most up to some T that a reload under way reaches; without one
\* there are none.
Tracked(T, R, g, F) ==
  /\ T = 0 \/ \E f \in F : Reloads(T, R, f)
  /\ NoGapAbove(T, R, g)
  /\ \A f \in F : Fits(T, R, g, f)

Watched(last, R, g, F) == Rolled(last, g, F) /\ \E T \in 0 .. last : Tracked(T, R, g, F)

\* The page has no roll, delete or clear under way.
Quiet(p) == \A s \in Slots : Owner(s) = p => act[s] = Idle

WatchInv ==
  \A p \in Watchers :
    Quiet(p) /\ Watched(lastId, InRoom(page[p].room), page[p], FetchesOf(p))

\* The newest of some rolls reach as far as all of them, and pass over none.
LEMMA NewestPasses ==
  ASSUME NEW S \in SUBSET Ids, NEW i \in S
  PROVE  (\E m \in Newest(S) : i <= m) /\ ~Passed(Newest(S), i)
<1> DEFINE m == Max(S)
<1>1. S \in SUBSET (0 .. MaxId) /\ S # {} /\ MaxId \in Nat /\ Limit \in Nat \ {0}
  BY DiceRoomAssumption DEF Ids
<1>2. m \in S /\ \A y \in S : m >= y
  BY <1>1, MaxOf
<1> HIDE DEF m
<1>3. \A y \in S : y \in Nat
  BY DiceRoomAssumption DEF Ids
<1>4. m \in Newest(S)
  <2>1. \A j \in S : j >= m => j = m
    BY <1>2, <1>3
  <2>2. m >= m
    BY <1>2, <1>3
  <2>3. {j \in S : j >= m} = {m}
    BY <1>2, <2>1, <2>2
  <2>4. Cardinality({m}) = 1
    BY FS_Singleton
  <2>5. 1 <= Limit
    BY <1>1
  <2> QED BY <1>2, <2>3, <2>4, <2>5 DEF Newest
<1>5. ASSUME WithinLimit(i, m) PROVE i \in Newest(S)
  <2>1. m \in Nat /\ i \in Nat /\ i <= m
    BY <1>2, <1>3
  <2>2. {j \in S : j >= i} \subseteq i .. m
    <3> SUFFICES ASSUME NEW j \in S, j >= i PROVE j \in i .. m
      OBVIOUS
    <3>1. j \in Nat /\ m >= j
      BY <1>2, <1>3
    <3> QED BY <2>1, <3>1
  <2>3. IsFiniteSet(i .. m) /\ Cardinality(i .. m) = m - i + 1
    BY <2>1, FS_Interval
  <2>4. /\ Cardinality({j \in S : j >= i}) <= m - i + 1
        /\ Cardinality({j \in S : j >= i}) \in Nat
    BY <2>2, <2>3, FS_Subset, FS_CardinalityType
  <2>5. m - i < Limit
    BY <1>5 DEF WithinLimit
  <2>6. Cardinality({j \in S : j >= i}) <= Limit
    BY <1>1, <2>1, <2>4, <2>5
  <2> QED BY <2>6 DEF Newest
<1> QED BY <1>2, <1>3, <1>4, <1>5 DEF Passed

\* What Rows finds: rolls of the room, and of those above `since' none is passed over.
LEMMA RowsPass ==
  ASSUME TypeOK, NEW room \in Rooms, NEW since \in 0 .. MaxId
  PROVE  /\ Rows(room, since) \subseteq 1 .. lastId
         /\ \A i \in InRoom(room) :
              i > since => (\E m \in Rows(room, since) : i <= m) /\ ~Passed(Rows(room, since), i)
<1> DEFINE S == {i \in InRoom(room) : i > since}
<1>1. InRoom(room) \in SUBSET Ids /\ InRoom(room) \subseteq 1 .. lastId
  BY RowsOfRoom DEF TypeOK, InRoom
<1>2. S \in SUBSET Ids /\ S \subseteq 1 .. lastId
  BY <1>1
<1>3. Rows(room, since) = Newest(S)
  BY DEF Rows
<1>4. Newest(S) \subseteq S
  BY DEF Newest
<1> QED BY <1>2, <1>3, <1>4, NewestPasses

-----------------------------------------------------------------------------
(* What the steps do to a page that watches.                               *)

\* The types of what a page that watches has to do with.
PageState(last, R, g, F) ==
  last \in Nat /\ R \in SUBSET Ids /\ R \subseteq 1 .. last /\ g \in PageType /\ F \in SUBSET Fetch

\* Rolls that go leave no gap behind, and new rolls are above everything.
LEMMA RollsChange ==
  ASSUME NEW last, NEW R, NEW g, NEW F, PageState(last, R, g, F), Watched(last, R, g, F),
         NEW last2 \in Nat, last <= last2, NEW R2 \in SUBSET Ids,
         \A i \in R2 : i \in R \/ i > last
  PROVE  Watched(last2, R2, g, F)
<1>1. PICK T \in 0 .. last : Tracked(T, R, g, F)
  BY DEF Watched
<1>2. /\ last \in Nat /\ g.cursor \in Nat /\ g.cursor <= last /\ \A i \in R2 : i \in Nat
      /\ T \in 0 .. last2
  BY DiceRoomAssumption DEF PageState, PageType, Ids, Watched, Rolled
<1>3. \A i \in R2 : i \notin R => ~(i <= g.cursor) /\ ~(i <= T)
  BY <1>2
<1>4. NoGapAbove(T, R2, g)
  BY <1>1, <1>3 DEF NoGapAbove, Tracked
<1>5. ASSUME NEW f \in F PROVE Fits(T, R2, g, f) /\ Asked(last2, g, f)
  <2>0. f \in Fetch /\ Asked(last, g, f) /\ Fits(T, R, g, f)
    BY <1>1 DEF PageState, Tracked, Watched, Rolled
  <2>1. CASE f.at = "rows"
    <3>1. f.ids \subseteq 1 .. last /\ 1 .. last \subseteq 1 .. last2
      BY <1>2, <2>0, <2>1 DEF Asked
    <3>2. \A i \in R2 : i \notin R => ~Passed(f.ids, i)
      BY <1>2, <3>1 DEF Passed
    <3> QED BY <2>0, <2>1, <3>1, <3>2 DEF Fits, Asked
  <2>2. CASE f.at # "rows"
    <3>1. f.since \in Nat /\ f.since <= last /\ f.since <= last2
      BY <1>2, <2>0, <2>2, FetchKinds, DiceRoomAssumption DEF Asked
    <3>2. \A i \in R2 : i \notin R => ~(i <= f.since)
      BY <1>2, <3>1
    <3> QED BY <2>0, <2>2, <3>1, <3>2 DEF Fits, Asked
  <2> QED BY <2>1, <2>2
<1>6. \A f \in F : Reloads(T, R, f) => Reloads(T, R2, f)
  BY <1>3 DEF Reloads, WholeUpTo
<1>7. Tracked(T, R2, g, F)
  BY <1>1, <1>4, <1>5, <1>6 DEF Tracked
<1> QED BY <1>2, <1>5, <1>7 DEF Watched, Rolled

\* A reload that is served yet, or just was, is all it takes.
LEMMA ReloadDoes ==
  ASSUME NEW last, NEW R, NEW g, NEW F, PageState(last, R, g, F), Rolled(last, g, F),
         NEW f \in F, Reloads(last, R, f)
  PROVE  Watched(last, R, g, F)
<1>1. \A i \in R : i \in Nat /\ i <= last /\ ~(last < i)
  BY DEF PageState
<1>2. NoGapAbove(last, R, g) /\ \A e \in F : Fits(last, R, g, e)
  BY <1>1 DEF NoGapAbove, Fits
<1>3. Tracked(last, R, g, F)
  BY <1>2 DEF Tracked
<1> QED BY <1>3 DEF Watched, PageState

\* A fetch is sent, or gets further: the new one asks no less.
LEMMA FetchMoves ==
  ASSUME NEW last, NEW R, NEW g, NEW F, PageState(last, R, g, F), Watched(last, R, g, F),
         NEW D, NEW f \in Fetch, Asked(last, g, f),
         \A e \in D : e.initial => f.initial /\ f.at # "rows",
         \A T \in 0 .. last : Tracked(T, R, g, F) => Fits(T, R, g, f)
  PROVE  Watched(last, R, g, (F \ D) \cup {f})
<1> DEFINE G == (F \ D) \cup {f}
<1>1. PICK T \in 0 .. last : Tracked(T, R, g, F)
  BY DEF Watched
<1>2. \A e \in G : Fits(T, R, g, e) /\ Asked(last, g, e)
  BY <1>1 DEF Tracked, Watched, Rolled
<1>3. T = 0 \/ \E e \in G : Reloads(T, R, e)
  BY <1>1 DEF Tracked, Reloads
<1> HIDE DEF G
<1>4. Tracked(T, R, g, G)
  BY <1>1, <1>2, <1>3 DEF Tracked
<1> QED BY <1>2, <1>4 DEF Watched, Rolled, G

\* An answer comes in: what it brings is seen, and the cursor moves to the newest.
LEMMA AnswerIn ==
  ASSUME NEW last, NEW R, NEW g, NEW F, PageState(last, R, g, F), Watched(last, R, g, F),
         NEW f \in F, f.at = "rows", NEW h \in PageType, h.room = g.room,
         h.seen = g.seen \cup f.ids, h.cursor \in f.ids \cup {g.cursor},
         \A m \in f.ids \cup {g.cursor} : m <= h.cursor
  PROVE  Watched(last, R, h, F \ {f})
<1>1. PICK T \in 0 .. last : Tracked(T, R, g, F)
  BY DEF Watched
<1> DEFINE c == g.cursor
           d == h.cursor
<1>2. /\ last \in Nat /\ c \in Nat /\ d \in Nat /\ T \in Nat /\ Limit \in Nat
      /\ \A i \in R : i \in Nat /\ i > 0
      /\ f \in Fetch /\ f.ids \in SUBSET Nat /\ f.ids \subseteq 1 .. last
      /\ c <= last
  <2>1. f \in Fetch /\ Asked(last, g, f) /\ g \in PageType
    BY DEF PageState, Watched, Rolled
  <2>2. f.ids \subseteq 1 .. last
    BY <2>1 DEF Asked
  <2> QED BY <2>1, <2>2, DiceRoomAssumption DEF PageState, PageType, Ids, Watched, Rolled
<1>3. c <= d /\ d <= last /\ \A m \in f.ids : m <= d
  BY <1>2
<1>4. Fits(T, R, g, f) /\ NoGapAbove(T, R, g)
  BY <1>1 DEF Tracked
<1>5. ASSUME NEW i \in R, i <= d, ~(i <= c), WithinLimit(i, d), i \notin f.ids PROVE i <= T
  <2>1. d \in f.ids
    BY <1>5
  <2>2. \A m \in f.ids : m \in Nat /\ m - i <= d - i
    BY <1>2, <1>3
  <2>3. \A m \in f.ids : WithinLimit(i, m)
    BY <1>2, <1>5, <2>2 DEF WithinLimit
  <2>4. Passed(f.ids, i)
    BY <1>5, <2>1, <2>3 DEF Passed
  <2> QED BY <1>4, <1>5, <2>4 DEF Fits
<1>6. ASSUME NEW i \in R, i <= c, WithinLimit(i, d) PROVE WithinLimit(i, c)
  BY <1>2, <1>3, <1>6 DEF WithinLimit
<1>7. NoGapAbove(T, R, h)
  <2> SUFFICES ASSUME NEW i \in R, T < i, i <= d, WithinLimit(i, d) PROVE i \in h.seen
    BY DEF NoGapAbove
  <2>1. CASE i <= c
    BY <1>4, <1>6, <2>1 DEF NoGapAbove
  <2>2. CASE ~(i <= c)
    BY <1>2, <1>5, <2>2
  <2> QED BY <2>1, <2>2
<1>8. \A e \in F : Fits(T, R, h, e)
  <2>1. \A i \in R : i <= c => i <= d
    BY <1>2, <1>3
  <2> QED BY <1>1, <2>1 DEF Tracked, Fits
<1>9. Rolled(last, h, F \ {f})
  BY <1>3 DEF Watched, Rolled, Asked
<1>10. CASE ~Reloads(T, R, f)
  <2>1. T = 0 \/ \E e \in F \ {f} : Reloads(T, R, e)
    BY <1>1, <1>10 DEF Tracked
  <2>2. Tracked(T, R, h, F \ {f})
    BY <1>7, <1>8, <2>1 DEF Tracked
  <2> QED BY <1>9, <2>2 DEF Watched
<1>11. CASE Reloads(T, R, f)
  <2>1. f.ids \subseteq 1 .. T /\ \A i \in R : i <= T => (\E m \in f.ids : i <= m) /\ ~Passed(f.ids, i)
    BY <1>11 DEF Reloads, WholeUpTo
  <2>2. ASSUME NEW i \in R, i <= T PROVE i <= d
    BY <1>2, <1>3, <2>1, <2>2
  <2>3. \A e \in F : Fits(0, R, h, e)
    BY <1>2, <1>8, <2>2 DEF Fits
  <2>4. NoGapAbove(0, R, h)
    <3> SUFFICES ASSUME NEW i \in R, i <= d, WithinLimit(i, d) PROVE i \in h.seen
      BY DEF NoGapAbove
    <3>1. CASE ~(i <= T)
      BY <1>2, <1>7, <3>1 DEF NoGapAbove
    <3>2. CASE i <= T
      <4>1. \A m \in f.ids : WithinLimit(i, m)
        BY <1>2, <1>3 DEF WithinLimit
      <4>2. i \in f.ids
        BY <2>1, <3>2, <4>1 DEF Passed
      <4> QED BY <4>2
    <3> QED BY <3>1, <3>2
  <2>5. Tracked(0, R, h, F \ {f})
    BY <2>3, <2>4 DEF Tracked
  <2>6. 0 \in 0 .. last
    BY <1>2
  <2> QED BY <1>9, <2>5, <2>6 DEF Watched
<1> QED BY <1>10, <1>11

\* The list of a page that watches changes with its own answers only.
OwnFetch(p) ==
  \/ Poll(p)
  \/ \E f \in FetchesOf(p) : ListLatest(f) \/ ListRows(f) \/ Receive(f)

LEMMA OwnStep ==
  ASSUME IInv, IInv', WatchInv, NEW p \in Watchers, OwnFetch(p)
  PROVE  Quiet(p)' /\ Watched(lastId, InRoom(page[p].room), page[p], FetchesOf(p))'
<1> DEFINE R == InRoom(page[p].room)
           g == page[p]
           F == FetchesOf(p)
<1>1. /\ p \in Pages /\ g \in PageType /\ F \in SUBSET Fetch /\ lastId \in Nat
      /\ R \in SUBSET Ids /\ R \subseteq 1 .. lastId /\ g.room \in Rooms
      /\ page \in [Pages -> PageType] /\ TypeOK
  <2>1. p \in Pages /\ g \in PageType /\ F \in SUBSET Fetch /\ lastId \in Nat /\ g.room \in Rooms
    BY DiceRoomAssumption DEF IInv, TypeOK, PageType, Watchers, FetchesOf
  <2>2. R \in SUBSET Ids /\ R \subseteq 1 .. lastId
    BY <2>1, Bounds, RowsOfRoom DEF IInv, TypeOK, InRoom
  <2> QED BY <2>1, <2>2 DEF IInv, TypeOK, PageType
<1>2. PageState(lastId, R, g, F) /\ Watched(lastId, R, g, F) /\ Quiet(p)
  BY <1>1 DEF PageState, WatchInv
<1>3. Rolled(lastId, g, F)
  BY <1>2 DEF Watched
<1>4. UNCHANGED <<rolls, lastId, act>>
  BY DEF OwnFetch, Poll, ListLatest, ListRows, Receive
<1>5. ASSUME Poll(p) PROVE Watched(lastId, R, g, F)'
  <2> DEFINE f == Request(p, Min(FreeNumbers(p)), FALSE, g.cursor, g.room)
  <2>1. f \in Fetch
    BY <1>1, <1>5, FreeNumber, RequestMade DEF Poll, PageType
  <2>2. f.at = "sent" /\ f.page = p /\ f.room = g.room /\ f.since = g.cursor /\ ~f.initial
    BY DEF Request
  <2>3. fetch' = (fetch \ {}) \cup {f} /\ page' = page
    BY <1>5 DEF Poll
  <2> HIDE DEF f
  <2>4. F' = (F \ {}) \cup {f}
    BY <2>2, <2>3 DEF FetchesOf
  <2>5. Asked(lastId, g, f)
    BY <1>3, <2>2 DEF Asked, Rolled
  <2>6. \A T \in 0 .. lastId : Fits(T, R, g, f)
    BY <2>2 DEF Fits
  <2>7. R' = R /\ g' = g
    BY <1>4, <2>3 DEF InRoom
  <2> HIDE DEF R, g, F
  <2>8. Watched(lastId, R, g, (F \ {}) \cup {f})
    BY <1>2, <2>1, <2>5, <2>6, FetchMoves
  <2> QED BY <1>4, <2>4, <2>7, <2>8
<1>6. ASSUME NEW f \in F, ListLatest(f) PROVE Watched(lastId, R, g, F)'
  <2> DEFINE e == [at |-> "latest", n |-> f.n, page |-> f.page, room |-> f.room,
                   since |-> f.since, initial |-> f.initial, latest |-> LatestId(f.room)]
  <2>1. f \in Fetch /\ f.page = p /\ f.at = "sent" /\ f \in fetch
    BY <1>1, <1>6 DEF ListLatest, FetchesOf
  <2>2. fetch' = (fetch \ {f}) \cup {e} /\ page' = page
    BY <1>6 DEF ListLatest
  <2>3. e \in Fetch
    BY <2>2 DEF IInv, TypeOK
  <2>4. e.at = "latest" /\ e.page = p /\ e.room = f.room /\ e.since = f.since /\ e.initial = f.initial
    BY <2>1
  <2> HIDE DEF e
  <2>5. F' = (F \ {f}) \cup {e}
    BY <2>1, <2>2, <2>4 DEF FetchesOf
  <2>6. Asked(lastId, g, e)
    BY <1>3, <2>1, <2>4 DEF Asked, Rolled
  <2>7. \A T \in 0 .. lastId : Tracked(T, R, g, F) => Fits(T, R, g, e)
    BY <2>1, <2>4 DEF Fits, Tracked
  <2>8. R' = R /\ g' = g
    BY <1>4, <2>2 DEF InRoom
  <2> HIDE DEF R, g, F
  <2>9. Watched(lastId, R, g, (F \ {f}) \cup {e})
    BY <1>2, <2>3, <2>4, <2>6, <2>7, FetchMoves
  <2> QED BY <1>4, <2>5, <2>8, <2>9
<1>7. ASSUME NEW f \in F, ListRows(f) PROVE Watched(lastId, R, g, F)'
  <2> DEFINE e == [at |-> "rows", n |-> f.n, page |-> f.page, initial |-> f.initial,
                   latest |-> f.latest, ids |-> Rows(f.room, f.since)]
  <2>1. f \in Fetch /\ f.page = p /\ f.at = "latest" /\ f \in fetch
    BY <1>1, <1>7 DEF ListRows, FetchesOf
  <2>2. fetch' = (fetch \ {f}) \cup {e} /\ page' = page
    BY <1>7 DEF ListRows
  <2>3. e \in Fetch
    BY <2>2 DEF IInv, TypeOK
  <2>4. e.at = "rows" /\ e.page = p /\ e.initial = f.initial /\ e.ids = Rows(f.room, f.since)
    BY <2>1
  <2> HIDE DEF e
  <2>5. F' = (F \ {f}) \cup {e}
    BY <2>1, <2>2, <2>4 DEF FetchesOf
  <2>6. f.room = g.room /\ f.since \in 0 .. MaxId /\ (f.initial => f.since = 0)
    BY <1>3, <2>1, FetchKinds DEF Asked, Rolled
  <2>7. /\ e.ids \subseteq 1 .. lastId
        /\ \A i \in R : i > f.since => (\E m \in e.ids : i <= m) /\ ~Passed(e.ids, i)
    BY <1>1, <2>4, <2>6, RowsPass
  <2>8. Asked(lastId, g, e)
    BY <2>4, <2>7 DEF Asked
  <2>9. \A T \in 0 .. lastId : Tracked(T, R, g, F) => Fits(T, R, g, e)
    <3> SUFFICES ASSUME NEW T \in 0 .. lastId, Fits(T, R, g, f) PROVE Fits(T, R, g, e)
      BY DEF Tracked
    <3>1. \A i \in R : i \in Nat /\ f.since \in Nat
      BY <1>1, <2>6, DiceRoomAssumption DEF Ids
    <3>2. \A i \in R : Passed(e.ids, i) => i <= f.since
      BY <2>7, <3>1
    <3> QED BY <2>1, <2>4, <3>2 DEF Fits
  <2>10. R' = R /\ g' = g
    BY <1>4, <2>2 DEF InRoom
  <2>11. CASE ~f.initial
    <3> HIDE DEF R, g, F
    <3>1. Watched(lastId, R, g, (F \ {f}) \cup {e})
      BY <1>2, <2>1, <2>3, <2>4, <2>8, <2>9, <2>11, FetchMoves
    <3> QED BY <1>4, <2>5, <2>10, <3>1
  <2>12. CASE f.initial
    <3> DEFINE G == (F \ {f}) \cup {e}
    <3>1. Reloads(lastId, R, e)
      <4>1. \A i \in R : i > f.since
        BY <1>1, <2>6, <2>12 DEF Ids
      <4> QED BY <2>4, <2>7, <2>12, <4>1 DEF Reloads, WholeUpTo
    <3>2. PageState(lastId, R, g, G) /\ Rolled(lastId, g, G) /\ e \in G
      BY <1>2, <1>3, <2>3, <2>8 DEF PageState, Rolled
    <3> HIDE DEF R, g, F, G
    <3>3. Watched(lastId, R, g, G)
      BY <3>1, <3>2, ReloadDoes
    <3> QED BY <1>4, <2>5, <2>10, <3>3 DEF G
  <2> QED BY <2>11, <2>12
<1>8. ASSUME NEW f \in F, Receive(f) PROVE Watched(lastId, R, g, F)'
  <2>1. f \in Fetch /\ f.page = p /\ f.at = "rows" /\ f \in fetch
    BY <1>1, <1>8 DEF Receive, FetchesOf
  <2>2. f.ids \in SUBSET Ids /\ f.n \in 1 .. MaxFetches
    BY <2>1, FetchKinds
  <2>3. CASE Outdated(f)
    <3> DEFINE e == Request(p, f.n, TRUE, 0, g.room)
               h == EmptyAt(g.room)
               G == (F \ {f}) \cup {e}
    <3>1. e \in Fetch /\ h \in PageType
      BY <1>1, <2>2, Bounds, RequestMade, PageEmptied
    <3>2. /\ e.at = "sent" /\ e.page = p /\ e.room = g.room /\ e.since = 0 /\ e.initial
          /\ h.cursor = 0 /\ h.room = g.room
      BY DEF Request, EmptyAt
    <3>3. fetch' = (fetch \ {f}) \cup {e} /\ page' = [page EXCEPT ![p] = h]
      BY <1>8, <2>1, <2>3 DEF Receive
    <3> HIDE DEF e, h
    <3>4. F' = G
      BY <2>1, <3>2, <3>3 DEF FetchesOf
    <3>5. g' = h
      BY <1>1, <3>3
    <3>6. R' = R
      BY <1>4, <3>2, <3>5 DEF InRoom
    <3>7. Reloads(lastId, R, e)
      BY <3>2 DEF Reloads
    <3>8. PageState(lastId, R, h, G) /\ Rolled(lastId, h, G)
      BY <1>1, <1>2, <1>3, <3>1, <3>2 DEF PageState, Rolled, Asked
    <3> HIDE DEF R, g, F
    <3>9. Watched(lastId, R, h, G)
      BY <3>7, <3>8, ReloadDoes
    <3> HIDE DEF G
    <3> QED BY <1>4, <3>4, <3>5, <3>6, <3>9
  <2>4. CASE ~Outdated(f)
    <3> DEFINE h == IF f.initial /\ f.ids = {} THEN [g EXCEPT !.list = <<>>] ELSE Filled(g, f.ids)
    <3>1. fetch' = fetch \ {f} /\ page' = [page EXCEPT ![p] = h]
      BY <1>8, <2>1, <2>4 DEF Receive
    <3>2. h \in PageType /\ h.room = g.room /\ h.seen = g.seen \cup f.ids
          /\ h.cursor \in f.ids \cup {g.cursor} /\ \A m \in f.ids \cup {g.cursor} : m <= h.cursor
      <4>1. CASE f.initial /\ f.ids = {}
        BY <1>1, <4>1, PageHinted DEF PageType
      <4>2. CASE ~(f.initial /\ f.ids = {})
        <5> DEFINE S == f.ids \cup {g.cursor}
        <5>1. S \in SUBSET (0 .. MaxId) /\ S # {} /\ MaxId \in Nat
          BY <1>1, <2>2, DiceRoomAssumption DEF PageType, Ids
        <5>2. Max(S) \in S /\ \A m \in S : Max(S) >= m
          BY <5>1, MaxOf
        <5>3. \A m \in S : m <= Max(S)
          BY <5>1, <5>2
        <5>4. h = [Prepended(g, f.ids) EXCEPT !.cursor = Max(S)]
          BY <4>2 DEF Filled
        <5>5. Tidy(g)
          BY <1>1 DEF IInv
        <5>6. Prepended(g, f.ids) \in PageType /\ h \in PageType
          BY <1>1, <2>2, <4>2, <5>5, PagePrepended, PageFilled
        <5>7. Prepended(g, f.ids).room = g.room /\ Prepended(g, f.ids).seen = g.seen \cup f.ids
          BY <1>1 DEF Prepended, PageType
        <5> HIDE DEF h, S
        <5>8. h.room = g.room /\ h.seen = g.seen \cup f.ids /\ h.cursor = Max(S)
          BY <5>4, <5>6, <5>7 DEF PageType
        <5> QED BY <5>2, <5>3, <5>6, <5>8 DEF S
      <4> QED BY <4>1, <4>2
    <3> HIDE DEF h
    <3>3. F' = F \ {f} /\ g' = h
      BY <1>1, <3>1 DEF FetchesOf
    <3>4. R' = R
      BY <1>4, <3>2, <3>3 DEF InRoom
    <3> HIDE DEF R, g, F
    <3>5. Watched(lastId, R, h, F \ {f})
      BY <1>2, <2>1, <3>2, AnswerIn
    <3> QED BY <1>4, <3>3, <3>4, <3>5
  <2> QED BY <2>3, <2>4
<1>9. Quiet(p)'
  BY <1>2, <1>4 DEF Quiet
<1> QED BY <1>5, <1>6, <1>7, <1>8, <1>9 DEF OwnFetch

\* What everybody else does: the page stays as it is, and so do its fetches; rolls go,
\* or one comes that is newer than all.
Others(p) ==
  /\ \A s \in Slots : Owner(s) = p => act'[s] = act[s]
  /\ page'[p] = page[p] /\ FetchesOf(p)' = FetchesOf(p)
  /\ lastId <= lastId'
  /\ \A r \in Rooms : \A i \in InRoom(r)' : i \in InRoom(r) \/ i > lastId

LEMMA OthersStep ==
  ASSUME IInv, IInv', WatchInv, NEW p \in Watchers, Others(p)
  PROVE  Quiet(p)' /\ Watched(lastId, InRoom(page[p].room), page[p], FetchesOf(p))'
<1> DEFINE g == page[p]
           F == FetchesOf(p)
           R == InRoom(g.room)
           R2 == InRoom(page[p].room)'
<1>1. /\ p \in Pages /\ g \in PageType /\ F \in SUBSET Fetch /\ lastId \in Nat /\ lastId' \in Nat
      /\ g.room \in Rooms /\ R \subseteq 1 .. lastId /\ R2 \subseteq 1 .. lastId'
      /\ 1 .. lastId \subseteq Ids /\ 1 .. lastId' \subseteq Ids
  <2>1. p \in Pages /\ lastId \in 0 .. MaxId /\ lastId' \in 0 .. MaxId
    BY DiceRoomAssumption DEF IInv, TypeOK, Watchers
  <2>2. g \in PageType /\ F \in SUBSET Fetch /\ g.room \in Rooms
    BY <2>1 DEF IInv, TypeOK, PageType, FetchesOf
  <2>3. R \subseteq DOMAIN rolls /\ R2 \subseteq DOMAIN rolls'
    BY DEF InRoom
  <2> QED BY <2>1, <2>2, <2>3, DiceRoomAssumption DEF IInv, TypeOK, Ids
<1>2. PageState(lastId, R, g, F) /\ Watched(lastId, R, g, F) /\ Quiet(p)
  BY <1>1 DEF PageState, WatchInv
<1>3. page'[p] = g /\ FetchesOf(p)' = F /\ \A i \in R2 : i \in R \/ i > lastId
  BY <1>1 DEF Others
<1>4. lastId <= lastId' /\ Quiet(p)'
  BY <1>2 DEF Others, Quiet
<1>5. R2 \in SUBSET Ids
  BY <1>1
<1> HIDE DEF g, F, R, R2
<1>6. Watched(lastId', R2, g, F)
  BY <1>1, <1>2, <1>3, <1>4, <1>5, RollsChange
<1> QED BY <1>2, <1>3, <1>4, <1>6 DEF R2

LEMMA WatchStep ==
  ASSUME ~Lossy, IInv, IInv', WatchInv, [Next]_vars
  PROVE  WatchInv'
<1> SUFFICES ASSUME NEW p \in Watchers
             PROVE  Quiet(p)' /\ Watched(lastId, InRoom(page[p].room), page[p], FetchesOf(p))'
  BY DEF WatchInv
<1> SUFFICES Others(p) \/ OwnFetch(p)
  BY OthersStep, OwnStep
<1>1. /\ p \in Pages /\ p \notin Rollers /\ p \notin Cleaners /\ p \notin Admins /\ p \notin Movers
      /\ Quiet(p) /\ lastId \in Nat /\ fetch \subseteq Fetch
      /\ act \in [Slots -> Act] /\ page \in [Pages -> PageType]
  BY DiceRoomAssumption DEF Watchers, WatchInv, IInv, TypeOK, PageType
<1>2. ASSUME UNCHANGED <<rolls, lastId>> PROVE lastId <= lastId' /\ \A r \in Rooms : InRoom(r)' = InRoom(r)
  BY <1>1, <1>2 DEF InRoom
<1>3. ASSUME UNCHANGED vars PROVE Others(p)
  BY <1>2, <1>3 DEF vars, Others, FetchesOf
<1>4. ASSUME NEW q \in Pages, Poll(q) PROVE Others(p) \/ OwnFetch(p)
  <2>1. CASE q = p
    BY <1>4, <2>1 DEF OwnFetch
  <2>2. CASE q # p
    <3>1. FetchesOf(p)' = FetchesOf(p)
      BY <1>4, <2>2 DEF Poll, FetchesOf, Request
    <3> QED BY <1>2, <1>4, <3>1 DEF Poll, Others
  <2> QED BY <2>1, <2>2
<1>5. ASSUME NEW f \in fetch, ListLatest(f) \/ ListRows(f) \/ Receive(f) PROVE Others(p) \/ OwnFetch(p)
  <2>1. CASE f.page = p
    BY <1>5, <2>1 DEF OwnFetch, FetchesOf
  <2>2. CASE f.page # p
    <3>1. UNCHANGED <<rolls, lastId, act>>
      BY <1>5 DEF ListLatest, ListRows, Receive
    <3>2. FetchesOf(p)' = FetchesOf(p)
      <4>1. CASE ListLatest(f)
        BY <2>2, <4>1 DEF ListLatest, FetchesOf
      <4>2. CASE ListRows(f)
        BY <2>2, <4>2 DEF ListRows, FetchesOf
      <4>3. CASE Receive(f)
        BY <2>2, <4>3 DEF Receive, FetchesOf, Request
      <4> QED BY <1>5, <4>1, <4>2, <4>3
    <3>3. page'[p] = page[p]
      BY <1>1, <1>5, <2>2 DEF ListLatest, ListRows, Receive
    <3> QED BY <1>2, <3>1, <3>2, <3>3 DEF Others
  <2> QED BY <2>1, <2>2
\* Somebody else's roll, delete or clear: no place of the page changes.
<1>6. ASSUME NEW s \in Slots, Owner(s) # p, \E a : Goto(s, a)
      PROVE  \A k \in Slots : Owner(k) = p => act'[k] = act[k]
  BY <1>1, <1>6 DEF Goto
<1>7. ASSUME NEW s \in Slots, Owner(s) # p,
             \/ Roll(s) \/ Clear(s) \/ RollLookup(s) \/ RollLog(s) \/ RollLogFails(s)
             \/ \E id \in Shown(Owner(s)) : Delete(s, id)
             \/ RollAnswer(s) \/ DeleteAnswer(s) \/ ClearAnswer(s)
      PROVE  Others(p)
  <2>1. UNCHANGED <<rolls, lastId, fetch>> /\ \E a : Goto(s, a)
    BY <1>7 DEF Roll, Clear, Delete, RollLookup, RollLog, RollLogFails, RollAnswer, DeleteAnswer, ClearAnswer
  <2>2. page'[p] = page[p]
    BY <1>1, <1>7 DEF Roll, Clear, Delete, RollLookup, RollLog, RollLogFails, RollAnswer, DeleteAnswer, ClearAnswer
  <2> QED BY <1>2, <1>6, <1>7, <2>1, <2>2 DEF Others, FetchesOf
<1>8. ASSUME NEW q \in Movers, NEW room \in Rooms, EnterRoom(q, room) PROVE Others(p)
  <2>1. q # p
    BY <1>1
  <2>2. UNCHANGED <<rolls, lastId, act>> /\ page'[p] = page[p]
    BY <1>1, <1>8, <2>1 DEF EnterRoom
  <2>3. FetchesOf(p)' = FetchesOf(p)
    BY <1>8, <2>1 DEF EnterRoom, FetchesOf, Request
  <2> QED BY <1>2, <2>2, <2>3 DEF Others
<1>9. ASSUME NEW s \in Slots, Owner(s) # p, DeleteRow(s) \/ ClearRows(s) PROVE Others(p)
  <2>1. UNCHANGED <<lastId, fetch, page>> /\ (\E a : Goto(s, a)) /\ \E S : DeleteRows(S)
    BY <1>9 DEF DeleteRow, ClearRows
  <2>2. \A r \in Rooms : InRoom(r)' \subseteq InRoom(r)
    BY <2>1 DEF DeleteRows, InRoom
  <2> QED BY <1>1, <1>6, <1>9, <2>1, <2>2 DEF Others, FetchesOf
<1>10. ASSUME NEW s \in Slots, Owner(s) # p, RollInsert(s) PROVE Others(p)
  <2>1. /\ UNCHANGED <<fetch, page>> /\ (\E a : Goto(s, a)) /\ lastId' = lastId + 1
        /\ rolls' = [i \in DOMAIN rolls \cup {lastId + 1} |->
                       IF i = lastId + 1 THEN [room |-> act[s].room, by |-> Owner(s)] ELSE rolls[i]]
    BY <1>10 DEF RollInsert
  <2>2. lastId <= lastId' /\ lastId + 1 > lastId
    BY <1>1, <2>1
  <2>3. \A r \in Rooms : \A i \in InRoom(r)' : i \in InRoom(r) \/ i > lastId
    BY <2>1, <2>2 DEF InRoom
  <2> QED BY <1>6, <1>10, <2>1, <2>2, <2>3 DEF Others, FetchesOf
\* The page itself does none of it.
<1>11. ASSUME NEW s \in Slots,
              \/ Roll(s) \/ Clear(s) \/ RollLookup(s) \/ RollInsert(s) \/ RollLog(s)
              \/ RollLogFails(s)
              \/ \E id \in Shown(Owner(s)) : Delete(s, id)
              \/ DeleteRow(s) \/ ClearRows(s)
              \/ RollAnswer(s) \/ DeleteAnswer(s) \/ ClearAnswer(s)
       PROVE  Owner(s) # p
  <2> SUFFICES ASSUME Owner(s) = p PROVE FALSE
    OBVIOUS
  <2>1. act[s].at = "idle"
    BY <1>1 DEF Quiet, Idle
  <2>2. ~(Roll(s) \/ Clear(s) \/ \E id \in Shown(Owner(s)) : Delete(s, id))
    BY <1>1 DEF Roll, Clear, Delete
  <2>3. ~(RollLookup(s) \/ RollInsert(s) \/ RollLog(s) \/ RollLogFails(s) \/ DeleteRow(s) \/ ClearRows(s))
    BY <2>1 DEF RollLookup, RollInsert, RollLog, RollLogFails, DeleteRow, ClearRows
  <2>4. ~(RollAnswer(s) \/ DeleteAnswer(s) \/ ClearAnswer(s))
    BY <2>1 DEF RollAnswer, DeleteAnswer, ClearAnswer
  <2> QED BY <1>11, <2>2, <2>3, <2>4
<1>12. ~(\E f \in fetch : LoseFetch(f)) /\ ~(\E s \in Slots : LoseAct(s))
  BY DEF LoseFetch, LoseAct
<1>13. CASE Server
  BY <1>5, <1>7, <1>9, <1>10, <1>11, <1>13 DEF Server
<1>14. CASE Answers
  BY <1>5, <1>7, <1>11, <1>14 DEF Answers
<1>15. CASE Clicks
  BY <1>7, <1>8, <1>11, <1>15 DEF Clicks
<1> QED BY <1>3, <1>4, <1>12, <1>13, <1>14, <1>15 DEF Next, Losses

LEMMA WatchInit == ASSUME Init PROVE WatchInv
<1> SUFFICES ASSUME NEW p \in Watchers
             PROVE  Quiet(p) /\ Watched(lastId, InRoom(page[p].room), page[p], FetchesOf(p))
  BY DEF WatchInv
<1>1. p \in Pages /\ Quiet(p) /\ lastId = 0 /\ page[p] = EmptyAt(HomeRoom)
  BY DiceRoomAssumption DEF Watchers, Init, Quiet
<1>2. page[p].cursor = 0 /\ page[p].room = HomeRoom /\ InRoom(HomeRoom) = {}
  BY <1>1 DEF EmptyAt, Init, InRoom
<1>3. \A f \in FetchesOf(p) : f.at = "sent" /\ f.room = HomeRoom /\ f.since = 0
  BY DEF Init, FetchesOf, Request
<1>4. Rolled(lastId, page[p], FetchesOf(p))
  BY <1>1, <1>2, <1>3 DEF Rolled, Asked
<1>5. Tracked(0, InRoom(page[p].room), page[p], FetchesOf(p))
  BY <1>2 DEF Tracked, NoGapAbove, Fits
<1> QED BY <1>1, <1>4, <1>5 DEF Watched

\* Where no message is lost, a page that only watches never has a gap among the newest
\* rolls below its cursor, once no reload is under way: with any number of fetches, their
\* answers in any order, while others roll, delete and clear (fetchRolls).
THEOREM WatchersMissNothing == ~Lossy => (Spec => []NoGap)
<1> SUFFICES ASSUME ~Lossy PROVE Spec => []NoGap
  OBVIOUS
<1>1. ASSUME IInv, WatchInv PROVE NoGap
  <2> SUFFICES ASSUME NEW p \in Watchers, ~Reloading(p), NEW i \in InRoom(page[p].room),
                      i <= page[p].cursor, WithinLimit(i, page[p].cursor)
               PROVE  i \in page[p].seen
    BY DEF NoGap
  <2>1. PICK T \in 0 .. lastId : Tracked(T, InRoom(page[p].room), page[p], FetchesOf(p))
    BY <1>1 DEF WatchInv, Watched
  <2>2. T = 0
    BY <2>1 DEF Tracked, Reloads, Reloading
  <2>3. 0 < i
    BY <1>1 DEF IInv, TypeOK, InRoom
  <2> QED BY <2>1, <2>2, <2>3 DEF Tracked, NoGapAbove
<1> QED BY <1>1, InitInv, StepInv, WatchInit, WatchStep, PTL DEF Spec
=============================================================================
