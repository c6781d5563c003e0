------------------------------ MODULE DiceRoom ------------------------------
(***************************************************************************)
(* The shared dice rooms: the table dice_rolls behind the handlers         *)
(* (dice_handler.go, dice_db.go) and the browser pages that poll it        *)
(* (www/dice.html).                                                        *)
(*                                                                         *)
(* A page keeps the room it is in, a cursor (lastRollId) and the rolls it  *)
(* shows.  Fetches are asynchronous: the two-second timer does not wait    *)
(* for the one before, so several may be under way, their answers may come *)
(* in any order, or never, and the page may have moved on meanwhile.  On   *)
(* the server every SQL statement is a step.                               *)
(*                                                                         *)
(* What a page shows (the list) and what it takes for shown (seenIds) are  *)
(* not the same: the empty answer to a reload empties the list alone.      *)
(* A roll is its id and its room; what it says is DiceExpr's subject.      *)
(***************************************************************************)
EXTENDS Integers, SequencesExt

CONSTANTS
  Pages,      \* open pages, each of its own user
  Visible,    \* pages in a visible tab: a hidden one stops its timer
  Rollers,    \* pages that roll
  Cleaners,   \* pages that delete their own rolls
  Admins,     \* pages of administrators, which clear rooms
  Movers,     \* pages that change the room
  Rooms,      \* room names, normalised
  HomeRoom,   \* the room every page starts in
  Limit,      \* the page asks for at most this many rolls (50)
  MaxId,      \* bound on the rolls
  MaxFetches, \* bound on the fetches of one page under way
  MaxActs,    \* bound on the rolls, deletes and clears of one page under way
  MaxRequests, \* bound on both together
  Lossy,      \* TRUE: requests and answers may be lost
  Failing     \* rooms whose log entry may fail to be written

ASSUME DiceRoomAssumption ==
  /\ Rollers \subseteq Pages /\ Cleaners \subseteq Pages /\ Admins \subseteq Pages
  /\ Movers \subseteq Pages /\ Visible \subseteq Pages
  /\ HomeRoom \in Rooms
  /\ Limit \in Nat \ {0} /\ MaxId \in Nat /\ MaxFetches \in Nat \ {0} /\ MaxActs \in Nat
  /\ MaxRequests \in Nat
  /\ Lossy \in BOOLEAN /\ Failing \subseteq Rooms

VARIABLES
  rolls,   \* dice_rolls: id -> [room, by]
  lastId,  \* the AUTOINCREMENT high-water mark
  logged,  \* the rooms that have a dice_room_create entry in the action log
  fetch,   \* the fetches under way
  act,     \* the rolls, deletes and clears under way, by page and number
  page     \* page -> its room, lastRollId, the rolls it shows, seenIds

vars == <<rolls, lastId, logged, fetch, act, page>>

Ids == 1 .. MaxId
Idle == [at |-> "idle"]

\* The places a page has for what it sends besides fetches.
Slots == Pages \X (1 .. MaxActs)
Owner(s) == s[1]

\* "latest": MAX(id) was read; "rows": the answer is complete.  `n' tells the
\* fetches of a page apart.
Fetch ==
  [at : {"sent"}, n : 1 .. MaxFetches, page : Pages, room : Rooms, since : 0 .. MaxId, initial : BOOLEAN]
    \cup [at : {"latest"}, n : 1 .. MaxFetches, page : Pages, room : Rooms,
          since : 0 .. MaxId, initial : BOOLEAN, latest : 0 .. MaxId]
    \cup [at : {"rows"}, n : 1 .. MaxFetches, page : Pages, initial : BOOLEAN,
          latest : 0 .. MaxId, ids : SUBSET Ids]

Act ==
  {Idle}
    \cup [at : {"roll"}, room : Rooms]
    \cup [at : {"insert"}, room : Rooms, isNew : BOOLEAN]
    \cup [at : {"log"}, room : Rooms, id : Ids]
    \cup [at : {"rolled", "delete", "deleted"}, id : Ids]
    \cup [at : {"clear"}, room : Rooms]
    \cup [at : {"cleared"}]

TypeOK ==
  /\ DOMAIN rolls \subseteq 1 .. lastId
  /\ rolls \in [DOMAIN rolls -> [room : Rooms, by : Pages]]
  /\ lastId \in 0 .. MaxId
  /\ logged \subseteq Rooms
  /\ fetch \subseteq Fetch
  /\ act \in [Slots -> Act]
  /\ page \in [Pages -> [room : Rooms, cursor : 0 .. MaxId, list : Seq(Ids), seen : SUBSET Ids]]

-----------------------------------------------------------------------------
(* Statements of dice_db.go.                                               *)

InRoom(room) == {i \in DOMAIN rolls : rolls[i].room = room}

\* COALESCE(MAX(id), 0)
LatestId(room) == IF InRoom(room) = {} THEN 0 ELSE Max(InRoom(room))

\* ORDER BY id DESC LIMIT ?
Newest(S) == {i \in S : Cardinality({j \in S : j >= i}) <= Limit}

\* Faulty answers, for the mutants: only the newest roll, one roll skipped.
RowsOneOnly(room, since) ==
  {i \in InRoom(room) : i > since /\ \A j \in InRoom(room) : j <= i}
RowsSkipOne(room, since) == Newest({i \in InRoom(room) : i > since + 1})

Rows(room, since) == Newest({i \in InRoom(room) : i > since})

DeleteRows(S) == rolls' = [i \in DOMAIN rolls \ S |-> rolls[i]]

-----------------------------------------------------------------------------
(* The page.                                                               *)

Shown(p) == {page[p].list[i] : i \in DOMAIN page[p].list}

\* appendRoll: on top, unless the roll was shown before (first a variant without
\* that test, for a mutant).
AppendedAgain(g, id) == [g EXCEPT !.list = <<id>> \o @, !.seen = @ \cup {id}]
Appended(g, id) ==
  IF id \in g.seen THEN g ELSE [g EXCEPT !.list = <<id>> \o @, !.seen = @ \cup {id}]

\* prependRolls: what was not shown before, the newest on top.
Prepended(g, ids) ==
  LET new == ids \ g.seen
      kthNewest(k) == CHOOSE i \in new : Cardinality({j \in new : j >= i}) = k
  IN [g EXCEPT !.list = [k \in 1 .. Cardinality(new) |-> kthNewest(k)] \o @, !.seen = @ \cup ids]

Request(p, n, initial, since, room) ==
  [at |-> "sent", n |-> n, page |-> p, room |-> room, since |-> since, initial |-> initial]

FetchesOf(p) == {f \in fetch : f.page = p}

\* The number of the next fetch of a page; none is left at the bound.
FreeNumbers(p) == {n \in 1 .. MaxFetches : \A f \in FetchesOf(p) : f.n # n}

ActsOf(p) == {s \in Slots : Owner(s) = p /\ act[s] # Idle}
MaySend(p) == Cardinality(FetchesOf(p)) + Cardinality(ActsOf(p)) < MaxRequests

\* The list is emptied and the cursor reset.
EmptyAt(room) == [room |-> room, cursor |-> 0, list |-> <<>>, seen |-> {}]

\* A page comes up with a reload (onAuthSuccess); hidden ones have it behind them.
Init ==
  /\ rolls = [i \in {} |-> [room |-> HomeRoom, by |-> HomeRoom]]
  /\ lastId = 0
  /\ logged = {}
  /\ fetch = {Request(p, 1, TRUE, 0, HomeRoom) : p \in Visible}
  /\ act = [s \in Slots |-> Idle]
  /\ page = [p \in Pages |-> EmptyAt(HomeRoom)]

\* fetchRolls(false), by the timer.
Poll(p) ==
  /\ p \in Visible
  /\ MaySend(p) /\ FreeNumbers(p) # {}        \* bounds of the model
  /\ fetch' = fetch \cup {Request(p, Min(FreeNumbers(p)), FALSE,
                                   page[p].cursor, page[p].room)}
  /\ UNCHANGED <<rolls, lastId, logged, act, page>>

\* applyRoom: another room, and reloadRolls.
EnterRoom(p, room) ==
  /\ room # page[p].room
  /\ MaySend(p) /\ FreeNumbers(p) # {}        \* bounds of the model
  /\ page' = [page EXCEPT ![p] = EmptyAt(room)]
  /\ fetch' = fetch \cup {Request(p, Min(FreeNumbers(p)), TRUE, 0, room)}
  /\ UNCHANGED <<rolls, lastId, logged, act>>

\* fetchRolls, what it does with its answer: when the room has shrunk below the
\* cursor all is fetched again, otherwise the rolls are shown and the cursor moves;
\* when a reload finds none, a hint takes the place of the list.
Outdated(f) == ~f.initial /\ f.latest < page[f.page].cursor

Filled(g, ids) == [Prepended(g, ids) EXCEPT !.cursor = Max(ids \cup {g.cursor})]

Receive(f) ==
  /\ f \in fetch /\ f.at = "rows"
  /\ LET p == f.page IN
     IF Outdated(f)
     THEN /\ page' = [page EXCEPT ![p] = EmptyAt(page[p].room)]
          /\ fetch' = (fetch \ {f}) \cup {Request(p, f.n, TRUE, 0, page[p].room)}
     ELSE /\ page' = [page EXCEPT ![p] = IF f.initial /\ f.ids = {} THEN [@ EXCEPT !.list = <<>>]
                                        ELSE Filled(@, f.ids)]
          /\ fetch' = fetch \ {f}
  /\ UNCHANGED <<rolls, lastId, logged, act>>

\* The request or its answer is lost, or the answer is an error.
LoseFetch(f) ==
  /\ Lossy /\ f \in fetch
  /\ fetch' = fetch \ {f}
  /\ UNCHANGED <<rolls, lastId, logged, act, page>>

-----------------------------------------------------------------------------
(* ListDiceRolls: two statements.                                          *)

ListLatest(f) ==
  /\ f \in fetch /\ f.at = "sent"
  /\ fetch' = (fetch \ {f}) \cup
       {[at |-> "latest", n |-> f.n, page |-> f.page, room |-> f.room,
         since |-> f.since, initial |-> f.initial, latest |-> LatestId(f.room)]}
  /\ UNCHANGED <<rolls, lastId, logged, act, page>>

ListRows(f) ==
  /\ f \in fetch /\ f.at = "latest"
  /\ fetch' = (fetch \ {f}) \cup
       {[at |-> "rows", n |-> f.n, page |-> f.page, initial |-> f.initial,
         latest |-> f.latest, ids |-> Rows(f.room, f.since)]}
  /\ UNCHANGED <<rolls, lastId, logged, act, page>>

-----------------------------------------------------------------------------
(* Rolling, deleting and clearing.  A page may have several of them under  *)
(* way: the roll button waits for the answer, but the Enter key, the       *)
(* delete and the clear buttons do not.                                    *)

\* The first place that is free; there is none at the bounds.
Ready(s) ==
  /\ act[s] = Idle /\ MaySend(Owner(s))
  /\ \A k \in 1 .. MaxActs : k < s[2] => act[<<Owner(s), k>>] # Idle

Goto(s, a) == act' = [act EXCEPT ![s] = a]

\* doRoll.
Roll(s) ==
  /\ Owner(s) \in Rollers /\ Ready(s)
  /\ Goto(s, [at |-> "roll", room |-> page[Owner(s)].room])
  /\ UNCHANGED <<rolls, lastId, logged, fetch, page>>

\* HandleDiceRoll, first statement: DiceRoomExists.
RollLookup(s) ==
  /\ act[s].at = "roll"
  /\ Goto(s, [at |-> "insert", room |-> act[s].room, isNew |-> InRoom(act[s].room) = {}])
  /\ UNCHANGED <<rolls, lastId, logged, fetch, page>>

\* Second statement: InsertDiceRoll.
RollInsert(s) ==
  /\ act[s].at = "insert"
  /\ lastId < MaxId                           \* bound of the model
  /\ LET id == lastId + 1
         room == act[s].room
     IN /\ lastId' = id
        /\ rolls' = [i \in DOMAIN rolls \cup {id} |->
                       IF i = id THEN [room |-> room, by |-> Owner(s)] ELSE rolls[i]]
        /\ Goto(s, IF act[s].isNew THEN [at |-> "log", room |-> room, id |-> id]
                   ELSE [at |-> "rolled", id |-> id])
  /\ UNCHANGED <<logged, fetch, page>>

\* The entry is written only if the roll is still alone in its room (for a mutant).
RollLogIfAlone(s) ==
  /\ act[s].at = "log"
  /\ logged' = IF InRoom(act[s].room) = {act[s].id} THEN logged \cup {act[s].room} ELSE logged
  /\ Goto(s, [at |-> "rolled", id |-> act[s].id])
  /\ UNCHANGED <<rolls, lastId, fetch, page>>

\* Third statement, for a new room: RecordAction.
RollLog(s) ==
  /\ act[s].at = "log"
  /\ logged' = logged \cup {act[s].room}
  /\ Goto(s, [at |-> "rolled", id |-> act[s].id])
  /\ UNCHANGED <<rolls, lastId, fetch, page>>

\* RecordAction fails, which nobody looks at; or the server dies before it, and the
\* answer is lost.
RollLogFails(s) ==
  /\ act[s].at = "log" /\ act[s].room \in Failing
  /\ Goto(s, [at |-> "rolled", id |-> act[s].id]) \/ (Lossy /\ Goto(s, Idle))
  /\ UNCHANGED <<rolls, lastId, logged, fetch, page>>

\* doRoll, the answer: the cursor moves to the roll, and the roll is shown.
RollAnswer(s) ==
  /\ act[s].at = "rolled"
  /\ LET g == Appended(page[Owner(s)], act[s].id)
     IN page' = [page EXCEPT ![Owner(s)] = [g EXCEPT !.cursor = Max({g.cursor, act[s].id})]]
  /\ Goto(s, Idle)
  /\ UNCHANGED <<rolls, lastId, logged, fetch>>

\* deleteRoll, for a roll the page shows: an administrator may delete any, others
\* their own (canDelete).
Delete(s, id) ==
  /\ Ready(s)
  /\ id \in Shown(Owner(s))
  /\ \/ Owner(s) \in Admins
     \/ Owner(s) \in Cleaners /\ (id \in DOMAIN rolls => rolls[id].by = Owner(s))
  /\ Goto(s, [at |-> "delete", id |-> id])
  /\ UNCHANGED <<rolls, lastId, logged, fetch, page>>

\* DeleteDiceRoll: no such roll, or another's for who is no administrator, is an
\* error.
DeleteRow(s) ==
  /\ act[s].at = "delete"
  /\ LET mine == {i \in DOMAIN rolls :
                    i = act[s].id /\ (Owner(s) \in Admins \/ rolls[i].by = Owner(s))}
     IN /\ DeleteRows(mine)
        /\ Goto(s, IF mine = {} THEN Idle ELSE [at |-> "deleted", id |-> act[s].id])
  /\ UNCHANGED <<lastId, logged, fetch, page>>

DeleteAnswer(s) ==
  /\ act[s].at = "deleted"
  /\ page' = [page EXCEPT ![Owner(s)].list = RemoveFirst(@, act[s].id),
                          ![Owner(s)].seen = @ \ {act[s].id}]
  /\ Goto(s, Idle)
  /\ UNCHANGED <<rolls, lastId, logged, fetch>>

\* clearRoom.
Clear(s) ==
  /\ Owner(s) \in Admins /\ Ready(s)
  /\ Goto(s, [at |-> "clear", room |-> page[Owner(s)].room])
  /\ UNCHANGED <<rolls, lastId, logged, fetch, page>>

\* ClearDiceRoom.
ClearRows(s) ==
  /\ act[s].at = "clear"
  /\ DeleteRows(InRoom(act[s].room))
  /\ Goto(s, [at |-> "cleared"])
  /\ UNCHANGED <<lastId, logged, fetch, page>>

ClearAnswer(s) ==
  /\ act[s].at = "cleared"
  /\ page' = [page EXCEPT ![Owner(s)] = EmptyAt(page[Owner(s)].room)]
  /\ Goto(s, Idle)
  /\ UNCHANGED <<rolls, lastId, logged, fetch>>

\* The request never arrives or comes to nothing, or its answer never comes back.
LoseAct(s) ==
  /\ Lossy /\ act[s].at \in {"roll", "insert", "rolled", "delete", "deleted", "clear", "cleared"}
  /\ Goto(s, Idle)
  /\ UNCHANGED <<rolls, lastId, logged, fetch, page>>

Server ==
  \/ \E f \in fetch : ListLatest(f) \/ ListRows(f)
  \/ \E s \in Slots : RollLookup(s) \/ RollInsert(s) \/ RollLog(s) \/ RollLogFails(s)
                        \/ DeleteRow(s) \/ ClearRows(s)

Answers ==
  \/ \E f \in fetch : Receive(f)
  \/ \E s \in Slots : RollAnswer(s) \/ DeleteAnswer(s) \/ ClearAnswer(s)

Clicks ==
  \/ \E s \in Slots : Roll(s) \/ Clear(s) \/ \E id \in Shown(Owner(s)) : Delete(s, id)
  \/ \E p \in Movers, room \in Rooms : EnterRoom(p, room)

Losses ==
  \/ \E f \in fetch : LoseFetch(f)
  \/ \E s \in Slots : LoseAct(s)

Next == Server \/ Answers \/ Clicks \/ Losses \/ \E p \in Pages : Poll(p)

Spec == Init /\ [][Next]_vars

\* The timer of a visible page keeps firing, and each of its fetches is served
\* and answered in the end.
Serve(p, n) ==
  \E f \in FetchesOf(p) : f.n = n /\ (ListLatest(f) \/ ListRows(f) \/ Receive(f))

FairSpec ==
  /\ Spec
  /\ \A p \in Visible : WF_vars(Poll(p))
  /\ \A p \in Visible : \A n \in 1 .. MaxFetches : WF_vars(Serve(p, n))

-----------------------------------------------------------------------------
Watchers == Visible \ (Rollers \cup Cleaners \cup Admins \cup Movers)

Reloading(p) == \E f \in FetchesOf(p) : f.initial

\* A page never shows a roll twice, although its own answer, overlapping fetches
\* and reloads all bring the same rolls (appendRoll).
NoRollTwice ==
  \A p \in Pages : \A i, j \in DOMAIN page[p].list :
    page[p].list[i] = page[p].list[j] => i = j

\* What a page may pass over: an answer holds the newest Limit rolls, so a roll is
\* skipped only by Limit newer ones (dice_db.go:54).
WithinLimit(i, newest) == newest - i < Limit

\* A page that only watches has no gap in the newest Limit rolls below its cursor,
\* once a reload of it is through: what it passed it was given (seenIds), whatever
\* the order of the answers and whatever others roll, delete and clear (fetchRolls),
\* and however many rolls come between two fetches.
NoGap ==
  \A p \in Watchers : ~Reloading(p) =>
    \A i \in InRoom(page[p].room) :
      i <= page[p].cursor /\ WithinLimit(i, page[p].cursor) => i \in page[p].seen

UpToDate(p) ==
  \A i \in InRoom(page[p].room) : WithinLimit(i, lastId) => i \in page[p].seen

\* A page that only watches catches up: unless rolls never stop coming, it has again
\* and again been given everything that is to be shown, whatever is deleted, cleared
\* and reloaded meanwhile.  It speaks of seenIds, not of the list: see SeenIsShown.
CatchesUp ==
  \A p \in Watchers : []<>UpToDate(p) \/ []<><<\E s \in Slots : RollInsert(s)>>_vars

\* When a room gets its first roll it gets its log entry, or that roll is about to write
\* it: of several first rolls under way, of which each may find records of another, at
\* least one was told that the room is new, and a clear in between does not undo that
\* (dice_handler.go:60-72).  Nothing takes an entry back, so it is the first time a
\* room comes into being that counts; and writing the entry must not fail, since nobody
\* would try again.
RoomLogged ==
  \A r \in Rooms \ Failing : InRoom(r) # {} =>
    r \in logged \/ \E s \in Slots : act[s].at = "log" /\ act[s].room = r

\* www/dice.html:931-942: a reload that finds no roll takes what came meanwhile off
\* the page, which will not show it again.  So what a page takes for shown it shows.
SeenIsShown == \A p \in Pages : page[p].seen = Shown(p)

\* dice_handler.go:19: a roll is broadcast to everybody in the room.  So what a
\* page's cursor has passed, the page shows.
Broadcast ==
  \A p \in Pages : ~Reloading(p) =>
    \A i \in InRoom(page[p].room) : i <= page[p].cursor => i \in Shown(p)

\* www/dice.html:931: a page notices that its room was cleared, and fetches all
\* again.  So a page that only watches does not show a cleared roll for ever.
ClearNoticed ==
  \A p \in Watchers : \A i \in Ids :
    (i \in Shown(p) /\ i \notin DOMAIN rolls) ~> (i \notin Shown(p))

\* www/dice.html:917: the newest on top.
NewestOnTop ==
  \A p \in Pages : \A i, j \in DOMAIN page[p].list :
    i < j => page[p].list[i] > page[p].list[j]

\* dice_handler.go:60: one log entry when a room comes into being.  Where nobody
\* deletes, it comes into being once.
RoomLoggedOnce ==
  [][Cleaners \cup Admins = {} => \A s \in Slots : RollLog(s) => act[s].room \notin logged]_vars
=============================================================================
