# A verification of the live broadcast platform

TLA+ models of the platform's server (Go, `src/backend`) and of two of its pages
(`src/www/dice.html`, which shares dice rolls, and the audit tabs of
`src/www/admin.html`), the TLC runs that check them, and
theorems about them whose proofs TLAPS checks. Every definition is written from
the source; `PROJECT.json` names for each one the lines it stands for, and lists
the runs, the mutants, the hazards, the findings and the theorems.

## 1. The system

One process serves HTTP. Each request runs in a goroutine of its own, so any two
handlers interleave between any two of their statements. Three stores are shared:

- a SQLite file with **one** connection (`db.go:27`): a statement, or a
  transaction, is atomic; a handler that issues two of them is not;
- memory: the token map under `tm.mu`, the notifier under `n.mu`; both are empty
  after a restart;
- the download directory, changed by plain system calls.

No lock spans two statements of a handler, no transaction spans database and
disk, and browsers poll: nothing is pushed to them.

| component | state it keeps | operations | talks to |
|---|---|---|---|
| accounts (`db.go`, `handler.go`, `admin_handler.go`, `middleware.go`, presets in `dice_db.go`) | tables `users`, `dice_presets`; identities copied into tokens and request contexts | register, login (lookup, then issue), door login, approve, reject, delete, reset password, change own password (verify, then update), save and delete presets, `seedAdmin` at start | token manager, notifier, audit trail |
| token manager (`token.go`) | `tokens`: string -> identity and expiry, under an RWMutex | Generate, Validate (read lock, compare, write lock), cleanupLoop every ten minutes | called by login and by AuthMiddleware |
| registration notifier (`notify.go`) | `lastByIP`, `lastGlobal`, `suppressed`, under a mutex | throttle or push; pushes run in the background and may fail | called by register; an external push service |
| cloud drive (`handler.go:340-684`, `db.go:490-531`) | the download tree, table `cloud_files` | list, upload (create `.name.part`, copy, rename, credit), mkdir, delete, move, download, cleanup at start | admin and user requests |
| dice expressions (`dice.go`) | none between requests | parse, roll, explode, keep and drop, add, criticals | called by the roll handler |
| dice rooms (`dice_handler.go`, `dice_db.go`, `www/dice.html`) | table `dice_rolls`; per page a room, a cursor, the list shown, fetches under way | roll, poll, reload, delete, clear, change rooms | pages poll the handlers |
| dice expression editor (`www/dice.html`) | the draft, the mode, the preview | buttons, typing, preview, expansion of advantage and disadvantage, presets, rolling | repeats the grammar of `dice.go`; the roll and preset handlers |
| audit trail (`db.go`, `admin_handler.go`, `www/admin.html`) | insert-only tables `action_logs`, `auth_attempts`, `stream_views`; per tab of the page the answer shown, and fetches under way | insert, leaf with LIMIT and OFFSET, count, buttons | every handler inserts |
| configuration and start (`config.go`, `main.go`) | `config.json`, the environment, the settings of each process, leftovers of uploads | read, create on first start, override, open database and folders, clean up, take the port | the operator; a second process; the cloud drive's `.part` files |
| streams (`zlm.go`, `handler.go`, `index.html`) | none | list and open streams | an external media server |
| video on demand, games, static files | none | read | disk |
| disk space (`disk_*.go`) | none | read | disk |
| admin (other tabs), cloud, login pages | a token, a folder, the last answer | forms | the handlers |

### What is hard, and what correct means

- **Accounts.** An identity is copied twice (into the token, into the request)
  and never compared with the table again, while accounts are rejected, deleted,
  and registered under the same name. Correct: the copy never comes to mean
  somebody else, whoever acts as an administrator is one, a password changes only
  by its owner or an administrator, an approved account is not lost to a decision
  taken on a stale list, nobody inherits what a deleted account left, and a
  restart changes no account.
- **Token manager.** `Validate` looks under the read lock, compares without a
  lock, and deletes under the write lock; the cleanup loop, other calls and new
  logins come between. Correct: it answers as an atomic table of leases would,
  nobody is logged out before the expiry, and expired entries are collected.
- **Notifier.** The clock is read *before* the lock, so time runs backwards
  between decisions; the map is pruned, and reset when that is not enough. Correct:
  the two minimum distances hold anyway, and every throttled registration is
  accounted for.
- **Cloud drive.** Handlers are sequences of system calls on names; the process
  may die between any two. Correct: what is visible is whole and is what its
  uploader sent, a download is one whole file, and no `.part` file survives its
  upload.
- **Dice.** Boundary arithmetic: ranges of dropped dice, one explosion budget,
  sums beyond `int`. Correct: what is rolled is what was written, the right dice
  count, every roll ends and stays small.
- **Dice editor.** A second grammar in another language, an expansion that edits
  an expression, presets that store it, answers that come late. Correct: what is
  previewed is what the server takes, advantage is applied once and to the first
  dice, a preset rolls what it was saved for, and no button makes the server fail.
- **Dice rooms.** Overlapping fetches that are not answered in order, two
  statements per answer, lost messages, deletions by owners and administrators,
  clears, more rolls between two fetches than an answer holds; rolls, deletes and
  clears of one page overlap too, since the Enter key rolls whatever is under way.
  Correct: no roll twice, no gap among the newest, a watching page catches up, and
  a room that has rolls has its log entry.
- **Audit trail.** A page is two statements, and leafing is several pages, while
  every handler adds rows in the order of a clock that has seconds and may be set
  back. Correct: who leafs to the end has been shown whatever was there at the
  begin, and no button leads to an empty page.
- **Start.** The first start writes `config.json` in three system calls and may die
  between them; the port, which excludes a second process, is taken last.
  Correct: without an edit every start comes to the same settings, the operator's
  file is not changed, the environment never gets into the file, and a process
  that serves has no leftovers in its folder.

`PROJECT.json` lists each hazard at its line with the properties meant for it.

## 2. The modules

| module | stands for | state and actions |
|---|---|---|
| `Accounts` | accounts, presets, identities | `users`, `presets` are the tables, `lastId` the AUTOINCREMENT mark, `tokens` what live tokens stand for, `req` where each handler is. One action per statement or transaction, e.g. `LoginVerify` (lookup) and `LoginIssue` (token); `Restart` runs `seedAdmin` |
| `SessionLease` | abstract: what a token promises | leases, and the answer given to each request |
| `TokenManager` | `token.go` | `now`, `tokens`, `used`, `call`; Validate is `ValidateRead`, `ValidateCheck`, `ValidateDrop`, `Return`; `Cleanup`, `Tick`, `Restart` |
| `Notifier` | `notify.go` | the three fields, `call` (clock read, lock not yet taken), `sending`; `pushes`, `throttled`, `told`, `lost` are histories |
| `CloudDrive` | uploads, downloads, folders, deletions, moves, start | `fs` (entry -> inode or folder), `content` (blocks tagged with their writer), `rows` (`cloud_files`), `req`; one action per system call or statement |
| `DiceExpr` | `RollDice` | the variables of `parseExpression` and `RollDice`; one action per pass of a loop; the dice are the nondeterminism |
| `DiceEditor` | the editor in front of `RollDice` | `draft`, `mode`, `shown`, `preset` on the page and in the table, `answer` of the request; one action per button; `RollStep` is a step of `DiceExpr` |
| `DiceRoom` | the handlers and the page | `rolls`, `lastId`, `logged` on the server; `fetch` under way, and in `act` the rolls, deletes and clears; `page` = room, cursor, list, ids taken for shown (`seenIds`) |
| `AuditTrail` | the audit tables and the tabs that leaf through them | `log` (table -> times of its rows), `fetch` (sent, listed, counted: one action per statement), `shown` (the answer a tab shows, its buttons), `seen` a history; `owed` in a request is what was there at the first page |
| `Startup` | `LoadConfig` and `main` | `file`, `env` of the operator; `proc` = where each process is, with its environment or settings; `parts`, `busy` the `.part` files and running uploads; one action per system call; `Kill` at any point; `fresh`, `used`, `stale` are histories |
| `MCAccounts`, `MCNotifier`, `MCCloudDrive`, `MCDiceExpr`, `MCDiceEditor`, `MCDiceRoom`, `MCAuditTrail`, `MCStartup` | small instances for TLC | |
| `Accounts_proofs`, `TokenManager_proofs`, `Notifier_proofs`, `AuditTrail_proofs`, `Startup_proofs`, `CloudDrive_proofs`, `DiceRoom_proofs`, `Dice_proofs` (of `DiceExpr` and `DiceEditor`) | proofs | |

`TokenManager` is composed with `SessionLease` by `INSTANCE ... WITH`: the leases
are the entries not yet expired, the answers those of the finished calls.
`Accounts` uses of the token manager only that a token may lapse at any moment;
when it does is `TokenManager`'s subject. `DiceEditor` extends `DiceExpr`, whose
variables are the server's: sending a draft starts them anew, a step of `DiceExpr`
is a step of the editor (`RollStep`), and the result becomes the answer. What the
user edits while `RollDice` works touches none of its variables, so the model has
those edits between its end and the arrival of the answer. A second roll started
by the Enter key meanwhile would share nothing with the first on the server; it is
left out there, and is in `DiceRoom`, where the answers of the two meet.
A preset is applied from the list as just loaded. `DiceRoom` treats a roll as its id; what
it says is `DiceExpr`'s subject. `Startup` has of an upload only that its `.part`
file is there from begin to end, and of the cleanup which folder it cleans; what
the cleanup does inside the folder is `CloudDrive`'s `Restart`. Its two settings
stand for all twelve, which the code treats alike. Operators whose name says what is wrong with
them (`ThrottledByIpOnly`, `CopiedAny`, ...) are faulty variants that the mutants
put in place of the right ones; no specification uses them.

Abstractions common to all: a password hash stands for its password, a file for
two or fewer blocks, a name for a model value; formatting and logging
are left out unless a property is about them. The audit inserts at the end of a
handler are left out of the other modules, since nothing but the administrator's
page reads them; in `AuditTrail` they come at any time. The exception is the
entry for a new room, which `DiceRoom` has. A request refused before its first effect is not an
action. `os.RemoveAll` is one step: what a concurrent upload could leave in a
half removed folder is not modelled.

## 3. The runs

| run | instance | shows | states |
|---|---|---|---|
| `accounts` | 2 requests, 3 names, 2 passwords, 3 ids, 1 label | identities, presets, passwords, approval, restart | 716,448 |
| `token_manager` | 2 calls, 2 token strings, lifetime 1, clock to 4 | refinement of the leases, no early logout, collection | 4,587 |
| `notifier` | 2 handlers, 3 addresses, intervals 3 and 2, map of 2, clock to 6, 4 calls | both distances, the count | 47,185 |
| `cloud` | 2 clients, 1 administrator, names `a` and `b`, a file in either | visible files whole, downloads whole, no `.part` left, publication | 1,395,593 |
| `dice` | 5 families of expressions, d2 and d3, 3 dice a term, 4 in all, 2 explosions, ints to 7 | parsing, keep and drop, explosions, totals, criticals, termination, a bound on the passes | 44,694 |
| `dice_editor` | 1 die a click, d2, +1, -1, dl1, !, 10 typed texts, 2 templates, 3 dice a term and in all | preview and server agree, advantage, presets, panics | 1,132,832 |
| `room_watch` | a watching page, an administrator's page that rolls, deletes and clears; 3 rolls, 2 in an answer, 2 fetches | the newest are put on display without a gap, catching up | 803,046 |
| `room_own` | one page that does everything, two things at a time, 2 rooms, 3 rolls, losses | no roll twice, the log entry | 2,151,917 |
| `audit` | 1 table of up to 4 rows, pages of 2, 2 clock values, 2 fetches | leafing is complete, no empty page | 592,216 |
| `startup` | 2 processes, 3 texts of `config.json`, 3 environments, 1 `.part` file | settings agree, file kept, environment kept out, leftovers gone | 853,647 |
| `cloud_shared`, `room_broadcast` | | refute what a comment says (section 6) | |

Why the bounds are enough to meet the interesting cases:

- `accounts`: ids run out after three accounts, so a name can be registered,
  deleted and registered again next to the administrator while the other request
  still holds the old identity. Two requests are what any race here needs: one
  that holds a copy and one that changes the table. `MaxId` bounds the ids.
- `token_manager`: with lifetime 1 and clock 4 (`MaxTime`) a token is issued,
  expires, is read, compared and deleted at different instants, with another
  call, the cleanup and a new token in between.
- `notifier`: four calls (`MaxCalls`) to three addresses overflow a map of two,
  so that pruning happens; the clock (`MaxTime` 6) is twice the longer interval.
  `2 * 2 >= 3`: the map is large enough, as in the code, and then it is never reset,
  here as there; why is part of the proof of `PerIpGapHolds` (section 4).
- `cloud`: `a` may be a file or a folder, so an upload may be refused by a
  folder, and a move may meet a published file. The name `b` ends in `.part`
  (`PartPaths`), so a published file that is moved there is taken for a leftover by
  the next start. The path `a` can be downloaded while the other client replaces
  it and the administrator moves or deletes it. A file has one block here: it is
  blank or whole; the mixtures need two blocks and appear in `cloud_shared`. Five
  inodes never run out.
- `dice`: the die that decides has 3 sides instead of 20, an `int` ends at 7
  instead of 2^63 - 1; both are constants. All sequences of up to four tokens over
  nine chunks, well formed or not; every mode with counts from 0 to more than
  there are dice; terms that explode for ever; sums that leave `int` and return;
  terms that are within the limit each and above it together.
- `dice_editor`: a draft has up to two clicked terms (`MaxDraft`), so there is a
  first one for advantage and another that must stay as it is. The typed texts are
  one for each limit and malformation: no dice asked for, too many in a term or in
  all, too many sides, a number beyond `int`, operators at the end and doubled,
  dice that keep some or too many.
- `room_watch`, `room_own`: `MaxId` bounds the rolls, `MaxFetches` the fetches of
  a page, `MaxActs` its rolls, deletes and clears, `MaxRequests` both together. Two
  under way are the least that overlap. In `room_watch` three rolls with a `Limit`
  of two let one be passed over because an answer is full; the page that rolls
  deletes what it rolled and clears the room, so that rolls go away between the
  two statements of a watcher's answer. In `room_own` two acts at a time are two first
  rolls of one room, or a roll and the clear that makes the room new again; the log
  entry of the second room may fail (`Failing`), that of the first must not be lost.
- `audit`: four rows (`MaxRows`) are two full pages, so that a row can be pushed
  from the first to the second and a third can come into being between the rows
  and the count; two clock values are a tie and a clock set back; with
  `MaxFetches` 2 an answer overtakes another. The code for the three tables is
  the same, and they do not touch, so one table is enough.
- `startup`: two processes are one that writes and one that reads, or one that
  serves and one that starts. A whole file, one with a field left out, and one with
  a field of the wrong type; an environment that is empty or sets either field.
  One leftover (`MaxParts`) in one folder or another shows which folder is cleaned.

Two assumptions of `cloud` are switches of the model, because without them the
code breaks the promise (section 6): `OneUploadPerPath`, `NoMoveUnderUpload`.
The run says that nothing *else* breaks it. `startup` has two such switches: `OperatorWaits` (nobody
edits `config.json` while a first start writes it) and `FileReadable` (a
`config.json` that exists can be opened). `RoomLogged` is about rooms whose entry
does not fail to be written (`Failing`): its error is not looked at, and nobody would
write it later. `NoGap` and `CatchesUp` are about pages that only watch and lose no
message. They speak of `seenIds`, of what the page was given, whatever is deleted
and cleared meanwhile; an empty answer may wipe it off the page (`SeenIsShown` in
section 6).

The type invariants are proved (section 4) and not repeated as invariants of the
runs, except in `dice`, where that of the total says that `int` arithmetic wraps.

Every property of a passing run has a mutant: a plausible fault put in place of
one definition, under which TLC finds the property violated.

### Fairness

- `ExpiredCollected`: `WF(Cleanup)`. The ticker of `cleanupLoop` never stops and
  no lock is held across anything that blocks. No fairness of requests is used:
  an expired token that nobody presents again must go, too.
- `CatchesUp`: for every visible page `WF(Poll)`, since `setInterval` keeps
  firing, and `WF` of serving and receiving each of its fetches: a handler runs to
  its end and, in this run, nothing is lost. Weak fairness of "some fetch" is not
  enough: an answer to an old fetch may be shown after a reload has reset the
  cursor, and only the reload's own answer repairs the page.
- `Terminates`: `WF(Next)`: `RollDice` runs in one goroutine without waiting. The
  end is an answer, a refusal, or the panic of `dice.go:279` on a term that keeps more
  dice than were thrown for it.
- Nobody is assumed to click, log in or roll.

`CatchesUp` promises a moment at which the page is up to date, again and again,
unless rolls never cease: no more is true, because each deletion by others and
each reload undoes it for a while.

Deadlock is checked except in `dice` (a roll ends) and in `room_watch` (where a
page may have used up the ids while its insert waits for one: `MaxId`).

## 4. What is proved

For every value of the constants that satisfies the named assumptions:

| theorem | states |
|---|---|
| `TypeCorrect` of each proof module | the type invariant |
| `Accounts_proofs!IdentityIsStable`, `AdminIsBacked`, `PresetsKeepOwner` | the invariants of `accounts` |
| `Accounts_proofs!ApprovedIsKept`, `PasswordIsAuthorised`, `RestartIsHarmless` | its action properties |
| `TokenManager_proofs!NoEarlyLogoutHolds` | a token is accepted until its expiry |
| `TokenManager_proofs!TokenManagerIsLease` | the refinement: `Spec => Lease!Spec` |
| `Notifier_proofs!GlobalGapHolds` | the global distance, map reset or not |
| `Notifier_proofs!PerIpGapHolds` | the distance per address, if `MapLargeEnough` |
| `Notifier_proofs!ThrottledAreCounted` | the count of `notifier`: no throttled registration is lost or counted twice |
| `AuditTrail_proofs!PagingIsComplete`, `NoEmptyPages` | the invariants of `audit` |
| `Startup_proofs!EnvStaysOut`, `LeftoversAreGone` | two invariants of `startup` |
| `Startup_proofs!SettingsAgree`, `OperatorFileStays` | the other two properties, if `OperatorWaits` and `FileReadable` |
| `CloudDrive_proofs!VisibleIsWhole`, `PartsAreOwned`, `OwnIsPublished` | three properties of `cloud`, if `OneUploadPerPath` and `NoMoveUnderUpload` |
| `CloudDrive_proofs!DownloadsAreIntact` | the fourth: a download is the whole file it opened; same two assumptions |
| `DiceRoom_proofs!NeverTwice`, `RoomEntered` | no page shows a roll twice; a room with rolls has its log entry, unless that fails to be written |
| `DiceRoom_proofs!WatchersMissNothing` | the invariant `NoGap` of `room_watch`, if no message is lost |
| `Dice_proofs!RollTypeCorrect`, `TermsAsWritten`, `RightDiceKept`, `ExplosionsExact`, `DiceWithinBounds`, `CritByOneDie`, `SumsExact` | the seven invariants of `dice` |
| `Dice_proofs!PassesRunOut` | a call has a bounded number of passes before it, and each makes it smaller |
| `Dice_proofs!AppliedAsSaved`, `RolledAsDrafted`, `StoredIsValid` | three invariants of `dice_editor`: what is applied is what was saved, what is rolled is what is drafted, what is stored stays valid |
| `Dice_proofs!PreviewIsRight` | the preview and the server agree, if no typed number of dice to keep is beyond `int` (`TypedFits`) |
| `Dice_proofs!OnlyTypedPanics` | only a typed `kh`/`kl` count makes `RollDice` panic |

**Accounts.** `IdentityStable` is not inductive: a new account could take an id
that an old identity carries. `IInv` adds that ids are unique in the table, that
every id in a row, an identity or a preset is at most `lastId` (`IdsIssued`), and
that the administrator's row exists (`AdminExists`). A registration takes
`lastId + 1`, hence an id nobody carries: this is what AUTOINCREMENT, as opposed
to a plain rowid, buys. `AdminBacked` needs that `Deletable` excludes
administrators and that no statement changes a role. Assumption:
`AccountsAssumption`.

**Token manager.** After each unlock `Validate` knows a little: `CheckInv` (what
it read is still what the map says, or the map dropped it because it was over)
and `DropInv` (what it is about to delete is over, whoever deleted it meanwhile).
Both rest on token strings never being generated twice (`used`), which is the
model's reading of 32 random bytes. From them every step maps to a step of
`SessionLease` or to a stutter; `Cleanup` and `ValidateDrop` are stutters because
they remove only what is no lease any more. Assumption: `TokenAssumption`.

**Notifier.** The global distance follows from `lastGlobal` being the latest push
(`GlobalLatest`): a handler with an older clock reading is throttled, since its
difference is negative. The distance per address needs that no push is forgotten
too early (`Remembered`). That fails if `pruneLocked` resets the map, and it never
does when `MaxTracked * MinGap >= IpInterval` (2000 * 30 >= 300 in `notify.go`):
young entries are `MinGap` apart, dividing their ages by `MinGap` maps them
injectively into `0 .. MaxTracked - 1`, and the pigeonhole principle gives at most
`MaxTracked` of them (`YoungBound`). TLC's instance satisfies the same condition.
`Accounted` adds up the counts that pushes under way carry; the proof unfolds that
fold one element at a time, over any finite set (`MergedWithout`), and needs that
a new push is none of those under way, which are all in `pushes` (`CountInv`).

**Audit trail.** `PagingComplete` rests on a row only sinking: rows are added and
never removed, so the number of rows before a given one never falls, whatever the
clock says, and a row that was not on the first `k` pages is found further down,
if anywhere (`Covered`). The count is taken after the rows of the page, so a row
beyond the page makes it larger than what the page reaches, and there is a next
page (`Honest`). The other way round, with the count first, the proof fails where
the code would. `NoEmptyPage` needs that no rank below the number of rows is free:
ranks are pairwise distinct (`RanksDiffer`), so by the pigeonhole principle each is
taken (`RankTaken`), and a page is asked for only if the table reaches into it
(`Reached`). Assumption: `AuditAssumption`.

**Start.** `SameSettings` is not inductive: it says nothing of the starts under
way. `IInv` adds that every settled start came to `Agreed`, the settings of the
present file and environment, that a start under way since the last edit holds
the present environment, and that while somebody is creating the file it stands
for the defaults (`Harmless`): absent, cut off and written are read alike, so it
does not matter how far the writer came or whether it died. The two switches are
used where a process that is creating the file meets an edit, or truncates a file
it could not open; without them TLC has counterexamples (section 6).
`LeftoversGone` follows from an invariant about processes past the cleanup: a
leftover that is still there was not in their folder. Assumption:
`StartupAssumption`.

**Cloud drive.** `VisibleWhole` is not inductive: it says nothing of the files that
are to become visible. `IInv` adds that an upload's `.part` file, while it has its
name, is the inode the upload has open, and that what it has written so far is in
it (`Mine`); that no two uploads share a path or an inode (`Apart`); that no
visible file is open (`Closed`); and that no folder about to be moved has an
upload below it (`Still`). `OneUploadPerPath` is used where a new upload finds no
`.part` file of that name, so that its inode is a free one, and
`NoMoveUnderUpload` where a rename takes no `.part` file along. One lemma
(`StepKeeps`) covers every step that only ends uploads and makes visible nothing
but what was visible or has been written to its end: aborts, publication, deletes,
moves, crashes. `DownloadIntact` rests on an upload writing only to the inode it has
open, which is none that somebody is sending: it was a free inode when the upload
began, a name is opened for sending only when it is published, and by then nobody
writes to its inode any more (`Unwritten`). Assumption: `CloudAssumption`, which has
the set of paths closed under the moves of the model.

**Rooms.** `NoRollTwice` follows from every page being `Tidy`: its list has no id
twice and every id of the list is in `seenIds`. An answer adds only ids that are
not in `seenIds` and adds each to it; what makes this inductive is that an answer
has no id twice, because it is a selection of the table by rank (the `k`-th
newest, `KthNewest`), and ranks of different rolls differ. A page forgets
`seenIds` only together with its list. `RoomLogged` is proved as: if a room is
known, then it is logged or one of the rolls under way is still to log it; the
insert of a first roll leaves such a roll behind, and deletions only make rooms
less known. A roll about to log gives that up without an entry only in a room of
`Failing`, of which the property does not speak. `NoGap` speaks of pages with no
reload under way, and is not inductive by far: a page may have any gap until its reload is answered, and the answers that
overtake the reload must not open another. `WatchInv` has, for every watching
page, a number `T` such that above `T` there is no gap, `T` is 0 unless a reload
under way will close every gap up to `T` (`WholeUpTo`), and whatever a fetch under
way will pass over is below the cursor already, or not above `T` (`Fits`). A reload
that is sent sets `T` to the last roll; an answer leaves `T` alone as long as another
reload reaches up to it, and else closes the gaps, and `T` is 0. It needs that
nothing is lost: a lost reload leaves the gap, and TLC shows it.
Assumption: `DiceRoomAssumption`.

**Dice.** The invariant of `RollDice` is `ServerInv`. While it parses (`Parsing`):
below `pos` every operator has a chunk behind it, the term of the `k`-th chunk is
the `k`-th of `specs` and has the sign of the operator before it, `sign` is what the
next one will get (`Written`); the dice counted in the terms are those of the text
so far (`Counting`); an expression is refused for a reason and rolled without one
(`Refusal`). While it rolls (`Rolled`): of the term under way, behind each highest
face stands the die it was good for (`Throwing`); every finished term has its
chain of explosions, all dice asked for, and the right ones kept (`Finished`);
dice on the table are asked for or paid from the budget (`Paid`); the total is the
wrapped sum (`Added`); the critical result follows from the kept dice (`Decided`).
`Finished` holds of a term for ever because the budget only falls. The lemmas
underneath say what the code's helpers compute: places in the stable sort are
distinct and without holes (`PlaceIs`), so a range of `k` places drops `k` dice
(`InRange`, `DroppedIs`); `dropRange` clamps to such a range when it does not panic
(`Clamps`); wrapping a sum of wrapped values wraps the sum (`WrapIs`), and what
lies in the range of `int` is its own wrapping, hence `SumsExact`. Sums are folds
over functions, whose recursion is unfolded without induction: the function it
defines exists for subsets of every size, since there is no first size without one
(`FoldsExist`), and its value does not depend on the element taken first
(`FoldsAnyFirst`), so that `TotalWithout` may take out any index.
`PassesRunOut` is the safety half of `Terminates`: `PassesLeft` falls with every
step and is never negative; that some step is possible until the end, and that
only such a term panics, remains TLC's. Assumption: `DiceAssumption` (the limits
are naturals, the dice of a term fit an `int`, the deciding die has more than one
side).

**Dice editor.** `PresetReproduces` rests on the stored text being already the
expansion of the draft and mode it was saved from, and on applying it resetting
the mode, so that nothing is expanded twice (`PresetInv`). The rest composes the
page with `RollDice`: `PageInv` has `ServerInv` and that what is parsed is the
expansion of the draft that is still on the page (`Sent`). `PanicOnlyTyped`: a pass
of the roll loop only panics on a `kh`/`kl` term that keeps more dice than it rolls
(`PanicsGreedy`), clicks never make such a term, and the expansion keeps as many
dice as the first term had and rolls more. `RollsAsDrafted`: the expansion has the
shape of the draft (`ShapeKept`), so the `k`-th term is that of the `k`-th chunk, of
which `Finished` says what was thrown and kept. `PresetIsValid`: only valid texts
are stored, and only `Edits` take the draft away from them, which end `applied`
(`Stored`). `PreviewAgrees`: the two grammars accept the same of what fits an `int`
(`GrammarsAgree`), the two counts of dice are the same (`DiceInIs`), and beside the
draft stands its preview or no verdict (`Shown`). `TypedFits` is a hypothesis
because the page does not read the digits behind `kh`: without it TLC refutes the
property (section 6). Assumptions: `DiceAssumption`, `EditorAssumption`.

## 5. What is only model-checked

Liveness under fairness (`ExpiredCollected`, `CatchesUp`, `Terminates`) is beyond
TLAPS here, as is everything with `ENABLED`. All other properties of the passing
runs are theorems; those with a hypothesis (`OneUploadPerPath`, `NoMoveUnderUpload`,
`OperatorWaits`, `FileReadable`, `MapLargeEnough`, no losses,
`TypedFits`) are checked by TLC with that hypothesis, and refuted without it, except
for `MapLargeEnough`, which the code's constants satisfy.

## 6. Where the code disagrees with what is said of it

Two by runs that TLC refutes, one for the disk and one for the rooms:

- `cloud_shared`: `handler.go:484` says no fragment poses as a file. Two uploads
  of one name share one `.part` file; the first to finish publishes what the other
  is still writing.
- `room_broadcast`: `dice_handler.go:19` says a roll is broadcast to everybody in
  the room. The answer to a page's own roll moves its cursor past rolls it has not
  fetched.

The others are properties stated in the modules. They are not among the listed
runs: to see TLC refute one, put its name into the configuration of the run of its
module, as INVARIANT or, if it has a `[]` or a `~>`, as PROPERTY, with the change
that is given with it, if any. Of the rooms, `SeenIsShown` and `ClearNoticed` go
with `MCRoomWatch.cfg`, `NewestOnTop` with `MCRoomOwn.cfg`, `RoomLoggedOnce` with
`MCRoomBroadcast.cfg`.

- `SeenIsShown` (`dice.html:931-942`): the empty answer to a reload, overtaken by a
  poll that brought rolls, empties the list but not `seenIds`, so those rolls are
  taken for shown and do not come back until the next reload. A page that
  only watches meets this, too.
- `MoveCredits` (`README.md:182`, with `MCCloudShared.cfg` changed to one client, an
  administrator, `FlatPaths`, no folders, inodes 1 to 4, `OneUploadPerPath`): a
  moved file is to be credited to the administrator. Deleting leaves the row, on
  which the plain INSERT of a later move onto that name fails, unseen.
- `NoPanic` (`dice.go:271`): out-of-range parts are to be clamped. Each end is
  clamped on one side only: `2d6kh3` slices `[0:-1]`, and `RollDice` panics.
- `ThrottledIsTold` (`notify.go:30`): what was throttled is to be told by the next
  notification; a push that fails takes the count with it.
- `PreviewAgrees` with `Typed <- OverflowingTexts` (`dice.html:696`): the page
  previews digits after `kh` that no `int` holds, and the server refuses them.
- `PresetRollable` (`dice_handler.go:210`): a preset of more than 200 dice is stored
  and never rolled.
- `PreviewCurrent` (`dice.html:808`): a late refusal replaces the preview of the
  draft that is there by then.
- `PresetHasAccount` (`db.go:237`): a request under way or a live token saves a
  preset of a deleted account.
- `VisibleWhole` with `NoMoveUnderUpload = FALSE`: a folder moved during an upload
  takes the `.part` file along, and a later upload of that name publishes it.
- `RestartKeepsPublished` (`handler.go:824`, "leftover .part files from interrupted
  uploads"): a published `x.part` is deleted by the next start. The run `cloud` has
  such a name, and its promises hold all the same.
- `MoveKeepsTarget` (`README.md:465`): the test of the target and the rename are
  two calls.
- `NewestOnTop` (`dice.html:915`): a fetch that was under way while the page
  rolled puts older rolls on top.
- `RoomLoggedOnce` (`dice_handler.go:60`): two first rolls both find the room new,
  although nobody deletes.
- `ClearNoticed` (`dice.html:931`): one roll between a clear and the next fetch
  hides the clear, and cleared rolls stay on display.
- `PagesDisjoint`: a row added between two audit pages pushes the last row of the
  first onto the second, which shows it again.
- `OperatorFileKept` with `FileReadable = FALSE` (`config.go:62`, "not found"): any
  error of `os.Open` counts as not found, and `os.Create` truncates a file that
  could be written but not read; with `OperatorWaits = FALSE`: a start that saw no
  file truncates the one the operator has put there since.
- `BrokenMeansDefaults` (`config.go:57`, "using defaults"): a field of the wrong type
  leaves the other fields of the file in force.
- `CleanSparesUploads` (`main.go:29`, "left by interrupted uploads"): a second
  process, started beside a running one, cleans up before it finds the port
  taken, and removes the `.part` files of uploads under way.

`README.md:559` says `config.json` goes before the environment; `README.md:577` and
the code say the reverse, which `Startup` follows.

## 7. Plan

Done, in this order: `Accounts`, `SessionLease`, `TokenManager`, `Notifier`,
`CloudDrive`, `DiceExpr`, `DiceRoom`, `DiceEditor`, `AuditTrail`, `Startup`, each
with its runs; the proofs of every safety property of the passing runs.

To come, the most valuable first:

1. *Proofs.* That `RollDice` is never stuck before its end, by its guards; that a
   server that only the page calls keeps the promises of `DiceExpr`; the
   refinements that items 2 and 3 will bring.
2. *Characters of an expression*: an abstract grammar that `DiceExpr` and the
   preview both implement, with what a chunk's text may be where it is cut.
3. *Rooms*: an abstract room (a set of rolls every watcher converges to) that
   `DiceRoom` implements for watching pages; answers that arrive after
   the page changed rooms; the list of rooms and its counts.
4. *The cloud page and listing*: the change of folder while a listing is under
   way; the uploader shown for a file whose row is stale.
5. *One database connection*: that no handler waits for a second one while it
   holds the first.
6. *File system errors*: `os.Stat` failing with something other than "not found"
   (`handler.go:607`), and a folder removed entry by entry.

## 8. Not modelled

Streams, video, games, static files and disk space keep no state of their own: they
forward, filter or read. Of the configuration, how the text of `token_expiry` is
parsed is left out: `Startup` has it as a setting like the others. bcrypt, SQLite, the media server and the
push service are outside; what the code relies on in them (a hash matches its
password only, AUTOINCREMENT never reuses an id, a push is accepted or fails) is
in the models as such. Checks that refuse a request before it touches anything
(method, size, name, path) are left out: they only make fewer requests possible.
