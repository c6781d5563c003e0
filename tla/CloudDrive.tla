----------------------------- MODULE CloudDrive -----------------------------
(***************************************************************************)
(* The cloud drive (handler.go, db.go): a directory tree on disk, and the  *)
(* table cloud_files that credits a path to an uploader.  No transaction   *)
(* spans the two, and no lock spans two calls of one request: every system *)
(* call and every SQL statement of a handler is a step, and other requests *)
(* and a crash may come between any two.                                   *)
(*                                                                         *)
(* A file is an inode with a fixed number of blocks, each tagged with the  *)
(* client that wrote it; a client uploads one file of its own, so a file   *)
(* is whole when all its blocks carry one client's tag.  Writing goes to   *)
(* the open inode wherever its name has gone meanwhile.  An upload of path *)
(* p writes the entry <<p, "part">> (".name.part" beside p) and renames it *)
(* to <<p, "final">>.  A download reads the inode it has opened.           *)
(***************************************************************************)
EXTENDS Integers, Sequences, FiniteSets

CONSTANTS
  Clients,     \* request goroutines that upload, one file each, and download
  Admins,      \* request goroutines of the administrator
  AdminName,   \* the name credited for what the administrator does
  Paths,       \* paths below the download directory: sequences of names
  DirPaths,    \* the paths at which the administrator may create a folder
  UploadPaths, \* the paths clients upload to
  DownloadPaths, \* the paths clients download from
  PartPaths,   \* the paths whose own name ends in ".part"
  Inodes,      \* inode numbers: in the runs enough never to run out
  Blocks,      \* blocks of a file
  OneUploadPerPath, \* TRUE: no two clients upload to one path at a time
  NoMoveUnderUpload \* TRUE: no folder is moved while a client uploads below it

\* The names of which paths consist.
Names == UNION {{p[k] : k \in DOMAIN p} : p \in Paths}

Under(d, p) == Len(p) > Len(d) /\ SubSeq(p, 1, Len(d)) = d
Siblings(p, q) == Len(p) = Len(q) /\ SubSeq(p, 1, Len(p) - 1) = SubSeq(q, 1, Len(q) - 1)
Moved(p, from, to) == to \o SubSeq(p, Len(from) + 1, Len(p))

ASSUME CloudAssumption ==
  /\ AdminName \notin Clients
  /\ Admins \cap Clients = {}
  /\ Inodes \subseteq Nat \ {0}
  /\ Blocks \in Nat \ {0}
  /\ OneUploadPerPath \in BOOLEAN /\ NoMoveUnderUpload \in BOOLEAN
  /\ UploadPaths \subseteq Paths /\ DownloadPaths \subseteq Paths /\ PartPaths \subseteq Paths /\ DirPaths \subseteq Paths
  \* Whatever a move makes of a path is a path of the model.
  /\ Paths \subseteq Seq(Names) \ {<<>>}
  /\ \A p, q, r \in Paths : Siblings(p, q) /\ Under(p, r) => Moved(r, p, q) \in Paths

VARIABLES
  fs,       \* entries that exist -> an inode, or Folder
  content,  \* inode -> block -> who wrote it
  rows,     \* cloud_files: path -> uploader
  req       \* request goroutine -> where it is in its handler

vars == <<fs, content, rows, req>>

Conns == Clients \cup Admins

Final(p) == <<p, "final">>
\* Where an upload writes (first, for a mutant, without a name of its own).
InPlace(p) == <<p, "final">>
Part(p) == <<p, "part">>
Entries == Paths \X {"final", "part"}

Folder == 0
NoBlock == "none"
Blank == [k \in 1 .. Blocks |-> NoBlock]
WholeOf(c) == [k \in 1 .. Blocks |-> c]

Idle == [op |-> "idle"]

ClientRequest ==
  {Idle}
    \cup [op : {"copy"}, path : Paths, ino : Inodes, next : 1 .. Blocks + 1]
    \cup [op : {"credit"}, path : Paths]
    \cup [op : {"send"}, ino : Inodes, file : [1 .. Blocks -> Clients \cup {NoBlock}]]

AdminRequest ==
  {Idle}
    \cup [op : {"mkcredit"}, path : Paths]
    \cup [op : {"remove"}, path : Paths, isDir : BOOLEAN]
    \cup [op : {"statTo", "rename", "rowDelete", "rowInsert"}, from : Paths, to : Paths]

TypeOK ==
  /\ DOMAIN fs \subseteq Entries
  /\ \A e \in DOMAIN fs : fs[e] \in Inodes \cup {Folder}
  /\ content \in [Inodes -> [1 .. Blocks -> Clients \cup {NoBlock}]]
  /\ DOMAIN rows \subseteq Paths
  /\ \A p \in DOMAIN rows : rows[p] \in Clients \cup {AdminName}
  /\ req \in [Conns -> ClientRequest \cup AdminRequest]
  /\ \A c \in Clients : req[c] \in ClientRequest
  /\ \A c \in Admins : req[c] \in AdminRequest

-----------------------------------------------------------------------------
(* The file system.                                                        *)

Exists(p) == Final(p) \in DOMAIN fs
IsDir(p) == Exists(p) /\ fs[Final(p)] = Folder
\* What HandleCloudDownload hands out.
Served(p) == Exists(p) /\ ~IsDir(p)
ParentExists(p) == Len(p) = 1 \/ IsDir(SubSeq(p, 1, Len(p) - 1))

Without(S) == [e \in DOMAIN fs \ S |-> fs[e]]
With(e, node) == [x \in DOMAIN fs \cup {e} |-> IF x = e THEN node ELSE fs[x]]

\* Entry `a' takes the name of entry `b'.
Renamed(a, b) ==
  [e \in (DOMAIN fs \ {a}) \cup {b} |-> IF e = b THEN fs[a] ELSE fs[e]]

\* Everything at and below a path.
Tree(p) == {e \in DOMAIN fs : e = Final(p) \/ Under(p, e[1])}

\* rename(2) of a file or folder.
TreeMoved(from, to) ==
  LET image(e) == IF e = Final(from) THEN Final(to) ELSE <<Moved(e[1], from, to), e[2]>>
      stay == DOMAIN fs \ (Tree(from) \cup {Final(to)})
  IN [e \in stay \cup {image(x) : x \in Tree(from)} |->
        IF e \in stay THEN fs[e] ELSE fs[CHOOSE x \in Tree(from) : image(x) = e]]

\* os.Rename refuses a target that is a folder, and a folder onto a file.
CanRename(from, to) ==
  Exists(from) /\ ~IsDir(to) /\ (IsDir(from) => ~Exists(to))

\* Inodes that have a name or are open.
Linked == {fs[e] : e \in DOMAIN fs} \cap Inodes
Open == {req[c].ino : c \in {d \in Conns : req[d].op \in {"copy", "send"}}}

\* A file is created on a free inode; which one does not matter.
FreeInodes == Inodes \ (Linked \cup Open)
FreeInode == CHOOSE i \in FreeInodes : TRUE

\* Blocks of an inode that is neither named nor open are freed.
Reclaim(blocks) ==
  content' = [i \in Inodes |-> IF i \in Linked' \cup Open' THEN blocks[i] ELSE Blank]

Goto(c, r) == req' = [req EXCEPT ![c] = r]
Credit(p, name) == [x \in DOMAIN rows \cup {p} |-> IF x = p THEN name ELSE rows[x]]

Uploading(c) == req[c].op \in {"copy", "credit"}

-----------------------------------------------------------------------------
Init ==
  /\ fs = [e \in {} |-> Folder]
  /\ content = [i \in Inodes |-> Blank]
  /\ rows = [p \in {} |-> AdminName]
  /\ req = [c \in Conns |-> Idle]

\* HandleCloudUpload, os.Create of the .part file: an existing one is truncated
\* and shared with whoever has it open.
UploadCreate(c, p) ==
  /\ req[c] = Idle
  /\ ParentExists(p)
  /\ OneUploadPerPath => \A d \in Clients : Uploading(d) => req[d].path # p
  /\ NoMoveUnderUpload => \A d \in Admins : req[d].op \in {"statTo", "rename"} =>
                            ~Under(req[d].from, p)
  /\ FreeInodes # {}                       \* bound of the model
  /\ LET i == IF Part(p) \in DOMAIN fs THEN fs[Part(p)] ELSE FreeInode
     IN /\ fs' = With(Part(p), i)
        /\ content' = [content EXCEPT ![i] = Blank]
        /\ Goto(c, [op |-> "copy", path |-> p, ino |-> i, next |-> 1])
  /\ UNCHANGED rows

\* io.Copy, one block at the writer's own offset.
UploadWrite(c) ==
  /\ req[c].op = "copy"
  /\ req[c].next <= Blocks
  /\ content' = [content EXCEPT ![req[c].ino][req[c].next] = c]
  /\ Goto(c, [req[c] EXCEPT !.next = @ + 1])
  /\ UNCHANGED <<fs, rows>>

\* io.Copy or Close fails (the disk is full): the .part file is removed by name.
UploadAbort(c) ==
  /\ req[c].op = "copy"
  /\ Goto(c, Idle)
  /\ fs' = Without({Part(req[c].path)})
  /\ Reclaim(content)
  /\ UNCHANGED rows

\* What the upload requires before it publishes the file (first, for a mutant,
\* without the end of the copy).
CopiedAny(c) == req[c].op = "copy"
Copied(c) == req[c].op = "copy" /\ req[c].next = Blocks + 1

\* os.Rename of the .part file onto the final name.
UploadPublish(c) ==
  /\ Copied(c)
  /\ Part(req[c].path) \in DOMAIN fs
  /\ ~IsDir(req[c].path)
  /\ fs' = Renamed(Part(req[c].path), Final(req[c].path))
  /\ Goto(c, [op |-> "credit", path |-> req[c].path])
  /\ Reclaim(content)
  /\ UNCHANGED rows

\* os.Rename fails: the .part file is gone, or the name is that of a folder.
UploadRefused(c) ==
  /\ Copied(c)
  /\ Part(req[c].path) \notin DOMAIN fs \/ IsDir(req[c].path)
  /\ fs' = Without({Part(req[c].path)})
  /\ Goto(c, Idle)
  /\ Reclaim(content)
  /\ UNCHANGED rows

\* SetFileUploader, an upsert; then the answer.
UploadCredit(c) ==
  /\ req[c].op = "credit"
  /\ rows' = Credit(req[c].path, c)
  /\ Goto(c, Idle)
  /\ UNCHANGED <<fs, content>>

\* HandleCloudDownload: what ServeFile opens, and what is in it by then, of which it
\* announces size and date ...
DownloadOpen(c, p) ==
  /\ req[c] = Idle
  /\ Served(p)
  /\ Goto(c, [op |-> "send", ino |-> fs[Final(p)], file |-> content[fs[Final(p)]]])
  /\ UNCHANGED <<fs, content, rows>>

\* ... until all of it is sent or the client is gone.
DownloadEnd(c) ==
  /\ req[c].op = "send"
  /\ UNCHANGED <<fs, rows>>
  /\ Goto(c, Idle)
  /\ Reclaim(content)

\* HandleCloudMkdir: os.Mkdir fails on anything that exists.
Mkdir(c, p) ==
  /\ req[c] = Idle
  /\ ParentExists(p) /\ ~Exists(p)
  /\ fs' = With(Final(p), Folder)
  /\ Goto(c, [op |-> "mkcredit", path |-> p])
  /\ UNCHANGED <<content, rows>>

MkdirCredit(c) ==
  /\ req[c].op = "mkcredit"
  /\ rows' = Credit(req[c].path, AdminName)
  /\ Goto(c, Idle)
  /\ UNCHANGED <<fs, content>>

\* HandleCloudDelete: os.Stat (404 when there is nothing) ...
DeleteStat(c, p) ==
  /\ req[c] = Idle
  /\ Exists(p)
  /\ Goto(c, [op |-> "remove", path |-> p, isDir |-> IsDir(p)])
  /\ UNCHANGED <<fs, content, rows>>

\* ... then RemoveAll or Remove by name, whatever is there by now; Remove fails
\* on a folder that is not empty.  The row of the path stays.
DeleteRemove(c) ==
  /\ req[c].op = "remove"
  /\ LET p == req[c].path
         tree == Tree(p)
     IN fs' = IF req[c].isDir \/ ~IsDir(p) \/ tree = {Final(p)}
              THEN Without(tree)
              ELSE fs
  /\ Goto(c, Idle)
  /\ Reclaim(content)
  /\ UNCHANGED rows

\* HandleCloudMove: os.Stat of the source (404) ...
MoveStatFrom(c, p, q) ==
  /\ req[c] = Idle
  /\ Exists(p)
  /\ NoMoveUnderUpload => \A d \in Clients : Uploading(d) => ~Under(p, req[d].path)
  /\ Goto(c, [op |-> "statTo", from |-> p, to |-> q])
  /\ UNCHANGED <<fs, content, rows>>

\* ... os.Stat of the target (409) ...
MoveStatTo(c) ==
  /\ req[c].op = "statTo"
  /\ Goto(c, IF Exists(req[c].to) THEN Idle ELSE [req[c] EXCEPT !.op = "rename"])
  /\ UNCHANGED <<fs, content, rows>>

\* ... os.Rename ...
MoveRename(c) ==
  /\ req[c].op = "rename"
  /\ IF CanRename(req[c].from, req[c].to)
     THEN /\ fs' = TreeMoved(req[c].from, req[c].to)
          /\ Goto(c, [req[c] EXCEPT !.op = "rowDelete"])
     ELSE /\ fs' = fs
          /\ Goto(c, Idle)
  /\ Reclaim(content)
  /\ UNCHANGED rows

\* ... UpdateFilePath, first statement: the row of the old path goes ...
MoveRowDelete(c) ==
  /\ req[c].op = "rowDelete"
  /\ rows' = [p \in DOMAIN rows \ {req[c].from} |-> rows[p]]
  /\ Goto(c, [req[c] EXCEPT !.op = "rowInsert"])
  /\ UNCHANGED <<fs, content>>

\* ... second statement: a plain INSERT, which fails when the new path has a row
\* already; the handler does not look at the error.
MoveRowInsert(c) ==
  /\ req[c].op = "rowInsert"
  /\ rows' = IF req[c].to \in DOMAIN rows THEN rows ELSE Credit(req[c].to, AdminName)
  /\ Goto(c, Idle)
  /\ UNCHANGED <<fs, content>>

\* A start that does not look into folders (for a mutant).
LeftoverTopLevel ==
  {e \in DOMAIN fs : fs[e] # Folder /\ Len(e[1]) = 1 /\ (e[2] = "part" \/ e[1] \in PartPaths)}

\* What cleanupPartialUploads removes at startup.
Leftover == {e \in DOMAIN fs : fs[e] # Folder /\ (e[2] = "part" \/ e[1] \in PartPaths)}

\* The process dies and main starts it again.
Restart ==
  /\ req' = [c \in Conns |-> Idle]
  /\ fs' = Without(Leftover)
  /\ Reclaim(content)
  /\ UNCHANGED rows

Upload(c) ==
  \/ \E p \in UploadPaths : UploadCreate(c, p)
  \/ UploadWrite(c)
  \/ UploadAbort(c)
  \/ UploadPublish(c)
  \/ UploadRefused(c)
  \/ UploadCredit(c)

Download(c) ==
  \/ \E p \in DownloadPaths : DownloadOpen(c, p)
  \/ DownloadEnd(c)

Manage(c) ==
  \/ \E p \in DirPaths : Mkdir(c, p)
  \/ MkdirCredit(c)
  \/ \E p \in Paths : DeleteStat(c, p)
  \/ DeleteRemove(c)
  \/ \E p, q \in Paths : Siblings(p, q) /\ MoveStatFrom(c, p, q)
  \/ MoveStatTo(c)
  \/ MoveRename(c)
  \/ MoveRowDelete(c)
  \/ MoveRowInsert(c)

Next ==
  \/ \E c \in Clients : Upload(c) \/ Download(c)
  \/ \E c \in Admins : Manage(c)
  \/ Restart

Spec == Init /\ [][Next]_vars

-----------------------------------------------------------------------------
\* What is visible under its own name is a whole file of one client: no
\* interrupted upload poses as one (handler.go:484), whatever the administrator
\* moves or deletes meanwhile and wherever the process dies.
VisibleWhole ==
  \A p \in Paths : Served(p) => \E c \in Clients : content[fs[Final(p)]] = WholeOf(c)

\* An upload that will be answered with success has put its own file there.
PublishedIsOwn ==
  [][\A c \in Clients : UploadPublish(c) =>
       content'[fs'[Final(req[c].path)]] = WholeOf(c)]_vars

\* A .part file belongs to an upload that is under way on its path: every way
\* an upload can end removes it, and a start removes those of a crash.
PartOwned ==
  \A p \in Paths : Part(p) \in DOMAIN fs =>
    \E c \in Clients : req[c].op = "copy" /\ req[c].path = p

\* A download hands out one whole file, the one it has announced, although its name
\* is replaced by a new upload, moved or deleted before the last block is sent
\* (handler.go:441, 484-499).
DownloadIntact ==
  \A c \in Clients : req[c].op = "send" =>
    content[req[c].ino] = req[c].file /\ \E d \in Clients : req[c].file = WholeOf(d)

\* handler.go:824 calls what a start removes leftovers of interrupted uploads:
\* a published file is not removed by a restart.
RestartKeepsPublished ==
  [][Restart => \A p \in Paths : Exists(p) => Final(p) \in DOMAIN fs']_vars

\* README.md:465: a move onto an existing name is refused.
MoveKeepsTarget ==
  [][\A c \in Admins : MoveRename(c) /\ fs' # fs => ~Exists(req[c].to)]_vars

\* README.md:182: when the administrator moves a file, its uploader becomes the
\* administrator.
MoveCredits ==
  [][\A c \in Admins : MoveRowInsert(c) => rows'[req[c].to] = AdminName]_vars
=============================================================================
