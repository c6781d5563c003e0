-------------------------- MODULE CloudDrive_proofs --------------------------
(***************************************************************************)
(* Proofs about CloudDrive, for any number of clients, administrators,     *)
(* paths and blocks, with crashes.                                         *)
(*                                                                         *)
(* Types hold whatever the switches say.  That a visible file is whole     *)
(* needs both: one upload at a time on a path, so that the open .part file *)
(* has one writer, and no folder moved from under an upload, so that the   *)
(* file keeps its place until it is renamed.                               *)
(***************************************************************************)
EXTENDS CloudDrive, TLAPS

-----------------------------------------------------------------------------
(* Types.                                                                  *)

PartsAreFiles == \A p \in Paths : Part(p) \in DOMAIN fs => fs[Part(p)] \in Inodes
MovesAside ==
  \A a \in Admins : req[a].op \in {"statTo", "rename"} => Siblings(req[a].from, req[a].to)

TInv == TypeOK /\ PartsAreFiles /\ MovesAside

\* Entries of fs' that come from entries of fs of the same kind.
FromSame == \A e \in DOMAIN fs' : \E x \in DOMAIN fs : x[2] = e[2] /\ fs'[e] = fs[x]

LEMMA EntryParts ==
  ASSUME NEW e \in Entries
  PROVE  e = <<e[1], e[2]>> /\ e[1] \in Paths /\ e[2] \in {"final", "part"}
BY DEF Entries

LEMMA FsType ==
  ASSUME TInv, DOMAIN fs' \subseteq Entries, FromSame
  PROVE  /\ \A e \in DOMAIN fs' : fs'[e] \in Inodes \cup {Folder}
         /\ PartsAreFiles'
<1>1. \A e \in DOMAIN fs' : fs'[e] \in Inodes \cup {Folder}
  BY DEF TInv, TypeOK, FromSame
<1>2. ASSUME NEW p \in Paths, Part(p) \in DOMAIN fs' PROVE fs'[Part(p)] \in Inodes
  <2>1. PICK x \in DOMAIN fs : x[2] = "part" /\ fs'[Part(p)] = fs[x]
    BY <1>2 DEF FromSame, Part
  <2>2. x = Part(x[1]) /\ x[1] \in Paths
    BY <2>1, EntryParts DEF TInv, TypeOK, Part
  <2> QED BY <2>1, <2>2 DEF TInv, PartsAreFiles
<1> QED BY <1>1, <1>2 DEF PartsAreFiles

LEMMA WithoutType ==
  ASSUME TInv, NEW S, fs' = Without(S)
  PROVE  DOMAIN fs' = DOMAIN fs \ S /\ (\A e \in DOMAIN fs' : fs'[e] = fs[e])
         /\ DOMAIN fs' \subseteq Entries /\ FromSame
<1>1. DOMAIN fs' = DOMAIN fs \ S /\ \A e \in DOMAIN fs' : fs'[e] = fs[e]
  BY DEF Without
<1>2. DOMAIN fs' \subseteq Entries
  BY <1>1 DEF TInv, TypeOK
<1>3. FromSame
  BY <1>1 DEF FromSame
<1> QED BY <1>1, <1>2, <1>3

LEMMA EntriesOfPaths ==
  ASSUME NEW p \in Paths
  PROVE  /\ Final(p) \in Entries /\ Part(p) \in Entries /\ Final(p)[2] = "final" /\ Part(p)[2] = "part"
         /\ Final(p)[1] = p /\ Part(p)[1] = p
BY DEF Final, Part, Entries

\* Where rename(2) takes the entries below a path.
LEMMA TreeMovedType ==
  ASSUME TInv, NEW from \in Paths, NEW to \in Paths, Siblings(from, to),
         fs' = TreeMoved(from, to)
  PROVE  /\ DOMAIN fs' \subseteq Entries /\ FromSame
         /\ \A e \in DOMAIN fs' : \/ e \in DOMAIN fs /\ fs'[e] = fs[e]
                                 \/ \E x \in Tree(from) : x[2] = e[2]
<1> DEFINE image(e) == IF e = Final(from) THEN Final(to) ELSE <<Moved(e[1], from, to), e[2]>>
           stay == DOMAIN fs \ (Tree(from) \cup {Final(to)})
<1>1. ASSUME NEW x \in Tree(from) PROVE x \in DOMAIN fs /\ image(x) \in Entries /\ image(x)[2] = x[2]
  <2>1. x \in Entries /\ x \in DOMAIN fs
    BY DEF Tree, TInv, TypeOK
  <2>2. CASE x = Final(from)
    BY <2>1, <2>2 DEF Final, Entries
  <2>3. CASE x # Final(from)
    <3>1. Under(from, x[1])
      BY <2>3 DEF Tree
    <3>2. Moved(x[1], from, to) \in Paths
      BY <2>1, <3>1, EntryParts, CloudAssumption
    <3>3. image(x) = <<Moved(x[1], from, to), x[2]>>
      BY <2>3
    <3> HIDE DEF image
    <3> QED BY <2>1, <3>2, <3>3, EntryParts DEF Entries
  <2> QED BY <2>2, <2>3
<1>2. fs' = [e \in stay \cup {image(x) : x \in Tree(from)} |->
               IF e \in stay THEN fs[e] ELSE fs[CHOOSE x \in Tree(from) : image(x) = e]]
  BY DEF TreeMoved
<1> HIDE DEF image
<1>3. ASSUME NEW e \in DOMAIN fs', e \notin stay
      PROVE  \E x \in Tree(from) : e = image(x) /\ fs'[e] = fs[x]
  <2>1. \E x \in Tree(from) : image(x) = e
    BY <1>2, <1>3
  <2> QED BY <1>2, <1>3, <2>1
<1>4. \A e \in stay : e \in DOMAIN fs /\ fs'[e] = fs[e]
  BY <1>2
<1>5. DOMAIN fs' \subseteq Entries
  BY <1>1, <1>3, <1>4 DEF TInv, TypeOK
<1>6. FromSame
  BY <1>1, <1>3, <1>4 DEF FromSame
<1>7. \A e \in DOMAIN fs' : e \notin stay => \E x \in Tree(from) : x[2] = e[2]
  BY <1>1, <1>3
<1> QED BY <1>4, <1>5, <1>6, <1>7

LEMMA ReclaimType ==
  ASSUME NEW blocks \in [Inodes -> [1 .. Blocks -> Clients \cup {NoBlock}]], Reclaim(blocks)
  PROVE  content' \in [Inodes -> [1 .. Blocks -> Clients \cup {NoBlock}]]
BY DEF Reclaim, Blank

LEMMA FreeInodeType == ASSUME FreeInodes # {} PROVE FreeInode \in Inodes /\ FreeInode \notin Linked \cup Open
<1>1. FreeInode \in FreeInodes
  BY DEF FreeInode
<1> QED BY <1>1 DEF FreeInodes

LEMMA Roles ==
  ASSUME TypeOK
  PROVE  /\ \A c \in Clients : req[c].op \in {"idle", "copy", "credit", "send"}
         /\ \A c \in Clients : req[c].op = "copy" =>
              /\ req[c].path \in Paths /\ req[c].ino \in Inodes /\ req[c].next \in 1 .. Blocks + 1
              /\ req[c] = [op |-> "copy", path |-> req[c].path, ino |-> req[c].ino, next |-> req[c].next]
         /\ \A c \in Clients : req[c].op = "credit" => req[c].path \in Paths
         /\ \A c \in Clients : req[c].op = "send" => req[c].ino \in Inodes
         /\ \A a \in Admins : req[a].op \in {"idle", "mkcredit", "remove", "statTo", "rename", "rowDelete", "rowInsert"}
         /\ \A a \in Admins : req[a].op \in {"mkcredit", "remove"} => req[a].path \in Paths
         /\ \A a \in Admins : req[a].op \in {"statTo", "rename", "rowDelete", "rowInsert"} =>
              /\ req[a].from \in Paths /\ req[a].to \in Paths
              /\ req[a] = [op |-> req[a].op, from |-> req[a].from, to |-> req[a].to]
<1>1. ASSUME NEW c \in Clients
      PROVE  /\ req[c].op \in {"idle", "copy", "credit", "send"}
             /\ req[c].op = "copy" =>
                  /\ req[c].path \in Paths /\ req[c].ino \in Inodes /\ req[c].next \in 1 .. Blocks + 1
                  /\ req[c] = [op |-> "copy", path |-> req[c].path, ino |-> req[c].ino, next |-> req[c].next]
             /\ req[c].op = "credit" => req[c].path \in Paths
             /\ req[c].op = "send" => req[c].ino \in Inodes
  <2>1. req[c] \in ClientRequest
    BY DEF TypeOK
  <2> QED BY <2>1 DEF ClientRequest, Idle
<1>2. ASSUME NEW a \in Admins
      PROVE  /\ req[a].op \in {"idle", "mkcredit", "remove", "statTo", "rename", "rowDelete", "rowInsert"}
             /\ req[a].op \in {"mkcredit", "remove"} => req[a].path \in Paths
             /\ req[a].op \in {"statTo", "rename", "rowDelete", "rowInsert"} =>
                  /\ req[a].from \in Paths /\ req[a].to \in Paths
                  /\ req[a] = [op |-> req[a].op, from |-> req[a].from, to |-> req[a].to]
  <2>1. req[a] \in AdminRequest
    BY DEF TypeOK
  <2> QED BY <2>1 DEF AdminRequest, Idle
<1> QED BY <1>1, <1>2

\* A step of one request.
LEMMA GotoUpload ==
  ASSUME TInv, NEW c \in Clients, NEW r \in ClientRequest, Goto(c, r)
  PROVE  /\ req' \in [Conns -> ClientRequest \cup AdminRequest]
         /\ \A d \in Clients : req'[d] \in ClientRequest
         /\ \A d \in Admins : req'[d] \in AdminRequest
         /\ MovesAside'
         /\ req'[c] = r /\ \A d \in Conns \ {c} : req'[d] = req[d]
<1>1. c \in Conns /\ c \notin Admins
  BY CloudAssumption DEF Conns
<1>2. req'[c] = r /\ \A d \in Conns \ {c} : req'[d] = req[d]
  BY <1>1 DEF Goto, TInv, TypeOK
<1>3. req' \in [Conns -> ClientRequest \cup AdminRequest]
  BY <1>1 DEF Goto, TInv, TypeOK
<1>4. \A d \in Admins : req'[d] = req[d]
  BY <1>1, <1>2 DEF Conns
<1>5. \A d \in Clients : req'[d] \in ClientRequest
  BY <1>2 DEF TInv, TypeOK, Conns
<1> QED BY <1>2, <1>3, <1>4, <1>5 DEF MovesAside, TInv, TypeOK

LEMMA GotoAdmin ==
  ASSUME TInv, NEW a \in Admins, NEW r \in AdminRequest, Goto(a, r),
         r.op \in {"statTo", "rename"} => Siblings(r.from, r.to)
  PROVE  /\ req' \in [Conns -> ClientRequest \cup AdminRequest]
         /\ \A d \in Clients : req'[d] \in ClientRequest
         /\ \A d \in Admins : req'[d] \in AdminRequest
         /\ MovesAside'
         /\ req'[a] = r /\ \A d \in Conns \ {a} : req'[d] = req[d]
<1>1. a \in Conns /\ a \notin Clients
  BY CloudAssumption DEF Conns
<1>2. req'[a] = r /\ \A d \in Conns \ {a} : req'[d] = req[d]
  BY <1>1 DEF Goto, TInv, TypeOK
<1>3. req' \in [Conns -> ClientRequest \cup AdminRequest]
  BY <1>1 DEF Goto, TInv, TypeOK
<1>4. \A d \in Clients : req'[d] = req[d]
  BY <1>1, <1>2 DEF Conns
<1>5. \A d \in Admins : d # a => req'[d] = req[d]
  BY <1>2 DEF Conns
<1> QED BY <1>2, <1>3, <1>4, <1>5 DEF MovesAside, TInv, TypeOK

LEMMA CreditType ==
  ASSUME TInv, NEW p \in Paths, NEW name \in Clients \cup {AdminName}, rows' = Credit(p, name)
  PROVE  DOMAIN rows' \subseteq Paths /\ \A q \in DOMAIN rows' : rows'[q] \in Clients \cup {AdminName}
BY DEF Credit, TInv, TypeOK

LEMMA TypeInductive == ASSUME TInv, [Next]_vars PROVE TInv'
<1> USE DEF Folder
<1>a. TypeOK /\ PartsAreFiles /\ MovesAside
  BY DEF TInv
<1>b. Idle \in ClientRequest /\ Idle \in AdminRequest /\ Idle.op = "idle"
  BY DEF Idle, ClientRequest, AdminRequest
<1>1. CASE UNCHANGED vars
  BY <1>1 DEF vars, TInv, TypeOK, PartsAreFiles, MovesAside
<1>2. ASSUME NEW c \in Clients, NEW p \in UploadPaths, UploadCreate(c, p) PROVE TInv'
  <2> DEFINE i == IF Part(p) \in DOMAIN fs THEN fs[Part(p)] ELSE FreeInode
  <2>1. p \in Paths
    BY CloudAssumption
  <2>2. i \in Inodes
    BY <1>a, <1>2, <2>1, FreeInodeType DEF UploadCreate, PartsAreFiles
  <2> HIDE DEF i
  <2>3. fs' = With(Part(p), i) /\ content' = [content EXCEPT ![i] = Blank]
        /\ Goto(c, [op |-> "copy", path |-> p, ino |-> i, next |-> 1]) /\ rows' = rows
    BY <1>2 DEF UploadCreate, i
  <2>4. [op |-> "copy", path |-> p, ino |-> i, next |-> 1] \in ClientRequest
    BY <2>1, <2>2, CloudAssumption DEF ClientRequest
  <2>5. DOMAIN fs' \subseteq Entries /\ \A e \in DOMAIN fs' : fs'[e] \in Inodes \cup {Folder}
    BY <1>a, <2>1, <2>2, <2>3, EntriesOfPaths DEF With, TypeOK
  <2>6. PartsAreFiles'
    BY <1>a, <2>2, <2>3 DEF With, PartsAreFiles
  <2>7. content' \in [Inodes -> [1 .. Blocks -> Clients \cup {NoBlock}]]
    BY <1>a, <2>3 DEF Blank, TypeOK
  <2> QED BY <1>a, <2>3, <2>4, <2>5, <2>6, <2>7, GotoUpload DEF TInv, TypeOK
<1>3. ASSUME NEW c \in Clients, UploadWrite(c) PROVE TInv'
  <2>1. /\ req[c].path \in Paths /\ req[c].ino \in Inodes /\ req[c].next \in 1 .. Blocks + 1
        /\ req[c] = [op |-> "copy", path |-> req[c].path, ino |-> req[c].ino, next |-> req[c].next]
    BY <1>a, <1>3, Roles DEF UploadWrite
  <2>2. [req[c] EXCEPT !.next = @ + 1] \in ClientRequest
    <3>1. [req[c] EXCEPT !.next = @ + 1] =
            [op |-> "copy", path |-> req[c].path, ino |-> req[c].ino, next |-> req[c].next + 1]
      BY <2>1
    <3>2. req[c].next + 1 \in 1 .. Blocks + 1
      BY <1>3, <2>1, CloudAssumption DEF UploadWrite
    <3> QED BY <2>1, <3>1, <3>2 DEF ClientRequest
  <2>3. content' \in [Inodes -> [1 .. Blocks -> Clients \cup {NoBlock}]]
    BY <1>a, <1>3, <2>1 DEF UploadWrite, TypeOK
  <2> QED BY <1>a, <1>3, <2>2, <2>3, GotoUpload DEF UploadWrite, TInv, TypeOK, PartsAreFiles
<1>4. ASSUME NEW c \in Clients, UploadAbort(c) \/ UploadRefused(c) PROVE TInv'
  <2>1. Goto(c, Idle) /\ fs' = Without({Part(req[c].path)}) /\ Reclaim(content) /\ rows' = rows
    BY <1>4 DEF UploadAbort, UploadRefused
  <2> QED BY <1>a, <1>b, <2>1, GotoUpload, WithoutType, FsType, ReclaimType DEF TInv, TypeOK
<1>5. ASSUME NEW c \in Clients, UploadPublish(c) PROVE TInv'
  <2>1. req[c].path \in Paths
    BY <1>a, <1>5, Roles DEF UploadPublish, Copied
  <2> DEFINE a == Part(req[c].path)  b == Final(req[c].path)
  <2>2. a \in DOMAIN fs /\ fs' = Renamed(a, b) /\ Reclaim(content) /\ rows' = rows
        /\ Goto(c, [op |-> "credit", path |-> req[c].path])
    BY <1>5 DEF UploadPublish
  <2>3. [op |-> "credit", path |-> req[c].path] \in ClientRequest
    BY <2>1 DEF ClientRequest
  <2>4. b \in Entries /\ b[2] = "final" /\ \A p \in Paths : Part(p) # b
    BY <2>1, EntriesOfPaths
  <2> HIDE DEF a, b
  <2>5. DOMAIN fs' \subseteq Entries /\ \A e \in DOMAIN fs' : fs'[e] \in Inodes \cup {Folder}
    BY <1>a, <2>2, <2>4 DEF Renamed, TypeOK
  <2>6. PartsAreFiles'
    BY <1>a, <2>2, <2>4 DEF Renamed, PartsAreFiles
  <2> QED BY <1>a, <2>2, <2>3, <2>5, <2>6, GotoUpload, ReclaimType DEF TInv, TypeOK
<1>6. ASSUME NEW c \in Clients, UploadCredit(c) PROVE TInv'
  <2>1. req[c].path \in Paths
    BY <1>a, <1>6, Roles DEF UploadCredit
  <2> QED BY <1>a, <1>b, <1>6, <2>1, GotoUpload, CreditType DEF UploadCredit, TInv, TypeOK, PartsAreFiles
<1>7. ASSUME NEW c \in Admins, NEW p \in DirPaths, Mkdir(c, p) PROVE TInv'
  <2>1. p \in Paths
    BY CloudAssumption
  <2>2. [op |-> "mkcredit", path |-> p] \in AdminRequest
    BY <2>1 DEF AdminRequest
  <2>3. fs' = With(Final(p), Folder) /\ Goto(c, [op |-> "mkcredit", path |-> p])
        /\ content' = content /\ rows' = rows
    BY <1>7 DEF Mkdir
  <2>4. DOMAIN fs' \subseteq Entries /\ \A e \in DOMAIN fs' : fs'[e] \in Inodes \cup {Folder}
    BY <1>a, <2>1, <2>3, EntriesOfPaths DEF With, TypeOK
  <2>5. \A q \in Paths : Part(q) # Final(p)
    BY <2>1, EntriesOfPaths
  <2>6. PartsAreFiles'
    BY <1>a, <2>3, <2>5 DEF With, PartsAreFiles
  <2> QED BY <1>a, <2>2, <2>3, <2>4, <2>6, GotoAdmin DEF TInv, TypeOK
<1>8. ASSUME NEW c \in Admins, MkdirCredit(c) PROVE TInv'
  <2>1. req[c].path \in Paths
    BY <1>a, <1>8, Roles DEF MkdirCredit
  <2> QED BY <1>a, <1>b, <1>8, <2>1, GotoAdmin, CreditType DEF MkdirCredit, TInv, TypeOK, PartsAreFiles
<1>9. ASSUME NEW c \in Admins, NEW p \in Paths, DeleteStat(c, p) PROVE TInv'
  <2>1. [op |-> "remove", path |-> p, isDir |-> IsDir(p)] \in AdminRequest
    <3>1. IsDir(p) \in BOOLEAN
      BY DEF IsDir
    <3> HIDE DEF Folder
    <3> QED BY <3>1 DEF AdminRequest
  <2> QED BY <1>a, <1>9, <2>1, GotoAdmin DEF DeleteStat, TInv, TypeOK, PartsAreFiles
<1>10. ASSUME NEW c \in Admins, DeleteRemove(c) PROVE TInv'
  <2>1. Goto(c, Idle) /\ (fs' = Without(Tree(req[c].path)) \/ fs' = fs) /\ Reclaim(content) /\ rows' = rows
    BY <1>10 DEF DeleteRemove
  <2>2. DOMAIN fs' \subseteq Entries /\ FromSame
    BY <1>a, <2>1, WithoutType DEF TInv, TypeOK, FromSame
  <2> QED BY <1>a, <1>b, <2>1, <2>2, GotoAdmin, FsType, ReclaimType DEF TInv, TypeOK
<1>11. ASSUME NEW c \in Admins, NEW p \in Paths, NEW q \in Paths, Siblings(p, q), MoveStatFrom(c, p, q)
       PROVE  TInv'
  <2>1. [op |-> "statTo", from |-> p, to |-> q] \in AdminRequest
    BY DEF AdminRequest
  <2> QED BY <1>a, <1>11, <2>1, GotoAdmin DEF MoveStatFrom, TInv, TypeOK, PartsAreFiles
<1>12. ASSUME NEW c \in Admins, NEW op \in {"rename", "rowDelete", "rowInsert"},
              req[c].op \in {"statTo", "rename", "rowDelete"}
       PROVE  /\ [req[c] EXCEPT !.op = op] \in AdminRequest
              /\ [req[c] EXCEPT !.op = op].op = op
              /\ [req[c] EXCEPT !.op = op].from = req[c].from
              /\ [req[c] EXCEPT !.op = op].to = req[c].to
  <2>1. /\ req[c].from \in Paths /\ req[c].to \in Paths
        /\ req[c] = [op |-> req[c].op, from |-> req[c].from, to |-> req[c].to]
    BY <1>a, <1>12, Roles
  <2>2. [req[c] EXCEPT !.op = op] = [op |-> op, from |-> req[c].from, to |-> req[c].to]
    BY <2>1
  <2> QED BY <2>1, <2>2 DEF AdminRequest
<1>13. ASSUME NEW c \in Admins, MoveStatTo(c) PROVE TInv'
  <2>1. Siblings(req[c].from, req[c].to)
    BY <1>a, <1>13 DEF MoveStatTo, MovesAside
  <2>2. \E r \in AdminRequest : Goto(c, r) /\ (r.op \in {"statTo", "rename"} => Siblings(r.from, r.to))
    BY <1>b, <1>12, <1>13, <2>1 DEF MoveStatTo
  <2> QED BY <1>a, <1>13, <2>2, GotoAdmin DEF MoveStatTo, TInv, TypeOK, PartsAreFiles
<1>14. ASSUME NEW c \in Admins, MoveRename(c) PROVE TInv'
  <2>1. req[c].from \in Paths /\ req[c].to \in Paths /\ Siblings(req[c].from, req[c].to)
    BY <1>a, <1>14, Roles DEF MoveRename, MovesAside
  <2>2. \E r \in AdminRequest : Goto(c, r) /\ r.op \notin {"statTo", "rename"}
    BY <1>b, <1>12, <1>14 DEF MoveRename
  <2>3. (fs' = TreeMoved(req[c].from, req[c].to) \/ fs' = fs) /\ Reclaim(content) /\ rows' = rows
    BY <1>14 DEF MoveRename
  <2>4. DOMAIN fs' \subseteq Entries /\ FromSame
    BY <1>a, <2>1, <2>3, TreeMovedType DEF TInv, TypeOK, FromSame
  <2> QED BY <1>a, <2>2, <2>3, <2>4, GotoAdmin, FsType, ReclaimType DEF TInv, TypeOK
<1>15. ASSUME NEW c \in Admins, MoveRowDelete(c) PROVE TInv'
  <2>1. \E r \in AdminRequest : Goto(c, r) /\ r.op \notin {"statTo", "rename"}
    BY <1>12, <1>15 DEF MoveRowDelete
  <2> QED BY <1>a, <1>15, <2>1, GotoAdmin DEF MoveRowDelete, TInv, TypeOK, PartsAreFiles
<1>16. ASSUME NEW c \in Admins, MoveRowInsert(c) PROVE TInv'
  <2>1. req[c].to \in Paths
    BY <1>a, <1>16, Roles DEF MoveRowInsert
  <2> QED BY <1>a, <1>b, <1>16, <2>1, GotoAdmin, CreditType DEF MoveRowInsert, TInv, TypeOK, PartsAreFiles
<1>17. CASE Restart
  <2>1. fs' = Without(Leftover) /\ Reclaim(content) /\ rows' = rows /\ req' = [c \in Conns |-> Idle]
    BY <1>17 DEF Restart
  <2>2. MovesAside' /\ req' \in [Conns -> ClientRequest \cup AdminRequest]
        /\ (\A c \in Clients : req'[c] \in ClientRequest) /\ \A c \in Admins : req'[c] \in AdminRequest
    BY <1>b, <2>1 DEF MovesAside, Conns
  <2> QED BY <1>a, <2>1, <2>2, WithoutType, FsType, ReclaimType DEF TInv, TypeOK
<1>18. ASSUME NEW c \in Clients, NEW p \in DownloadPaths, DownloadOpen(c, p) PROVE TInv'
  <2> DEFINE i == fs[Final(p)]
  <2>1. i \in Inodes
    BY <1>a, <1>18 DEF DownloadOpen, Served, Exists, IsDir, TypeOK
  <2>2. content[i] \in [1 .. Blocks -> Clients \cup {NoBlock}]
    BY <1>a, <2>1 DEF TypeOK
  <2>3. [op |-> "send", ino |-> i, file |-> content[i]] \in ClientRequest
    BY <2>1, <2>2 DEF ClientRequest
  <2>4. Goto(c, [op |-> "send", ino |-> i, file |-> content[i]]) /\ UNCHANGED <<fs, content, rows>>
    BY <1>18 DEF DownloadOpen
  <2> QED BY <1>a, <2>3, <2>4, GotoUpload DEF TInv, TypeOK, PartsAreFiles
<1>19. ASSUME NEW c \in Clients, DownloadEnd(c) PROVE TInv'
  <2>1. Goto(c, Idle) /\ Reclaim(content) /\ UNCHANGED <<fs, rows>>
    BY <1>19 DEF DownloadEnd
  <2> QED BY <1>a, <1>b, <2>1, GotoUpload, ReclaimType DEF TInv, TypeOK, PartsAreFiles
<1> QED BY <1>1, <1>2, <1>3, <1>4, <1>5, <1>6, <1>7, <1>8, <1>9, <1>10, <1>11, <1>13, <1>14, <1>15,
           <1>16, <1>17, <1>18, <1>19 DEF Next, Upload, Download, Manage

LEMMA InitType == ASSUME Init PROVE TInv
<1>1. req \in [Conns -> {Idle}] /\ Idle \in ClientRequest /\ Idle \in AdminRequest /\ Idle.op = "idle"
  BY DEF Init, Idle, ClientRequest, AdminRequest
<1>2. content \in [Inodes -> [1 .. Blocks -> Clients \cup {NoBlock}]]
  BY DEF Init, Blank
<1> QED BY <1>1, <1>2 DEF Init, TInv, TypeOK, PartsAreFiles, MovesAside, Conns

\* The tree, the blocks, the table and every request keep their types, under
\* concurrent uploads of one name and folders moved from under them, too.
THEOREM TypeCorrect == Spec => []TypeOK
<1>1. Init => TInv
  BY InitType
<1>2. TInv /\ [Next]_vars => TInv'
  BY TypeInductive
<1>3. TInv => TypeOK
  BY DEF TInv
<1> QED BY <1>1, <1>2, <1>3, PTL DEF Spec

-----------------------------------------------------------------------------
(* What is visible is whole.                                               *)

Copying(c) == req[c].op = "copy"

\* The .part file of an upload, while it has its name, and what is in it so far.
Mine(c) ==
  /\ Part(req[c].path) \in DOMAIN fs => fs[Part(req[c].path)] = req[c].ino
  /\ \A k \in 1 .. req[c].next - 1 : content[req[c].ino][k] = c

\* No two uploads share a path or a file.
Apart(c, d) ==
  /\ Uploading(c) /\ Uploading(d) => req[c].path # req[d].path
  /\ Copying(c) /\ Copying(d) => req[c].ino # req[d].ino

Sending(c) == req[c].op = "send"

\* No file that is sent is written.
Unwritten(c, d) == Sending(c) /\ Copying(d) => req[c].ino # req[d].ino

\* No visible file is still written.
Closed(c) == \A p \in Paths : Final(p) \in DOMAIN fs => fs[Final(p)] # req[c].ino

\* No folder that is about to be moved has an upload below it.
Still ==
  \A a \in Admins, c \in Clients :
    req[a].op \in {"statTo", "rename"} /\ Uploading(c) => ~Under(req[a].from, req[c].path)

IInv ==
  /\ TInv
  /\ \A c \in Clients : Copying(c) => Mine(c) /\ Closed(c)
  /\ \A c, d \in Clients : c # d => Apart(c, d)
  /\ \A c, d \in Clients : Unwritten(c, d)
  /\ Still
  /\ PartOwned
  /\ VisibleWhole
  /\ DownloadIntact

Assumed == OneUploadPerPath /\ NoMoveUnderUpload

\* Blocks that have a name or are open stay through Reclaim.
LEMMA ReclaimKeeps ==
  ASSUME TInv, TInv', NEW blocks, Reclaim(blocks)
  PROVE  /\ \A p \in Paths : Final(p) \in DOMAIN fs' /\ fs'[Final(p)] # Folder =>
              content'[fs'[Final(p)]] = blocks[fs'[Final(p)]]
         /\ \A c \in Clients : Copying(c)' \/ Sending(c)' => content'[req'[c].ino] = blocks[req'[c].ino]
<1>1. \A i \in Inodes : i \in Linked' \cup Open' => content'[i] = blocks[i]
  BY DEF Reclaim
<1>2. ASSUME NEW p \in Paths, Final(p) \in DOMAIN fs', fs'[Final(p)] # Folder
      PROVE  fs'[Final(p)] \in Inodes /\ fs'[Final(p)] \in Linked'
  BY <1>2 DEF TInv, TypeOK, Linked
<1>3. ASSUME NEW c \in Clients, Copying(c)' \/ Sending(c)'
      PROVE  req'[c].ino \in Inodes /\ req'[c].ino \in Open'
  <2>1. TypeOK'
    BY DEF TInv
  <2>2. req'[c] \in ClientRequest
    BY <2>1 DEF TypeOK
  <2>3. req'[c].ino \in Inodes
    BY <1>3, <2>2 DEF ClientRequest, Idle, Copying, Sending
  <2>4. c \in Conns
    BY DEF Conns
  <2> QED BY <1>3, <2>3, <2>4 DEF Open, Copying, Sending
<1> QED BY <1>1, <1>2, <1>3

\* A step at which a client stays as it is, stops, stops copying, or opens a file.
Opens(c, p) ==
  Served(p) /\ req'[c] = [op |-> "send", ino |-> fs[Final(p)], file |-> content[fs[Final(p)]]]

Ends(c) ==
  \/ req'[c] = req[c]
  \/ req'[c] = Idle
  \/ req'[c].op = "credit" /\ Copying(c) /\ req'[c].path = req[c].path
  \/ \E p \in Paths : Opens(c, p)

\* Where what is visible after a step comes from: it was visible before, or it was
\* published by the upload that has written all of it.
Comes(p) ==
  \/ fs'[Final(p)] = Folder
  \/ \E q \in Paths : Final(q) \in DOMAIN fs /\ fs'[Final(p)] = fs[Final(q)]
  \/ \E c \in Clients : /\ Copying(c) /\ ~Copying(c)' /\ fs'[Final(p)] = req[c].ino
                        /\ content[req[c].ino] = WholeOf(c)

LEMMA StepKeeps ==
  ASSUME IInv, TInv', Reclaim(content) \/ content' = content,
         \A c \in Clients : Ends(c),
         \A p \in Paths : Final(p) \in DOMAIN fs' => Comes(p),
         \A p \in Paths : Part(p) \in DOMAIN fs' =>
           /\ Part(p) \in DOMAIN fs /\ fs'[Part(p)] = fs[Part(p)]
           /\ \A c \in Clients : Copying(c) /\ req[c].path = p => req'[c] = req[c],
         Still'
  PROVE  IInv'
<1>a. TInv /\ TypeOK /\ TypeOK'
  BY DEF IInv, TInv
<1>k. ASSUME NEW c \in Clients
      PROVE  \/ req'[c] = req[c]
             \/ req'[c].op \in {"idle", "send"}
             \/ req'[c].op = "credit" /\ Copying(c) /\ req'[c].path = req[c].path
  <2>1. Idle.op = "idle"
    BY DEF Idle
  <2>2. \A p \in Paths : Opens(c, p) => req'[c].op = "send"
    BY DEF Opens
  <2>3. Ends(c)
    OBVIOUS
  <2> QED BY <2>1, <2>2, <2>3 DEF Ends
<1>b. \A c \in Clients : Copying(c)' => req'[c] = req[c] /\ Copying(c)
  BY <1>k DEF Copying
<1>u. \A c \in Clients : Uploading(c)' => Uploading(c) /\ req'[c].path = req[c].path
  BY <1>k DEF Uploading, Copying
<1>s. \A c \in Clients : Sending(c)' => req'[c] = req[c] \/ \E p \in Paths : Opens(c, p)
  BY DEF Ends, Sending, Idle
<1>c. \A p \in Paths : Final(p) \in DOMAIN fs' /\ fs'[Final(p)] # Folder =>
        content'[fs'[Final(p)]] = content[fs'[Final(p)]]
  BY <1>a, ReclaimKeeps
<1>d. \A c \in Clients : Copying(c)' => content'[req[c].ino] = content[req[c].ino]
  BY <1>a, <1>b, ReclaimKeeps
<1>e. \A c \in Clients : Copying(c) => req[c].path \in Paths /\ req[c].ino \in Inodes /\ req[c].ino # Folder
  BY <1>a, Roles, CloudAssumption DEF Copying, Folder
<1>1. ASSUME NEW c \in Clients, Copying(c)' PROVE Mine(c)' /\ Closed(c)'
  <2>1. req'[c] = req[c] /\ Copying(c) /\ Mine(c) /\ Closed(c)
    BY <1>1, <1>b DEF IInv
  <2>2. Mine(c)'
    BY <1>1, <1>d, <1>e, <2>1 DEF Mine
  <2>3. ASSUME NEW p \in Paths, Final(p) \in DOMAIN fs' PROVE fs'[Final(p)] # req[c].ino
    <3>1. CASE fs'[Final(p)] = Folder
      BY <1>e, <2>1, <3>1
    <3>2. CASE \E q \in Paths : Final(q) \in DOMAIN fs /\ fs'[Final(p)] = fs[Final(q)]
      BY <2>1, <3>2 DEF Closed
    <3>3. ASSUME NEW d \in Clients, Copying(d), ~Copying(d)', fs'[Final(p)] = req[d].ino
          PROVE  fs'[Final(p)] # req[c].ino
      <4>1. c # d /\ Apart(c, d)
        BY <1>1, <3>3 DEF IInv
      <4> QED BY <2>1, <3>3, <4>1 DEF Apart
    <3> QED BY <2>3, <3>1, <3>2, <3>3 DEF Comes
  <2> QED BY <2>1, <2>2, <2>3 DEF Closed
<1>2. ASSUME NEW c \in Clients, NEW d \in Clients, c # d PROVE Apart(c, d)'
  <2>1. Apart(c, d)
    BY <1>2 DEF IInv
  <2> QED BY <1>b, <1>u, <2>1 DEF Apart
<1>3. PartOwned'
  <2> SUFFICES ASSUME NEW p \in Paths, Part(p) \in DOMAIN fs'
               PROVE  \E c \in Clients : req'[c].op = "copy" /\ req'[c].path = p
    BY DEF PartOwned
  <2>1. PICK c \in Clients : req[c].op = "copy" /\ req[c].path = p
    BY DEF IInv, PartOwned
  <2> QED BY <2>1 DEF Copying
<1>4. VisibleWhole'
  <2> SUFFICES ASSUME NEW p \in Paths, Final(p) \in DOMAIN fs', fs'[Final(p)] # Folder
               PROVE  \E c \in Clients : content'[fs'[Final(p)]] = WholeOf(c)
    BY DEF VisibleWhole, Served, Exists, IsDir, WholeOf
  <2>1. content'[fs'[Final(p)]] = content[fs'[Final(p)]]
    BY <1>c
  <2>2. CASE \E q \in Paths : Final(q) \in DOMAIN fs /\ fs'[Final(p)] = fs[Final(q)]
    BY <2>1, <2>2 DEF IInv, VisibleWhole, Served, Exists, IsDir
  <2> QED BY <2>1, <2>2 DEF Comes
<1>5. ASSUME NEW c \in Clients, NEW d \in Clients, Sending(c)', Copying(d)'
      PROVE  req'[c].ino # req'[d].ino
  <2>1. req'[d] = req[d] /\ Copying(d) /\ Closed(d) /\ Unwritten(c, d)
    BY <1>5, <1>b DEF IInv
  <2>2. CASE req'[c] = req[c]
    BY <1>5, <2>1, <2>2 DEF Unwritten, Sending
  <2>3. ASSUME NEW p \in Paths, Opens(c, p) PROVE req'[c].ino # req'[d].ino
    BY <2>1, <2>3 DEF Opens, Served, Exists, Closed
  <2> QED BY <1>5, <1>s, <2>2, <2>3
<1>6. ASSUME NEW c \in Clients, Sending(c)'
      PROVE  content'[req'[c].ino] = req'[c].file /\ \E d \in Clients : req'[c].file = WholeOf(d)
  <2>1. content'[req'[c].ino] = content[req'[c].ino]
    BY <1>a, <1>6, ReclaimKeeps
  <2>2. CASE req'[c] = req[c]
    BY <1>6, <2>1, <2>2 DEF IInv, DownloadIntact, Sending
  <2>3. ASSUME NEW p \in Paths, Opens(c, p)
        PROVE  content[req'[c].ino] = req'[c].file /\ \E d \in Clients : req'[c].file = WholeOf(d)
    BY <2>3 DEF Opens, IInv, VisibleWhole
  <2> QED BY <1>6, <1>s, <2>1, <2>2, <2>3
<1>7. DownloadIntact'
  BY <1>6 DEF DownloadIntact, Sending, WholeOf
<1> QED BY <1>1, <1>2, <1>3, <1>4, <1>5, <1>7 DEF IInv, Unwritten

\* Uploads that stay as they are, and entries that only disappear or are folders.
LEMMA AdminKeeps ==
  ASSUME IInv, TInv', Reclaim(content) \/ content' = content,
         \A c \in Clients : req'[c] = req[c],
         \A e \in DOMAIN fs' : \/ e \in DOMAIN fs /\ fs'[e] = fs[e]
                               \/ e[2] = "final" /\ fs'[e] = Folder,
         Still'
  PROVE  IInv'
<1>1. \A c \in Clients : Ends(c)
  BY DEF Ends
<1>2. \A p \in Paths : Final(p) \in DOMAIN fs' => Comes(p)
  BY DEF Comes
<1>3. \A p \in Paths : Part(p) \in DOMAIN fs' => Part(p) \in DOMAIN fs /\ fs'[Part(p)] = fs[Part(p)]
  BY DEF Part
<1> QED BY <1>1, <1>2, <1>3, StepKeeps

\* A new upload has a file to itself.
LEMMA CreateKeeps ==
  ASSUME IInv, TInv', Assumed, NEW c \in Clients, NEW p \in UploadPaths, UploadCreate(c, p)
  PROVE  IInv'
<1>a. TInv /\ TypeOK /\ TypeOK' /\ p \in Paths /\ c \in Conns
  BY CloudAssumption DEF IInv, TInv, Conns
<1>b. \A d \in Clients : Uploading(d) => req[d].path # p
  BY DEF UploadCreate, Assumed
<1>c. Part(p) \notin DOMAIN fs
  <2> SUFFICES ASSUME Part(p) \in DOMAIN fs PROVE FALSE
    OBVIOUS
  <2>1. PICK d \in Clients : req[d].op = "copy" /\ req[d].path = p
    BY <1>a DEF IInv, PartOwned
  <2> QED BY <1>b, <2>1 DEF Uploading
<1> DEFINE i == FreeInode
<1>d. i \in Inodes /\ i \notin Linked /\ i \notin Open
  BY FreeInodeType DEF UploadCreate
<1> HIDE DEF i
<1>e. /\ fs' = With(Part(p), i) /\ content' = [content EXCEPT ![i] = Blank] /\ req[c] = Idle
      /\ Goto(c, [op |-> "copy", path |-> p, ino |-> i, next |-> 1])
  BY <1>c DEF UploadCreate, i
<1>f. /\ req'[c] = [op |-> "copy", path |-> p, ino |-> i, next |-> 1]
      /\ \A d \in Conns \ {c} : req'[d] = req[d]
  BY <1>a, <1>e DEF Goto, TypeOK
<1>g. \A d \in Clients : Copying(d) \/ Sending(d) => req[d].ino # i /\ req[d].ino \in Inodes
  BY <1>a, <1>d, Roles DEF Open, Copying, Sending, Conns
<1>h. /\ \A q \in Paths : Final(q) # Part(p) /\ (q # p => Part(q) # Part(p))
      /\ \A e \in DOMAIN fs' : e # Part(p) => e \in DOMAIN fs /\ fs'[e] = fs[e]
      /\ fs'[Part(p)] = i
  BY <1>e DEF With, Final, Part
<1>i. \A j \in Inodes : j # i => content'[j] = content[j]
  BY <1>a, <1>e DEF TypeOK
<1>j. \A e \in DOMAIN fs : fs[e] # i
  BY <1>d DEF Linked
<1>1. ASSUME NEW d \in Clients, Copying(d)' PROVE Mine(d)' /\ Closed(d)'
  <2>1. CASE d = c
    <3>1. req'[c].path = p /\ req'[c].ino = i /\ req'[c].next = 1
      BY <1>f
    <3>2. Mine(c)'
      BY <1>h, <3>1 DEF Mine
    <3>3. Closed(c)'
      BY <1>h, <1>j, <3>1 DEF Closed
    <3> QED BY <2>1, <3>2, <3>3
  <2>2. CASE d # c
    <3>1. req'[d] = req[d] /\ Copying(d) /\ Mine(d) /\ Closed(d)
      BY <1>1, <1>f, <2>2 DEF Copying, Conns, IInv
    <3>2. req[d].path \in Paths /\ req[d].path # p
      <4>1. req[d].path \in Paths
        BY <1>a, <3>1, Roles DEF Copying
      <4>2. Uploading(d)
        BY <3>1 DEF Copying, Uploading
      <4> QED BY <1>b, <4>1, <4>2
    <3>3. Mine(d)'
      BY <1>g, <1>h, <1>i, <3>1, <3>2 DEF Mine
    <3>4. Closed(d)'
      BY <1>h, <3>1 DEF Closed
    <3> QED BY <3>3, <3>4
  <2> QED BY <2>1, <2>2
<1>2. ASSUME NEW d \in Clients, NEW e \in Clients, d # e PROVE Apart(d, e)'
  <2>1. Apart(d, e)
    BY <1>2 DEF IInv
  <2>2. \A x \in Clients : x # c => req'[x] = req[x]
    BY <1>f DEF Conns
  <2>3. req'[c].path = p /\ req'[c].ino = i
    BY <1>f
  <2> QED BY <1>2, <1>b, <1>g, <2>1, <2>2, <2>3 DEF Apart, Copying, Uploading
<1>3. Still'
  <2>1. \A a \in Admins : req'[a] = req[a]
    BY <1>f, CloudAssumption DEF Conns
  <2>2. \A d \in Clients : d # c => req'[d] = req[d]
    BY <1>f DEF Conns
  <2>3. \A a \in Admins : req[a].op \in {"statTo", "rename"} => ~Under(req[a].from, p)
    BY DEF UploadCreate, Assumed
  <2>4. req'[c].path = p
    BY <1>f
  <2> QED BY <2>1, <2>2, <2>3, <2>4 DEF Still, IInv, Uploading
<1>4. PartOwned'
  <2> SUFFICES ASSUME NEW q \in Paths, Part(q) \in DOMAIN fs'
               PROVE  \E d \in Clients : req'[d].op = "copy" /\ req'[d].path = q
    BY DEF PartOwned
  <2>1. CASE q = p
    BY <1>f, <2>1
  <2>2. CASE q # p
    <3>1. PICK d \in Clients : req[d].op = "copy" /\ req[d].path = q
      BY <1>h, <2>2 DEF IInv, PartOwned
    <3>2. d # c
      BY <1>e, <3>1 DEF Idle
    <3> QED BY <1>f, <3>1, <3>2 DEF Conns
  <2> QED BY <2>1, <2>2
<1>5. VisibleWhole'
  <2> SUFFICES ASSUME NEW q \in Paths, Final(q) \in DOMAIN fs', fs'[Final(q)] # Folder
               PROVE  \E d \in Clients : content'[fs'[Final(q)]] = WholeOf(d)
    BY DEF VisibleWhole, Served, Exists, IsDir, WholeOf
  <2>1. Final(q) \in DOMAIN fs /\ fs'[Final(q)] = fs[Final(q)]
    BY <1>h
  <2>2. fs[Final(q)] \in Inodes /\ fs[Final(q)] # i
    BY <1>a, <1>j, <2>1 DEF TypeOK
  <2>3. content'[fs[Final(q)]] = content[fs[Final(q)]]
    BY <1>i, <2>2
  <2> QED BY <2>1, <2>3 DEF IInv, VisibleWhole, Served, Exists, IsDir
<1>6. ASSUME NEW d \in Clients, Sending(d)' PROVE d # c /\ req'[d] = req[d] /\ Sending(d)
  BY <1>6, <1>f DEF Sending, Conns
<1>7. ASSUME NEW d \in Clients, NEW e \in Clients PROVE Unwritten(d, e)'
  <2> SUFFICES ASSUME Sending(d)', Copying(e)' PROVE req'[d].ino # req'[e].ino
    BY DEF Unwritten
  <2>1. req'[d] = req[d] /\ Sending(d)
    BY <1>6
  <2>2. CASE e = c
    BY <1>f, <1>g, <2>1, <2>2
  <2>3. CASE e # c
    <3>1. req'[e] = req[e] /\ Copying(e)
      BY <1>f, <2>3 DEF Copying, Conns
    <3> QED BY <2>1, <3>1 DEF IInv, Unwritten
  <2> QED BY <2>2, <2>3
<1>8. DownloadIntact'
  BY <1>6, <1>g, <1>i DEF IInv, DownloadIntact, Sending, WholeOf
<1> QED BY <1>1, <1>2, <1>3, <1>4, <1>5, <1>7, <1>8 DEF IInv

\* A block goes to a file that nobody else has open and nobody sees.
LEMMA WriteKeeps ==
  ASSUME IInv, TInv', NEW c \in Clients, UploadWrite(c)
  PROVE  IInv'
<1>a. TInv /\ TypeOK /\ c \in Conns /\ Copying(c) /\ Mine(c) /\ Closed(c)
  BY DEF IInv, TInv, Conns, UploadWrite, Copying
<1> DEFINE i == req[c].ino  n == req[c].next
<1>b. i \in Inodes /\ n \in 1 .. Blocks /\ req[c].path \in Paths
      /\ req[c] = [op |-> "copy", path |-> req[c].path, ino |-> i, next |-> n]
  BY <1>a, Roles, CloudAssumption DEF UploadWrite
<1>c. req'[c] = [op |-> "copy", path |-> req[c].path, ino |-> i, next |-> n + 1]
      /\ \A d \in Conns \ {c} : req'[d] = req[d]
  BY <1>a, <1>b DEF UploadWrite, Goto, TypeOK
<1>d. fs' = fs /\ \A j \in Inodes : j # i => content'[j] = content[j]
  BY <1>a, <1>b DEF UploadWrite, TypeOK
<1>e. content'[i][n] = c /\ \A k \in 1 .. Blocks : k # n => content'[i][k] = content[i][k]
  BY <1>a, <1>b DEF UploadWrite, TypeOK
<1>f. \A d \in Clients : /\ req'[d].op = req[d].op
                         /\ (Uploading(d) => req'[d].path = req[d].path)
                         /\ (Copying(d) => req'[d].ino = req[d].ino)
                         /\ (d # c => req'[d] = req[d])
  BY <1>b, <1>c DEF Conns
<1> HIDE DEF i, n
<1>1. ASSUME NEW d \in Clients, Copying(d)' PROVE Mine(d)' /\ Closed(d)'
  <2>1. CASE d = c
    <3>1. req'[c].path = req[c].path /\ req'[c].ino = i /\ req'[c].next = n + 1
      BY <1>c
    <3>2. \A k \in 1 .. n : content'[i][k] = c
      <4>1. \A k \in 1 .. n - 1 : content[i][k] = c
        BY <1>a DEF Mine, i, n
      <4>2. \A k \in 1 .. n : k \in 1 .. Blocks /\ (k # n => k \in 1 .. n - 1)
        BY <1>b, CloudAssumption
      <4> QED BY <1>e, <4>1, <4>2
    <3>3. \A k \in 1 .. (n + 1) - 1 : k \in 1 .. n
      BY <1>b
    <3>4. Mine(c)'
      BY <1>a, <1>d, <3>1, <3>2, <3>3 DEF Mine, i
    <3>5. Closed(c)'
      BY <1>a, <1>d, <3>1 DEF Closed, i
    <3> QED BY <2>1, <3>4, <3>5
  <2>2. CASE d # c
    <3>1. req'[d] = req[d] /\ Copying(d) /\ Mine(d) /\ Closed(d)
      BY <1>1, <1>f, <2>2 DEF Copying, IInv
    <3>2. req[d].ino # i /\ req[d].ino \in Inodes
      BY <1>a, <2>2, <3>1, Roles DEF IInv, Apart, Copying, i
    <3> QED BY <1>d, <3>1, <3>2 DEF Mine, Closed
  <2> QED BY <2>1, <2>2
<1>2. ASSUME NEW d \in Clients, NEW e \in Clients, d # e PROVE Apart(d, e)'
  <2>1. Apart(d, e)
    BY <1>2 DEF IInv
  <2> QED BY <1>f, <2>1 DEF Apart, Copying, Uploading
<1>3. Still'
  <2>1. \A a \in Admins : req'[a] = req[a]
    BY <1>c, CloudAssumption DEF Conns
  <2> QED BY <1>f, <2>1 DEF Still, IInv, Uploading
<1>4. PartOwned'
  <2> SUFFICES ASSUME NEW p \in Paths, Part(p) \in DOMAIN fs
               PROVE  \E d \in Clients : req'[d].op = "copy" /\ req'[d].path = p
    BY <1>d DEF PartOwned
  <2>1. PICK d \in Clients : req[d].op = "copy" /\ req[d].path = p
    BY DEF IInv, PartOwned
  <2> QED BY <1>f, <2>1 DEF Uploading
<1>5. VisibleWhole'
  <2> SUFFICES ASSUME NEW p \in Paths, Final(p) \in DOMAIN fs, fs[Final(p)] # Folder
               PROVE  \E d \in Clients : content'[fs[Final(p)]] = WholeOf(d)
    BY <1>d DEF VisibleWhole, Served, Exists, IsDir, WholeOf
  <2>1. fs[Final(p)] \in Inodes /\ fs[Final(p)] # i
    BY <1>a DEF TypeOK, Closed, i
  <2> QED BY <1>d, <2>1 DEF IInv, VisibleWhole, Served, Exists, IsDir
<1>6. ASSUME NEW d \in Clients, Sending(d)' PROVE req'[d] = req[d] /\ Sending(d)
  BY <1>6, <1>a, <1>f DEF Sending, Copying
<1>7. ASSUME NEW d \in Clients, NEW e \in Clients PROVE Unwritten(d, e)'
  BY <1>6, <1>f DEF Unwritten, Copying, IInv
<1>8. ASSUME NEW d \in Clients, Sending(d) PROVE content'[req[d].ino] = content[req[d].ino]
  <2>1. req[d].ino # i
    BY <1>a, <1>8 DEF IInv, Unwritten, i
  <2>2. req[d].ino \in Inodes
    BY <1>a, <1>8, Roles DEF Sending
  <2> QED BY <1>d, <2>1, <2>2
<1>9. DownloadIntact'
  BY <1>6, <1>8 DEF IInv, DownloadIntact, Sending, WholeOf
<1> QED BY <1>1, <1>2, <1>3, <1>4, <1>5, <1>7, <1>9 DEF IInv

\* The last block makes the file of an upload whole.
LEMMA PublishedWhole ==
  ASSUME IInv, NEW c \in Clients, Copying(c), Part(req[c].path) \in DOMAIN fs, req[c].next = Blocks + 1
  PROVE  fs[Part(req[c].path)] = req[c].ino /\ content[req[c].ino] = WholeOf(c)
<1>1. Mine(c) /\ TypeOK
  BY DEF IInv, TInv
<1>2. req[c].ino \in Inodes
  BY <1>1, Roles DEF Copying
<1>3. content[req[c].ino] \in [1 .. Blocks -> Clients \cup {NoBlock}]
  BY <1>1, <1>2 DEF TypeOK
<1>4. \A k \in 1 .. Blocks : k \in 1 .. (Blocks + 1) - 1
  BY CloudAssumption
<1>5. \A k \in 1 .. Blocks : content[req[c].ino][k] = c
  BY <1>1, <1>4 DEF Mine
<1> QED BY <1>1, <1>3, <1>5 DEF Mine, WholeOf

LEMMA NextKeeps == ASSUME Assumed, IInv, [Next]_vars PROVE IInv'
<1>a. TInv /\ TInv' /\ TypeOK /\ TypeOK'
  BY TypeInductive DEF IInv, TInv
<1>b. \A c \in Clients : Copying(c) => req[c].path \in Paths /\ req[c].ino \in Inodes /\ Uploading(c)
  BY <1>a, Roles DEF Copying, Uploading
<1>c. Idle.op = "idle"
  BY DEF Idle
<1>d. Idle.op # "copy"
  BY DEF Idle
<1>1. CASE UNCHANGED vars
  BY <1>1 DEF vars, IInv, TInv, TypeOK, PartsAreFiles, MovesAside, Mine, Copying, Closed, Apart, Still,
              PartOwned, VisibleWhole, DownloadIntact, Unwritten, Sending, Uploading, Served, Exists,
              IsDir, Open, Conns
<1>2. ASSUME NEW c \in Clients, NEW p \in UploadPaths, UploadCreate(c, p) PROVE IInv'
  BY <1>a, <1>2, CreateKeeps
<1>3. ASSUME NEW c \in Clients, UploadWrite(c) PROVE IInv'
  BY <1>a, <1>3, WriteKeeps
\* Other steps of a client change no other request.
<1>4. ASSUME NEW c \in Clients, NEW r, Goto(c, r),
             \/ r = Idle
             \/ r.op = "credit" /\ Copying(c) /\ r.path = req[c].path
             \/ r.op = "send" /\ \E p \in Paths : Opens(c, p)
      PROVE  /\ \A d \in Clients : Ends(d)
             /\ \A d \in Clients : d # c => req'[d] = req[d]
             /\ ~Copying(c)'
             /\ Still'
  <2>1. req'[c] = r /\ (\A d \in Clients : d # c => req'[d] = req[d]) /\ \A a \in Admins : req'[a] = req[a]
    BY <1>a, <1>4, CloudAssumption DEF Goto, TypeOK, Conns
  <2>2. \A d \in Clients : Ends(d)
    BY <1>4, <2>1 DEF Ends
  <2>3. \A d \in Clients : Uploading(d)' => Uploading(d) /\ req'[d].path = req[d].path
    BY <1>4, <2>1 DEF Uploading, Copying, Idle
  <2>4. Still'
    BY <2>1, <2>3 DEF Still, IInv
  <2> QED BY <1>4, <2>1, <2>2, <2>4 DEF Copying, Idle
<1>5. ASSUME NEW c \in Clients, UploadAbort(c) \/ UploadRefused(c) PROVE IInv'
  <2>1. Goto(c, Idle) /\ fs' = Without({Part(req[c].path)}) /\ Reclaim(content) /\ Copying(c)
    BY <1>5 DEF UploadAbort, UploadRefused, Copied, Copying
  <2>2. /\ \A d \in Clients : Ends(d)
        /\ \A d \in Clients : d # c => req'[d] = req[d]
        /\ Still'
    BY <1>4, <1>d, <2>1
  <2>3. \A e \in DOMAIN fs' : e \in DOMAIN fs /\ fs'[e] = fs[e] /\ e # Part(req[c].path)
    BY <1>a, <2>1, WithoutType
  <2>4. \A p \in Paths : Final(p) \in DOMAIN fs' => Comes(p)
    BY <2>3 DEF Comes
  <2>5. ASSUME NEW p \in Paths, Part(p) \in DOMAIN fs', NEW d \in Clients, Copying(d), req[d].path = p
        PROVE  req'[d] = req[d]
    BY <2>2, <2>3, <2>5
  <2> QED BY <1>a, <2>1, <2>2, <2>3, <2>4, <2>5, StepKeeps
<1>6. ASSUME NEW c \in Clients, UploadPublish(c) PROVE IInv'
  <2> DEFINE a == Part(req[c].path)  b == Final(req[c].path)
  <2>1. /\ Goto(c, [op |-> "credit", path |-> req[c].path]) /\ fs' = Renamed(a, b) /\ Reclaim(content)
        /\ Copying(c) /\ a \in DOMAIN fs /\ req[c].next = Blocks + 1
    BY <1>6 DEF UploadPublish, Copied, Copying
  <2>2. /\ \A d \in Clients : Ends(d)
        /\ \A d \in Clients : d # c => req'[d] = req[d]
        /\ ~Copying(c)'
        /\ Still'
    <3> DEFINE r == [op |-> "credit", path |-> req[c].path]
    <3>1. r.op = "credit" /\ r.path = req[c].path /\ Goto(c, r) /\ Copying(c)
      BY <1>b, <2>1
    <3> HIDE DEF r
    <3> QED BY <1>4, <3>1
  <2>3. fs[a] = req[c].ino /\ content[req[c].ino] = WholeOf(c)
    BY <2>1, PublishedWhole
  <2> HIDE DEF a, b
  <2>4. \A e \in DOMAIN fs' : \/ e = b /\ fs'[e] = req[c].ino
                              \/ e \in DOMAIN fs /\ fs'[e] = fs[e] /\ e # a
    BY <2>1, <2>3 DEF Renamed
  <2>5. ASSUME NEW p \in Paths, Final(p) \in DOMAIN fs' PROVE Comes(p)
    <3>1. CASE fs'[Final(p)] = req[c].ino
      BY <2>1, <2>2, <2>3, <3>1 DEF Comes
    <3>2. CASE Final(p) \in DOMAIN fs /\ fs'[Final(p)] = fs[Final(p)]
      BY <3>2 DEF Comes
    <3> QED BY <2>4, <2>5, <3>1, <3>2
  <2>6. ASSUME NEW p \in Paths, Part(p) \in DOMAIN fs'
        PROVE  Part(p) \in DOMAIN fs /\ fs'[Part(p)] = fs[Part(p)] /\ p # req[c].path
    BY <2>4, <2>6 DEF a, b, Part, Final
  <2>7. ASSUME NEW p \in Paths, Part(p) \in DOMAIN fs', NEW d \in Clients, Copying(d), req[d].path = p
        PROVE  req'[d] = req[d]
    BY <2>2, <2>6, <2>7
  <2> QED BY <1>a, <2>1, <2>2, <2>5, <2>6, <2>7, StepKeeps
<1>7. ASSUME NEW c \in Clients, UploadCredit(c) PROVE IInv'
  <2>1. Goto(c, Idle) /\ fs' = fs /\ content' = content /\ ~Copying(c)
    BY <1>7 DEF UploadCredit, Copying
  <2>2. /\ \A d \in Clients : Ends(d)
        /\ \A d \in Clients : d # c => req'[d] = req[d]
        /\ Still'
    BY <1>4, <1>d, <2>1
  <2>3. \A p \in Paths : Final(p) \in DOMAIN fs' => Comes(p)
    BY <2>1 DEF Comes
  <2>4. \A d \in Clients : Copying(d) => req'[d] = req[d]
    BY <2>1, <2>2
  <2> QED BY <1>a, <2>1, <2>2, <2>3, <2>4, StepKeeps
\* A step of an administrator changes no upload.
<1>8. ASSUME NEW c \in Admins, NEW r, Goto(c, r),
             r.op \notin {"statTo", "rename"} \/ (req[c].op \in {"statTo", "rename"} /\ r.from = req[c].from)
      PROVE  (\A d \in Clients : req'[d] = req[d]) /\ Still'
  <2>1. /\ req'[c] = r /\ \A a \in Admins : a # c => req'[a] = req[a]
        /\ \A d \in Clients : req'[d] = req[d]
    BY <1>a, <1>8, CloudAssumption DEF Goto, TypeOK, Conns
  <2> QED BY <1>8, <2>1 DEF Still, IInv, Uploading
<1>9. ASSUME NEW c \in Admins, NEW op, req[c].op \in {"statTo", "rename", "rowDelete"}
      PROVE  /\ [req[c] EXCEPT !.op = op].op = op
             /\ [req[c] EXCEPT !.op = op].from = req[c].from
  <2>1. req[c] = [op |-> req[c].op, from |-> req[c].from, to |-> req[c].to]
    BY <1>a, <1>9, Roles
  <2>2. [req[c] EXCEPT !.op = op] = [op |-> op, from |-> req[c].from, to |-> req[c].to]
    BY <2>1
  <2> QED BY <2>2
<1>10. ASSUME NEW c \in Admins, NEW p \in DirPaths, Mkdir(c, p) PROVE IInv'
  <2>1. fs' = With(Final(p), Folder) /\ Goto(c, [op |-> "mkcredit", path |-> p]) /\ content' = content
    BY <1>10 DEF Mkdir
  <2>2. \A e \in DOMAIN fs' : \/ e \in DOMAIN fs /\ fs'[e] = fs[e]
                              \/ e[2] = "final" /\ fs'[e] = Folder
    BY <2>1 DEF With, Final
  <2>3. (\A d \in Clients : req'[d] = req[d]) /\ Still'
    BY <1>8, <2>1
  <2> QED BY <1>a, <2>1, <2>2, <2>3, AdminKeeps
<1>11. ASSUME NEW c \in Admins, MkdirCredit(c) \/ MoveRowInsert(c) PROVE IInv'
  <2>1. fs' = fs /\ Goto(c, Idle) /\ content' = content
    BY <1>11 DEF MkdirCredit, MoveRowInsert
  <2> QED BY <1>8, <1>a, <1>c, <2>1, AdminKeeps
<1>12. ASSUME NEW c \in Admins, NEW p \in Paths, DeleteStat(c, p) PROVE IInv'
  <2>1. fs' = fs /\ content' = content /\ Goto(c, [op |-> "remove", path |-> p, isDir |-> IsDir(p)])
    BY <1>12 DEF DeleteStat
  <2>2. (\A d \in Clients : req'[d] = req[d]) /\ Still'
    BY <1>8, <2>1
  <2> QED BY <1>a, <2>1, <2>2, AdminKeeps
<1>13. ASSUME NEW c \in Admins, DeleteRemove(c) PROVE IInv'
  <2>1. (fs' = Without(Tree(req[c].path)) \/ fs' = fs) /\ Goto(c, Idle) /\ Reclaim(content)
    BY <1>13 DEF DeleteRemove
  <2>2. \A e \in DOMAIN fs' : e \in DOMAIN fs /\ fs'[e] = fs[e]
    BY <1>a, <2>1, WithoutType
  <2> QED BY <1>8, <1>a, <1>c, <2>1, <2>2, AdminKeeps
<1>14. ASSUME NEW c \in Admins, NEW p \in Paths, NEW q \in Paths, MoveStatFrom(c, p, q) PROVE IInv'
  <2> DEFINE r == [op |-> "statTo", from |-> p, to |-> q]
  <2>1. fs' = fs /\ content' = content /\ Goto(c, r) /\ r.from = p
        /\ \A d \in Clients : Uploading(d) => ~Under(p, req[d].path)
    BY <1>14 DEF MoveStatFrom, Assumed
  <2> HIDE DEF r
  <2>2. /\ req'[c] = r /\ \A a \in Admins : a # c => req'[a] = req[a]
        /\ \A d \in Clients : req'[d] = req[d]
    BY <1>a, <2>1, CloudAssumption DEF Goto, TypeOK, Conns
  <2>3. Still'
    BY <2>1, <2>2 DEF Still, IInv, Uploading
  <2> QED BY <1>a, <2>1, <2>2, <2>3, AdminKeeps
<1>15. ASSUME NEW c \in Admins, MoveStatTo(c) PROVE IInv'
  <2>1. fs' = fs /\ content' = content
        /\ \E r : Goto(c, r) /\ (r.op \notin {"statTo", "rename"} \/ r.from = req[c].from)
        /\ req[c].op \in {"statTo", "rename"}
    BY <1>9, <1>15, <1>c DEF MoveStatTo
  <2> QED BY <1>8, <1>a, <2>1, AdminKeeps
<1>16. ASSUME NEW c \in Admins, MoveRename(c) PROVE IInv'
  <2>1. req[c].from \in Paths /\ req[c].to \in Paths /\ Siblings(req[c].from, req[c].to)
    BY <1>a, <1>16, Roles DEF MoveRename, TInv, MovesAside
  <2>2. \E r : Goto(c, r) /\ r.op \notin {"statTo", "rename"}
    BY <1>9, <1>16, <1>c DEF MoveRename
  <2>3. (fs' = TreeMoved(req[c].from, req[c].to) \/ fs' = fs) /\ Reclaim(content)
    BY <1>16 DEF MoveRename
  <2>4. FromSame
    BY <1>a, <2>1, <2>3, TreeMovedType DEF FromSame
  <2>5. (\A d \in Clients : req'[d] = req[d]) /\ Still'
    BY <1>8, <2>2
  <2>6. \A x \in Tree(req[c].from) : x[2] # "part"
    <3> SUFFICES ASSUME NEW x \in Tree(req[c].from), x[2] = "part" PROVE FALSE
      OBVIOUS
    <3>1. x \in DOMAIN fs /\ x = Part(x[1]) /\ x[1] \in Paths
      BY <1>a, EntryParts DEF Tree, TypeOK, Part
    <3>2. Under(req[c].from, x[1])
      BY DEF Tree, Final
    <3>3. PICK d \in Clients : req[d].op = "copy" /\ req[d].path = x[1]
      BY <3>1 DEF IInv, PartOwned
    <3> QED BY <1>16, <1>b, <3>2, <3>3 DEF IInv, Still, MoveRename, Copying
  <2>7. ASSUME NEW p \in Paths, Part(p) \in DOMAIN fs' PROVE Part(p) \in DOMAIN fs /\ fs'[Part(p)] = fs[Part(p)]
    BY <1>a, <2>1, <2>3, <2>6, <2>7, TreeMovedType DEF Part
  <2>8. ASSUME NEW p \in Paths, Final(p) \in DOMAIN fs' PROVE Comes(p)
    <3>1. PICK x \in DOMAIN fs : x[2] = "final" /\ fs'[Final(p)] = fs[x]
      BY <2>4, <2>8 DEF FromSame, Final
    <3>2. x = Final(x[1]) /\ x[1] \in Paths
      BY <1>a, <3>1, EntryParts DEF TypeOK, Final
    <3> QED BY <3>1, <3>2 DEF Comes
  <2>9. \A d \in Clients : Ends(d)
    BY <2>5 DEF Ends
  <2> QED BY <1>a, <2>3, <2>5, <2>7, <2>8, <2>9, StepKeeps
<1>17. ASSUME NEW c \in Admins, MoveRowDelete(c) PROVE IInv'
  <2>1. fs' = fs /\ content' = content /\ Goto(c, [req[c] EXCEPT !.op = "rowInsert"])
        /\ req[c].op = "rowDelete"
    BY <1>17 DEF MoveRowDelete
  <2>2. [req[c] EXCEPT !.op = "rowInsert"].op \notin {"statTo", "rename"}
    BY <1>9, <2>1
  <2>3. (\A d \in Clients : req'[d] = req[d]) /\ Still'
    BY <1>8, <2>1, <2>2
  <2> QED BY <1>a, <2>1, <2>3, AdminKeeps
<1>18. CASE Restart
  <2>1. fs' = Without(Leftover) /\ Reclaim(content) /\ \A c \in Conns : req'[c] = Idle
    BY <1>18 DEF Restart
  <2>2. (\A c \in Clients : Ends(c)) /\ Still'
    BY <1>c, <2>1 DEF Ends, Still, Conns
  <2>3. \A e \in DOMAIN fs' : e \in DOMAIN fs /\ fs'[e] = fs[e] /\ e \notin Leftover
    BY <1>a, <2>1, WithoutType
  <2>4. \A p \in Paths : Part(p) \notin DOMAIN fs'
    <3> SUFFICES ASSUME NEW p \in Paths, Part(p) \in DOMAIN fs' PROVE FALSE
      OBVIOUS
    <3>1. Part(p) \in DOMAIN fs /\ Part(p)[2] = "part"
      BY <2>3, EntriesOfPaths
    <3>2. fs[Part(p)] # Folder
      BY <1>a, <3>1, CloudAssumption DEF TInv, PartsAreFiles, Folder
    <3> QED BY <2>3, <3>1, <3>2 DEF Leftover
  <2>5. \A p \in Paths : Final(p) \in DOMAIN fs' => Comes(p)
    BY <2>3 DEF Comes
  <2> QED BY <1>a, <2>1, <2>2, <2>4, <2>5, StepKeeps
<1>19. ASSUME NEW c \in Clients, NEW p \in DownloadPaths, DownloadOpen(c, p) PROVE IInv'
  <2> DEFINE r == [op |-> "send", ino |-> fs[Final(p)], file |-> content[fs[Final(p)]]]
  <2>1. Goto(c, r) /\ r.op = "send" /\ fs' = fs /\ content' = content /\ req[c] = Idle /\ Served(p) /\ p \in Paths
    BY <1>19, CloudAssumption DEF DownloadOpen
  <2>2. Opens(c, p)
    BY <1>a, <2>1 DEF Opens, Goto, TypeOK, Conns
  <2> HIDE DEF r
  <2>3. /\ \A d \in Clients : Ends(d)
        /\ \A d \in Clients : d # c => req'[d] = req[d]
        /\ Still'
    BY <1>4, <2>1, <2>2
  <2>4. \A q \in Paths : Final(q) \in DOMAIN fs' => Comes(q)
    BY <2>1 DEF Comes
  <2>5. \A d \in Clients : Copying(d) => req'[d] = req[d]
    BY <1>d, <2>1, <2>3 DEF Copying
  <2> QED BY <1>a, <2>1, <2>3, <2>4, <2>5, StepKeeps
<1>20. ASSUME NEW c \in Clients, DownloadEnd(c) PROVE IInv'
  <2>1. Goto(c, Idle) /\ fs' = fs /\ Reclaim(content) /\ ~Copying(c)
    BY <1>20 DEF DownloadEnd, Copying
  <2>2. /\ \A d \in Clients : Ends(d)
        /\ \A d \in Clients : d # c => req'[d] = req[d]
        /\ Still'
    BY <1>4, <2>1
  <2>3. \A p \in Paths : Final(p) \in DOMAIN fs' => Comes(p)
    BY <2>1 DEF Comes
  <2>4. \A d \in Clients : Copying(d) => req'[d] = req[d]
    BY <2>1, <2>2
  <2> QED BY <1>a, <2>1, <2>2, <2>3, <2>4, StepKeeps
<1> QED BY <1>1, <1>2, <1>3, <1>5, <1>6, <1>7, <1>10, <1>11, <1>12, <1>13, <1>14, <1>15, <1>16, <1>17,
           <1>18, <1>19, <1>20 DEF Next, Upload, Download, Manage

LEMMA InitKeeps == ASSUME Init PROVE IInv
<1>1. TInv
  BY InitType
<1>2. \A c \in Clients : req[c] = Idle /\ ~Copying(c)
  BY DEF Init, Conns, Copying, Idle
<1>3. \A a \in Admins : req[a].op = "idle"
  BY DEF Init, Conns, Idle
<1>4. DOMAIN fs = {}
  BY DEF Init
<1>5. PartOwned /\ VisibleWhole
  BY <1>4 DEF PartOwned, VisibleWhole, Served, Exists
<1>8. DownloadIntact /\ \A c, d \in Clients : Unwritten(c, d)
  BY <1>2 DEF DownloadIntact, Unwritten, Sending, Idle
<1>6. \A c, d \in Clients : c # d => Apart(c, d)
  BY <1>2 DEF Apart, Uploading, Idle
<1>7. Still
  BY <1>3 DEF Still
<1> QED BY <1>1, <1>2, <1>5, <1>6, <1>7, <1>8 DEF IInv

\* With one upload at a time on a path, and no folder moved from under an upload:
\* whatever is created, deleted, moved or interrupted, what has a name is a whole
\* file of one client.
THEOREM VisibleIsWhole == Assumed => (Spec => []VisibleWhole)
<1> SUFFICES ASSUME Assumed PROVE Spec => []VisibleWhole
  OBVIOUS
<1>1. Init => IInv
  BY InitKeeps
<1>2. IInv /\ [Next]_vars => IInv'
  BY NextKeeps
<1>3. IInv => VisibleWhole
  BY DEF IInv
<1> QED BY <1>1, <1>2, <1>3, PTL DEF Spec

\* Under the same assumptions every .part file belongs to an upload under way: no
\* end of an upload, no delete, no move and no crash leaves one behind.
THEOREM PartsAreOwned == Assumed => (Spec => []PartOwned)
<1> SUFFICES ASSUME Assumed PROVE Spec => []PartOwned
  OBVIOUS
<1>1. Init => IInv
  BY InitKeeps
<1>2. IInv /\ [Next]_vars => IInv'
  BY NextKeeps
<1>3. IInv => PartOwned
  BY DEF IInv
<1> QED BY <1>1, <1>2, <1>3, PTL DEF Spec

\* Under the same assumptions what an upload publishes is what it has written, all
\* of it, and nobody else's.
THEOREM OwnIsPublished == Assumed => (Spec => PublishedIsOwn)
<1> SUFFICES ASSUME Assumed PROVE Spec => PublishedIsOwn
  OBVIOUS
<1>1. Init => IInv
  BY InitKeeps
<1>2. IInv /\ [Next]_vars => IInv'
  BY NextKeeps
<1>3. ASSUME IInv, [Next]_vars
      PROVE  [\A c \in Clients : UploadPublish(c) =>
                content'[fs'[Final(req[c].path)]] = WholeOf(c)]_vars
  <2> SUFFICES ASSUME NEW c \in Clients, UploadPublish(c)
               PROVE  content'[fs'[Final(req[c].path)]] = WholeOf(c)
    OBVIOUS
  <2>1. TInv /\ TInv' /\ TypeOK
    BY <1>3, TypeInductive DEF IInv, TInv
  <2>2. Copying(c) /\ Part(req[c].path) \in DOMAIN fs /\ req[c].next = Blocks + 1 /\ Reclaim(content)
        /\ fs' = Renamed(Part(req[c].path), Final(req[c].path))
    BY DEF UploadPublish, Copied, Copying
  <2>3. fs[Part(req[c].path)] = req[c].ino /\ content[req[c].ino] = WholeOf(c)
    BY <1>3, <2>2, PublishedWhole
  <2>4. req[c].path \in Paths /\ req[c].ino # Folder
    BY <2>1, <2>2, Roles, CloudAssumption DEF Copying, Folder
  <2>5. Final(req[c].path) \in DOMAIN fs' /\ fs'[Final(req[c].path)] = req[c].ino
    BY <2>2, <2>3 DEF Renamed
  <2> QED BY <2>1, <2>2, <2>3, <2>4, <2>5, ReclaimKeeps
<1> QED BY <1>1, <1>2, <1>3, PTL DEF Spec, PublishedIsOwn

\* Under the same assumptions a download that has begun hands out the one whole file
\* it opened, to the end: uploads go to files of their own, and a file that is replaced,
\* moved or deleted stays what it is while it is open (handler.go:441, 484-499).
THEOREM DownloadsAreIntact == Assumed => (Spec => []DownloadIntact)
<1> SUFFICES ASSUME Assumed PROVE Spec => []DownloadIntact
  OBVIOUS
<1>1. Init => IInv
  BY InitKeeps
<1>2. IInv /\ [Next]_vars => IInv'
  BY NextKeeps
<1>3. IInv => DownloadIntact
  BY DEF IInv
<1> QED BY <1>1, <1>2, <1>3, PTL DEF Spec
=============================================================================
