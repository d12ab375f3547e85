----------------------------- MODULE SyncEngine -----------------------------
(***************************************************************************)
(* The sync engine between a local folder and a folder of the account: the *)
(* scanner, the diff thread, the upload and the download thread with the   *)
(* transfers they start, a user at each end, and a program that may be     *)
(* killed.  user has                                                       *)
(*   here, there   what the two users are still going to do                *)
(*   faults        how many connections may still break                    *)
(*   restarts      how often the program may still be killed               *)
(*   large         files are long enough to be fetched by a thread         *)
(*   one           one user makes one change                               *)
(* ghost has                                                               *)
(*   inode, id     the last numbers given by the disk and the server       *)
(*   seen          the versions that have been on this disk                *)
(*   kept          the versions that have been at the server               *)
(*   over          versions that were not, and an upload replaced          *)
(*   gone          versions only the disk had that the engine removed      *)
(*   unsure        downloads whose file was gone when they looked          *)
(*   known         which known flaws have been met                         *)
(***************************************************************************)
EXTENDS SyncDown

CONSTANT
    Workloads       \* what the users do, see MCSyncEngine

\* What the user here writes is a version of a file: 0 stands for none.
ASSUME WorkloadsAssumption ==
    \A w \in Workloads :
        /\ {"here", "there"} \subseteq DOMAIN w
        /\ w.here \in Seq(Range(w.here)) /\ w.there \in Seq(Range(w.there))
        /\ \A o \in Range(w.here) : o.op \in {"edit", "create"} => o.c # 0

----------------------------------------------------------------------------
(* One file a in the folder, and a folder b with a file c. *)

A == <<"a", 0>>
B == <<"b", 0>>
C == <<"c", 0>>
FileA == 3
FolderB == 4
FileC == 5
Content == 1..9

SrvItem(kind, dir, name, c) ==
    [kind |-> kind, dir |-> dir, name |-> name, c |-> c, revs |-> {c}]
MirrorOf(s) ==
    [i \in DOMAIN s |-> [kind |-> s[i].kind, dir |-> s[i].dir,
                         name |-> s[i].name, c |-> s[i].c]]
LocalRow(name, dir, fid, c, i) ==
    [dir |-> dir, name |-> name, fid |-> fid, hash |-> c, sum |-> c, ino |-> i, m |-> c]

Init ==
    /\ disk = <<Item("file", 0, A, 1), Item("folder", 0, B, 0), Item("file", 2, C, 2)>>
    /\ srv = <<SrvItem("folder", 0, <<"sync", 0>>, 0), SrvItem("folder", 0, <<"other", 0>>, 0),
               SrvItem("file", Remote, A, 1), SrvItem("folder", Remote, B, 0),
               SrvItem("file", FolderB, C, 2)>>
    /\ db = TablesOf(<<LocalRow(A, 0, FileA, 1, 1), LocalRow(C, 1, FileC, 2, 3)>>,
                     <<[dir |-> 0, name |-> B, ino |-> 2, fid |-> FolderB]>>,
                     [l \in {0, 1} |-> IF l = 0 THEN Remote ELSE FolderB], MirrorOf(srv))
    /\ diff = <<>>
    /\ scan = Idle(FALSE, 0)
    /\ up = [main |-> NoTask, run |-> {}]
    /\ dn = [main |-> NoTask, run |-> {}]
    /\ user \in Workloads
    /\ ghost = [inode |-> 3, id |-> 5, seen |-> {0, 1, 2}, kept |-> {1, 2}, over |-> {},
              gone |-> {}, unsure |-> {}, known |-> {}]

----------------------------------------------------------------------------
(* The user here.  What cannot be done is not done. *)

Acts(end) == user' = [user EXCEPT ![end] = Tail(@)]

HereChanges(o) ==
    \E d \in {Walk(o.dir)} : \E i \in {Chosen(At(d, o.name))} :
      CASE o.op = "edit" /\ i # 0 /\ disk[i].kind = "file" -> disk' = [disk EXCEPT ![i].c = o.c]
        [] o.op \in {"create", "mkdir"} /\ d # None /\ i = 0 ->
             disk' = Plus(disk, NewInode, Item(IF o.op = "mkdir" THEN "folder" ELSE "file",
                                               d, o.name, o.c))
        [] o.op = "delete" /\ i # 0 -> disk' = Without(disk, {i} \cup In(i))
        [] o.op = "move" /\ i # 0 /\ Walk(o.to) # None /\ At(Walk(o.to), o.as) = {} ->
             disk' = Renamed(i, Walk(o.to), o.as)
        [] OTHER -> UNCHANGED disk

UserHere ==
    /\ user.here # <<>>
    /\ HereChanges(Head(user.here))
    /\ ghost' = [ghost EXCEPT !.inode = Top(DOMAIN disk' \cup {@}),
                              !.seen = @ \cup {Head(user.here).c}]
    /\ Acts("here")
    /\ UNCHANGED <<db, srv, diff, scan, up, dn>>

(* The user at another computer. *)
ThereChanges(o) ==
    CASE o.op = "edit" /\ o.item \in DOMAIN srv -> SrvSave(o.item, o.c)
      [] o.op \in {"create", "mkdir"} /\ o.dir \in DOMAIN srv /\ Child(o.dir, o.name) = {} ->
           SrvCreate(NewId, IF o.op = "mkdir" THEN "folder" ELSE "file", o.dir, o.name, o.c)
      [] o.op = "delete" /\ o.item \in DOMAIN srv -> SrvDelete(o.item)
      [] o.op = "move" /\ CanMove(o.item, o.dir, o.name) /\ Child(o.dir, o.name) = {} ->
           SrvMove(o.item, o.dir, o.name)
      [] OTHER -> UNCHANGED <<srv, diff>>

UserThere ==
    /\ user.there # <<>>
    /\ ThereChanges(Head(user.there))
    /\ ghost' = [ghost EXCEPT !.id = Top(DOMAIN srv' \cup {@}),
                              !.kept = @ \cup {Head(user.there).c}]
    /\ Acts("there")
    /\ UNCHANGED <<disk, db, scan, up, dn>>

----------------------------------------------------------------------------
(* The program is killed and started: the tables are what was committed, and *)
(* every task is taken again.                                                *)

Restart ==
    /\ user.restarts > 0
    /\ user' = [user EXCEPT !.restarts = @ - 1]
    /\ db' = [db EXCEPT !.task = [t \in DOMAIN @ |-> [@[t] EXCEPT !.busy = FALSE]]]
    /\ scan' = Idle(FALSE, 0)
    /\ up' = [main |-> NoTask, run |-> {}]
    /\ dn' = [main |-> NoTask, run |-> {}]
    /\ KnownIf(dn.main.at = "renamed", "killed")
    /\ UNCHANGED <<disk, srv, diff>>

----------------------------------------------------------------------------
AtRest ==
    /\ user.here = <<>> /\ user.there = <<>> /\ diff = <<>> /\ db.task = <<>>
    /\ up = [main |-> NoTask, run |-> {}] /\ dn = [main |-> NoTask, run |-> {}]
    /\ scan = Idle(scan.again, 0) /\ ~Differs

\* A download that never ends, a rename of a folder that is refused again and
\* again, and a file that cannot get its new name because of a folder there.
Hung == \E d \in dn.run : d.at = "hung"
Refused == \E t \in Due(UpKinds) :
              /\ db.task[t].type = "r-mvdir"
              /\ ~CanMove(FolderOf(db.task[t].l), FolderOf(db.task[t].to), db.task[t].name)
InTheWay == \E t \in Due(DownKinds) :
              \/ db.task[t].type = "move"
                 /\ \E i \in At(DirOf(db.task[t].to), db.task[t].name) : disk[i].kind = "folder"
              \/ db.task[t].type = "mvdir"
Stays == (AtRest \/ Hung \/ Refused \/ InTheWay) /\ UNCHANGED vars

Next == \/ ScanNext \/ Diff \/ UpNext \/ DnNext
        \/ UserHere \/ UserThere \/ Restart \/ Stays

Spec == Init /\ [][Next]_vars

\* Four threads, with those they start: each runs on when it can.
FairSpec == /\ Spec
            /\ WF_vars(ScanNext) /\ WF_vars(Diff) /\ WF_vars(UpNext) /\ WF_vars(DnNext)

----------------------------------------------------------------------------
(* What should hold. *)

\* psync_lock_file: no two transfers that run have one path.  An upload has the
\* lock while it is sent, a download from its start to its end.
SamePath(x, y) == x.path = y.path /\ x.name = y.name
Sending(u) == u.at \in {"send", "answer"}
PathsExclusive ==
    /\ \A d, e \in dn.run : SamePath(d, e) => d = e
    /\ \A u, v \in up.run : Sending(u) /\ Sending(v) /\ SamePath(u, v) => u = v
    /\ \A u \in up.run, d \in dn.run : Sending(u) => ~SamePath(u, d)

\* The scanner is stopped as often as there are threads that stopped it and have
\* not let it on (scan_stoppers of plocalscan.c).
StoppersCounted ==
    scan.stoppers = Cardinality({d \in dn.run : d.scanless})
                    + (IF dn.main.at = "renamed" THEN 1 ELSE 0)

\* PSYNC_MAX_PARALLEL_UPLOADS
UploadsBounded == Cardinality(Admitted) <= MaxUploads

\* Rows belong to folders that have rows, names are unique in a folder, the
\* server's tree is one, and locks and counts are what the threads make them.
TypeOK ==
    /\ \A i \in DOMAIN disk : /\ disk[i].dir \in {0} \cup DOMAIN disk
                              /\ disk[i].c \in {0} \cup Content
                              /\ At(disk[i].dir, disk[i].name) = {i}
    /\ \A r \in DOMAIN db.lfile : FileAt(db, db.lfile[r].dir, db.lfile[r].name) = {r}
    /\ \A l \in DOMAIN db.lfolder : FolderAt(db, db.lfolder[l].dir, db.lfolder[l].name) = {l}
    /\ \A i \in DOMAIN srv : Child(srv[i].dir, srv[i].name) = {i}
    /\ ~db.bad
    /\ PathsExclusive /\ StoppersCounted /\ UploadsBounded

\* A download never destroys what the user wrote here and the server does not
\* have (rename_if_notex puts it aside).  What else destroys it is named in
\* ghost.gone: see the README.
DownloadsKeepEdits == \A g \in ghost.gone : g.by # "download"

\* An upload never replaces, at the server, a version that this computer has
\* not had (ifhash in upload_file): such a file gets a name of its own.
UploadsKeepEdits == ghost.over = {}

Tree(path(_), item, S) ==
    {[path |-> path(i), kind |-> item[i].kind, c |-> item[i].c] : i \in S}
DiskPath(i) ==
    LET path[j \in DOMAIN disk \cup {0}] ==
            IF j = 0 THEN <<>> ELSE Append(path[disk[j].dir], disk[j].name)
    IN path[i]
SrvPath(i) ==
    LET path[j \in Below(Remote) \cup {Remote}] ==
            IF j = Remote THEN <<>> ELSE Append(path[srv[j].dir], srv[j].name)
    IN path[i]

\* When the users have stopped and nothing is left to do, the folder here and
\* the folder there are the same (pstatus.h, "to sync state").
InSync ==
    AtRest => Tree(DiskPath, disk, DOMAIN disk) = Tree(SrvPath, srv, Below(Remote))

\* They are, however the changes of the two users meet, unless one of the
\* defects that the README lists was met.
Converged == ghost.known = {} => InSync

\* One change of one user arrives, when nothing else happens but that a
\* connection breaks or the program is killed, wherever it is; but for one place,
\* between the rename of a file and that of its row.
OneChangeArrives == user.one /\ "killed" \notin ghost.known => InSync

\* When the users have stopped the engine comes to rest: no two of its parts
\* undo or repeat for ever what the other does.
Settles == (user.here = <<>> /\ user.there = <<>>) ~> AtRest

\* And then each row names the file or folder at the server that it stands for,
\* and its version, on which the next upload will be based.
RowsKnowTheirFiles ==
    AtRest /\ ghost.known = {} =>
        /\ \A r \in DOMAIN db.lfile :
             LET row == db.lfile[r]
             IN /\ row.fid \in DOMAIN srv
                /\ <<srv[row.fid].name, srv[row.fid].c>> = <<row.name, row.hash>>
                /\ row.dir \in DOMAIN db.synced
                /\ srv[row.fid].dir = db.synced[row.dir]
        /\ \A l \in DOMAIN db.lfolder :
             /\ l \in DOMAIN db.synced /\ db.synced[l] = db.lfolder[l].fid
             /\ db.synced[l] \in DOMAIN srv
=============================================================================
