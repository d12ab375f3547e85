------------------------------ MODULE SyncScan ------------------------------
(***************************************************************************)
(* The local scanner, plocalscan.c: it compares the disk with localfile    *)
(* and localfolder, folder by folder, and turns the differences into rows  *)
(* and tasks.  scan has                                                    *)
(*   pc        where scanner_scan is                                       *)
(*   todo      the local folders still to be read                          *)
(*   new, del, mod   the scan_lists                                        *)
(*   moved     movedfolders                                                *)
(*   again, stoppers   restart_scan and scan_stoppers                      *)
(***************************************************************************)
EXTENDS SyncTables

Idle(again, stoppers) ==
    [pc |-> "idle", todo |-> {}, new |-> {}, del |-> {}, mod |-> {},
     moved |-> FALSE, again |-> again, stoppers |-> stoppers]

----------------------------------------------------------------------------
(* Reading. *)

DiskList(l) ==
    IF DirOf(l) = None THEN {}
    ELSE {[kind |-> disk[i].kind, name |-> disk[i].name, dir |-> l, ino |-> i,
           m |-> IF disk[i].kind = "file" THEN disk[i].c ELSE 0, id |-> 0] :
             i \in In(DirOf(l))}

\* Folders the download thread has yet to make have no mtimenative.
DbFolders(l) == {i \in DOMAIN db.lfolder : /\ db.lfolder[i].dir = l
                                           /\ db.lfolder[i].ino # 0}

\* scanner_db_folder_to_list.
DbList(l) ==
    {[kind |-> "folder", name |-> db.lfolder[i].name, dir |-> l,
      ino |-> db.lfolder[i].ino, m |-> 0, id |-> i] : i \in DbFolders(l)}
    \cup {[kind |-> "file", name |-> db.lfile[i].name, dir |-> l,
           ino |-> db.lfile[i].ino, m |-> db.lfile[i].m, id |-> i] :
             i \in {j \in DOMAIN db.lfile : db.lfile[j].dir = l}}

Same(x, y) == x.name = y.name /\ x.kind = y.kind

\* scanner_scan_folder, without the folders below.
New(l) == {x \in DiskList(l) : \A y \in DbList(l) : ~Same(x, y)}
Deleted(l) == IF DirOf(l) = None THEN {}
              ELSE {y \in DbList(l) : \A x \in DiskList(l) : ~Same(x, y)}
Both(l) == {p \in DiskList(l) \X DbList(l) : Same(p[1], p[2])}
Modified(l) ==
    {[p[1] EXCEPT !.id = p[2].id] :
        p \in {q \in Both(l) : /\ q[1].kind = "file"
                               /\ <<q[1].ino, q[1].m>> # <<q[2].ino, q[2].m>>}}

Differs == \E l \in DOMAIN db.lfolder \cup {0} :
              DirOf(l) # None /\ (New(l) \cup Deleted(l) \cup Modified(l) # {})

\* A scan that finds nothing does nothing, so it starts when it will not.
ScanStart ==
    /\ scan.pc = "idle" /\ scan.stoppers = 0 /\ Differs
    /\ scan' = [Idle(FALSE, 0) EXCEPT !.pc = "read", !.todo = {0}]
    /\ UNCHANGED <<disk, db, srv, diff, up, dn, user, ghost>>

ScanFolder(l) ==
    /\ scan.pc = "read" /\ l \in scan.todo
    /\ scan' = [scan EXCEPT !.todo = (@ \ {l}) \cup
                                {p[2].id : p \in {q \in Both(l) : q[1].kind = "folder"}},
                            !.new = @ \cup New(l), !.del = @ \cup Deleted(l),
                            !.mod = @ \cup Modified(l)]
    /\ UNCHANGED <<disk, db, srv, diff, up, dn, user, ghost>>

----------------------------------------------------------------------------
(* What was read is looked at, unless somebody told the scan to restart. *)

Renames(same(_, _)) == {p \in scan.del \X scan.new : same(p[1], p[2])}
SameFolder(y, x) == y.kind = "folder" /\ x.kind = "folder" /\ y.ino = x.ino
SameFile(y, x) ==
    y.kind = "file" /\ x.kind = "file" /\ y.ino = x.ino /\ y.m = x.m
FolderRenames == Renames(SameFolder)
FileRenames == Renames(SameFile)
NewFolders == {x \in scan.new : x.kind = "folder"}

Restarted == scan.again

ScanCheck ==
    /\ scan.pc = "read" /\ scan.todo = {}
    /\ scan' = IF Restarted THEN Idle(scan.again, scan.stoppers)
               ELSE [scan EXCEPT !.pc = IF NewFolders # {} THEN "folders"
                                        ELSE "files"]
    /\ UNCHANGED <<disk, db, srv, diff, up, dn, user, ghost>>

----------------------------------------------------------------------------
(* The transactions. *)

Each(op(_, _), b, S) == FoldLeft(op, b, SetToSeq(S))

\* An UPDATE that would make two rows with one key fails, and so will the
\* commit.
Fails(b) == [b EXCEPT !.bad = TRUE]
Committed(b) == IF b.bad THEN db ELSE b

scan_rename_folder(b, p) ==
    LET y == p[1]  x == p[2]
    IN IF y.id \notin DOMAIN b.lfolder THEN b
       ELSE IF FolderAt(b, x.dir, x.name) \ {y.id} # {} \/ ~HasPath(b, x.dir)
       THEN Fails(b)
       ELSE ptask_rdir_rename([b EXCEPT !.lfolder[y.id].dir = x.dir,
                                        !.lfolder[y.id].name = x.name],
                              y.id, x.dir, x.name)

\* A folder the diff thread has already entered gets its inode, and no task.
scan_create_folder(b, x) ==
    LET there == FolderAt(b, x.dir, x.name)
        id == b.lastfolder + 1
    IN IF there # {}
       THEN [b EXCEPT !.lfolder[Chosen(there)].ino = x.ino]
       ELSE IF ~HasPath(b, x.dir) THEN Fails(b)
       ELSE ptask_rdir_mk(
              [b EXCEPT !.lfolder = Plus(@, id, [dir |-> x.dir, name |-> x.name,
                                                 ino |-> x.ino, fid |-> 0]),
                        !.synced = Plus(@, id, 0), !.lastfolder = id],
              id, x.name)

\* The first transaction; the folders it made are read next.
ScanFolders ==
    /\ scan.pc = "folders"
    /\ LET renamed == {p[2] : p \in FolderRenames}
           b == Each(scan_create_folder,
                     Each(scan_rename_folder, db, FolderRenames),
                     NewFolders \ renamed)
       IN /\ db' = Committed(b)
          /\ scan' = [scan EXCEPT !.pc = "read", !.moved = TRUE,
                         !.todo = IF b.bad THEN {}
                                  ELSE DOMAIN b.lfolder \ DOMAIN db.lfolder,
                         !.new = @ \ NewFolders,
                         !.del = @ \ {p[1] : p \in FolderRenames}]
    /\ UNCHANGED <<disk, srv, diff, up, dn, user, ghost>>

scan_rename_file(b, p) ==
    LET y == p[1]  x == p[2]
    IN IF y.id \notin DOMAIN b.lfile THEN b
       ELSE IF FileAt(b, x.dir, x.name) \ {y.id} # {} \/ ~HasPath(b, x.dir)
       THEN Fails(b)
       ELSE ptask_rfile_rename([b EXCEPT !.lfile[y.id].dir = x.dir,
                                         !.lfile[y.id].name = x.name],
                               y.id, x.dir, x.name)

scan_upload_file(b, x) ==
    LET id == b.lastfile + 1
    IN IF FileAt(b, x.dir, x.name) # {} THEN b
       ELSE IF ~HasPath(b, x.dir) THEN Fails(b)
       ELSE ptask_upload_q(
              [b EXCEPT !.lfile = Plus(@, id, [dir |-> x.dir, name |-> x.name,
                                               fid |-> 0, hash |-> 0, sum |-> 0,
                                               ino |-> x.ino, m |-> x.m]),
                        !.lastfile = id],
              id, x.name)

UploadsOf(b, id) ==
    {t \in DOMAIN b.task : b.task[t].type = "upload" /\ b.task[t].l = id}

\* pupload_del_tasks, the rows; what is running is stopped by Stopped.
pupload_del_tasks(b, id) == [b EXCEPT !.task = Without(@, UploadsOf(b, id))]
Stopped(ids) == {IF u.l \in ids THEN [u EXCEPT !.stop = TRUE] ELSE u : u \in up.run}

scan_upload_modified_file(b, x) ==
    LET c == pupload_del_tasks(b, x.id)
    IN ptask_upload_q(IF x.id \notin DOMAIN b.lfile THEN c
                      ELSE [c EXCEPT !.lfile[x.id].ino = x.ino,
                                     !.lfile[x.id].m = x.m],
                      x.id, x.name)

scan_delete_file(b, y) ==
    IF y.id \notin DOMAIN b.lfile THEN b
    ELSE LET c == [pupload_del_tasks(b, y.id) EXCEPT
                     !.lfile = Without(@, {y.id})]
             fid == b.lfile[y.id].fid
         IN IF fid = 0 THEN c ELSE ptask_rfile_rm(c, fid)

\* The second transaction, up to the deleted folders.
ScanFiles ==
    /\ scan.pc = "files"
    /\ LET files(S) == {x \in S : x.kind = "file"}
           new == files(scan.new) \ {p[2] : p \in FileRenames}
           gone == files(scan.del) \ {p[1] : p \in FileRenames}
           b == Each(scan_delete_file,
                  Each(scan_upload_modified_file,
                    Each(scan_upload_file,
                      Each(scan_rename_file, db, FileRenames), new),
                    scan.mod), gone)
       IN /\ db' = Committed(b)
          /\ up' = [up EXCEPT !.run = Stopped({x.id : x \in scan.mod \cup gone})]
          /\ scan' = IF b.bad THEN Idle(scan.again, scan.stoppers)
                     ELSE [scan EXCEPT !.pc = "gone", !.new = {}, !.mod = {},
                                       !.del = @ \ files(@)]
    /\ UNCHANGED <<disk, srv, diff, dn, user, ghost>>

----------------------------------------------------------------------------
(* Folders that are gone from the disk. *)

Under(b, l) ==
    LET in[i \in DOMAIN b.lfolder] ==
            i = l \/ (b.lfolder[i].dir \in DOMAIN b.lfolder /\ in[b.lfolder[i].dir])
    IN {i \in DOMAIN b.lfolder : in[i]}
FilesUnder(b, l) == {f \in DOMAIN b.lfile : b.lfile[f].dir \in Under(b, l)}

delete_local_folder_rec(b, l) ==
    [Each(pupload_del_tasks, b, FilesUnder(b, l)) EXCEPT
        !.lfile = Without(@, FilesUnder(b, l)),
        !.lfolder = Without(@, Under(b, l)), !.synced = Without(@, Under(b, l))]

CreationOf(b, l) ==
    {t \in DOMAIN b.task : b.task[t].type = "r-mkdir" /\ b.task[t].l = l}

\* scan_delete_folder.  For a folder without an id at the server the scan
\* waits, out of its transaction, and after a minute or so gives it up; and
\* every thousand rows there is a commit.  So each folder is a step.
ScanGone(y) ==
    /\ scan.pc = "gone" /\ y \in scan.del
    /\ scan' = [scan EXCEPT !.del = @ \ {y}]
    /\ IF y.id \notin DOMAIN db.lfolder THEN UNCHANGED <<db, up>>
       ELSE LET fid == db.lfolder[y.id].fid
                b == delete_local_folder_rec(db, y.id)
            IN /\ db' = IF fid # 0 THEN ptask_rdir_rm(b, fid)
                        ELSE [b EXCEPT !.task = Without(@, CreationOf(db, y.id))]
               /\ up' = [up EXCEPT !.run = Stopped(FilesUnder(db, y.id))]
    /\ UNCHANGED <<disk, srv, diff, dn, user, ghost>>

\* After folders were made or moved there is another scan.
ScanEnd ==
    /\ scan.pc = "gone" /\ scan.del = {}
    /\ scan' = Idle(scan.again, scan.stoppers)
    /\ UNCHANGED <<disk, db, srv, diff, up, dn, user, ghost>>

ScanNext ==
    \/ ScanStart \/ ScanCheck \/ ScanFolders \/ ScanFiles \/ ScanEnd
    \/ \E l \in scan.todo : ScanFolder(l)
    \/ \E y \in scan.del : ScanGone(y)
=============================================================================
