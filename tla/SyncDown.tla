------------------------------ MODULE SyncDown ------------------------------
(***************************************************************************)
(* Downloads of the sync engine, pdownload.c: the download thread and the  *)
(* downloads it started, as threads or as asynchronous transfers.  dn has  *)
(*   main   the row the thread is at, between two of its steps, or while   *)
(*          it waits for the downloads; meta is the row as it was read      *)
(*   run    the list downloads:                                            *)
(*          id, n, fid, l, name   of the row in table task                 *)
(*          path, lock   where it goes, and that the path is locked        *)
(*          stop         as set by the diff thread: 1 end, 2 and drop it   *)
(*          at           what comes next                                   *)
(*          local        the local content when it began, 0 for none       *)
(*          c            the content it got                                *)
(*          seen         the local content it last looked at, 0 once that  *)
(*                       was put aside                                     *)
(*          scanless     it has stopped the scanner                        *)
(***************************************************************************)
EXTENDS SyncUp

Put(d, w) == dn' = [dn EXCEPT !.run = (@ \ {d}) \cup {w}]
Next_(d, at) == Put(d, [d EXCEPT !.at = at])

ContentAt(path, name) ==
    LET f == FileOn(path, name) IN IF f = {} THEN 0 ELSE disk[Chosen(f)].c

\* What the disk had and the server never got is gone.
Gone(f, by) == {[c |-> disk[i].c, by |-> by] :
                   i \in {j \in f : disk[j].kind = "file" /\ disk[j].c \notin ghost.kept}}
Lost(g) == [ghost EXCEPT !.gone = @ \cup g]

\* psync_stop_localscan, psync_resume_localscan, psync_restart_localscan
\* Mutant: the scanner goes on.
ScanStops_Not == scan
ScanStops == [scan EXCEPT !.again = TRUE, !.stoppers = @ + 1]
\* Mutant: it is not let on again.
ScanResumes_Not(d) == scan
ScanResumes(d) == IF d.scanless THEN [scan EXCEPT !.stoppers = @ - 1] ELSE scan
ScanRestarts == [scan EXCEPT !.again = TRUE]

----------------------------------------------------------------------------
(* One download. *)

\* task_run_download_file
Download(t) ==
    [id |-> t, n |-> db.task[t].n, fid |-> db.task[t].item, l |-> db.task[t].l,
     name |-> db.task[t].name, path |-> PathOf(db, db.task[t].l), lock |-> TRUE,
     stop |-> 0, at |-> "get",
     local |-> ContentAt(PathOf(db, db.task[t].l), db.task[t].name),
     c |-> 0, seen |-> 0, scanless |-> FALSE]

DnStart(t) ==
    /\ dn.main = NoTask /\ db.task[t].type = "download"
    /\ IF db.task[t].item \notin DOMAIN db.mir \/ ~HasPath(db, db.task[t].l)
       THEN db' = DropTask(db, t) /\ UNCHANGED dn
       ELSE /\ ~Locked(PathOf(db, db.task[t].l), db.task[t].name)
            /\ db' = Busy(db, t, TRUE)
            /\ dn' = [dn EXCEPT !.run = @ \cup {Download(t)}]
    /\ UNCHANGED <<disk, srv, diff, scan, up, user, ghost>>

\* Mutant: a row of any content.
RowFor_Any(d, c) == FileAt(db, d.l, d.name)
\* A row with that content, name and place: it gets the id and the hash.
RowFor(d, c) == {i \in FileAt(db, d.l, d.name) : db.lfile[i].sum = c}

\* The server is asked.  Large files are compared with the row first; a file
\* that has the content already is not fetched.
DnGet(d) ==
    /\ d.at = "get"
    /\ \E c \in {IF d.fid \in DOMAIN srv THEN srv[d.fid].c ELSE 0} :
       \/ c = 0 /\ Next_(d, "done") /\ UNCHANGED db
       \/ /\ c # 0 /\ user.large /\ RowFor(d, c) # {}
          /\ db' = [db EXCEPT !.lfile[Chosen(RowFor(d, c))].fid = d.fid,
                              !.lfile[Chosen(RowFor(d, c))].hash = c]
          /\ Next_(d, "done")
       \/ /\ c # 0 /\ ~(user.large /\ RowFor(d, c) # {})
          /\ Put(d, [d EXCEPT !.at = IF d.local = c THEN "row" ELSE "got", !.c = c])
          /\ UNCHANGED db
    /\ UNCHANGED <<disk, srv, diff, scan, up, user, ghost>>

DnFails(d) ==
    /\ d.at = "get" /\ user.faults > 0
    /\ Next_(d, "failed")
    /\ user' = [user EXCEPT !.faults = @ - 1]
    /\ UNCHANGED <<disk, db, srv, diff, scan, up, ghost>>

\* A large one that is told to stop ends, and so does its row in the table if
\* that was before the transfer.  A small one that is not to be kept is not
\* ended at all by finish_async_download: it stays in the list, with its lock.
DnStopped(d) ==
    /\ d.at = "got" /\ d.stop # 0
    /\ \/ user.large /\ Next_(d, "failed")
       \/ user.large /\ Next_(d, "done")
       \/ ~user.large /\ d.stop = 2 /\ Next_(d, "hung")
    /\ UNCHANGED <<disk, db, srv, diff, scan, up, user, ghost>>

\* psync_is_revision_of_file; nobody can tell of a file that is gone.
\* Mutant: every file may be overwritten.
MayReplace_All(d, c) == TRUE
MayReplace(d, c) == c = 0 \/ d.fid \notin DOMAIN srv \/ c \in srv[d.fid].revs

\* rename_if_notex: what is there is read and looked up.
DnLook(d) ==
    /\ d.at = "got" /\ (d.stop = 0 \/ (~user.large /\ d.stop = 1))
    /\ scan' = ScanStops
    /\ \E c \in {ContentAt(d.path, d.name)} :
         Put(d, [d EXCEPT !.seen = c, !.scanless = TRUE,
                          !.at = IF MayReplace(d, c) THEN "place" ELSE "aside"])
    /\ ghost' = [ghost EXCEPT !.unsure = @ \cup
                   (IF d.fid \in DOMAIN srv THEN {} ELSE {d.n})]
    /\ UNCHANGED <<disk, db, srv, diff, up, user>>

\* create_conflicted: the rename, and then the row.
DnAside(d) ==
    /\ d.at = "aside"
    /\ \E dir \in {Walk(d.path)} : \E there \in {At(dir, d.name)} :
         IF dir = None \/ there = {}
         THEN /\ Put(d, [d EXCEPT !.at = "failed", !.scanless = FALSE])
              /\ scan' = ScanResumes(d) /\ UNCHANGED disk
         ELSE /\ disk' = Renamed(Chosen(there), dir, Aside(dir, d.name))
              /\ Put(d, [d EXCEPT !.at = "unrow", !.seen = 0]) /\ UNCHANGED scan
    /\ UNCHANGED <<db, srv, diff, up, user, ghost>>

DnUnrow(d) ==
    /\ d.at = "unrow"
    /\ db' = [db EXCEPT !.lfile = Without(@, FileAt(db, d.l, d.name))]
    /\ Next_(d, "place")
    /\ UNCHANGED <<disk, srv, diff, scan, up, user, ghost>>

\* pfile_rename_overwrite
DnPlace(d) ==
    /\ d.at = "place"
    /\ \E dir \in {Walk(d.path)} : \E there \in {At(dir, d.name)} :
         IF dir = None \/ \E i \in there : disk[i].kind = "folder"
         THEN /\ Put(d, [d EXCEPT !.at = "failed", !.scanless = FALSE])
              /\ scan' = ScanResumes(d) /\ UNCHANGED <<disk, ghost>>
         ELSE /\ disk' = Plus(Without(disk, there), NewInode, Item("file", dir, d.name, d.c))
              /\ ghost' = [Lost(Gone(there,
                             IF ContentAt(d.path, d.name) # d.seen THEN "window"
                             ELSE IF d.n \in ghost.unsure THEN "unsure"
                             ELSE "download")) EXCEPT !.inode = NewInode,
                                                            !.seen = @ \cup {d.c}]
              /\ Next_(d, "row") /\ UNCHANGED scan
    /\ UNCHANGED <<db, srv, diff, up, user>>

\* stat_and_create_local: the row gets size and mtime of whatever is there.
Noted(d, i) ==
    LET old == FileAt(db, d.l, d.name)
        id == IF old = {} THEN db.lastfile + 1 ELSE Chosen(old)
    IN [db EXCEPT !.lfile = Plus(@, id, [dir |-> d.l, name |-> d.name, fid |-> d.fid,
                                         hash |-> d.c, sum |-> d.c, ino |-> i,
                                         m |-> disk[i].c]),
                  !.lastfile = IF old = {} THEN id ELSE @]

Wanted(d) == d.fid \in DOMAIN db.mir /\ psyncer_dl_has_folder(db, db.mir[d.fid].dir)

\* Another file was renamed here to that name: its row becomes this file's.
Taken(d) == \E r \in FileAt(db, d.l, d.name) : db.lfile[r].fid \notin {0, d.fid}

DnRow(d) ==
    /\ d.at = "row"
    /\ \E f \in {FileOn(d.path, d.name)} :
       \/ /\ ~(f # {} /\ disk[Chosen(f)].c = d.c /\ HasPath(db, d.l))
          /\ Put(d, [d EXCEPT !.at = "failed", !.scanless = FALSE])
          /\ UNCHANGED <<disk, db, ghost>>
       \/ /\ f # {} /\ ~Wanted(d)
          /\ db' = [db EXCEPT !.lfile = Without(@, FileAt(db, d.l, d.name))]
          /\ disk' = Without(disk, f)
          /\ ghost' = Lost(Gone(f, "unwanted"))
          /\ Put(d, [d EXCEPT !.at = "done", !.scanless = FALSE])
       \/ /\ f # {} /\ Wanted(d) /\ HasPath(db, d.l)
          /\ db' = Noted(d, Chosen(f))
          /\ ghost' = [ghost EXCEPT !.known = @ \cup
                         {k \in {"clean"} : disk[Chosen(f)].c # d.c}
                         \cup {k \in {"twin"} : Twin(d.fid, FileAt(db, d.l, d.name))}
                         \cup {k \in {"taken"} : Taken(d)}]
          /\ Put(d, [d EXCEPT !.at = "done", !.scanless = FALSE])
          /\ UNCHANGED disk
    /\ scan' = ScanResumes(d)
    /\ UNCHANGED <<srv, diff, up, user>>

DnEnd(d) ==
    /\ d.at \in {"done", "failed"}
    /\ db' = IF d.at = "done" THEN DropTask(db, d.id) ELSE Busy(db, d.id, FALSE)
    /\ dn' = [dn EXCEPT !.run = @ \ {d}]
    /\ KnownIf(Reused(d), "reused")
    /\ UNCHANGED <<disk, srv, diff, scan, up, user>>

----------------------------------------------------------------------------
(* What the download thread does itself, with the row as it has read it,   *)
(* whatever becomes of it in the table.                                    *)

Row(t) == IF dn.main.at = "waits" THEN Head(dn.main.meta) ELSE db.task[t]
Held == IF dn.main.at = "waits" THEN {dn.main.id} ELSE {}
Doing(t, type) ==
    /\ dn.main = NoTask \/ t \in Held
    /\ Row(t).type = type
Step(t, at) ==
    dn' = [dn EXCEPT !.main = [id |-> t, n |-> Row(t).n, at |-> at, meta |-> <<Row(t)>>]]
Rests == dn' = [dn EXCEPT !.main = NoTask]
Drops(t, b) == db' = DropTask(b, t) /\ Rests

\* task_wait_no_downloads: the list must be empty.  A download that fails meanwhile
\* comes after the row that waits.
\* Mutant: the tasks do not wait.
NoDownloads_Any == TRUE
NoDownloads == dn.run = {}
DnWaits(t) ==
    /\ dn.main = NoTask /\ ~NoDownloads
    /\ \/ db.task[t].type \in {"rmtree", "delete", "move", "mvdir"}
       \/ db.task[t].type = "rmdir" /\ HasPath(db, db.task[t].l)
    /\ Step(t, "waits")
    /\ UNCHANGED <<disk, db, srv, diff, scan, up, user, ghost>>

\* Of the tree under a folder, the folders with no file below them:
\* psync_rmdir_with_trashes removes those.
Emptied(f, d) ==
    LET deep[i \in DOMAIN f] == i = d \/ (f[i].dir \in DOMAIN f /\ deep[f[i].dir])
        full[i \in DOMAIN f] ==
            f[i].kind = "file" \/ \E j \in DOMAIN f : f[j].dir = i /\ full[j]
    IN Without(f, {i \in DOMAIN f : deep[i] /\ ~full[i]})

\* task_mkdir: a file that is in the way is renamed first.
DnMkdir(t) ==
    /\ Doing(t, "mkdir")
    /\ \E l \in {Row(t).l} :
       IF ~HasPath(db, l) THEN Drops(t, db) /\ UNCHANGED <<disk, ghost>>
       ELSE \E dir \in {DirOf(db.lfolder[l].dir)} :
            \E name \in {db.lfolder[l].name} : \E there \in {At(dir, name)} :
            /\ disk' = IF dir = None \/ \E i \in there : disk[i].kind = "folder"
                       THEN disk
                       ELSE Plus(IF there = {} THEN disk
                                 ELSE Renamed(Chosen(there), dir, Aside(dir, name)),
                                 NewInode, Item("folder", dir, name, 0))
            /\ ghost' = [ghost EXCEPT !.inode = NewInode]
            /\ Step(t, "made") /\ UNCHANGED db
    /\ UNCHANGED <<srv, diff, scan, up, user>>

\* update_local_folder_mtime: of whatever has the name now.
DnMade ==
    /\ dn.main.at = "made"
    /\ db' = LET l == Head(dn.main.meta).l
                 dir == IF HasPath(db, l) THEN DirOf(l) ELSE None
             IN DropTask(IF dir = None THEN db ELSE [db EXCEPT !.lfolder[l].ino = dir],
                         dn.main.id)
    /\ Rests
    /\ KnownIf(Reused(dn.main), "reused")
    /\ UNCHANGED <<disk, srv, diff, scan, up, user>>

\* task_rmdir: a folder that has files in it stays, and its rows go.
DnRmdir(t) ==
    /\ Doing(t, "rmdir")
    /\ IF ~HasPath(db, Row(t).l)
       THEN Step(t, "removed") /\ UNCHANGED disk
       ELSE /\ NoDownloads
            /\ Step(t, "removed")
            /\ disk' = IF DirOf(Row(t).l) = None THEN disk
                       ELSE Emptied(disk, DirOf(Row(t).l))
    /\ UNCHANGED <<db, srv, diff, scan, up, user, ghost>>

\* delete_local_folder_from_db
DnRemoved ==
    /\ dn.main.at = "removed"
    /\ \E l \in {Head(dn.main.meta).l} :
         /\ db' = DropTask(delete_local_folder_rec(db, l), dn.main.id)
         /\ up' = [up EXCEPT !.run = Stopped(FilesUnder(db, l))]
    /\ Rests
    /\ KnownIf(Reused(dn.main), "reused")
    /\ UNCHANGED <<disk, srv, diff, scan, user>>

\* task_del_folder_rec: every file with a row goes, whatever is in it now.
DnRmtree(t) ==
    /\ Doing(t, "rmtree") /\ NoDownloads
    /\ scan' = ScanRestarts
    /\ \E l \in {Row(t).l} :
       IF ~HasPath(db, l) THEN Drops(t, db) /\ UNCHANGED <<disk, up, ghost>>
       ELSE \E f \in {UNION {FileOn(PathOf(db, db.lfile[r].dir), db.lfile[r].name) :
                              r \in FilesUnder(db, l)}} :
            /\ Drops(t, delete_local_folder_rec(db, l))
            /\ up' = [up EXCEPT !.run = Stopped(FilesUnder(db, l))]
            /\ disk' = IF DirOf(l) = None THEN Without(disk, f)
                       ELSE Emptied(Without(disk, f), DirOf(l))
            /\ ghost' = Lost(Gone(f, "rmtree"))
    /\ UNCHANGED <<srv, diff, user>>

\* task_delete_file: the file, and then its row; the scanner is told to start
\* again, but not to stop.
RowsOf(fid) == {r \in DOMAIN db.lfile : db.lfile[r].fid = fid}
DnDelete(t) ==
    /\ Doing(t, "delete") /\ NoDownloads
    /\ scan' = ScanRestarts
    /\ \E f \in {UNION {FileOn(PathOf(db, db.lfile[r].dir), db.lfile[r].name) :
                          r \in RowsOf(Row(t).item)}} :
         /\ disk' = Without(disk, f)
         /\ ghost' = Lost(Gone(f, "delete"))
    /\ Step(t, "deleted")
    /\ UNCHANGED <<db, srv, diff, up, user>>

DnDeleted ==
    /\ dn.main.at = "deleted"
    /\ db' = DropTask([db EXCEPT !.lfile = Without(@, RowsOf(Head(dn.main.meta).item))],
                      dn.main.id)
    /\ Rests
    /\ KnownIf(Reused(dn.main), "reused")
    /\ UNCHANGED <<disk, srv, diff, scan, up, user>>

\* The file was sent under the name it had before.
InFlight(r) == \E u \in up.run : u.l = r /\ u.at = "answer"

\* The rename takes the place of any file there.  A folder in its way makes it
\* fail, again and again.
MoveFile(t, r, f, dir) ==
    LET name == Row(t).name
    IN /\ \A i \in At(dir, name) : disk[i].kind = "file"
       /\ disk' = Renamed(Chosen(f), dir, name)
       /\ ghost' = [Lost(Gone(At(dir, name) \ f, "move")) EXCEPT
                      !.known = @ \cup {k \in {"crossed"} : InFlight(r)}]
       /\ scan' = ScanStops
       /\ dn' = [dn EXCEPT !.main = [id |-> t, n |-> Row(t).n, at |-> "renamed",
                                    meta |-> <<Row(t), r>>]]
       /\ UNCHANGED db
MoveFails(t, dir) ==
    /\ \E i \in At(dir, Row(t).name) : disk[i].kind = "folder"
    /\ Rests /\ scan' = ScanRestarts
    /\ UNCHANGED <<disk, db, ghost>>

\* task_rename_file, up to the rename, with the first row of the file.
DnMove(t) ==
    /\ Doing(t, "move") /\ NoDownloads
    /\ \E row \in {Row(t)} : \E rows \in {RowsOf(Row(t).item)} :
       \/ /\ rows # {}
          /\ \/ \E r \in {Chosen(rows)} :
                   <<db.lfile[r].dir, db.lfile[r].name>> = <<row.to, row.name>>
             \/ ~HasPath(db, row.to)
          /\ Drops(t, db) /\ UNCHANGED <<disk, scan>>
          /\ KnownIf(~HasPath(db, row.to), "homeless")
       \/ /\ rows = {}
          /\ Drops(t, ptask_download_q(db, row.item, row.to, row.name))
          /\ UNCHANGED <<disk, scan, ghost>>
       \/ \E r \in {Chosen(rows)} :
          /\ rows # {} /\ HasPath(db, row.to)
          /\ <<db.lfile[r].dir, db.lfile[r].name>> # <<row.to, row.name>>
          /\ \E f \in {FileOn(PathOf(db, db.lfile[r].dir), db.lfile[r].name)} :
             \E dir \in {DirOf(row.to)} :
               IF f = {} \/ dir = None
               THEN /\ Drops(t, ptask_download_q(db, row.item, row.to, row.name))
                    /\ scan' = ScanRestarts /\ UNCHANGED disk
                    /\ KnownIf(f # {}, "homeless")
               ELSE MoveFile(t, r, f, dir) \/ MoveFails(t, dir)
    /\ UNCHANGED <<srv, diff, up, user>>

\* The row is given the place, and the modification time that the file has.
DnRenamed ==
    /\ dn.main.at = "renamed"
    /\ \E row \in {Head(dn.main.meta)} : \E r \in {dn.main.meta[2]} :
       \E f \in {IF HasPath(db, row.to) THEN FileOn(PathOf(db, row.to), row.name) ELSE {}} :
       IF f = {} \/ r \notin DOMAIN db.lfile
       THEN db' = DropTask(db, dn.main.id) /\ UNCHANGED ghost
       ELSE /\ db' = [DropTask(db, dn.main.id) EXCEPT
                        !.lfile = [Without(@, FileAt(db, row.to, row.name) \ {r}) EXCEPT
                                     ![r].dir = row.to, ![r].name = row.name,
                                     ![r].ino = Chosen(f), ![r].m = disk[Chosen(f)].c]]
            /\ KnownIf(disk[Chosen(f)].c # db.lfile[r].m, "clean")
    /\ scan' = [scan EXCEPT !.stoppers = @ - 1]
    /\ Rests
    /\ UNCHANGED <<disk, srv, diff, up, user>>

\* move_folder_contents: what has the same name is replaced, but a folder only
\* when it is empty.  The new path is d.
Merged(i, d) ==
    LET over(x) == At(d, disk[x].name)
        moves(x) == \A j \in over(x) :
                       /\ disk[j].kind = disk[x].kind
                       /\ disk[j].kind = "folder" => In(j) = {}
        goes == {x \in In(i) : moves(x)}
        out == UNION {over(x) : x \in goes}
    IN Emptied([j \in DOMAIN disk \ out |->
                  IF j \in goes THEN [disk[j] EXCEPT !.dir = d] ELSE disk[j]], i)

\* task_renamefolder, in one transaction; a failed one drops what it wrote,
\* and when there is a row with the new name the path stays the old one.
DnMvdir(t) ==
    /\ Doing(t, "mvdir") /\ NoDownloads
    /\ \E row \in {Row(t)} :
       IF ~HasPath(db, row.l) \/ ~HasPath(db, row.to)
       THEN /\ Drops(t, db) /\ UNCHANGED <<disk, scan>>
            /\ KnownIf(HasPath(db, row.l), "homeless")
       ELSE IF <<db.lfolder[row.l].dir, db.lfolder[row.l].name>> = <<row.to, row.name>>
       THEN Drops(t, db) /\ UNCHANGED <<disk, scan, ghost>>
       ELSE IF FolderAt(db, row.to, row.name) # {}
       THEN /\ Drops(t, db) /\ scan' = ScanRestarts /\ UNCHANGED disk
            /\ Known("clash")
       ELSE /\ scan' = ScanRestarts
            /\ \E i \in {DirOf(row.l)} : \E d \in {DirOf(row.to)} :
               \E there \in {At(d, row.name)} :
               \E b \in {[db EXCEPT !.lfolder[row.l].dir = row.to,
                                    !.lfolder[row.l].name = row.name]} :
                 \/ /\ i = None \/ d = None
                    /\ Drops(t, b) /\ UNCHANGED <<disk, ghost>>
                 \/ /\ i # None /\ d # None
                    /\ \A j \in there : disk[j].kind = "file" \/ In(j) = {}
                    /\ disk' = Moved(IF \E j \in there : disk[j].kind = "file"
                                     THEN Renamed(Chosen(there), d, Aside(d, row.name))
                                     ELSE disk, i, d, row.name)
                    /\ Drops(t, b) /\ UNCHANGED ghost
                 \/ \E j \in there :
                    /\ i # None /\ disk[j].kind = "folder" /\ In(j) # {}
                    /\ disk' = Merged(i, j)
                    /\ ghost' = Lost(Gone(DOMAIN disk \ DOMAIN disk', "merge"))
                    /\ IF i \in DOMAIN disk' THEN UNCHANGED db /\ Rests ELSE Drops(t, b)
    /\ UNCHANGED <<srv, diff, up, user>>

DnNext ==
    \/ \E t \in Due(DownKinds) \cup Held :
          \/ DnStart(t) \/ DnMkdir(t) \/ DnWaits(t) \/ DnRmdir(t) \/ DnRmtree(t)
          \/ DnDelete(t) \/ DnMove(t) \/ DnMvdir(t)
    \/ DnMade \/ DnRemoved \/ DnDeleted \/ DnRenamed
    \/ \E d \in dn.run : \/ DnGet(d) \/ DnFails(d) \/ DnStopped(d) \/ DnLook(d)
                         \/ DnAside(d) \/ DnUnrow(d) \/ DnPlace(d) \/ DnRow(d) \/ DnEnd(d)
=============================================================================
