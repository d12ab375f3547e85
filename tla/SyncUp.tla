------------------------------- MODULE SyncUp -------------------------------
(***************************************************************************)
(* Uploads of the sync engine, pupload.c: the upload thread and the        *)
(* threads it starts, one for each file.  up has                           *)
(*   main   the row the upload thread is at, and how far; NoTask at rest   *)
(*   run    the list uploads:                                              *)
(*          id, n, l, name   of the row in table task                      *)
(*          stop             somebody wants it to end                      *)
(*          at               the next thing the thread does                *)
(*          path, to, c      local and remote folder and checksum, as read *)
(*          fid, new, sent   the server's answer: file, name, content      *)
(***************************************************************************)
EXTENDS SyncDiff

CONSTANT MaxUploads     \* PSYNC_MAX_PARALLEL_UPLOADS

ASSUME MaxUploadsAssumption == MaxUploads \in Nat

NoTask == [id |-> 0, n |-> 0, at |-> "rest", meta |-> <<>>]

Known(why) == ghost' = [ghost EXCEPT !.known = @ \cup {why}]
KnownIf(yes, why) == IF yes THEN Known(why) ELSE UNCHANGED ghost

----------------------------------------------------------------------------
(* Starting an upload. *)

Upload(t) ==
    [id |-> t, n |-> db.task[t].n, l |-> db.task[t].l, name |-> db.task[t].name,
     stop |-> FALSE, at |-> "slot", path |-> <<>>, to |-> 0, c |-> 0,
     fid |-> 0, new |-> NoName, sent |-> 0]
With(u, w) == up' = [up EXCEPT !.run = (@ \ {u}) \cup {w}]
Admitted == {u \in up.run : u.at # "slot"}

\* task_run_uploadfile, up to the list; it then waits for its turn.
UpStart(t) ==
    /\ up.main = NoTask /\ db.task[t].type = "upload"
    /\ IF db.task[t].l \notin DOMAIN db.lfile
       THEN db' = DropTask(db, t) /\ UNCHANGED up
       ELSE /\ db' = Busy(db, t, TRUE)
            /\ up' = [main |-> [NoTask EXCEPT !.at = "slot"],
                      run |-> up.run \cup {Upload(t)}]
    /\ UNCHANGED <<disk, srv, diff, scan, dn, user, ghost>>

UpAdmit(u) ==
    /\ u.at = "slot" /\ ~u.stop /\ Cardinality(Admitted) < MaxUploads
    /\ up' = [main |-> NoTask, run |-> (up.run \ {u}) \cup {[u EXCEPT !.at = "read"]}]
    /\ UNCHANGED <<disk, db, srv, diff, scan, dn, user, ghost>>

\* What the end of an upload does to the rows goes by the id of the row, and
\* the row with that id may by now be another.
Reused(u) == u.id \in DOMAIN db.task /\ db.task[u.id].n # u.n

UpTurnedAway(u) ==
    /\ u.at = "slot" /\ u.stop
    /\ up' = [main |-> NoTask, run |-> up.run \ {u}]
    /\ db' = Busy(db, u.id, FALSE)
    /\ KnownIf(Reused(u), "reused")
    /\ UNCHANGED <<disk, srv, diff, scan, dn, user>>

----------------------------------------------------------------------------
(* One upload: task_uploadfile. *)

FileOn(path, name) == {i \in At(Walk(path), name) : disk[i].kind = "file"}

\* psync_lock_file: uploads and downloads of one path take turns.
\* Mutant: everybody gets the lock.
Locked_Never(path, name) == FALSE
Locked(path, name) ==
    \/ \E u \in up.run : u.at \in {"send", "answer"} /\ u.path = path /\ u.name = name
    \/ \E d \in dn.run : d.lock /\ d.path = path /\ d.name = name

Ends(u, at) == With(u, [u EXCEPT !.at = at])

\* The flag is looked at here and between two blocks.
UpStopped(u) ==
    /\ u.at \in {"read", "send"} /\ u.stop
    /\ Ends(u, "failed")
    /\ UNCHANGED <<disk, db, srv, diff, scan, dn, user, ghost>>

Reading(u) == u.at = "read" /\ ~u.stop
RowOf(u) == db.lfile[u.l]
PathTo(u) == PathOf(db, RowOf(u).dir)
SourceOf(u) == FileOn(PathTo(u), RowOf(u).name)

UpNoRow(u) ==
    /\ Reading(u) /\ u.l \notin DOMAIN db.lfile
    /\ Ends(u, "done")
    /\ UNCHANGED <<disk, db, srv, diff, scan, dn, user, ghost>>

UpLocked(u) ==
    /\ Reading(u) /\ u.l \in DOMAIN db.lfile
    /\ Locked(PathTo(u), RowOf(u).name)
    /\ Ends(u, "failed")
    /\ UNCHANGED <<disk, db, srv, diff, scan, dn, user, ghost>>

\* delete_from_localfile: the scan will not see any more that it is gone.
UpNoFile(u) ==
    /\ Reading(u) /\ u.l \in DOMAIN db.lfile
    /\ ~Locked(PathTo(u), RowOf(u).name) /\ SourceOf(u) = {}
    /\ db' = [db EXCEPT !.lfile = Without(@, {u.l})]
    /\ Ends(u, "done")
    /\ KnownIf(RowOf(u).fid # 0, "orphaned")
    /\ UNCHANGED <<disk, srv, diff, scan, dn, user>>

\* check_file_if_exists: what the mirror has there, as the server has it now.
Found(d, name, c) ==
    {i \in DOMAIN db.mir : /\ db.mir[i].kind = "file" /\ db.mir[i].dir = d
                           /\ db.mir[i].name = name
                           /\ i \in DOMAIN srv /\ srv[i].c = c}

\* Renamed here while it was changed there: it comes, or is found, under the
\* old name too.
Twin(fid, rows) == \E r \in DOMAIN db.lfile \ rows : db.lfile[r].fid = fid

UpRead(u) ==
    /\ Reading(u) /\ u.l \in DOMAIN db.lfile
    /\ ~Locked(PathTo(u), RowOf(u).name)
    /\ \E src \in SourceOf(u) :
       \E row \in {[RowOf(u) EXCEPT !.sum = disk[src].c]} :
       \E d \in {IF row.dir \in DOMAIN db.synced THEN db.synced[row.dir] ELSE None} :
       \E i \in {Chosen(Found(d, row.name, row.sum))} :
          /\ db' = [db EXCEPT !.lfile[u.l] =
                       IF i = 0 THEN row ELSE [row EXCEPT !.fid = i, !.hash = row.sum]]
          /\ IF d = None \/ i # 0 THEN Ends(u, "done")
             ELSE With(u, [u EXCEPT !.at = "send", !.path = PathTo(u),
                                    !.name = row.name, !.to = d, !.c = row.sum])
          /\ KnownIf(i # 0 /\ Twin(i, {u.l}), "twin")
    /\ UNCHANGED <<disk, srv, diff, scan, dn, user>>

\* The version the local file is based on; 0, no version, is ifhash=new.
\* Mutant: any version will do.
IfHash_Any(u, i) == srv[i].c
IfHash(u, i) == IF u.l \in DOMAIN db.lfile THEN RowOf(u).hash ELSE 0

\* The server's name for a second file of that name; never one of the disk's.
Conflicted(d, name) ==
    LET k == CHOOSE n \in 10..20 : Child(d, <<name[1], n>>) = {}
    IN <<name[1], k>>

UpNotSent(u) ==
    /\ u.at = "send" /\ ~u.stop
    /\ \/ FileOn(u.path, u.name) = {} /\ Ends(u, "failed")
       \/ FileOn(u.path, u.name) # {} /\ u.to \notin DOMAIN srv \cup {0} /\ Ends(u, "done")
    /\ UNCHANGED <<disk, db, srv, diff, scan, dn, user, ghost>>

\* upload_file, up to the last byte: what is sent is what the file has now.
UpSend(u) ==
    /\ u.at = "send" /\ ~u.stop /\ u.to \in DOMAIN srv \cup {0}
    /\ \E src \in FileOn(u.path, u.name) :
       \E c \in {disk[src].c} : \E there \in {Child(u.to, u.name)} :
         \/ \E i \in there :
              /\ srv[i].kind = "file" /\ srv[i].c = IfHash(u, i)
              /\ SrvSave(i, c)
              /\ ghost' = [ghost EXCEPT !.over = @ \cup ({srv[i].c} \ ghost.seen),
                                        !.kept = @ \cup {c}]
              /\ With(u, [u EXCEPT !.at = "answer", !.sent = c, !.fid = i])
         \/ /\ \A i \in there : srv[i].kind # "file" \/ srv[i].c # IfHash(u, i)
            /\ \E name \in {IF there = {} THEN u.name ELSE Conflicted(u.to, u.name)} :
                 /\ SrvCreate(NewId, "file", u.to, name, c)
                 /\ With(u, [u EXCEPT !.at = "answer", !.sent = c,
                                      !.fid = NewId, !.new = name])
            /\ ghost' = [ghost EXCEPT !.id = NewId, !.kept = @ \cup {c},
                           !.known = @ \cup {k \in {"misplaced"} : u.to = 0}]
    /\ UNCHANGED <<disk, db, scan, dn, user>>

\* The answer is taken under the lock of the diff thread.  If what was sent is
\* not what was read before, the upload is done again.
Answered(u) == Ends(u, IF u.sent = u.c THEN "done" ELSE "failed")
HasNewName(u) == u.new # NoName /\ u.new # u.name

\* A file that was edited and moved is a new one at the server, and the row
\* forgets the file it stood for.
Leaves(u) == u.l \in DOMAIN db.lfile /\ RowOf(u).fid \in DOMAIN srv \ {u.fid}

UpAnswer(u) ==
    /\ u.at = "answer" /\ up.main.at # "made" /\ ~HasNewName(u)
    /\ db' = IF u.l \in DOMAIN db.lfile
             THEN [db EXCEPT !.lfile[u.l].fid = u.fid, !.lfile[u.l].hash = u.sent]
             ELSE db
    /\ Answered(u)
    /\ KnownIf(Leaves(u), "orphaned")
    /\ UNCHANGED <<disk, srv, diff, scan, dn, user>>

\* set_local_file_conflicted: the rename is inside the transaction.  If the
\* file has come down again meanwhile the transaction fails, and the path stays
\* the old one.
Renaming(b, u) ==
    LET c == [b EXCEPT !.lfile[u.l].name = u.new]
    IN IF u.id \in DOMAIN c.task THEN [c EXCEPT !.task[u.id].name = u.new] ELSE c

CameDown(u) == FileAt(db, RowOf(u).dir, u.new) # {}

UpConflict(u) ==
    /\ u.at = "answer" /\ up.main.at # "made" /\ HasNewName(u)
    /\ \E src \in {FileOn(u.path, u.name)} :
         IF /\ u.l \in DOMAIN db.lfile /\ src # {} /\ ~CameDown(u)
            /\ Walk(PathOf(db, RowOf(u).dir)) # None
         THEN /\ db' = Renaming([db EXCEPT !.lfile[u.l].fid = u.fid,
                                           !.lfile[u.l].hash = u.sent], u)
              /\ disk' = Renamed(Chosen(src),
                                 Walk(PathOf(db, RowOf(u).dir)), u.new)
              /\ UNCHANGED ghost
         ELSE /\ UNCHANGED <<db, disk>>
              /\ KnownIf(u.l \in DOMAIN db.lfile /\ CameDown(u), "conflicted")
    /\ Answered(u)
    /\ UNCHANGED <<srv, diff, scan, dn, user>>

\* The connection breaks after the file arrived: the upload is done again.
UpLost(u) ==
    /\ u.at = "answer" /\ user.faults > 0
    /\ Ends(u, "failed")
    /\ user' = [user EXCEPT !.faults = @ - 1]
    /\ UNCHANGED <<disk, db, srv, diff, scan, dn, ghost>>

\* task_run_upload_file_thread
UpEnd(u) ==
    /\ u.at \in {"done", "failed"}
    /\ db' = IF u.at = "done" THEN DropTask(db, u.id) ELSE Busy(db, u.id, FALSE)
    /\ up' = [up EXCEPT !.run = @ \ {u}]
    /\ KnownIf(Reused(u), "reused")
    /\ UNCHANGED <<disk, srv, diff, scan, dn, user>>

----------------------------------------------------------------------------
(* What the upload thread does itself: ask the server, and when it has     *)
(* answered delete the row.                                                *)

FolderOf(l) == IF l \in DOMAIN db.synced THEN db.synced[l] ELSE 0
FileOf(l) == IF l \in DOMAIN db.lfile THEN db.lfile[l].fid ELSE 0

\* task_wait_no_uploads
NoUploads(t) ==
    /\ up.run = {}
    /\ \A o \in DOMAIN db.task : o < t => db.task[o].type # "upload"

\* meta: the metadata of the answer, one Event.
Asked(t, at, meta) ==
    up' = [up EXCEPT !.main = [id |-> t, n |-> db.task[t].n, at |-> at, meta |-> meta]]

Asking(t, type) == up.main = NoTask /\ db.task[t].type = type

\* task_createfolder; the diff thread's lock is held until the row has the id.
UpMkdir(t) ==
    /\ Asking(t, "r-mkdir")
    /\ \E l \in {db.task[t].l} :
       \E d \in {IF l \in DOMAIN db.lfolder /\ db.lfolder[l].dir \in DOMAIN db.synced
                 THEN db.synced[db.lfolder[l].dir] ELSE None} :
       \E there \in {Child(d, db.task[t].name)} :
         \/ /\ d \notin DOMAIN srv \cup {0} \/ \E i \in there : srv[i].kind = "file"
            /\ Asked(t, "asked", <<>>)
            /\ UNCHANGED <<srv, diff, ghost>>
         \/ /\ \E i \in there : srv[i].kind = "folder"
                               /\ Asked(t, "made", <<Event("create", i, srv, 0)>>)
            /\ UNCHANGED <<srv, diff, ghost>>
         \/ /\ there = {} /\ d \in DOMAIN srv \cup {0}
            /\ SrvCreate(NewId, "folder", d, db.task[t].name, 0)
            /\ Asked(t, "made", <<Event("create", NewId, srv', 0)>>)
            /\ ghost' = [ghost EXCEPT !.id = NewId,
                           !.known = @ \cup {k \in {"misplaced"} : d = 0}]
    /\ UNCHANGED <<disk, db, scan, dn, user>>

\* The transaction: pfileops_create_fldr, and the rows of the folder.
UpMade ==
    /\ up.main.at = "made"
    /\ \E e \in {Head(up.main.meta)} :
       \E l \in {IF up.main.id \in DOMAIN db.task THEN db.task[up.main.id].l ELSE None} :
         db' = [db EXCEPT
                  !.mir = IF e.id \in DOMAIN @ THEN @ ELSE Entered(db, e).mir,
                  !.lfolder = IF l \in DOMAIN @ THEN [@ EXCEPT ![l].fid = e.id] ELSE @,
                  !.synced = IF l \in DOMAIN @ THEN [@ EXCEPT ![l] = e.id] ELSE @]
    /\ up' = [up EXCEPT !.main.at = "asked"]
    /\ UNCHANGED <<disk, srv, diff, scan, dn, user, ghost>>

\* task_renamefile; a server without such a file or folder refuses, and the
\* task is done: the file stays where it was there.
UpMove(t) ==
    /\ Asking(t, "r-move") /\ NoUploads(t)
    /\ \E i \in {FileOf(db.task[t].l)} : \E d \in {FolderOf(db.task[t].to)} :
       IF i # 0 /\ d # 0 /\ CanMove(i, d, db.task[t].name)
       THEN SrvMove(i, d, db.task[t].name) /\ UNCHANGED ghost
       ELSE Known("refused") /\ UNCHANGED <<srv, diff>>
    /\ Asked(t, "asked", <<>>)
    /\ UNCHANGED <<disk, db, scan, dn, user>>

\* task_renamefolder; what the server refuses is asked again, for ever.
UpMvdir(t) ==
    /\ Asking(t, "r-mvdir") /\ NoUploads(t)
    /\ \E i \in {FolderOf(db.task[t].l)} : \E d \in {FolderOf(db.task[t].to)} :
         \/ /\ i = 0 \/ d = 0
            /\ Asked(t, "asked", <<>>)
            /\ UNCHANGED <<srv, diff>>
         \/ /\ i # 0 /\ d # 0 /\ CanMove(i, d, db.task[t].name)
            /\ SrvMove(i, d, db.task[t].name)
            /\ Asked(t, "moved", <<Event("modify", i, srv', 0)>>)
    /\ UNCHANGED <<disk, db, scan, dn, user, ghost>>

\* The answer is entered like a change, but not under the lock of the diff
\* thread, and a later change may have been entered before it.
Stale(e) == /\ e.id \in DOMAIN srv => <<srv[e.id].dir, srv[e.id].name>> # <<e.dir, e.name>>
            /\ \A k \in DOMAIN diff : diff[k].id # e.id
UpMoved ==
    /\ up.main.at = "moved"
    /\ \E e \in {Head(up.main.meta)} :
         /\ db' = process_modifyfolder(db, e)
         /\ ghost' = [ghost EXCEPT !.known = @ \cup Flaws(db') \cup {f \in {"stale"} : Stale(e)}]
    /\ up' = [up EXCEPT !.main.at = "asked"]
    /\ UNCHANGED <<disk, srv, diff, scan, dn, user>>

\* task_deletefile, task_deletefolderrec
UpDelete(t) ==
    /\ Asking(t, db.task[t].type) /\ db.task[t].type \in {"r-delete", "r-rmtree"}
    /\ NoUploads(t)
    /\ IF db.task[t].item \in DOMAIN srv THEN SrvDelete(db.task[t].item)
       ELSE UNCHANGED <<srv, diff>>
    /\ Asked(t, "asked", <<>>)
    /\ UNCHANGED <<disk, db, scan, dn, user, ghost>>

UpDone ==
    /\ up.main.at = "asked"
    /\ db' = DropTask(db, up.main.id)
    /\ up' = [up EXCEPT !.main = NoTask]
    /\ KnownIf(Reused(up.main), "reused")
    /\ UNCHANGED <<disk, srv, diff, scan, dn, user>>

\* The answer is lost: the row is there and the server is asked again.
UpAgain ==
    /\ up.main.at \in {"made", "moved", "asked"} /\ user.faults > 0
    /\ up' = [up EXCEPT !.main = NoTask]
    /\ user' = [user EXCEPT !.faults = @ - 1]
    /\ UNCHANGED <<disk, db, srv, diff, scan, dn, ghost>>

UpNext ==
    \/ \E t \in Due(UpKinds) : \/ UpStart(t) \/ UpMkdir(t) \/ UpMove(t)
                               \/ UpMvdir(t) \/ UpDelete(t)
    \/ UpMade \/ UpMoved \/ UpDone \/ UpAgain
    \/ \E u \in up.run : \/ UpAdmit(u) \/ UpTurnedAway(u) \/ UpStopped(u)
                         \/ UpNoRow(u) \/ UpLocked(u) \/ UpNoFile(u) \/ UpRead(u)
                         \/ UpNotSent(u) \/ UpSend(u) \/ UpAnswer(u)
                         \/ UpConflict(u) \/ UpLost(u) \/ UpEnd(u)
=============================================================================
