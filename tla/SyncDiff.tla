------------------------------ MODULE SyncDiff ------------------------------
(***************************************************************************)
(* The changes of the server, pdiff.c and psyncer.c: each is entered into  *)
(* the tables file and folder (mir), and what it means for the folder that *)
(* is synced is queued for the download thread.                            *)
(*                                                                         *)
(* synced_down_folders, the tree of psyncer.c, has the folders that have a *)
(* row in syncedfolder.                                                    *)
(***************************************************************************)
EXTENDS SyncScan

LocalOf(b, f) == {l \in DOMAIN b.synced : b.synced[l] = f}
psyncer_dl_has_folder(b, f) == LocalOf(b, f) # {}

Entered(b, e) ==
    [b EXCEPT !.mir = Plus(Without(@, {e.del}), e.id,
                           [kind |-> e.kind, dir |-> e.dir, name |-> e.name, c |-> e.c])]
Forgotten(b, i) == [b EXCEPT !.mir = Without(@, {i})]

----------------------------------------------------------------------------
(* Folders. *)

\* psyncer_db_folder_create.  When there is such a folder already its id is to
\* be set; the statement has its parameters in the wrong order and changes no
\* row, as no local folder has the number of a remote one.
FolderFor(b, f, l, name) ==
    LET known == {i \in DOMAIN b.lfolder : b.lfolder[i].fid = f}
    IN IF known # {} THEN Chosen(known)
       ELSE IF FolderAt(b, l, name) # {} THEN Chosen(FolderAt(b, l, name))
       ELSE b.lastfolder + 1
psyncer_db_folder_create(b, f, l, name) ==
    IF FolderFor(b, f, l, name) \in DOMAIN b.lfolder THEN b
    ELSE LET id == FolderFor(b, f, l, name)
         IN [b EXCEPT !.lfolder = Plus(@, id, [dir |-> l, name |-> name, ino |-> 0,
                                                fid |-> f]),
                      !.lastfolder = id]

\* The row of syncedfolder is a new one: the folder is to be made.
process_createfolder(b, e) ==
    LET a == Entered(b, e)
        l == Chosen(LocalOf(a, e.dir))
        id == FolderFor(a, e.id, l, e.name)
        c == psyncer_db_folder_create(a, e.id, l, e.name)
    IN IF LocalOf(a, e.dir) = {} THEN a
       ELSE IF id \notin DOMAIN c.synced /\ LocalOf(c, e.id) = {}
       THEN ptask_ldir_mk([c EXCEPT !.synced = Plus(@, id, e.id)], e.id, id)
       ELSE IF LocalOf(c, e.id) = {} THEN [c EXCEPT !.synced[id] = e.id]
       ELSE c

Bound(b, f, l) == [b EXCEPT !.synced = Plus(Without(@, LocalOf(b, f)), l, f)]

InMirror(b, f, kind) ==
    {i \in DOMAIN b.mir : b.mir[i].dir = f /\ b.mir[i].kind = kind}

\* What is in a folder of the mirror: the folders, and then the files.
Listed(b, f) == SetToSeq(InMirror(b, f, "folder")) \o SetToSeq(InMirror(b, f, "file"))

\* psyncer_dl_folder_add calls itself for each folder, before it comes to the
\* next: todo is what the calls have still to add.  at has the local folder of
\* each folder of the server that was added.
dl_add_folder(s, i) ==
    LET l == s.at[s.b.mir[i].dir]
        id == FolderFor(s.b, i, l, s.b.mir[i].name)
        c == ptask_ldir_mk(psyncer_db_folder_create(s.b, i, l, s.b.mir[i].name), i, id)
    IN [b |-> Bound(c, i, id), at |-> Plus(s.at, i, id),
        todo |-> Listed(s.b, i) \o Tail(s.todo)]
dl_add_file(s, i) ==
    [s EXCEPT !.b = ptask_download_q(@, i, s.at[@.mir[i].dir], @.mir[i].name),
              !.todo = Tail(@)]
dl_add(s, round) ==
    IF s.todo = <<>> THEN s
    ELSE IF s.b.mir[Head(s.todo)].kind = "folder" THEN dl_add_folder(s, Head(s.todo))
    ELSE dl_add_file(s, Head(s.todo))
psyncer_dl_folder_add(b, f, l) ==
    FoldLeft(dl_add, [b |-> Bound(b, f, l), at |-> Plus(<<>>, f, l), todo |-> Listed(b, f)],
             [round \in 1..Cardinality(DOMAIN b.mir) |-> round]).b

del_synced_folder_rec(b, f) ==
    LET in[i \in DOMAIN b.mir] ==
            i = f \/ (b.mir[i].dir \in DOMAIN b.mir /\ in[b.mir[i].dir])
    IN [b EXCEPT !.synced = Without(@, {l \in DOMAIN @ :
                                          @[l] = f \/ (@[l] \in DOMAIN b.mir /\ in[@[l]])})]

\* Moved inside the synced folder, out of it, or into it.
MovedWithin(b, e) ==
    IF LocalOf(b, e.id) = {} THEN b
    ELSE ptask_ldir_rename(b, e.id, Chosen(LocalOf(b, e.id)),
                           Chosen(LocalOf(b, e.dir)), e.name)
MovedOut(b, e) ==
    IF LocalOf(b, e.id) = {} THEN b
    ELSE ptask_ldir_rm_r(del_synced_folder_rec(b, e.id), e.id,
                         Chosen(LocalOf(b, e.id)))
MovedIn(b, e) ==
    LET l == Chosen(LocalOf(b, e.dir))
        id == FolderFor(b, e.id, l, e.name)
    IN psyncer_dl_folder_add(
         ptask_ldir_mk(psyncer_db_folder_create(b, e.id, l, e.name), e.id, id),
         e.id, id)

process_modifyfolder(b, e) ==
    IF e.id \notin DOMAIN b.mir THEN process_createfolder(b, e)
    ELSE LET old == b.mir[e.id]
             a == Entered(b, e)
             was == LocalOf(b, old.dir) # {}
             is == LocalOf(b, e.dir) # {}
         IN IF <<old.dir, old.name>> = <<e.dir, e.name>> THEN a
            ELSE IF was /\ is THEN MovedWithin(a, e)
            ELSE IF was THEN MovedOut(a, e)
            ELSE IF is THEN MovedIn(a, e)
            ELSE a

process_deletefolder(b, e) ==
    LET l == LocalOf(b, e.id)
        a == [b EXCEPT !.synced = Without(@, l)]
    IN Forgotten(IF l = {} THEN b ELSE ptask_ldir_rm(a, e.id, Chosen(l)), e.id)

----------------------------------------------------------------------------
(* Files. *)

\* The version is the one an upload has just noted here.
HasIt(b, l, e) ==
    \E i \in DOMAIN b.lfile : /\ b.lfile[i].dir = l /\ b.lfile[i].fid = e.id
                              /\ b.lfile[i].hash = e.c

Fetch(b, e) ==
    LET l == Chosen(LocalOf(b, e.dir))
    IN IF HasIt(b, l, e) THEN b ELSE ptask_download_q(b, e.id, l, e.name)

process_createfile(b, e) ==
    LET a == Entered(b, e)
    IN IF LocalOf(a, e.dir) = {} THEN a ELSE Fetch(a, e)

\* pdownload_tasks_delete, the rows.
pdownload_tasks_delete(b, i) ==
    [b EXCEPT !.task = Without(@, {t \in DOMAIN @ : @[t].type = "download"
                                                     /\ @[t].item = i})]

process_modifyfile(b, e) ==
    IF e.id \notin DOMAIN b.mir THEN process_createfile(b, e)
    ELSE LET old == b.mir[e.id]
             a == Entered(b, e)
             was == LocalOf(b, old.dir)
             is == LocalOf(b, e.dir)
             changed == old.c # e.c
             c == IF changed THEN pdownload_tasks_delete(a, e.id) ELSE a
             d == IF <<old.dir, old.name>> = <<e.dir, e.name>> THEN c
                  ELSE ptask_lfile_rename(c, e.id, Chosen(was), Chosen(is), e.name)
         IN IF was = {} /\ is = {} THEN a
            ELSE IF is = {} THEN pdownload_tasks_delete(ptask_lfile_rm(c, e.id), e.id)
            ELSE IF was = {} THEN ptask_download_q(c, e.id, Chosen(is), e.name)
            ELSE IF changed THEN Fetch(d, e)
            ELSE d

\* The path is asked for before the row goes; without one nothing is queued.
process_deletefile(b, e) ==
    LET a == pdownload_tasks_delete(b, e.id)
    IN Forgotten(IF LocalOf(b, e.dir) = {} THEN b
                 ELSE IF e.id \in DOMAIN b.mir THEN ptask_lfile_rm(a, e.id)
                 ELSE a, e.id)

\* What a change writes into the downloads of the file: 2, do not keep it.
StopFlag(b, e) ==
    LET was == IF e.id \in DOMAIN b.mir THEN LocalOf(b, b.mir[e.id].dir) ELSE {}
        is == LocalOf(b, e.dir)
    IN IF e.what = "delete" THEN IF is # {} THEN 2 ELSE 0
       ELSE IF e.what = "create" \/ was \cup is = {} \/ e.id \notin DOMAIN b.mir
       THEN 0
       ELSE IF is = {} THEN 2
       ELSE IF b.mir[e.id].c # e.c THEN 1 ELSE 0
Told(d, e) ==
    IF e.kind = "file" /\ d.fid = e.id /\ StopFlag(db, e) # 0
    THEN [d EXCEPT !.stop = StopFlag(db, e)] ELSE d

process_entry(b, e) ==
    IF e.kind = "folder"
    THEN IF e.what = "create" THEN process_createfolder(b, e)
         ELSE IF e.what = "modify" THEN process_modifyfolder(b, e)
         ELSE process_deletefolder(b, e)
    ELSE IF e.what = "create" THEN process_createfile(b, e)
         ELSE IF e.what = "modify" THEN process_modifyfile(b, e)
         ELSE process_deletefile(b, e)

\* A local folder that stood for one folder of the server stands for another:
\* process_createfolder when the user here renamed a folder to that name.
Rebound(b) ==
    \E l \in DOMAIN db.synced \cap DOMAIN b.synced :
        db.synced[l] \notin {0, b.synced[l]}

\* A folder comes back while its removal is still queued: the row found for
\* it is the one that the removal will take away.
Doomed(b) ==
    \E t \in DOMAIN db.task : /\ db.task[t].type \in {"rmdir", "rmtree"}
                              /\ (DOMAIN b.synced \ DOMAIN db.synced)
                                   \cap Under(db, db.task[t].l) # {}

Flaws(b) == {f \in {"rebound", "doomed"} : IF f = "rebound" THEN Rebound(b) ELSE Doomed(b)}

\* process_entries for one change; several may come at once.  The lock is held
\* while an upload's answer is entered.
Diff ==
    /\ diff # <<>> /\ up.main.at # "made"
    /\ \E e \in {Head(diff)} :
         /\ db' = process_entry(db, e)
         /\ ghost' = [ghost EXCEPT !.known = @ \cup Flaws(db')]
         /\ dn' = [dn EXCEPT !.run = {Told(d, e) : d \in @}]
    /\ diff' = Tail(diff)
    /\ UNCHANGED <<disk, srv, scan, up, user>>
=============================================================================
