------------------------------ MODULE FsTasks ------------------------------
(***************************************************************************)
(* The write side of the virtual drive: every change a user makes is      *)
(* answered at once from memory and queued for the server.  A change      *)
(* leaves a row in the table fstask, arrows to the rows it must wait for  *)
(* in fstaskdepend, and entries in the overlay (the tree "folders" of     *)
(* pfstasks.c) that readdir and lookups lay over the synchronised tables  *)
(* file and folder.  The queue is emptied by FsUpload, which extends this *)
(* module.                                                                *)
(*                                                                         *)
(* Ids are signed as in the code: 0 is the root, a positive id names an   *)
(* object of the server, and -t names the object that task t will create. *)
(* Every operation runs under the database lock (psql_lock), so it is one *)
(* action.  Permissions, encryption, times and sizes are left out.        *)
(***************************************************************************)
EXTENDS Integers, FiniteSets, FiniteSetsExt, Functions, TLC

CONSTANTS
    Workloads,    \* bound: what a behaviour starts from and may meet
    MaxTask       \* bound: the largest id a task may get

(* A workload has
     objects    what the account holds at the start: a function like db
     names      the names a request may use
     ops        the kinds of request the user issues (renames and rmdir have
                several: FileRenameKind, RenameKind, RmdirRefused)
     requests   how many there are, and objects are made, at most
     remembers  FALSE: a remembered old place (a cache with a time limit) has
                always expired when it is looked up
     diffs      "none": the diff thread sleeps; "current": an answer of it is
                entered before it is old; "late": it may be old
     faults     how many connections break and crashes happen, at most *)
ASSUME WorkloadAssumption ==
    /\ Workloads # {} /\ IsFiniteSet(Workloads) /\ MaxTask \in Nat
    /\ \A w \in Workloads :
          /\ IsFiniteSet(DOMAIN w.objects) /\ DOMAIN w.objects \subseteq Nat \ {0}
          /\ w.requests \in Nat /\ w.faults \in Nat /\ w.remembers \in BOOLEAN
          /\ w.diffs \in {"none", "current", "late"}

VARIABLES
    fstask,       \* table fstask: live task ids -> rows
    fstaskdepend, \* table fstaskdepend: pairs <<task, task it waits for>>
    fstaskfileid, \* table fstaskfileid: task -> file an aborted upload made
    db,           \* tables file and folder: ids -> objects
    folders,      \* the overlay: [ent: its entries, cnt: taskscnt per folder]
    openfiles,    \* the handles of files that are not uploaded yet
    history,      \* cached records "HLOC": file id -> where it was before
    made,         \* requests issued so far; names the object one creates
    workload,     \* the one of this behaviour
    wakes,        \* upload_wakes > 0: the uploader has been told to look
    txn           \* the uploader is inside its transaction

taskVars == <<fstask, fstaskdepend, fstaskfileid, db, folders, openfiles,
              history, made, wakes, txn>>

Root == 0
Local(t) == -t

\* The ids of what there is at the start, and of what is made.
Base == Max({0} \cup UNION {DOMAIN w.objects : w \in Workloads})
LastId == Base + Max({w.requests : w \in Workloads})
FolderIds == (-MaxTask)..LastId

----------------------------------------------------------------------------
(* The tables. *)

Row(type, status, folder, name) ==
    [type |-> type, status |-> status, folder |-> folder, name |-> name,
     sfolder |-> 0, file |-> 0, int1 |-> 0, int2 |-> 0, node |-> 0]

\* The id column has no AUTOINCREMENT: the next id is the largest plus one.
NextId == Max(DOMAIN fstask \cup {0}) + 1

OnName(t, except, f, n) ==
    {<<t, u>> : u \in {u \in DOMAIN fstask \ except :
                          /\ fstask[u].folder = f /\ fstask[u].name = n
                          /\ fstask[u].status # 3}}
\* Mutant: the arrow to the task that makes the folder is forgotten.
OnFolder_Undrawn(t, f) == {}

OnFolder(t, f) == IF f < 0 THEN {<<t, -f>>} ELSE {}

Objects(kind, f, n) ==
    {o \in DOMAIN db : db[o].kind = kind /\ db[o].parent = f /\ db[o].name = n}

----------------------------------------------------------------------------
(* The overlay. *)

Entry(kind, f, n, id, rid, t) ==
    [kind |-> kind, folder |-> f, name |-> n, id |-> id, rid |-> rid,
     task |-> t]

Find(o, kind, f, n) ==
    {e \in o.ent : e.kind = kind /\ e.folder = f /\ e.name = n}
FindOf(o, kind, f, n, t) == {e \in Find(o, kind, f, n) : e.task = t}
Has(kind, f, n) == Find(folders, kind, f, n) # {}

Tally(o, es, d) ==
    [f \in FolderIds |-> o.cnt[f] + d * Cardinality({e \in es : e.folder = f})]
Add(o, es) == [ent |-> o.ent \cup es, cnt |-> Tally(o, es, 1)]
\* Mutant: an entry is taken out without taskscnt--.
Del_Uncounted(o, es) == [o EXCEPT !.ent = @ \ es]

Del(o, es) == [ent |-> o.ent \ es, cnt |-> Tally(o, es \cap o.ent, -1)]

\* A folder is freed, with what its trees still hold, when the last reference
\* goes and its count is zero.
Release(o, f) ==
    IF o.cnt[f] = 0 /\ ~\E h \in openfiles : h.folder = f
    THEN [o EXCEPT !.ent = {e \in @ : e.folder # f}]
    ELSE o

\* find_creat and the others return any one entry of the name.
OneOf(es) == IF es = {} THEN {{}} ELSE {{e} : e \in es}

----------------------------------------------------------------------------
(* What the user sees. *)

\* Listing folder f: rows that no entry hides, and the entries that add.
FoldersIn(f) ==
    {[name |-> db[o].name, id |-> o] :
        o \in {o \in DOMAIN db : /\ db[o].kind = "folder" /\ db[o].parent = f
                                 /\ ~Has("rmdir", f, db[o].name)
                                 /\ ~Has("mkdir", f, db[o].name)}}
    \cup {[name |-> e.name, id |-> e.id] :
            e \in {e \in folders.ent : e.kind = "mkdir" /\ e.folder = f}}

\* An entry for a file of the server shows nothing once its row is gone.
FilesIn(f) ==
    {[name |-> db[o].name, id |-> o] :
        o \in {o \in DOMAIN db : /\ db[o].kind = "file" /\ db[o].parent = f
                                 /\ ~Has("unlink", f, db[o].name)}}
    \cup {[name |-> e.name, id |-> e.id] :
            e \in {e \in folders.ent : /\ e.kind = "creat" /\ e.folder = f
                                       /\ e.id < 0 \/ e.id \in DOMAIN db}}

\* What an id stands for: the object itself, however it is named at the time.
NodeOf(f) == IF f >= 0 THEN f
             ELSE IF -f \in DOMAIN fstask THEN fstask[-f].node ELSE f
ContentOf(id) == IF id < 0 THEN NodeOf(id) ELSE db[id].data

\* The drive as the user sees it, independent of what is already uploaded.
View ==
    UNION {{[dir |-> NodeOf(f), name |-> c.name, kind |-> "folder",
             node |-> NodeOf(c.id)] : c \in FoldersIn(f)}
           \cup {[dir |-> NodeOf(f), name |-> c.name, kind |-> "file",
                  node |-> ContentOf(c.id)] : c \in FilesIn(f)} :
           f \in FolderIds}

\* The folders a path can lead to, and those at or below one of them.
Subfolders(S) == S \cup UNION {{c.id : c \in FoldersIn(f)} : f \in S}
Closure(S) ==
    LET level[k \in 0..LastId] ==
            IF k = 0 THEN S ELSE Subfolders(level[k - 1])
    IN level[LastId]
Dirs == Closure({Root})

\* psync_fs_is_file and psync_fs_is_folder; the kernel asks the same before
\* it creates anything.
IsFile(f, n) ==
    Has("creat", f, n) \/ (~Has("unlink", f, n) /\ Objects("file", f, n) # {})
IsFolder(f, n) == \E c \in FoldersIn(f) : c.name = n

\* psync_fs_is_folder_nonempty, and the same test in rmdir.
NonEmpty(f) ==
    \/ \E e \in folders.ent : e.folder = f /\ e.kind \in {"creat", "mkdir"}
    \/ \E o \in DOMAIN db :
          /\ db[o].parent = f
          /\ ~Has(IF db[o].kind = "file" THEN "unlink" ELSE "rmdir",
                  f, db[o].name)

----------------------------------------------------------------------------
(* The requests of the user. *)

\* One that is refused changes nothing and is not counted.
Asked(op) == op \in workload.ops /\ ~txn /\ made < workload.requests
Request(op) == Asked(op) /\ made' = made + 1

\* The rows and arrows one transaction adds; an arrow to a missing row would
\* make it fail (foreign keys are on).
Commit(rows, arrows) ==
    /\ \A t \in DOMAIN rows : t <= MaxTask
    /\ fstask' = rows @@ fstask
    /\ fstaskdepend' = fstaskdepend \cup arrows

\* psync_fstask_mkdir.
Mkdir(f, n) ==
    /\ Request("mkdir")
    /\ f \in Dirs /\ ~IsFile(f, n)
    /\ f >= 0 /\ Objects("folder", f, n) # {} => Has("rmdir", f, n)
    /\ ~Has("mkdir", f, n)
    /\ LET t == NextId
           arrows == OnFolder(t, f) \cup OnName(t, {t}, f, n)
       IN /\ Commit(t :> [Row("MKDIR", 0, f, n) EXCEPT
                             !.sfolder = f, !.node = Base + made'],
                    arrows)
          /\ folders' = Add(folders, {Entry("mkdir", f, n, Local(t), 0, t)})
          /\ wakes' = (wakes \/ arrows = {})
    /\ UNCHANGED <<fstaskfileid, db, openfiles, history, txn>>

\* The folder rmdir is about: an entry of the overlay, or a row it leaves
\* visible.
RmdirTarget(f, n) ==
    IF Has("mkdir", f, n)
    THEN {[mk |-> {e}, id |-> e.id] : e \in Find(folders, "mkdir", f, n)}
    ELSE IF Has("rmdir", f, n) THEN {}
    ELSE {[mk |-> {}, id |-> o] : o \in Objects("folder", f, n)}

\* psync_fstask_rmdir of an empty folder.
Rmdir(f, n) ==
    /\ Request("rmdir")
    /\ f \in Dirs
    /\ \E x \in RmdirTarget(f, n) :
         LET t == NextId
             inside == {u \in DOMAIN fstask : fstask[u].folder = x.id}
             arrows == {<<t, e.task>> : e \in x.mk} \cup {<<t, u>> : u \in inside}
         IN /\ ~NonEmpty(x.id)
            /\ Commit(t :> [Row("RMDIR", 0, f, n) EXCEPT !.sfolder = x.id],
                      arrows \cup OnName(t, {t}, f, n))
            /\ folders' = Add(Release(Del(folders, x.mk), x.id),
                              {Entry("rmdir", f, n, x.id, 0, t)})
            /\ wakes' = (wakes \/ arrows = {})
    /\ UNCHANGED <<fstaskfileid, db, openfiles, history, txn>>

\* psync_fstask_rmdir of a folder that holds something: ENOTEMPTY, after the
\* count of the parent was already lowered for a folder not uploaded yet.
RmdirRefused(f, n) ==
    /\ Asked("rmdir_full")
    /\ f \in Dirs
    /\ \E x \in RmdirTarget(f, n) :
         /\ NonEmpty(x.id)
         /\ folders' = Release([folders EXCEPT !.cnt[f] = @ - Cardinality(x.mk)],
                               f)
    /\ UNCHANGED <<fstask, fstaskdepend, fstaskfileid, db, openfiles, history,
                   made, wakes, txn>>

\* psync_fs_creat of a new file, with psync_fstask_add_creat.
Creat(f, n) ==
    /\ Request("creat")
    /\ f \in Dirs /\ ~IsFolder(f, n)
    /\ ~Has("creat", f, n)
    /\ f >= 0 /\ Objects("file", f, n) # {} => Has("unlink", f, n)
    /\ LET t == NextId
       IN /\ Commit(t :> [Row("CREAT", 1, f, n) EXCEPT
                             !.sfolder = f, !.node = Base + made'],
                    OnFolder(t, f) \cup OnName(t, {t}, f, n))
          /\ folders' = Add(folders, {Entry("unlink", f, n, Local(t), 0, t),
                                      Entry("creat", f, n, Local(t), 0, t)})
          /\ openfiles' = openfiles \cup
               {[id |-> Local(t), folder |-> f, deleted |-> FALSE,
                 flushed |-> FALSE]}
    /\ UNCHANGED <<fstaskfileid, db, history, wakes, txn>>

\* psync_fs_flush of a file with writes in it: the task may go.
Flush(h) ==
    /\ ~txn /\ h \in openfiles /\ ~h.flushed
    /\ LET t == -h.id
           go == h.id < 0 /\ t \in DOMAIN fstask /\ fstask[t].status = 1
       IN /\ fstask' = IF go THEN [fstask EXCEPT ![t].status = 0] ELSE fstask
          /\ wakes' = (wakes \/ go)
    /\ openfiles' = (openfiles \ {h}) \cup {[h EXCEPT !.flushed = TRUE]}
    /\ UNCHANGED <<fstaskdepend, fstaskfileid, db, folders, history, made, txn>>

\* The last reference to the handle goes (psync_fs_free_openfile): a file
\* deleted while it was open is handed to the uploader to be cancelled.
Close(h) ==
    /\ ~txn /\ h \in openfiles /\ h.flushed
    /\ LET t == -h.id
           drop == h.deleted /\ h.id < 0
       IN /\ fstask' = IF drop /\ t \in DOMAIN fstask /\ fstask[t].status = 12
                       THEN [fstask EXCEPT ![t].status = 11] ELSE fstask
          /\ wakes' = (wakes \/ drop)
    /\ openfiles' = openfiles \ {h}
    /\ folders' = IF folders.cnt[h.folder] = 0
                     /\ ~\E g \in openfiles \ {h} : g.folder = h.folder
                  THEN [folders EXCEPT
                          !.ent = {e \in @ : e.folder # h.folder}]
                  ELSE folders
    /\ UNCHANGED <<fstaskdepend, fstaskfileid, db, history, made, txn>>

----------------------------------------------------------------------------
(* Unlink and rename. *)

\* psync_fstask_stop_and_delete_file: the upload of a local file is stopped
\* and its task, with the tasks about it, is to be cancelled; a task in the
\* batch on the wire ("sent") is left to finish.
StopAndDelete(rows, id, sent) ==
    IF id >= 0 \/ -id \in sent THEN rows
    ELSE [t \in DOMAIN rows |->
            IF t = -id
            THEN [rows[t] EXCEPT !.status =
                    IF \E h \in openfiles : h.id = id THEN 12 ELSE 11]
            ELSE IF rows[t].file = id /\ rows[t].status # 10
            THEN [rows[t] EXCEPT !.status = 11]
            ELSE rows[t]]
MarkDeleted(id, sent) ==
    IF id >= 0 \/ -id \in sent THEN openfiles
    ELSE {[h EXCEPT !.deleted = @ \/ h.id = id] : h \in openfiles}

\* get_file_at_old_location: the file now at the place file id was moved
\* from, so that the one can become a revision of the other; 0 for none.
\* Asking takes the record out of the cache.
AtOldPlace(id) ==
    IF ~workload.remembers \/ id \notin DOMAIN history THEN {0}
    ELSE LET f == history[id].folder
             n == history[id].name
         IN {0} \cup
            IF Has("creat", f, n)
            THEN {e.id : e \in Find(folders, "creat", f, n)}
            ELSE IF Has("unlink", f, n) THEN {} ELSE Objects("file", f, n)

\* The file unlink and rename are about: an entry of the overlay, or a row.
FileTarget(f, n) ==
    IF Has("creat", f, n)
    THEN {[cr |-> {e}, id |-> e.id, rid |-> e.rid] :
            e \in Find(folders, "creat", f, n)}
    ELSE IF Has("unlink", f, n) THEN {}
    ELSE {[cr |-> {}, id |-> o, rid |-> 0] : o \in Objects("file", f, n)}

UnlinkRow(f, n, x, rev) ==
    IF rev # 0
    THEN [Row("UN_SET_REV", 0, f, n) EXCEPT
            !.file = rev, !.int1 = x.id, !.int2 = x.rid]
    ELSE [Row("UNLINK", IF x.id < 0 THEN 11 ELSE 0, f, n) EXCEPT
            !.file = x.id, !.int2 = x.rid]

\* psync_fstask_unlink.
UnlinkFile(f, n, sent) ==
    /\ Request("unlink")
    /\ f \in Dirs
    /\ \E x \in FileTarget(f, n) : \E rev \in AtOldPlace(x.id) :
         LET t == NextId
             arrows == {<<t, e.task>> : e \in x.cr} \cup OnFolder(t, rev)
                       \cup OnFolder(t, x.id) \cup OnName(t, {t}, f, n)
         IN /\ t <= MaxTask
            /\ fstask' = (t :> UnlinkRow(f, n, x, rev))
                         @@ StopAndDelete(fstask, x.id, sent)
            /\ fstaskdepend' = fstaskdepend \cup arrows
            /\ folders' = Add(Del(folders, x.cr),
                              {Entry("unlink", f, n, x.id, 0, t)})
            /\ openfiles' = MarkDeleted(x.id, sent)
            /\ wakes' = (wakes \/ x.cr = {} \/ x.id < 0)
            /\ history' = [i \in DOMAIN history \ {x.id} |-> history[i]]
    /\ UNCHANGED <<fstaskfileid, db, txn>>

\* A file that is not uploaded yet may take the place of one that is, or
\* anything else happens to a file.
FileRenameKind(f, n, tof, ton) ==
    IF /\ \E x \in FileTarget(f, n) : x.id < 0
       /\ \E y \in FileTarget(tof, ton) : y.id > 0
    THEN "rename_over" ELSE "rename_file"

\* psync_fstask_rename_file, with the checks of psync_fs_rename before it.
RenameFile(f, n, tof, ton, sent) ==
    /\ Request(FileRenameKind(f, n, tof, ton))
    /\ f \in Dirs /\ tof \in Dirs /\ <<f, n>> # <<tof, ton>>
    /\ ~Has("mkdir", f, n) /\ ~IsFolder(tof, ton)
    /\ \E x \in FileTarget(f, n) :
       \E over \in OneOf(Find(folders, "creat", tof, ton)) :
         LET ft == NextId
             tt == ft + 1
             arrows == OnFolder(tt, x.id) \cup OnFolder(tt, f)
                       \cup OnFolder(tt, tof) \cup OnName(tt, {}, f, n)
                       \cup OnName(tt, {}, tof, ton)
                       \cup {<<tt, e.task>> : e \in x.cr}
             moved == [t \in DOMAIN fstask |->
                         IF t = -x.id THEN [fstask[t] EXCEPT !.sfolder = tof]
                         ELSE fstask[t]]
             rows == (ft :> [Row("RENFILE_FROM", 10, f, n) EXCEPT !.file = x.id])
                     @@ (tt :> [Row("RENFILE_TO", 0, tof, ton) EXCEPT
                                  !.file = x.id, !.int1 = ft, !.int2 = x.rid])
                     @@ moved
             lost == IF over = {} THEN 0 ELSE (CHOOSE e \in over : TRUE).id
             away == Add(Del(folders, x.cr), {Entry("unlink", f, n, x.id, 0, ft)})
             home == {IF h.id = x.id THEN [h EXCEPT !.folder = tof] ELSE h :
                        h \in MarkDeleted(lost, sent)}
         IN /\ tt <= MaxTask
            /\ fstask' = StopAndDelete(rows, lost, sent)
            /\ fstaskdepend' = fstaskdepend \cup arrows
            /\ folders' = Add(Del(away, over),
                              {Entry("unlink", tof, ton, x.id, 0, tt),
                               Entry("creat", tof, ton, x.id, x.rid, tt)})
            /\ openfiles' = home
            /\ wakes' = TRUE
            /\ history' =
                 LET key == IF x.id > 0 THEN x.id ELSE x.rid
                 IN IF workload.remembers /\ key > 0 /\ f >= 0
                    THEN (key :> [folder |-> f, name |-> n]) @@ history
                    ELSE history
    /\ UNCHANGED <<fstaskfileid, db, txn>>

\* psync_fstask_delete_folder_if_ex: the folder a rename replaces, if any.
Replaced(tof, ton, except) ==
    IF Has("mkdir", tof, ton)
    THEN {[arrow |-> {e.task}, id |-> e.id] :
            e \in Find(folders, "mkdir", tof, ton)}
    ELSE IF tof < 0 \/ Has("rmdir", tof, ton) THEN {}
    ELSE {[arrow |-> {}, id |-> o] :
            o \in Objects("folder", tof, ton) \ {except}}

\* psync_get_folderid: the id the table folder has at a place, whatever the
\* overlay says; -1 for none.
TableId(f, n) ==
    LET os == Objects("folder", f, n)
    IN IF os = {} THEN -1 ELSE CHOOSE o \in os : TRUE

\* What is at the new place: a queued folder with the old name beside it, a
\* folder that holds something, an empty one, a name some queued change is
\* about, or nothing.
RenameKind(f, n, tof, ton) ==
    LET onto == RmdirTarget(tof, ton)
    IN IF tof # f /\ Has("mkdir", tof, n) THEN "rename_twin"
       ELSE IF \E y \in onto : NonEmpty(y.id) THEN "rename_onto_full"
       ELSE IF onto # {} THEN "rename_onto"
       ELSE IF \E t \in DOMAIN fstask :
                  fstask[t].folder = tof /\ fstask[t].name = ton
       THEN "rename_to_used" ELSE "rename_folder"

\* psync_fstask_rename_folder, with the checks of psync_fs_rename before it:
\* a folder that holds something is replaced only when both places have the
\* same id in the table, as they have when neither has a row.
\* The arrows for the new name are drawn for the folder that moves, not for
\* the one it moves to, so they are never drawn; and the entry taken out of
\* the new place is the one with the old name, not the one that is replaced.
RenameFolder(f, n, tof, ton) ==
    /\ Request(RenameKind(f, n, tof, ton))
    /\ RenameKind(f, n, tof, ton) = "rename_onto_full" =>
          TableId(f, n) = TableId(tof, ton)
    /\ f \in Dirs /\ tof \in Dirs /\ <<f, n>> # <<tof, ton>>
    /\ Has("mkdir", f, n) \/ ~Has("creat", f, n)
    /\ ~IsFile(tof, ton)
    /\ \E x \in RmdirTarget(f, n) :
       \E over \in OneOf(Replaced(tof, ton, x.id)) :
         LET r == NextId
             ft == r + Cardinality(over)
             tt == ft + 1
             gone == IF over = {} THEN <<>>
                     ELSE r :> [Row("RMDIR", 0, tof, ton) EXCEPT
                                  !.sfolder = (CHOOSE y \in over : TRUE).id]
             moved == [t \in DOMAIN fstask |->
                         IF t = -x.id THEN [fstask[t] EXCEPT !.sfolder = tof]
                         ELSE fstask[t]]
             arrows == UNION {{<<r, t>> : t \in y.arrow} \cup OnFolder(r, y.id)
                              \cup {<<tt, r>>} : y \in over}
                       \cup OnFolder(tt, x.id) \cup OnFolder(tt, f)
                       \cup OnFolder(tt, tof) \cup OnName(tt, {}, f, n)
                       \cup OnName(tt, {}, x.id, ton)
                       \cup {<<tt, e.task>> : e \in x.mk}
             away == Add(Del(folders, x.mk), {Entry("rmdir", f, n, x.id, 0, ft)})
         IN /\ x.id \notin {Root} /\ tof \notin Closure({x.id})
            /\ tt <= MaxTask
            /\ fstask' = (ft :> [Row("RENFOLDER_FROM", 10, f, n) EXCEPT
                                   !.sfolder = x.id])
                         @@ (tt :> [Row("RENFOLDER_TO", 0, tof, ton) EXCEPT
                                      !.sfolder = x.id, !.int1 = ft])
                         @@ gone @@ moved
            /\ fstaskdepend' = fstaskdepend \cup arrows
            /\ \E mk \in OneOf(Find(away, "mkdir", tof, n)) :
                 folders' = Add(Del(away, mk),
                                {Entry("rmdir", tof, ton, x.id, 0, tt),
                                 Entry("mkdir", tof, ton, x.id, 0, tt)})
    /\ wakes' = TRUE
    /\ UNCHANGED <<fstaskfileid, db, openfiles, history, txn>>

=============================================================================
