------------------------------ MODULE FsUpload ------------------------------
(***************************************************************************)
(* The uploader of the virtual drive: a thread that empties the queue of   *)
(* FsTasks.  It loads every task that waits for nothing, pipelines the     *)
(* requests to the server, and enters the answers, one task after the      *)
(* other, into the tables and the overlay inside one transaction.  Next to *)
(* it the user goes on, the diff thread enters what the server reports,    *)
(* the connection may break and the program may crash.                     *)
(*                                                                         *)
(* The server is external: it is modelled by the answers the code asks it  *)
(* for and tells apart.  It numbers the object task t makes fstask[t].node *)
(* (a number no other object has).                                         *)
(***************************************************************************)
EXTENDS FsTasks, SequencesExt

VARIABLES
    server,       \* the account at the server: ids -> objects
    evlog,        \* changes at the server that diff has not entered yet
    batch,        \* the tasks loaded: [id, row (as loaded), ans]
    pos,          \* the one to send or to process next
    phase,        \* where the uploader thread is
    faults        \* connections broken and crashes so far

upVars == <<server, evlog, batch, pos, phase, faults>>
vars == <<taskVars, upVars, workload>>

----------------------------------------------------------------------------
(* The server. *)

Obj(kind, f, n, data) == [kind |-> kind, parent |-> f, name |-> n, data |-> data]
ServerHas(kind, id) == id \in DOMAIN server /\ server[id].kind = kind
ServerFolder(f) == f = Root \/ ServerHas("folder", f)
ServerAt(kind, f, n) ==
    {o \in DOMAIN server :
        server[o].kind = kind /\ server[o].parent = f /\ server[o].name = n}

\* The answer to a request: a code, the object it is about, the file a
\* rename replaced; and the server after it.
None == [code |-> "none"]
Refuse(code) == [ans |-> [code |-> code], srv |-> server]
Accept(id, o, lost) ==
    [ans |-> [code |-> "ok", id |-> id, obj |-> o, lost |-> lost],
     srv |-> [i \in (DOMAIN server \cup {id}) \ lost |->
                IF i = id THEN o ELSE server[i]]]

MakeFolder(row) ==
    IF ~ServerFolder(row.folder) THEN Refuse("2002")
    ELSE LET old == ServerAt("folder", row.folder, row.name)
             id == IF old = {} THEN row.node ELSE CHOOSE o \in old : TRUE
         IN Accept(id, Obj("folder", row.folder, row.name, id), {})
Upload(row) ==
    IF ~ServerFolder(row.folder) THEN Refuse("2005")
    ELSE LET old == ServerAt("file", row.folder, row.name)
             id == IF old = {} THEN row.node ELSE CHOOSE o \in old : TRUE
         IN Accept(id, Obj("file", row.folder, row.name, row.node), {})
TakeAway(kind, id, code) ==
    IF ~ServerHas(kind, id) THEN Refuse(code)
    ELSE IF \E o \in DOMAIN server : server[o].parent = id THEN Refuse("2006")
    ELSE [ans |-> [code |-> "ok", id |-> id, obj |-> server[id], lost |-> {}],
          srv |-> [i \in DOMAIN server \ {id} |-> server[i]]]
MoveFile(row) ==
    IF ~ServerHas("file", row.file) THEN Refuse("2009")
    ELSE IF ~ServerFolder(row.folder) THEN Refuse("2005")
    ELSE Accept(row.file,
                Obj("file", row.folder, row.name, server[row.file].data),
                ServerAt("file", row.folder, row.name) \ {row.file})
MoveFolder(row) ==
    IF ~ServerHas("folder", row.sfolder) \/ ~ServerFolder(row.folder)
    THEN Refuse("2005")
    ELSE IF ServerAt("folder", row.folder, row.name) \ {row.sfolder} # {}
    THEN Refuse("2004")
    ELSE Accept(row.sfolder,
                Obj("folder", row.folder, row.name, row.sfolder), {})

\* A deleted file that becomes a revision of another is deleted all the same.
RevisionOf(row) == IF row.int1 > 0 THEN row.int1 ELSE row.int2
Serve(row) ==
    CASE row.type = "MKDIR" -> MakeFolder(row)
      [] row.type = "RMDIR" -> TakeAway("folder", row.sfolder, "2005")
      [] row.type = "CREAT" -> Upload(row)
      [] row.type = "UNLINK" -> TakeAway("file", row.file, "2009")
      [] row.type = "UN_SET_REV" -> TakeAway("file", RevisionOf(row), "2009")
      [] row.type = "RENFILE_TO" -> MoveFile(row)
      [] row.type = "RENFOLDER_TO" -> MoveFolder(row)

\* What the diff will report of a change.
Report(srv) ==
    LET gone == DOMAIN server \ DOMAIN srv
        put == {i \in DOMAIN srv :
                  IF i \in DOMAIN server THEN srv[i] # server[i] ELSE TRUE}
    IN IF workload.diffs = "none" \/ gone \cup put = {} THEN evlog
       ELSE Append(evlog, [put |-> [i \in put |-> srv[i]], gone |-> gone])

----------------------------------------------------------------------------
(* Pieces of the handlers. *)

Without(g, S) == [i \in DOMAIN g \ S |-> g[i]]

\* Mutant: whoever waited is not announced.
Drop_Silent(rows, ts) ==
    /\ fstask' = Without(rows, ts)
    /\ fstaskdepend' = {a \in fstaskdepend : a[1] \notin ts /\ a[2] \notin ts}
    /\ fstaskfileid' = Without(fstaskfileid, ts)
    /\ UNCHANGED wakes

\* Deleting rows takes the arrows from and to them along (foreign keys
\* cascade); whoever waited for one is announced to the uploader.
Drop(rows, ts) ==
    /\ fstask' = Without(rows, ts)
    /\ fstaskdepend' = {a \in fstaskdepend : a[1] \notin ts /\ a[2] \notin ts}
    /\ fstaskfileid' = Without(fstaskfileid, ts)
    /\ wakes' = (wakes \/ \E a \in fstaskdepend : a[2] \in ts)

Retry(t, row, wake) ==
    /\ fstask' = [fstask EXCEPT ![t] = row]
    /\ wakes' = (wakes \/ wake)
    /\ UNCHANGED <<fstaskdepend, fstaskfileid>>

\* Take the entries of task t away from a name.
Forget(o, kinds, f, n, t) ==
    LET es == UNION {FindOf(o, k, f, n, t) : k \in kinds}
    IN Release(Del(o, es), f)

\* Mutant: an entry that a rename carried away is not looked for.
Settle_InPlace(o, kinds, t, row, id) ==
    Forget(o, kinds, row.folder, row.name, t)

\* The object task t made has got the id it has at the server: the entry
\* that shows it is dropped, or, when a rename carried it away, corrected.
Settle(o, kinds, t, row, id) ==
    LET shown == UNION {FindOf(o, k, row.folder, row.name, t) :
                          k \in kinds \ {"unlink"}}
        carried == {e \in o.ent : /\ e.kind \in kinds \ {"unlink"}
                                  /\ e.folder = fstask[t].sfolder
                                  /\ e.id = Local(t)}
        rest == Forget(o, kinds, row.folder, row.name, t)
    IN IF shown # {} \/ carried = {} THEN rest
       ELSE LET e == CHOOSE e \in carried : TRUE
            IN [rest EXCEPT !.ent = (@ \ {e}) \cup {[e EXCEPT !.id = id]}]

\* psync_fstask_folder_created puts what is waiting in the new folder under
\* its id.
Rekey(o, from, to) ==
    [ent |-> {[e EXCEPT !.folder = IF @ = from THEN to ELSE @] : e \in o.ent},
     cnt |-> [o.cnt EXCEPT ![to] = @ + o.cnt[from], ![from] = 0]]

UpdateId(row, keys, from, to) ==
    [k \in DOMAIN row |-> IF k \in keys /\ row[k] = from THEN to ELSE row[k]]
UpdateIds(rows, keys, from, to) ==
    [t \in DOMAIN rows |-> UpdateId(rows[t], keys, from, to)]

InsertOrIgnore(id, o) == db @@ (id :> o)

\* Mutant: the row of a file that a rename replaced is kept.
InsertOrUpdate_Beside(id, o, lost) == (id :> o) @@ db

InsertOrUpdate(id, o, lost) == (id :> o) @@ Without(db, lost)

----------------------------------------------------------------------------
(* The thread: psync_fsupload_thread, _check_tasks and _run_tasks. *)

Sent == {batch[i].id : i \in {i \in DOMAIN batch : batch[i].row.type = "CREAT"}}

\* It was told that there is work.
Wake ==
    /\ phase = "wait" /\ wakes
    /\ phase' = "look" /\ wakes' = FALSE
    /\ UNCHANGED <<fstask, fstaskdepend, fstaskfileid, db, folders, openfiles,
                   history, made, txn, server, evlog, batch, pos, faults>>

\* Mutant: the LEFT JOIN with fstaskdepend is forgotten.
Ready_Unjoined == {t \in DOMAIN fstask : fstask[t].status \in {0, 11}}

\* Load every task that waits for nothing, in the order of the ids.
Ready == {t \in DOMAIN fstask : /\ fstask[t].status \in {0, 11}
                                /\ ~\E a \in fstaskdepend : a[1] = t}
Load ==
    /\ phase = "look"
    /\ LET order == SetToSortSeq(Ready, <)
       IN batch' = [i \in DOMAIN order |->
                      [id |-> order[i], row |-> fstask[order[i]], ans |-> None]]
    /\ pos' = 1
    /\ phase' = IF Ready = {} THEN "wait" ELSE "send"
    /\ UNCHANGED <<taskVars, server, evlog, faults>>

\* Send one request; a cancelled task has none.
Send ==
    /\ phase = "send" /\ pos \in DOMAIN batch
    /\ LET row == batch[pos].row
       IN IF row.status = 11 THEN UNCHANGED <<server, evlog, batch>>
          ELSE LET reply == Serve(row)
               IN /\ server' = reply.srv
                  /\ evlog' = Report(reply.srv)
                  /\ batch' = [batch EXCEPT ![pos].ans = reply.ans]
    /\ pos' = pos + 1
    /\ UNCHANGED <<taskVars, phase, faults>>

\* All answers are in: take the lock and start the transaction.
Answered ==
    /\ phase = "send" /\ pos = Len(batch) + 1
    /\ phase' = "process" /\ pos' = 1 /\ txn' = TRUE
    /\ UNCHANGED <<fstask, fstaskdepend, fstaskfileid, db, folders, openfiles,
                   history, made, wakes, server, evlog, batch, faults>>

\* The connection breaks: the answers after the k-th never arrive, whether
\* the server did what they were about or not.
Break(k) ==
    /\ phase = "send" /\ faults < workload.faults
    /\ batch' = [i \in DOMAIN batch |->
                   IF i <= k THEN batch[i] ELSE [batch[i] EXCEPT !.ans = None]]
    /\ phase' = "process" /\ pos' = 1 /\ txn' = TRUE
    /\ wakes' = TRUE /\ faults' = faults + 1
    /\ UNCHANGED <<fstask, fstaskdepend, fstaskfileid, db, folders, openfiles,
                   history, made, server, evlog>>

----------------------------------------------------------------------------
(* psync_fsupload_process_tasks: one task after the other, the lock held.  *)

Current == batch[pos]
Processing == phase = "process" /\ pos \in DOMAIN batch

\* The handler is through with the task of the head.
Advance == pos' = pos + 1 /\ UNCHANGED <<history, made, txn, server, evlog, batch,
                                       phase, faults>>
Cancelled(type) == Processing /\ Current.row.status = 11 /\ Current.row.type = type
Answer(types, codes) ==
    /\ Processing /\ Current.row.status # 11
    /\ Current.row.type \in types /\ Current.ans.code \in codes

\* No answer came.
NoAnswer ==
    /\ Processing /\ Current.row.status # 11 /\ Current.ans.code = "none"
    /\ Advance /\ UNCHANGED <<fstask, fstaskdepend, fstaskfileid, db, folders,
                            openfiles, wakes>>

\* psync_process_task_mkdir, then the ids in the other rows.
MkdirDone ==
    /\ Answer({"MKDIR"}, {"ok"})
    /\ LET t == Current.id
           id == Current.ans.id
       IN /\ db' = InsertOrIgnore(id, Current.ans.obj)
          /\ folders' = Rekey(Settle(folders, {"mkdir"}, t, Current.row, id),
                              Local(t), id)
          /\ openfiles' = {[h EXCEPT !.folder = IF @ = Local(t) THEN id ELSE @] :
                             h \in openfiles}
          /\ Drop(UpdateIds(fstask, {"folder", "sfolder"}, Local(t), id), {t})
    /\ Advance

\* The parent is gone: the folder goes to the root.
MkdirRefused ==
    /\ Answer({"MKDIR"}, {"2002"})
    /\ Retry(Current.id, [fstask[Current.id] EXCEPT !.folder = Root], FALSE)
    /\ Advance /\ UNCHANGED <<db, folders, openfiles>>

\* psync_process_task_rmdir, also when the server would not do it.
RmdirDone ==
    /\ Answer({"RMDIR"}, {"ok", "2005", "2006"})
    /\ db' = IF Current.ans.code = "ok" THEN Without(db, {Current.ans.id}) ELSE db
    /\ folders' = Forget(folders, {"rmdir"}, Current.row.folder, Current.row.name,
                         Current.id)
    /\ Drop(fstask, {Current.id})
    /\ Advance /\ UNCHANGED openfiles

\* psync_process_task_creat: the handle and the tables get the new id, and
\* the transaction is committed before the data goes to the page cache.
CreatDone ==
    /\ Answer({"CREAT"}, {"ok"})
    /\ LET t == Current.id
       IN /\ openfiles' = {[h EXCEPT !.id = IF @ = Local(t) THEN Current.ans.id
                                            ELSE @] : h \in openfiles}
          /\ db' = InsertOrIgnore(Current.ans.id, Current.ans.obj)
          /\ folders' = Settle(folders, {"creat", "unlink"}, t, Current.row,
                               Current.ans.id)
    /\ phase' = "cache" /\ txn' = FALSE
    /\ UNCHANGED <<fstask, fstaskdepend, fstaskfileid, history, made, wakes,
                   server, evlog, batch, pos, faults>>

\* The second half of it, in a transaction of its own: until then the row of
\* the task is still there.
CreatCached ==
    /\ phase = "cache"
    /\ LET t == Current.id
       IN Drop(UpdateIds(fstask, {"file"}, Local(t), Current.ans.id), {t})
    /\ phase' = "process" /\ txn' = TRUE /\ pos' = pos + 1
    /\ UNCHANGED <<db, folders, openfiles, history, made, server, evlog, batch,
                   faults>>

CreatRefused ==
    /\ Answer({"CREAT"}, {"2005"})
    /\ Retry(Current.id, [fstask[Current.id] EXCEPT !.folder = Root], TRUE)
    /\ Advance /\ UNCHANGED <<db, folders, openfiles>>

\* psync_process_task_unlink; a file that is gone already is "kind of
\* success" and leaves the table alone.
UnlinkDone ==
    /\ Answer({"UNLINK", "UN_SET_REV"}, {"ok", "2009"})
    /\ db' = IF Current.ans.code = "ok" THEN Without(db, {Current.ans.id}) ELSE db
    /\ folders' = Forget(folders, {"unlink"}, Current.row.folder, Current.row.name,
                         Current.id)
    /\ Drop(fstask, {Current.id})
    /\ Advance /\ UNCHANGED openfiles

\* Mutant: only the place the object came to is tidied up.
Renamed_HereOnly(kinds) ==
    /\ folders' = Forget(folders, kinds, Current.row.folder, Current.row.name,
                         Current.id)
    /\ Drop(fstask, {Current.id, Current.row.int1})

\* psync_fstask_file_renamed and psync_fstask_folder_renamed: both rows of
\* the rename and their entries go.
Renamed(kinds) ==
    LET t == Current.id
        from == Current.row.int1
        here == Forget(folders, kinds, Current.row.folder, Current.row.name, t)
    IN /\ folders' = IF from \notin DOMAIN fstask THEN here
                     ELSE Forget(here, kinds \ {"creat", "mkdir"},
                                 fstask[from].folder, fstask[from].name, from)
       /\ Drop(fstask, {t, from})
RenameFileDone ==
    /\ Answer({"RENFILE_TO"}, {"ok", "2009", "2005"})
    /\ db' = IF Current.ans.code = "ok"
             THEN InsertOrUpdate(Current.ans.id, Current.ans.obj, Current.ans.lost)
             ELSE db
    /\ Renamed({"creat", "unlink"})
    /\ Advance /\ UNCHANGED openfiles
RenameFolderDone ==
    /\ Answer({"RENFOLDER_TO"}, {"ok", "2005"})
    /\ db' = IF Current.ans.code = "ok"
             THEN InsertOrUpdate(Current.ans.id, Current.ans.obj, {})
             ELSE db
    /\ Renamed({"mkdir", "rmdir"})
    /\ Advance /\ UNCHANGED openfiles

\* change_folder_name: the name is taken at the server; try "name(1)".
RenameFolderRefused ==
    /\ Answer({"RENFOLDER_TO"}, {"2004"})
    /\ Retry(Current.id, [fstask[Current.id] EXCEPT !.name = Current.row.name \o "(1)"],
             TRUE)
    /\ Advance /\ UNCHANGED <<db, folders, openfiles>>

\* psync_cancel_task_creat: the file was unlinked before it was uploaded.  If
\* an upload of it reached the server after all, the tasks about it go on
\* with that file.
CancelCreat ==
    /\ Cancelled("CREAT")
    /\ LET t == Current.id
           rows == IF t \in DOMAIN fstaskfileid
                   THEN UpdateIds(fstask, {"file"}, Local(t), fstaskfileid[t])
                   ELSE fstask
       IN /\ folders' = Settle(folders, {"creat", "unlink"}, t, Current.row, 0)
          /\ Drop(rows, {t})
    /\ Advance /\ UNCHANGED <<db, openfiles>>

\* psync_cancel_task_unlink: the file has an id at the server meanwhile, or
\* was a new version of a file that has one; then that one is deleted.
CancelUnlink ==
    /\ Cancelled("UNLINK")
    /\ LET t == Current.id
           back == [fstask[t] EXCEPT !.status = 0]
       IN IF Current.row.file > 0
          THEN Retry(t, back, TRUE) /\ UNCHANGED folders
          ELSE IF Current.row.int2 # 0
          THEN Retry(t, [back EXCEPT !.file = fstask[t].int2], TRUE)
               /\ UNCHANGED folders
          ELSE /\ folders' = Forget(folders, {"unlink"}, Current.row.folder,
                                    Current.row.name, t)
               /\ Drop(fstask, {t})
    /\ Advance /\ UNCHANGED <<db, openfiles>>

\* psync_cancel_task_unlink_set_rev: the other file is gone, so nothing can
\* become a revision of it.
CancelSetRev ==
    /\ Cancelled("UN_SET_REV")
    /\ LET t == Current.id
       IN IF Current.row.int2 # 0
          THEN /\ Retry(t, [fstask[t] EXCEPT !.file = fstask[t].int2,
                                             !.status = 0, !.type = "UNLINK"],
                        TRUE)
               /\ UNCHANGED folders
          ELSE /\ folders' = Forget(folders, {"unlink"}, Current.row.folder,
                                    Current.row.name, t)
               /\ Drop(fstask, {t})
    /\ Advance /\ UNCHANGED <<db, openfiles>>

CancelRenameFile ==
    /\ Cancelled("RENFILE_TO")
    /\ Renamed({"creat", "unlink"})
    /\ Advance /\ UNCHANGED <<db, openfiles>>

\* psql_commit; the batch is taken down in another critical section.
EndTransaction ==
    /\ phase = "process" /\ pos = Len(batch) + 1
    /\ phase' = "clear" /\ txn' = FALSE
    /\ UNCHANGED <<fstask, fstaskdepend, fstaskfileid, db, folders, openfiles,
                   history, made, wakes, server, evlog, batch, pos, faults>>
Clear ==
    /\ phase = "clear"
    /\ phase' = "wait" /\ batch' = <<>> /\ pos' = 1
    /\ UNCHANGED <<taskVars, server, evlog, faults>>

Process ==
    \/ NoAnswer \/ MkdirDone \/ MkdirRefused \/ RmdirDone \/ CreatDone
    \/ CreatCached \/ CreatRefused \/ UnlinkDone \/ RenameFileDone
    \/ RenameFolderDone \/ RenameFolderRefused
    \/ CancelCreat \/ CancelUnlink \/ CancelSetRev \/ CancelRenameFile
Uploader ==
    /\ Wake \/ Load \/ Send \/ Answered \/ Process \/ EndTransaction \/ Clear
    /\ UNCHANGED workload

----------------------------------------------------------------------------
(* The diff thread, and restarts. *)

\* Mutant: what was deleted elsewhere stays.
Entered_NothingGone(k) ==
    LET table[j \in 0..k] ==
            IF j = 0 THEN db ELSE evlog[j].put @@ table[j - 1]
    IN table[k]

\* Enter the first k changes; with "late" the answer was asked for before
\* the uploader entered newer ones.
Entered(k) ==
    LET table[j \in 0..k] ==
            IF j = 0 THEN db
            ELSE evlog[j].put @@ [i \in DOMAIN table[j - 1] \ evlog[j].gone |->
                                    table[j - 1][i]]
    IN table[k]
Diff(k) ==
    /\ ~txn /\ evlog # <<>>
    /\ k = Len(evlog) \/ workload.diffs = "late"
    /\ db' = Entered(k)
    /\ evlog' = SubSeq(evlog, k + 1, Len(evlog))
    /\ UNCHANGED <<fstask, fstaskdepend, fstaskfileid, folders, openfiles,
                   history, made, wakes, txn, server, batch, pos, phase, faults,
                   workload>>

\* Mutant: what a row undoes is left in the overlay.
Taken_Nothing(o, kind, f, n) == o

\* psync_fstask_init: what each row puts into the overlay, in the order of
\* the ids.
Taken(o, kind, f, n) ==
    LET es == Find(o, kind, f, n)
    IN IF es = {} THEN o ELSE Del(o, {CHOOSE e \in es : TRUE})
Rebuild(o, t, row) ==
    LET e(kind, id, rid) == Entry(kind, row.folder, row.name, id, rid, t)
        take(kind) == Taken(o, kind, row.folder, row.name)
    IN CASE row.type = "MKDIR" -> Add(o, {e("mkdir", Local(t), 0)})
         [] row.type = "RMDIR" -> Add(take("mkdir"), {e("rmdir", row.sfolder, 0)})
         [] row.type = "CREAT" ->
              Add(o, {e("unlink", Local(t), 0), e("creat", Local(t), row.file)})
         [] row.type \in {"UNLINK", "RENFILE_FROM"} ->
              Add(take("creat"), {e("unlink", row.file, 0)})
         [] row.type = "UN_SET_REV" ->
              Add(take("creat"), {e("unlink", row.int1, 0)})
         [] row.type = "RENFILE_TO" ->
              Add(take("creat"), {e("unlink", row.file, 0),
                                  e("creat", row.file, row.int2)})
         [] row.type = "RENFOLDER_FROM" ->
              Add(take("mkdir"), {e("rmdir", row.sfolder, 0)})
         [] row.type = "RENFOLDER_TO" ->
              Add(o, {e("rmdir", row.sfolder, 0), e("mkdir", row.sfolder, 0)})
Empty == [ent |-> {}, cnt |-> [f \in FolderIds |-> 0]]
Rebuilt(rows) ==
    LET upto[t \in 0..MaxTask] ==
            IF t = 0 THEN Empty
            ELSE IF t \in DOMAIN rows THEN Rebuild(upto[t - 1], t, rows[t])
            ELSE upto[t - 1]
    IN upto[MaxTask]

\* A crash, and the start after it.  The tables are as they were committed.
Woken(s) == IF s \in {1, 2} THEN 0 ELSE IF s = 12 THEN 11 ELSE s
Restart ==
    /\ ~txn /\ faults < workload.faults /\ faults' = faults + 1
    /\ fstask' = [t \in DOMAIN fstask |->
                    [fstask[t] EXCEPT !.status = Woken(@)]]
    /\ folders' = Rebuilt(fstask')
    /\ openfiles' = {} /\ history' = <<>>
    /\ batch' = <<>> /\ pos' = 1 /\ phase' = "look" /\ wakes' = FALSE
    /\ UNCHANGED <<fstaskdepend, fstaskfileid, db, made, txn, server, evlog>>

----------------------------------------------------------------------------
Init ==
    /\ fstask = <<>> /\ fstaskdepend = {} /\ fstaskfileid = <<>>
    /\ workload \in Workloads
    /\ db = workload.objects /\ server = db /\ evlog = <<>>
    /\ folders = Empty /\ openfiles = {} /\ history = <<>>
    /\ made = 0 /\ wakes = FALSE /\ txn = FALSE
    /\ batch = <<>> /\ pos = 1 /\ phase = "look" /\ faults = 0

User ==
    /\ \E f \in Dirs, n \in workload.names :
         \/ Mkdir(f, n) \/ Rmdir(f, n) \/ RmdirRefused(f, n)
         \/ Creat(f, n) \/ UnlinkFile(f, n, Sent)
         \/ \E tof \in Dirs, ton \in workload.names :
              RenameFile(f, n, tof, ton, Sent) \/ RenameFolder(f, n, tof, ton)
    /\ UNCHANGED <<upVars, workload>>
Handles ==
    /\ \E h \in openfiles : Flush(h) \/ Close(h)
    /\ UNCHANGED <<upVars, workload>>
Faults ==
    /\ (\E k \in 0..(pos - 1) : Break(k)) \/ Restart
    /\ UNCHANGED workload

Next ==
    \/ User \/ Handles \/ Uploader \/ Faults
    \/ \E k \in 1..Len(evlog) : Diff(k)

Spec == Init /\ [][Next]_vars

\* The threads run, and whoever holds a file open closes it some day.
FairSpec ==
    /\ Spec
    /\ WF_vars(Uploader) /\ WF_vars(Handles)
    /\ WF_vars(\E k \in 1..Len(evlog) : Diff(k))

=============================================================================
