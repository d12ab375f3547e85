------------------------------ MODULE FsWrite ------------------------------
(***************************************************************************)
(* Writing to the drive while it uploads: the calls of two programs, the   *)
(* write timer, the three threads, the diff thread, a program that is      *)
(* killed and starts again; and what a user may rely on.                   *)
(***************************************************************************)
EXTENDS WriteUpload

Init ==
    /\ user \in Workloads
    /\ proc = [p \in Procs |-> [pc |-> "idle", w |-> 0, n |-> 0, open |-> FALSE]]
    /\ of = NoFile
    /\ file = <<>>
    /\ tab = [rows |-> <<>>, entries |-> <<>>, lost |-> FALSE,
              mir |-> user.content, pages |-> {q \in PagesOf(user.content) : user.cached},
              cache |-> <<>>, caching |-> "idle"]
    /\ srv = [now |-> user.content, saved |-> {}, diff |-> <<>>]
    /\ rel = <<>>
    /\ upl = NoBatch
    /\ big = NoUpload
    /\ ghost = [last |-> user.content, versions |-> {user.content}, rows |-> 0, known |-> {}]

\* The diff thread asks what the server has, and enters it later.
DiffAsks ==
    /\ user.late > 0 /\ srv.diff = <<>> /\ srv.now # tab.mir
    /\ user' = [user EXCEPT !.late = @ - 1]
    /\ srv' = [srv EXCEPT !.diff = <<srv.now>>]
    /\ UNCHANGED <<proc, of, file, tab, rel, upl, big, ghost>>

process_modifyfile ==
    /\ srv.diff # <<>>
    /\ tab' = [tab EXCEPT !.mir = Head(srv.diff)]
    /\ srv' = [srv EXCEPT !.diff = <<>>]
    /\ ghost' = IF Head(srv.diff) = srv.now THEN ghost ELSE Noting(ghost, {"regressed"})
    /\ UNCHANGED <<user, proc, of, file, rel, upl, big>>

EntriesOf(rows) ==
    CHOOSE s \in [1..Cardinality(Live(rows)) -> Live(rows)] :
        \A i, j \in DOMAIN s : i < j => s[i] < s[j]

\* psync_fstask_init.  A crash between the answer's transaction and the row's
\* deletion leaves a row of which the file is gone, or not the last.  The name
\* of a modified file's row is entered with an arbitrary file id: the right one,
\* or none at all.
Restart ==
    /\ user.restarts > 0
    /\ LET rows == [t \in DOMAIN tab.rows |->
                     [tab.rows[t] EXCEPT !.status = IF @ \in {1, 2} THEN 0 ELSE @]]
           modified == {t \in Live(rows) : rows[t].type = "modify"}
           again == upl.pc \in {"cache", "del"} /\ upl.t \in DOMAIN rows
                    /\ (upl.t \notin DOMAIN file \/ Live(rows) # {upl.t})
       IN /\ \E lost \in {FALSE} \cup {TRUE : t \in modified}, pages \in {tab.pages, {}} :
                /\ tab' = [tab EXCEPT
                            !.rows = rows, !.lost = lost, !.pages = pages, !.caching = "idle",
                            !.entries = EntriesOf(rows)]
                /\ ghost' = Noting(ghost,
                     (IF lost THEN {"noname"} ELSE {}) \cup
                     (IF again THEN {"again"} ELSE {}) \cup
                     (IF Locked /\ of.initial > 0 THEN {"halfcopied"} ELSE {}))
          /\ user' = [user EXCEPT !.restarts = @ - 1,
                                  !.scripts = [p \in Procs |->
                                      IF proc[p].open THEN Skip(@[p])
                                      ELSE @[p]]]
    /\ of' = NoFile
    /\ proc' = [p \in Procs |-> [pc |-> "idle", w |-> 0, n |-> 0, open |-> FALSE]]
    /\ rel' = <<>>
    /\ upl' = [NoBatch EXCEPT !.pc = "start"]
    /\ big' = NoUpload
    /\ srv' = [srv EXCEPT !.diff = <<>>]
    /\ UNCHANGED file

Calls(p) ==
    \/ Open(p) \/ Change(p) \/ CreateFiles(p) \/ Fill(p)
    \/ Flush(p) \/ Flushed(p) \/ Close(p)
Releasing ==
    \/ TimerDue \/ psync_fs_write_timer
    \/ \E k \in DOMAIN rel : psync_fs_upload_release_timer(k) \/ ReleaseEnds(k)
Uploading ==
    \/ clean_stuck_tasks \/ psync_fsupload_check_tasks
    \/ psync_send_task_creat \/ psync_send_task_creat_upload_small
    \/ SendSmall \/ LostSmall \/ psync_process_task_creat \/ CacheSmall \/ pr_del_task
    \/ psync_sent_task_creat_upload_large
UploadingLarge ==
    \/ Pick \/ psync_get_local_file_checksum \/ large_upload_creat
    \/ LoadIndex \/ LoadSize \/ upload_modify \/ upload_modify_send_local
    \/ large_upload_save \/ LostLarge \/ save_meta
Caching == CacheUploaded \/ CacheEnds

Next ==
    \/ \E p \in Procs : Calls(p)
    \/ Releasing \/ Uploading \/ UploadingLarge \/ Caching
    \/ DiffAsks \/ process_modifyfile \/ Restart

Spec == Init /\ [][Next]_vars

----------------------------------------------------------------------------
(* What should hold, as long as none of the ways in which this code loses what *)
(* was written has been taken (ghost.known; the README has a row for each):    *)
(*   truncated   O_TRUNC empties a data file that is being uploaded            *)
(*   shrunk      a data file that became shorter is taken for a damaged one    *)
(*   otherrow    a release comes late, and is that of another row              *)
(*   stalelocal  an uploaded file is written again with its old index          *)
(*   halfcopied  killed while the pages of a file are copied                   *)
(*   again       killed between the entry of an answer and the row's deletion  *)
(*   noname      restarted with a row for a modified file                      *)
(*   regressed   a diff enters a revision that an answer had replaced          *)
(*   forgotten   an open file does not know that it has been released          *)
(*   uncopied    a page that was cached is gone when it is copied              *)
(*   skipped     a new row has the id of the last one uploaded                 *)

Known(flags) == ghost.known \cap flags # {}
Damaged == Known({"truncated", "shrunk", "otherrow", "stalelocal", "halfcopied", "again",
                  "noname", "regressed", "uncopied"})

\* Types; and the open file has a reference for every handle, for the timer and
\* for every thread the timer started, so psync_fs_dec_of_refcnt frees it under
\* none of them.
TypeOK ==
    /\ DOMAIN file \cup DOMAIN tab.rows \subseteq Nat \ {0}
    /\ \A t \in DOMAIN tab.rows : tab.rows[t].status \in 0..3
    /\ IF of = NoFile THEN rel = <<>> /\ \A p \in Procs : ~proc[p].open
       ELSE of.ref = Cardinality({p \in Procs : proc[p].open}) + Len(rel)
                     + (IF of.timer = "none" THEN 0 ELSE 1)

\* What psync_fs_read returns, or would if the file were opened now.
Absent == <<-1>>
At(c, k) == IF k <= Len(c) THEN c[k] ELSE 0
Shown(newfile, modified, f, local, size, base) ==
    IF newfile THEN f.d
    ELSE [k \in 1..size |-> IF modified /\ k \in local THEN At(f.d, k) ELSE At(base, k)]
Seen ==
    IF of # NoFile
    THEN Shown(of.newfile, of.modified, DataOf(of.id), of.local, of.size, of.hash)
    ELSE IF Entry # 0 /\ tab.lost THEN Absent
    ELSE IF Entry \in DOMAIN tab.rows /\ Entry \in DOMAIN file
    THEN Shown(tab.rows[Entry].type = "creat", TRUE, file[Entry], file[Entry].i,
               Len(file[Entry].d), tab.rows[Entry].base)
    ELSE tab.mir

\* Programs read what they wrote, from the data file, over the server's revision
\* or from the revision an upload has just put in its place.
ReadsLastWritten == Locked \/ Damaged \/ Seen = ghost.last

\* When every file is closed and all threads wait, what was written last is on
\* the server: no row is left behind unreleased or without a wake.
AtRest ==
    /\ \A p \in Procs : user.scripts[p] = <<>>
    /\ of = NoFile /\ upl.pc = "idle" /\ ~upl.wake /\ big.pc = "off" /\ tab.cache = <<>>
UploadsLastWritten ==
    AtRest => srv.now = ghost.last \/ Damaged \/ Known({"forgotten", "skipped"})

\* An upload reads the data file while it is written; the write id and the
\* checksum keep a mixture of two states off the server.
ServerHasVersions == Damaged \/ srv.saved \subseteq ghost.versions

\* A page that is cached under a revision's hash is a page of that revision:
\* also one that psync_pagecache_modify_to_cache moved, read or put together.
PagesAreTrue ==
    \A q \in tab.pages : q.data = PageOf(q.h, q.h, q.n).data
=============================================================================
