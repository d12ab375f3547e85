------------------------------ MODULE FsDrive ------------------------------
(***************************************************************************)
(* What makes the virtual drive correct: the queue, the overlay, the       *)
(* uploader, the diff thread and the server taken together.                *)
(***************************************************************************)
EXTENDS FsUpload

\* No handler is half way through.
Quiet == phase \notin {"process", "cache"}

\* The drive refines DriveView: only a request changes what readdir and the
\* lookups of pfs.c show, at once and in full; uploading, entering answers
\* into tables and overlay (pfsupload.c), a diff, a broken connection and
\* the rebuilding of the overlay by psync_fstask_init do not.
Drive == INSTANCE DriveView WITH
    Top <- Root, Labels <- UNION {w.names : w \in Workloads}, Nodes <- 0..LastId,
    Starts <- {{[dir |-> o.parent, name |-> o.name, kind |-> o.kind,
                 node |-> o.data] : o \in Range(w.objects)} : w \in Workloads},
    tree <- View, asked <- made
DriveSpec == Drive!Spec

\* taskscnt of a folder is the number of entries in its four trees, so that
\* psync_fstask_release_folder_tasks_locked frees a folder when it is empty
\* and never while it holds something (pfstasks.c 180-193).
CountsEntries ==
    \A f \in FolderIds :
        folders.cnt[f] = Cardinality({e \in folders.ent : e.folder = f})

\* Outside the handlers every entry of the overlay belongs to a row of
\* fstask: nothing keeps hiding or adding a name after its task is through.
EntriesHaveTasks == Quiet => \A e \in folders.ent : e.task \in DOMAIN fstask

\* The tasks whose objects a row names by a negative id.
Made(row, types, keys) ==
    {-row[k] : k \in {k \in keys : row.type \in types /\ row[k] < 0}}
Needs(row) ==
    Made(row, {"MKDIR", "CREAT", "RENFILE_TO", "RENFOLDER_TO"}, {"folder"})
    \cup Made(row, {"RMDIR", "RENFOLDER_TO"}, {"sfolder"})
    \cup Made(row, {"UNLINK", "RENFILE_TO", "UN_SET_REV"}, {"file"})
\* The tasks that are through before another is loaded.
Before ==
    LET of[t \in 1..MaxTask] ==
            LET direct == {a[2] : a \in {a \in fstaskdepend : a[1] = t}}
            IN direct \cup UNION {of[u] : u \in direct}
    IN of

\* A task that names an object not made yet waits, over the arrows of
\* fstaskdepend, for the task that makes it, and the row has the real id
\* (pr_update_folderid, pr_update_fileid) by the time nothing holds it back:
\* a negative id never goes out to the server.
WaitsForIds ==
    phase # "cache" =>
    LET before == Before
    IN \A t \in DOMAIN fstask :
           fstask[t].status = 11 \/ Needs(fstask[t]) \subseteq before[t]

\* The server never refuses what the user was told had worked: the arrows
\* that the functions of pfstasks.c draw make the queue arrive in an order
\* in which every request is possible.
NoneRefused ==
    \A i \in DOMAIN batch : batch[i].ans.code \in {"none", "ok"}

\* When the queue is empty and diff is through, the tables file and folder
\* hold what the server holds, and the overlay hides nothing of it.
Converged == fstask = <<>> /\ evlog = <<>> => db = server /\ folders.ent = {}

\* The overlay psync_fstask_init builds from the rows shows the drive as it
\* was before the program went down.
RestartKeepsView == [][faults' # faults /\ phase' = "look" => View' = View]_vars

\* The queue is empty again and again, and the diff thread has caught up.
Drains == []<>(fstask = <<>> /\ evlog = <<>>)

=============================================================================
