----------------------------- MODULE MCFsDrive -----------------------------
(***************************************************************************)
(* FsDrive with a few objects, names and requests.                         *)
(***************************************************************************)
EXTENDS FsDrive

NoObjects == <<>>
OneFile == 1 :> Obj("file", 0, "a", 1)
FileInFolder == (1 :> Obj("folder", 0, "a", 1)) @@ (2 :> Obj("file", 1, "b", 2))
TwoFolders == (1 :> Obj("folder", 0, "a", 1)) @@ (2 :> Obj("folder", 0, "b", 2))
Nested == (1 :> Obj("folder", 0, "a", 1)) @@ (2 :> Obj("folder", 1, "b", 2))
          @@ (3 :> Obj("folder", 0, "b", 3))

FileOps == {"creat", "unlink", "rename_file"}
FolderOps == {"mkdir", "rmdir", "rename_folder"}

\* n requests of one user with up to k names, and nothing else going on.
Requests(objects, k, ops, n) ==
    [objects |-> objects, names |-> IF k = 1 THEN {"a"} ELSE {"a", "b"},
     ops |-> ops, requests |-> n,
     remembers |-> FALSE, diffs |-> "none", faults |-> 0]
Remembering(w) == [w EXCEPT !.remembers = TRUE]
Diffing(diffs, w) == [w EXCEPT !.diffs = diffs]
Failing(k, w) == [w EXCEPT !.diffs = "current", !.faults = k]

Files ==
    {Requests(OneFile, 2, FileOps, 4),
     Remembering(Requests(FileInFolder, 2, FileOps, 3)),
     Requests(FileInFolder, 2, {"creat", "unlink", "rmdir", "rmdir_full"}, 3)}
FolderWork ==
    {Requests(NoObjects, 2, {"mkdir", "rmdir"}, 4),
     Requests(NoObjects, 1, FolderOps, 4),
     Requests(NoObjects, 2, FileOps \cup FolderOps, 3),
     Requests(TwoFolders, 2, {"rename_onto", "rename_folder", "rmdir"}, 2)}
Diffed ==
    {Diffing("current", Requests(NoObjects, 2, {"mkdir", "creat", "unlink", "rmdir"}, 3)),
     Failing(2, Requests(NoObjects, 1, {"mkdir", "creat", "rename_folder", "rename_file"}, 4))}
Calm == Files \cup FolderWork \cup Diffed
Crashing ==
    {Remembering(Failing(1, Requests(OneFile, 2, FileOps, 3))),
     Diffing("late", Requests(FileInFolder, 2, {"mkdir", "creat", "unlink", "rmdir"}, 2))}
Refusing == Failing(1, Requests(NoObjects, 1, {"mkdir", "rmdir", "creat"}, 3))
Refused ==
    {Refusing, Remembering(Requests(OneFile, 2, FileOps, 4)),
     Requests(Nested, 2, {"rmdir", "rename_folder", "rename_to_used"}, 3)}
Making == Failing(1, Requests(NoObjects, 1, {"mkdir", "creat", "unlink"}, 3))
Faulty == Crashing \cup Refused \cup {Making}
LocalFull == {Requests(NoObjects, 2, {"mkdir", "rmdir_full"}, 4)}

\* After faults too, taskscnt counts the entries, and tables and server agree in
\* the end: except in Refused, where requests are refused, and a cancelled
\* revision leaves its file.
ConvergedAfterFaults == CountsEntries /\ (workload \notin Refused => Converged)

\* However often a request is refused or its answer is lost, the uploader
\* comes back to the task (upload_wakes) until the queue is empty; only a
\* refused mkdir (pfsupload.c 126), in Refusing, wakes nobody.
DrainsAfterFaults == workload # Refusing => Drains
=============================================================================
