----------------------------- MODULE SyncTables -----------------------------
(***************************************************************************)
(* What the parts of the sync engine share: the folder on the disk, the    *)
(* tables localfile, localfolder, syncedfolder, task, file and folder, the *)
(* server with the changes it reports, and the threads' lists.             *)
(*                                                                         *)
(* One folder is synced, both ways: id 0 here, Remote at the server.  Ids  *)
(* are numbers and NULL is 0, which is what psql_fetch_int makes of it.    *)
(* A version of a file is a number; it stands for the contents, for their  *)
(* checksum and hash, and, on the disk, for size and modification time.    *)
(***************************************************************************)
EXTENDS Integers, FiniteSets, SequencesExt

Remote == 1         \* the server's folder that is synced
Outside == 2        \* one that is not
None == -1
NoName == <<>>

VARIABLES
    disk,       \* inode -> [kind, dir, name, c]; the folder itself is 0
    db,         \* the tables, see TablesOf
    srv,        \* server id -> [kind, dir, name, c, revs]
    diff,       \* what the server did and the diff thread has not entered
    scan,       \* the scanner
    up,         \* the upload thread and the uploads it started
    dn,         \* the download thread and the downloads it started
    user,       \* what the users at both ends are still going to do
    ghost       \* what happened: see SyncEngine

vars == <<disk, db, srv, diff, scan, up, dn, user, ghost>>

Without(f, S) == Restrict(f, DOMAIN f \ S)
Plus(f, x, v) == [y \in DOMAIN f \cup {x} |-> IF y = x THEN v ELSE f[y]]
Top(S) == Max(S \cup {0})
Chosen(S) == IF S = {} THEN 0 ELSE CHOOSE x \in S : TRUE

----------------------------------------------------------------------------
(* The disk. *)

In(d) == {i \in DOMAIN disk : disk[i].dir = d}
At(d, name) == {i \in In(d) : disk[i].name = name}

\* The folder a path leads to.
Walk(path) ==
    LET step(d, name) ==
            LET f == {i \in At(d, name) : disk[i].kind = "folder"}
            IN IF d = None \/ f = {} THEN None ELSE Chosen(f)
    IN FoldLeft(step, 0, path)

\* psync_rename_conflicted_file: the first such name that is not there.
Aside(d, name) ==
    LET free == {k \in 1..(Cardinality(DOMAIN disk) + 1) : At(d, <<name[1], k>>) = {}}
    IN <<name[1], Min(free)>>

\* rename(2) of inode i over what may be there.
Moved(f, i, d, name) ==
    LET over == {j \in DOMAIN f \ {i} : f[j].dir = d /\ f[j].name = name}
    IN [Without(f, over) EXCEPT ![i].dir = d, ![i].name = name]
Renamed(i, d, name) == Moved(disk, i, d, name)

Item(kind, d, name, c) == [kind |-> kind, dir |-> d, name |-> name, c |-> c]
NewInode == 1 + Top(DOMAIN disk \cup {ghost.inode})

----------------------------------------------------------------------------
(* The tables. *)

\* file, folder: remote id -> row.  task: id -> row; the field "n" is not in
\* the table, it tells two rows with the same id apart.  ids: AUTOINCREMENT.
TablesOf(lfile, lfolder, synced, mir) ==
    [lfile |-> lfile, lfolder |-> lfolder, synced |-> synced, mir |-> mir,
     task |-> <<>>, lastfile |-> Top(DOMAIN lfile),
     lastfolder |-> Top(DOMAIN lfolder), born |-> 0, bad |-> FALSE]

FileAt(b, l, name) ==
    {i \in DOMAIN b.lfile : b.lfile[i].dir = l /\ b.lfile[i].name = name}
FolderAt(b, l, name) ==
    {i \in DOMAIN b.lfolder : b.lfolder[i].dir = l /\ b.lfolder[i].name = name}

\* pfolder_lpath_lfldr: NULL when there is no such folder.
HasPath(b, l) == l = 0 \/ l \in DOMAIN b.lfolder
PathOf(b, l) ==
    LET path[i \in DOMAIN b.lfolder \cup {0}] ==
            IF i = 0 THEN <<>>
            ELSE Append(path[b.lfolder[i].dir], b.lfolder[i].name)
    IN path[l]
DirOf(l) == IF HasPath(db, l) THEN Walk(PathOf(db, l)) ELSE None

\* The id of a row of task, which is no AUTOINCREMENT: one more than the
\* highest there is, so an id may come back.
NextTask(b) == 1 + Top(DOMAIN b.task)

\* The functions of ptask.c that put a row into the table.
Queue(b, type, item, l, to, name) ==
    [b EXCEPT !.task = Plus(@, NextTask(b),
                          [type |-> type, item |-> item, l |-> l, to |-> to,
                           name |-> name, busy |-> FALSE, n |-> b.born + 1]),
              !.born = @ + 1]
ptask_ldir_mk(b, item, l) == Queue(b, "mkdir", item, l, 0, NoName)
ptask_ldir_rm(b, item, l) == Queue(b, "rmdir", item, l, 0, NoName)
ptask_ldir_rm_r(b, item, l) == Queue(b, "rmtree", item, l, 0, NoName)
ptask_ldir_rename(b, item, l, to, name) == Queue(b, "mvdir", item, l, to, name)
ptask_download_q(b, item, l, name) == Queue(b, "download", item, l, 0, name)
ptask_lfile_rename(b, item, l, to, name) == Queue(b, "move", item, l, to, name)
ptask_lfile_rm(b, item) == Queue(b, "delete", item, 0, 0, NoName)
ptask_rdir_mk(b, l, name) == Queue(b, "r-mkdir", 0, l, 0, name)
ptask_rdir_rm(b, item) == Queue(b, "r-rmtree", item, 0, 0, NoName)
ptask_rdir_rename(b, l, to, name) == Queue(b, "r-mvdir", 0, l, to, name)
ptask_upload_q(b, l, name) == Queue(b, "upload", 0, l, 0, name)
ptask_rfile_rename(b, l, to, name) == Queue(b, "r-move", 0, l, to, name)
ptask_rfile_rm(b, item) == Queue(b, "r-delete", item, 0, 0, NoName)

UpKinds == {"r-mkdir", "r-rmtree", "r-mvdir", "upload", "r-move", "r-delete"}
DownKinds == {"mkdir", "rmdir", "rmtree", "mvdir", "download", "move", "delete"}

DropTask(b, id) == [b EXCEPT !.task = Without(@, {id})]
Busy(b, id, yes) ==
    IF id \in DOMAIN b.task THEN [b EXCEPT !.task[id].busy = yes] ELSE b

\* The row the upload or the download thread takes next.
Due(kinds) ==
    LET ids == {i \in DOMAIN db.task : db.task[i].type \in kinds
                                         /\ ~db.task[i].busy}
    IN IF ids = {} THEN {} ELSE {Min(ids)}

----------------------------------------------------------------------------
(* The server: external, reduced to the answers the code tells apart. *)

Child(d, name) == {i \in DOMAIN srv : srv[i].dir = d /\ srv[i].name = name}
NewId == 1 + Top(DOMAIN srv \cup DOMAIN db.mir \cup {ghost.id})
Below(d) ==
    LET under[i \in DOMAIN srv] ==
            srv[i].dir = d \/ (srv[i].dir \in DOMAIN srv /\ under[srv[i].dir])
    IN {i \in DOMAIN srv : under[i]}

\* del: the file it replaced, the metadata's deletedfileid.
Event(what, i, s, del) ==
    [what |-> what, id |-> i, kind |-> s[i].kind, dir |-> s[i].dir,
     name |-> s[i].name, c |-> s[i].c, del |-> del]

\* Deleted with all that is in it, from the bottom up.
SrvDelete(i) ==
    LET inside == Below(i)
        files == {f \in inside : srv[f].kind = "file"}
        order == SetToSeq(files) \o SetToSeq(inside \ files) \o <<i>>
    IN /\ srv' = Without(srv, inside \cup {i})
       /\ diff' = diff \o [k \in DOMAIN order |-> Event("delete", order[k], srv, 0)]

\* A file that is in the way is replaced, a folder is not.
CanMove(i, d, name) ==
    /\ i \in DOMAIN srv /\ (d \in DOMAIN srv \cup {0})
    /\ \A j \in Child(d, name) \ {i} : srv[j].kind = "file" /\ srv[i].kind = "file"
SrvMove(i, d, name) ==
    LET gone == Child(d, name) \ {i}
        s == [Without(srv, gone) EXCEPT ![i].dir = d, ![i].name = name]
    IN srv' = s /\ diff' = Append(diff, Event("modify", i, s, Chosen(gone)))

SrvCreate(i, kind, d, name, c) ==
    LET s == Plus(srv, i, [kind |-> kind, dir |-> d, name |-> name, c |-> c,
                           revs |-> {c}])
    IN srv' = s /\ diff' = Append(diff, Event("create", i, s, 0))

SrvSave(i, c) ==
    LET s == [srv EXCEPT ![i].c = c, ![i].revs = @ \cup {c}]
    IN srv' = s /\ diff' = Append(diff, Event("modify", i, s, 0))
=============================================================================
