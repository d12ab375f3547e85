--------------------------- MODULE SyncInvariant ---------------------------
(***************************************************************************)
(* The inductive invariants of the sync engine.  First the one behind      *)
(* DownloadsKeepEdits: what the disk, the server and the downloads have to *)
(* do with what happened before.                                           *)
(***************************************************************************)
EXTENDS SyncEngine

ItemFields == {"kind", "dir", "name", "c"}
SrvFields == {"kind", "dir", "name", "c", "revs"}
GhostFields == {"inode", "id", "seen", "kept", "over", "gone", "unsure", "known"}
DnFields == {"id", "n", "fid", "l", "name", "path", "lock", "stop", "at", "local", "c",
             "seen", "scanless"}

\* A folder tree f: inodes up to the last that was given, one entry for each name
\* in a folder, and in the files versions that have been here.
TreeFits(f, inode, seen) ==
    /\ DOMAIN f \subseteq 1..inode
    /\ \A i \in DOMAIN f : DOMAIN f[i] = ItemFields
    /\ \A i, j \in DOMAIN f : f[i].dir = f[j].dir /\ f[i].name = f[j].name => i = j
    /\ \A i \in DOMAIN f : f[i].kind = "file" => f[i].c # 0 /\ f[i].c \in seen

DiskFits == TreeFits(disk, ghost.inode, ghost.seen)

GhostFits == DOMAIN ghost = GhostFields /\ ghost.inode \in Nat

\* What the user here is still going to write.
UserFits ==
    /\ "here" \in DOMAIN user /\ user.here \in Seq(Range(user.here))
    /\ \A o \in Range(user.here) : o.op \in {"edit", "create"} => o.c # 0

\* Every revision a file has at the server has been kept there.
SrvFits == \A i \in DOMAIN srv : /\ DOMAIN srv[i] = SrvFields
                                 /\ srv[i].revs \subseteq ghost.kept \cup {0}

\* Before a download replaces what is there, it has seen nothing there, or a
\* version of the server, or could not know.
MayPlace(d) == \/ d.seen = 0 \/ d.seen \in ghost.kept \/ d.n \in ghost.unsure
DownloadFits(d) ==
    /\ DOMAIN d = DnFields
    /\ d.at \in {"unrow", "place"} => MayPlace(d)
    /\ d.at \in {"got", "aside", "unrow", "place"} => d.c # 0
DnFits == DOMAIN dn = {"main", "run"} /\ \A d \in dn.run : DownloadFits(d)

IInv == /\ GhostFits /\ UserFits /\ DiskFits /\ SrvFits /\ DnFits /\ DownloadsKeepEdits

\* What happened stays known.
GhostLater ==
    /\ DOMAIN ghost' = GhostFields
    /\ ghost'.inode \in Nat /\ ghost.inode <= ghost'.inode
    /\ ghost.seen \subseteq ghost'.seen /\ ghost.kept \subseteq ghost'.kept
    /\ ghost.unsure \subseteq ghost'.unsure

----------------------------------------------------------------------------
(* And the one behind UploadsKeepEdits: what the tables and the uploads    *)
(* have to do with what has been here.                                     *)

DbFields == {"lfile", "lfolder", "synced", "mir", "task", "lastfile", "lastfolder", "born", "bad"}
RowFields == {"dir", "name", "fid", "hash", "sum", "ino", "m"}
UpFields == {"id", "n", "l", "name", "stop", "at", "path", "to", "c", "fid", "new", "sent"}
ScanFields == {"pc", "todo", "new", "del", "mod", "moved", "again", "stoppers"}

\* Tables whose files are rows of versions that have been here.
Based(seen, b) ==
    /\ DOMAIN b = DbFields
    /\ IsFiniteSet(DOMAIN b.lfile) /\ IsFiniteSet(DOMAIN b.lfolder) /\ IsFiniteSet(DOMAIN b.mir)
    /\ 0 \in seen
    /\ \A r \in DOMAIN b.lfile : /\ DOMAIN b.lfile[r] = RowFields
                                 /\ b.lfile[r].hash \in seen /\ b.lfile[r].sum \in seen
DbFits == Based(ghost.seen, db)

\* What a scan has read is finite, so its loops end.
ScanFits == /\ DOMAIN scan = ScanFields
            /\ IsFiniteSet(scan.new) /\ IsFiniteSet(scan.del) /\ IsFiniteSet(scan.mod)

\* What was sent was here.
UploadFits(u) == DOMAIN u = UpFields /\ (u.at = "answer" => u.sent \in ghost.seen)
UpFits == DOMAIN up = {"main", "run"} /\ \A u \in up.run : UploadFits(u)

\* And so was what a download found, or has put here.
PlacedFits == \A d \in dn.run : d.local \in ghost.seen /\ (d.at = "row" => d.c \in ghost.seen)

BInv == IInv /\ DbFits /\ ScanFits /\ UpFits /\ PlacedFits /\ UploadsKeepEdits

----------------------------------------------------------------------------
(* And the one behind the locks of the transfers and the counts.           *)

\* A download that runs has the lock of its path, and has stopped the scanner only
\* from its look at the disk to the row.
DownloadHolds(d) ==
    /\ DOMAIN d = DnFields /\ d.lock /\ d.scanless \in BOOLEAN
    /\ d.scanless => d.at \in {"aside", "unrow", "place", "row"}

\* The downloads of the list have a path each.
DownloadsApart(D) ==
    /\ IsFiniteSet(D) /\ \A d \in D : DownloadHolds(d)
    /\ \A d, e \in D : SamePath(d, e) => d = e

\* So have the uploads that are sent, and no more than MaxUploads have their turn.
AdmittedOf(U) == {u \in U : u.at # "slot"}
UploadsApart(U) ==
    /\ IsFiniteSet(U) /\ \A u \in U : DOMAIN u = UpFields
    /\ \A u, v \in U : Sending(u) /\ Sending(v) /\ SamePath(u, v) => u = v
    /\ Cardinality(AdmittedOf(U)) <= MaxUploads

\* And no upload that is sent has the path of a download.
Apart(U, D) == \A u \in U, d \in D : Sending(u) => ~SamePath(u, d)

\* Those that hold the scanner, and the download thread when it renames a file.
Holding(D) == {d \in D : d.scanless}
One(b) == IF b THEN 1 ELSE 0

CInv ==
    /\ DOMAIN up = {"main", "run"} /\ DOMAIN dn = {"main", "run"}
    /\ "stoppers" \in DOMAIN scan
    /\ UploadsApart(up.run) /\ DownloadsApart(dn.run) /\ Apart(up.run, dn.run)
    /\ scan.stoppers = Cardinality(Holding(dn.run)) + One(dn.main.at = "renamed")
=============================================================================
