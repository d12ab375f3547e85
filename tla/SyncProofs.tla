----------------------------- MODULE SyncProofs -----------------------------
(***************************************************************************)
(* What the sync engine never destroys, however many changes the users     *)
(* make, in whatever order the scanner, the diff thread, the uploads and   *)
(* the downloads take their steps, whatever connection breaks and whenever *)
(* the program is killed: here what the user wrote and the server does not *)
(* have, by a download (DownloadsKeep), and at the server a version that   *)
(* was not here, by an upload (UploadsKeep).  And that no two transfers    *)
(* are ever on one path of one direction, and the scanner is told how many *)
(* hold it off (TransfersApart).                                           *)
(*                                                                         *)
(* First what the operations on a folder tree and on the server keep, one  *)
(* lemma for each step of Next, and DownloadsKeep.  Then what a step does  *)
(* to the sets of transfers, by counting, each step again, and             *)
(* TransfersApart.  Last what the operations on the tables keep, the loops *)
(* among them by Fold, each step a third time, and UploadsKeep.            *)
(***************************************************************************)
EXTENDS SyncInvariant, Induction, FiniteSetTheorems

----------------------------------------------------------------------------
(* Folder trees. *)

\* A tree without some of its entries.
LEMMA FitsLess ==
  ASSUME NEW f, NEW n, NEW seen, TreeFits(f, n, seen), NEW S
  PROVE  /\ TreeFits(Without(f, S), n, seen) /\ DOMAIN Without(f, S) = DOMAIN f \ S
         /\ \A i \in DOMAIN f \ S : Without(f, S)[i] = f[i]
BY DEF TreeFits, Without, Restrict

\* A tree fits what was seen and given later.
LEMMA FitsLater ==
  ASSUME NEW f, NEW n \in Nat, NEW seen, TreeFits(f, n, seen),
         NEW m \in Nat, n <= m, NEW more, seen \subseteq more
  PROVE  TreeFits(f, m, more)
<1>1. 1..n \subseteq 1..m
  OBVIOUS
<1> QED BY <1>1 DEF TreeFits

\* rename(2): what is at the new place goes.
LEMMA FitsMoved ==
  ASSUME NEW f, NEW n, NEW seen, TreeFits(f, n, seen), NEW i, NEW d, NEW name
  PROVE  TreeFits(Moved(f, i, d, name), n, seen)
<1> DEFINE S == {j \in DOMAIN f \ {i} : f[j].dir = d /\ f[j].name = name}
           g == Without(f, S)
           m == Moved(f, i, d, name)
<1>1. TreeFits(g, n, seen) /\ DOMAIN g = DOMAIN f \ S /\ \A j \in DOMAIN g : g[j] = f[j]
  <2> HIDE DEF S
  <2> QED BY FitsLess
<1>2. m = [g EXCEPT ![i].dir = d, ![i].name = name]
  BY DEF Moved
<1>3. \A j \in DOMAIN g \ {i} : ~(g[j].dir = d /\ g[j].name = name)
  BY <1>1
<1> HIDE DEF g, m
<1>4. DOMAIN m = DOMAIN g /\ \A j \in DOMAIN g \ {i} : m[j] = g[j]
  BY <1>2
<1>5. i \in DOMAIN g => /\ DOMAIN m[i] = ItemFields /\ m[i].kind = g[i].kind /\ m[i].c = g[i].c
                        /\ m[i].dir = d /\ m[i].name = name
  <2>1. ASSUME i \in DOMAIN g PROVE m[i] = [[g[i] EXCEPT !.dir = d] EXCEPT !.name = name]
    BY <1>2, <2>1
  <2>2. i \in DOMAIN g => DOMAIN g[i] = ItemFields
    BY <1>1 DEF TreeFits
  <2> QED BY <2>1, <2>2 DEF ItemFields
<1>6. TreeFits(m, n, seen)
  <2>1. DOMAIN m \subseteq 1..n
    BY <1>1, <1>4 DEF TreeFits
  <2>2. \A j \in DOMAIN m : DOMAIN m[j] = ItemFields
    BY <1>1, <1>4, <1>5 DEF TreeFits
  <2>3. \A j, k \in DOMAIN m : m[j].dir = m[k].dir /\ m[j].name = m[k].name => j = k
    BY <1>1, <1>3, <1>4, <1>5 DEF TreeFits
  <2>4. \A j \in DOMAIN m : m[j].kind = "file" => m[j].c # 0 /\ m[j].c \in seen
    BY <1>1, <1>4, <1>5 DEF TreeFits
  <2> QED BY <2>1, <2>2, <2>3, <2>4 DEF TreeFits
<1> QED BY <1>6 DEF m

\* A new entry where there is none.
LEMMA FitsPlus ==
  ASSUME NEW f, NEW n \in Nat, NEW seen, TreeFits(f, n, seen),
         NEW kind, NEW d, NEW name, NEW c,
         \A j \in DOMAIN f : ~(f[j].dir = d /\ f[j].name = name),
         kind = "file" => c # 0 /\ c \in seen
  PROVE  TreeFits(Plus(f, n + 1, Item(kind, d, name, c)), n + 1, seen)
<1> DEFINE x == Item(kind, d, name, c)
           g == Plus(f, n + 1, x)
<1>1. /\ DOMAIN x = ItemFields /\ x.kind = kind /\ x.dir = d /\ x.name = name /\ x.c = c
  BY DEF Item, ItemFields
<1> HIDE DEF x
<1>2. DOMAIN g = DOMAIN f \cup {n + 1} /\ n + 1 \notin DOMAIN f /\ g[n + 1] = x
      /\ \A j \in DOMAIN f : g[j] = f[j]
  BY DEF Plus, TreeFits
<1>3. DOMAIN g \subseteq 1..(n + 1)
  BY <1>2 DEF TreeFits
<1> HIDE DEF g
<1>4. TreeFits(g, n + 1, seen)
  BY <1>1, <1>2, <1>3 DEF TreeFits
<1> QED BY <1>4 DEF g, x

\* A file that is written.
LEMMA FitsEdit ==
  ASSUME NEW f, NEW n, NEW seen, TreeFits(f, n, seen), NEW i \in DOMAIN f, NEW c \in seen, c # 0
  PROVE  TreeFits([f EXCEPT ![i].c = c], n, seen)
<1> DEFINE g == [f EXCEPT ![i].c = c]
<1>1. DOMAIN g = DOMAIN f /\ \A j \in DOMAIN f \ {i} : g[j] = f[j]
  OBVIOUS
<1>2. /\ DOMAIN g[i] = ItemFields /\ g[i].kind = f[i].kind /\ g[i].dir = f[i].dir
      /\ g[i].name = f[i].name /\ g[i].c = c
  <2>1. g[i] = [f[i] EXCEPT !.c = c] /\ DOMAIN f[i] = ItemFields
    BY DEF TreeFits
  <2> QED BY <2>1 DEF ItemFields
<1> HIDE DEF g
<1>3. TreeFits(g, n, seen)
  BY <1>1, <1>2 DEF TreeFits
<1> QED BY <1>3 DEF g

\* The greatest number of a set.
LEMMA TopIs ==
  ASSUME NEW n \in Nat, NEW S, S \subseteq 0..n
  PROVE  Top(S) \in S \cup {0} /\ \A x \in S : x <= Top(S)
<1> DEFINE T == S \cup {0}
<1>1. \E x \in T : \A y \in T : x >= y
  <2>1. T # {} /\ T \subseteq 0..n
    OBVIOUS
  <2>2. PICK k \in T : \A j \in T : j <= k
    <3> HIDE DEF T
    <3> QED BY <2>1, Greatest
  <2>3. k \in Nat /\ \A y \in T : y \in Nat
    BY <2>1
  <2> QED BY <2>2, <2>3
<1>2. Top(S) = CHOOSE x \in T : \A y \in T : x >= y
  BY DEF Top, Max
<1>3. Top(S) \in T /\ \A y \in T : Top(S) >= y
  <2> HIDE DEF T
  <2> QED BY <1>1, <1>2
<1>4. T \subseteq Nat /\ S \subseteq T
  OBVIOUS
<1> DEFINE t == Top(S)
<1>5. t \in T /\ \A y \in T : t >= y
  BY <1>3
<1> HIDE DEF t, T
<1>6. t \in T /\ \A x \in S : x <= t
  BY <1>4, <1>5
<1> QED BY <1>6 DEF t, T

\* The next inode is one more than the last that was given.
LEMMA NewInodeIs == GhostFits /\ DiskFits => NewInode = ghost.inode + 1
<1> SUFFICES ASSUME GhostFits, DiskFits PROVE NewInode = ghost.inode + 1
  OBVIOUS
<1> DEFINE S == DOMAIN disk \cup {ghost.inode}
<1>1. ghost.inode \in Nat /\ S \subseteq 0..ghost.inode /\ ghost.inode \in S
  BY DEF GhostFits, DiskFits, TreeFits
<1> HIDE DEF S
<1>2. Top(S) \in S \cup {0} /\ \A x \in S : x <= Top(S)
  BY <1>1, TopIs
<1> DEFINE t == Top(S)
<1>3. t \in S \cup {0} /\ \A x \in S : x <= t
  BY <1>2
<1> HIDE DEF t
<1>4. t = ghost.inode
  <2>1. t \in Nat /\ t <= ghost.inode
    BY <1>1, <1>3
  <2>2. ghost.inode <= t
    BY <1>1, <1>3
  <2> QED BY <1>1, <2>1, <2>2
<1>5. t + 1 = 1 + t
  BY <1>1, <1>4
<1> QED BY <1>4, <1>5 DEF t, NewInode, S

----------------------------------------------------------------------------
(* What happened, and what a step that does not touch a part leaves. *)

\* Nothing but that a flaw was met.
Quiet == ghost' = ghost \/ \E s : ghost' = [ghost EXCEPT !.known = s]

\* A step that at most meets a flaw changes nothing else of what happened.
LEMMA QuietLater ==
  ASSUME GhostFits, Quiet
  PROVE  GhostLater /\ ghost'.inode = ghost.inode /\ ghost'.seen = ghost.seen
         /\ ghost'.kept = ghost.kept /\ ghost'.gone = ghost.gone
<1>1. CASE ghost' = ghost
  BY <1>1 DEF GhostLater, GhostFits
<1>2. ASSUME NEW s, ghost' = [ghost EXCEPT !.known = s]
      PROVE  GhostLater /\ ghost'.inode = ghost.inode /\ ghost'.seen = ghost.seen
             /\ ghost'.kept = ghost.kept /\ ghost'.gone = ghost.gone
  <2>1. DOMAIN ghost' = GhostFields
    BY <1>2 DEF GhostFits
  <2>2. \A x \in GhostFields \ {"known"} : ghost'[x] = ghost[x]
    BY <1>2 DEF GhostFits
  <2>3. /\ ghost'.inode = ghost.inode /\ ghost'.seen = ghost.seen /\ ghost'.kept = ghost.kept
        /\ ghost'.gone = ghost.gone /\ ghost'.unsure = ghost.unsure
    BY <2>2 DEF GhostFields
  <2> QED BY <2>1, <2>3 DEF GhostLater, GhostFits
<1> QED BY <1>1, <1>2 DEF Quiet

\* Something is gone.
LEMMA LostLater ==
  ASSUME GhostFits, NEW g, ghost' = Lost(g)
  PROVE  GhostLater /\ ghost'.gone = ghost.gone \cup g
<1>1. DOMAIN ghost' = GhostFields /\ ghost'.gone = ghost.gone \cup g
  BY DEF GhostFits, Lost, GhostFields
<1>2. \A x \in GhostFields \ {"gone"} : ghost'[x] = ghost[x]
  BY DEF GhostFits, Lost
<1>3. /\ ghost'.inode = ghost.inode /\ ghost'.seen = ghost.seen /\ ghost'.kept = ghost.kept
      /\ ghost'.unsure = ghost.unsure
  BY <1>2 DEF GhostFields
<1> QED BY <1>1, <1>3 DEF GhostLater, GhostFits

\* What is gone may grow by what no download took.
LEMMA KeepsEdits ==
  ASSUME DownloadsKeepEdits, NEW g, ghost'.gone = ghost.gone \cup g,
         \A x \in g : x.by # "download"
  PROVE  DownloadsKeepEdits'
BY DEF DownloadsKeepEdits

\* What is taken under another name is not taken by a download.
LEMMA GoneBy ==
  ASSUME NEW f, NEW by, by # "download"
  PROVE  \A x \in Gone(f, by) : x.by # "download"
BY DEF Gone

\* What happened keeps its form.
LEMMA GhostStays == GhostLater => GhostFits'
BY DEF GhostLater, GhostFits

\* A step that leaves the server alone leaves its revisions kept.
LEMMA SrvStays == SrvFits /\ GhostLater /\ srv' = srv => SrvFits'
BY DEF SrvFits, GhostLater

\* The users have not acted: they will still do what they would.
LEMMA UserStays == UserFits /\ user' = user => UserFits'
BY DEF UserFits

\* Nor have they when a connection broke or the program was killed.
LEMMA UserUses ==
  ASSUME UserFits, NEW f, f # "here", NEW v, user' = [user EXCEPT ![f] = v]
  PROVE  UserFits'
<1>1. user'.here = user.here /\ DOMAIN user' = DOMAIN user
  BY DEF UserFits
<1> QED BY <1>1 DEF UserFits

\* What was right for a download stays so.
LEMMA DownloadLater ==
  ASSUME GhostLater, NEW d, DownloadFits(d) PROVE DownloadFits(d)'
BY DEF GhostLater, DownloadFits, MayPlace

\* The downloads fit after a step when each of them did before or does now.
LEMMA DnStays ==
  ASSUME DnFits, GhostLater, DOMAIN dn' = {"main", "run"},
         \A d \in dn'.run : d \in dn.run \/ DownloadFits(d)'
  PROVE  DnFits'
<1>1. \A d \in dn'.run : DownloadFits(d)'
  <2>1. TAKE d \in dn'.run
  <2>2. CASE d \in dn.run
    <3>1. DownloadFits(d)
      BY <2>2 DEF DnFits
    <3> QED BY <3>1, DownloadLater
  <2> QED BY <2>1, <2>2
<1> QED BY <1>1 DEF DnFits

\* The download thread itself may go on.
LEMMA DnMain ==
  ASSUME DnFits, GhostLater, NEW v, dn' = dn \/ dn' = [dn EXCEPT !.main = v]
  PROVE  DnFits'
<1>1. DOMAIN dn' = {"main", "run"} /\ dn'.run = dn.run
  BY DEF DnFits
<1> QED BY <1>1, DnStays

\* One download goes on.
LEMMA DnPut ==
  ASSUME DnFits, GhostLater, NEW d, NEW w, Put(d, w), DownloadFits(w)'
  PROVE  DnFits'
<1>1. DOMAIN dn' = {"main", "run"} /\ dn'.run = (dn.run \ {d}) \cup {w}
  BY DEF DnFits, Put
<1> QED BY <1>1, DnStays

----------------------------------------------------------------------------
(* Steps that change neither the disk nor the server. *)

\* To meet a flaw is not to do harm.
LEMMA KnownIsQuiet == ASSUME NEW why, Known(why) PROVE Quiet
BY DEF Known, Quiet

\* And neither is to meet it perhaps.
LEMMA KnownIfIsQuiet == ASSUME NEW yes, NEW why, KnownIf(yes, why) PROVE Quiet
BY KnownIsQuiet DEF KnownIf, Quiet

\* A step of the engine that changes neither the disk nor the server, nor a download.
Still == /\ Quiet /\ disk' = disk /\ srv' = srv
         /\ user' = user \/ \E f, v : f # "here" /\ user' = [user EXCEPT ![f] = v]
         /\ dn' = dn \/ \E v : dn' = [dn EXCEPT !.main = v]

\* Such a step keeps the invariant.
LEMMA StillStep == IInv /\ Still => IInv'
<1> SUFFICES ASSUME IInv, Still PROVE IInv'
  OBVIOUS
<1> USE DEF IInv, Still
<1>1. GhostLater /\ ghost'.inode = ghost.inode /\ ghost'.seen = ghost.seen
      /\ ghost'.gone = ghost.gone
  BY QuietLater
<1>2. GhostFits'
  BY <1>1, GhostStays
<1>3. UserFits'
  BY UserStays, UserUses
<1>4. DiskFits'
  BY <1>1 DEF DiskFits
<1>5. SrvFits'
  BY <1>1, SrvStays
<1>6. DnFits'
  BY <1>1, DnMain
<1>7. DownloadsKeepEdits'
  BY <1>1 DEF DownloadsKeepEdits
<1> QED BY <1>2, <1>3, <1>4, <1>5, <1>6, <1>7

\* The scanner only writes the tables.
LEMMA ScanStill == ScanNext => Still
<1>1. ScanStart => Still
  BY DEF ScanStart, Still, Quiet
<1>2. ScanCheck => Still
  BY DEF ScanCheck, Still, Quiet
<1>3. ScanFolders => Still
  BY DEF ScanFolders, Still, Quiet
<1>4. ScanFiles => Still
  BY DEF ScanFiles, Still, Quiet
<1>5. ScanEnd => Still
  BY DEF ScanEnd, Still, Quiet
<1>6. ASSUME NEW l, ScanFolder(l) PROVE Still
  BY <1>6 DEF ScanFolder, Still, Quiet
<1>7. ASSUME NEW y, ScanGone(y) PROVE Still
  BY <1>7 DEF ScanGone, Still, Quiet
<1> QED BY <1>1, <1>2, <1>3, <1>4, <1>5, <1>6, <1>7 DEF ScanNext

\* What of the uploads does not talk to the server, and leaves the disk alone.
UploadsStill ==
    \/ \E t : UpStart(t)
    \/ UpMade \/ UpMoved \/ UpDone \/ UpAgain
    \/ \E u \in up.run : \/ UpAdmit(u) \/ UpTurnedAway(u) \/ UpStopped(u)
                         \/ UpNoRow(u) \/ UpLocked(u) \/ UpNoFile(u) \/ UpRead(u)
                         \/ UpNotSent(u) \/ UpAnswer(u) \/ UpLost(u) \/ UpEnd(u)

\* Those of the uploads do.
LEMMA UpStill == UploadsStill => Still
<1>1. ASSUME NEW t, UpStart(t) PROVE Still
  BY <1>1 DEF UpStart, Still, Quiet
<1>2. UpMade => Still
  BY DEF UpMade, Still, Quiet
<1>3. UpMoved => Still
  <2> SUFFICES ASSUME UpMoved PROVE Still
    OBVIOUS
  <2>1. Quiet
    BY DEF UpMoved, Quiet
  <2> QED BY <2>1 DEF UpMoved, Still
<1>4. UpDone => Still
  BY KnownIfIsQuiet DEF UpDone, Still
<1>5. UpAgain => Still
  BY DEF UpAgain, Still, Quiet
<1>6. ASSUME NEW u, UpAdmit(u) PROVE Still
  BY <1>6 DEF UpAdmit, Still, Quiet
<1>7. ASSUME NEW u, UpTurnedAway(u) PROVE Still
  BY <1>7, KnownIfIsQuiet DEF UpTurnedAway, Still
<1>8. ASSUME NEW u, UpStopped(u) PROVE Still
  BY <1>8 DEF UpStopped, Still, Quiet
<1>9. ASSUME NEW u, UpNoRow(u) PROVE Still
  BY <1>9 DEF UpNoRow, Still, Quiet
<1>10. ASSUME NEW u, UpLocked(u) PROVE Still
  BY <1>10 DEF UpLocked, Still, Quiet
<1>11. ASSUME NEW u, UpNoFile(u) PROVE Still
  BY <1>11, KnownIfIsQuiet DEF UpNoFile, Still
<1>12. ASSUME NEW u, UpRead(u) PROVE Still
  <2>1. Quiet
    BY <1>12, KnownIfIsQuiet DEF UpRead
  <2> QED BY <1>12, <2>1 DEF UpRead, Still
<1>13. ASSUME NEW u, UpNotSent(u) PROVE Still
  BY <1>13 DEF UpNotSent, Still, Quiet
<1>14. ASSUME NEW u, UpAnswer(u) PROVE Still
  BY <1>14, KnownIfIsQuiet DEF UpAnswer, Still
<1>15. ASSUME NEW u, UpLost(u) PROVE Still
  BY <1>15 DEF UpLost, Still, Quiet
<1>16. ASSUME NEW u, UpEnd(u) PROVE Still
  BY <1>16, KnownIfIsQuiet DEF UpEnd, Still
<1> QED BY <1>1, <1>2, <1>3, <1>4, <1>5, <1>6, <1>7, <1>8, <1>9, <1>10, <1>11, <1>12,
           <1>13, <1>14, <1>15, <1>16 DEF UploadsStill

\* A change that is entered may tell downloads to stop.
LEMMA DiffStep == IInv /\ Diff => IInv'
<1> SUFFICES ASSUME IInv, Diff PROVE IInv'
  OBVIOUS
<1> USE DEF IInv
<1>1. Quiet /\ disk' = disk /\ srv' = srv /\ user' = user
  BY DEF Diff, Quiet
<1>2. GhostLater /\ ghost'.inode = ghost.inode /\ ghost'.seen = ghost.seen
      /\ ghost'.gone = ghost.gone
  BY <1>1, QuietLater
<1>3. GhostFits'
  BY <1>2, GhostStays
<1>4. UserFits'
  BY <1>1, UserStays
<1>5. DiskFits'
  BY <1>1, <1>2 DEF DiskFits
<1>6. SrvFits'
  BY <1>1, <1>2, SrvStays
<1>7. DnFits'
  <2> DEFINE e == Head(diff)
             run == {Told(d, e) : d \in dn.run}
  <2>1. dn' = [dn EXCEPT !.run = run]
    <3>1. PICK x \in {Head(diff)} : dn' = [dn EXCEPT !.run = {Told(d, x) : d \in @}]
      BY Zenon DEF Diff
    <3>2. x = e
      OBVIOUS
    <3> QED BY <3>1, <3>2, Zenon
  <2>2. DOMAIN dn' = {"main", "run"} /\ dn'.run = run
    BY <2>1 DEF DnFits
  <2>3. ASSUME NEW d \in dn.run PROVE DownloadFits(Told(d, e))
    <3> DEFINE new == [d EXCEPT !.stop = StopFlag(db, e)]
    <3>1. DownloadFits(d)
      BY DEF DnFits
    <3>2. /\ DOMAIN new = DnFields /\ new.at = d.at /\ new.c = d.c
          /\ new.seen = d.seen /\ new.n = d.n
      BY <3>1 DEF DownloadFits, DnFields
    <3>3. Told(d, e) = d \/ Told(d, e) = new
      BY DEF Told
    <3> HIDE DEF new
    <3> QED BY <3>1, <3>2, <3>3 DEF DownloadFits, MayPlace
  <2>4. ASSUME NEW w \in dn'.run PROVE DownloadFits(w)'
    <3>1. DownloadFits(w)
      BY <2>2, <2>3
    <3> QED BY <3>1, <1>2, DownloadLater
  <2> QED BY <1>2, <2>2, <2>4, DnStays
<1>8. DownloadsKeepEdits'
  BY <1>2 DEF DownloadsKeepEdits
<1> QED BY <1>3, <1>4, <1>5, <1>6, <1>7, <1>8

----------------------------------------------------------------------------
(* Steps at the server. *)

\* A file at the server stays as it was, and its revisions are kept.
LEMMA ItemStays ==
  ASSUME SrvFits, GhostLater, NEW i \in DOMAIN srv
  PROVE  DOMAIN srv[i] = SrvFields /\ srv[i].revs \subseteq ghost'.kept \cup {0}
BY DEF SrvFits, GhostLater

\* What is to be shown of the server after a step.
LEMMA SrvFitsAt ==
  ASSUME \A i \in DOMAIN srv' : /\ DOMAIN srv'[i] = SrvFields
                                /\ srv'[i].revs \subseteq ghost'.kept \cup {0}
  PROVE  SrvFits'
BY DEF SrvFits

\* A file or a folder is deleted at the server.
LEMMA SrvDeleteFits ==
  ASSUME SrvFits, GhostLater, NEW i, SrvDelete(i) PROVE SrvFits'
<1>1. PICK S : srv' = Without(srv, S)
  BY DEF SrvDelete
<1>2. DOMAIN srv' \subseteq DOMAIN srv /\ \A j \in DOMAIN srv' : srv'[j] = srv[j]
  BY <1>1 DEF Without, Restrict
<1> QED BY <1>2, ItemStays, SrvFitsAt

\* One is moved there.
LEMMA SrvMoveFits ==
  ASSUME SrvFits, GhostLater, NEW i, NEW d, NEW name, SrvMove(i, d, name) PROVE SrvFits'
<1> DEFINE g == Without(srv, Child(d, name) \ {i})
<1>1. DOMAIN g \subseteq DOMAIN srv /\ \A j \in DOMAIN g : g[j] = srv[j]
  BY DEF Without, Restrict
<1>2. srv' = [g EXCEPT ![i].dir = d, ![i].name = name]
  BY DEF SrvMove
<1> HIDE DEF g
<1>3. DOMAIN srv' = DOMAIN g /\ \A j \in DOMAIN g \ {i} : srv'[j] = g[j]
  BY <1>2
<1>4. ASSUME i \in DOMAIN g
      PROVE  DOMAIN srv'[i] = SrvFields /\ srv'[i].revs = g[i].revs
  <2>1. srv'[i] = [[g[i] EXCEPT !.dir = d] EXCEPT !.name = name]
    BY <1>2, <1>4
  <2>2. DOMAIN g[i] = SrvFields
    BY <1>1, <1>4 DEF SrvFits
  <2> QED BY <2>1, <2>2 DEF SrvFields
<1>5. \A j \in DOMAIN srv' : /\ DOMAIN srv'[j] = SrvFields
                             /\ srv'[j].revs \subseteq ghost'.kept \cup {0}
  BY <1>1, <1>3, <1>4, ItemStays
<1> QED BY <1>5, SrvFitsAt

\* One is made there.
LEMMA SrvCreateFits ==
  ASSUME SrvFits, GhostLater, NEW i, NEW kind, NEW d, NEW name, NEW c,
         SrvCreate(i, kind, d, name, c), c \in ghost'.kept \cup {0}
  PROVE  SrvFits'
<1> DEFINE x == [kind |-> kind, dir |-> d, name |-> name, c |-> c, revs |-> {c}]
<1>1. DOMAIN x = SrvFields /\ x.revs = {c}
  BY DEF SrvFields
<1>2. srv' = Plus(srv, i, x)
  BY DEF SrvCreate
<1> HIDE DEF x
<1>3. DOMAIN srv' = DOMAIN srv \cup {i} /\ srv'[i] = x
      /\ \A j \in DOMAIN srv \ {i} : srv'[j] = srv[j]
  BY <1>2 DEF Plus
<1>4. \A j \in DOMAIN srv' : /\ DOMAIN srv'[j] = SrvFields
                             /\ srv'[j].revs \subseteq ghost'.kept \cup {0}
  BY <1>1, <1>3, ItemStays
<1> QED BY <1>4, SrvFitsAt

\* A file gets a new version there.
LEMMA SrvSaveFits ==
  ASSUME SrvFits, GhostLater, NEW i, NEW c, SrvSave(i, c), c \in ghost'.kept \cup {0}
  PROVE  SrvFits'
<1>1. srv' = [srv EXCEPT ![i].c = c, ![i].revs = @ \cup {c}]
  BY DEF SrvSave
<1>2. DOMAIN srv' = DOMAIN srv /\ \A j \in DOMAIN srv \ {i} : srv'[j] = srv[j]
  BY <1>1
<1>3. ASSUME i \in DOMAIN srv
      PROVE  DOMAIN srv'[i] = SrvFields /\ srv'[i].revs = srv[i].revs \cup {c}
  <2>1. DOMAIN srv[i] = SrvFields
    BY <1>3 DEF SrvFits
  <2> DEFINE y == [srv[i] EXCEPT !.c = c]
  <2>2. DOMAIN y = SrvFields /\ y.revs = srv[i].revs
    BY <2>1 DEF SrvFields
  <2>3. srv'[i] = [y EXCEPT !.revs = @ \cup {c}]
    BY <1>1, <1>3
  <2> HIDE DEF y
  <2> QED BY <2>2, <2>3 DEF SrvFields
<1>4. \A j \in DOMAIN srv' : /\ DOMAIN srv'[j] = SrvFields
                             /\ srv'[j].revs \subseteq ghost'.kept \cup {0}
  BY <1>2, <1>3, ItemStays
<1> QED BY <1>4, SrvFitsAt

\* A step at the server: what is new there is kept.
Served == /\ GhostLater /\ disk' = disk /\ user' = user /\ dn' = dn
          /\ ghost'.inode = ghost.inode /\ ghost'.seen = ghost.seen
          /\ ghost'.gone = ghost.gone

\* Such a step keeps the invariant when the revisions at the server are kept.
LEMMA ServedStep == IInv /\ Served /\ SrvFits' => IInv'
<1> SUFFICES ASSUME IInv, Served, SrvFits' PROVE IInv'
  OBVIOUS
<1> USE DEF IInv, Served
<1>1. GhostFits'
  BY GhostStays
<1>2. UserFits'
  BY UserStays
<1>3. DiskFits'
  BY DEF DiskFits
<1>4. DnFits'
  BY DnMain
<1>5. DownloadsKeepEdits'
  BY DEF DownloadsKeepEdits
<1> QED BY <1>1, <1>2, <1>3, <1>4, <1>5

\* A step at the server may add nothing to what happened,
LEMMA QuietServed ==
  ASSUME GhostFits, Quiet, disk' = disk, user' = user, dn' = dn PROVE Served
BY QuietLater DEF Served

\* or an id and a version that is kept.
LEMMA IdServed ==
  ASSUME GhostFits, NEW i, NEW k, NEW s, ghost' = [ghost EXCEPT !.id = i, !.kept = k, !.known = s],
         ghost.kept \subseteq k, disk' = disk, user' = user, dn' = dn
  PROVE  Served /\ ghost'.kept = k
<1>1. DOMAIN ghost' = GhostFields
  BY DEF GhostFits
<1>2. \A x \in GhostFields \ {"id", "kept", "known"} : ghost'[x] = ghost[x]
  BY DEF GhostFits
<1>3. ghost'.kept = k
  BY DEF GhostFits, GhostFields
<1>4. /\ ghost'.inode = ghost.inode /\ ghost'.seen = ghost.seen
      /\ ghost'.gone = ghost.gone /\ ghost'.unsure = ghost.unsure
  BY <1>2 DEF GhostFields
<1> QED BY <1>1, <1>3, <1>4 DEF Served, GhostLater, GhostFits

\* A folder is made at the server.
LEMMA UpMkdirStep == ASSUME IInv, NEW t, UpMkdir(t) PROVE IInv'
<1> USE DEF IInv
<1>1. disk' = disk /\ user' = user /\ dn' = dn
  BY DEF UpMkdir
<1>2. CASE srv' = srv /\ ghost' = ghost
  BY <1>1, <1>2, QuietServed, ServedStep, SrvStays DEF Quiet, Served
<1>3. ASSUME NEW d, NEW s, SrvCreate(NewId, "folder", d, db.task[t].name, 0),
             ghost' = [ghost EXCEPT !.id = NewId, !.known = s]
      PROVE  IInv'
  <2>1. ghost' = [ghost EXCEPT !.id = NewId, !.kept = @, !.known = s]
    BY <1>3 DEF GhostFits
  <2>2. Served
    BY <1>1, <2>1, IdServed
  <2>3. SrvFits'
    BY <1>3, <2>2, SrvCreateFits DEF Served
  <2> QED BY <2>2, <2>3, ServedStep
<1>4. \/ srv' = srv /\ ghost' = ghost
      \/ \E d, s : SrvCreate(NewId, "folder", d, db.task[t].name, 0)
                   /\ ghost' = [ghost EXCEPT !.id = NewId, !.known = s]
  BY Zenon DEF UpMkdir
<1> QED BY <1>2, <1>3, <1>4

\* A file is moved at the server, or the server refuses.
LEMMA UpMoveStep == ASSUME IInv, NEW t, UpMove(t) PROVE IInv'
<1> USE DEF IInv
<1>1. disk' = disk /\ user' = user /\ dn' = dn
  BY DEF UpMove
<1>2. Quiet /\ (srv' = srv \/ \E i, d, name : SrvMove(i, d, name))
  BY KnownIsQuiet DEF UpMove, Quiet
<1>3. Served
  BY <1>1, <1>2, QuietServed
<1>4. SrvFits'
  BY <1>2, <1>3, SrvStays, SrvMoveFits DEF Served
<1> QED BY <1>3, <1>4, ServedStep

\* A folder is moved there.
LEMMA UpMvdirStep == ASSUME IInv, NEW t, UpMvdir(t) PROVE IInv'
<1> USE DEF IInv
<1>1. disk' = disk /\ user' = user /\ dn' = dn /\ Quiet
  BY DEF UpMvdir, Quiet
<1>2. srv' = srv \/ \E i, d, name : SrvMove(i, d, name)
  BY DEF UpMvdir
<1>3. Served
  BY <1>1, QuietServed
<1>4. SrvFits'
  BY <1>2, <1>3, SrvStays, SrvMoveFits DEF Served
<1> QED BY <1>3, <1>4, ServedStep

\* A file or a folder is deleted there.
LEMMA UpDeleteStep == ASSUME IInv, NEW t, UpDelete(t) PROVE IInv'
<1> USE DEF IInv
<1>1. disk' = disk /\ user' = user /\ dn' = dn /\ Quiet
  BY DEF UpDelete, Quiet
<1>2. srv' = srv \/ \E i : SrvDelete(i)
  BY DEF UpDelete
<1>3. Served
  BY <1>1, QuietServed
<1>4. SrvFits'
  BY <1>2, <1>3, SrvStays, SrvDeleteFits DEF Served
<1> QED BY <1>3, <1>4, ServedStep

\* A file is sent: the version is kept at the server before anything else happens.
LEMMA UpSendStep == ASSUME IInv, NEW u, UpSend(u) PROVE IInv'
<1> USE DEF IInv
<1>1. disk' = disk /\ user' = user /\ dn' = dn
  BY DEF UpSend
<1>2. ASSUME NEW c, NEW i, NEW o, SrvSave(i, c),
             ghost' = [ghost EXCEPT !.over = o, !.kept = @ \cup {c}]
      PROVE  IInv'
  <2>1. DOMAIN ghost' = GhostFields /\ ghost'.kept = ghost.kept \cup {c}
    BY <1>2 DEF GhostFits, GhostFields
  <2>2. \A x \in GhostFields \ {"over", "kept"} : ghost'[x] = ghost[x]
    BY <1>2 DEF GhostFits
  <2>3. /\ ghost'.inode = ghost.inode /\ ghost'.seen = ghost.seen
        /\ ghost'.gone = ghost.gone /\ ghost'.unsure = ghost.unsure
    BY <2>2 DEF GhostFields
  <2>4. Served
    BY <1>1, <2>1, <2>3 DEF Served, GhostLater, GhostFits
  <2>5. SrvFits'
    BY <1>2, <2>1, <2>4, SrvSaveFits DEF Served
  <2> QED BY <2>4, <2>5, ServedStep
<1>3. ASSUME NEW c, NEW name, NEW s, SrvCreate(NewId, "file", u.to, name, c),
             ghost' = [ghost EXCEPT !.id = NewId, !.kept = @ \cup {c}, !.known = s]
      PROVE  IInv'
  <2>1. Served /\ ghost'.kept = ghost.kept \cup {c}
    BY <1>1, <1>3, IdServed
  <2>2. SrvFits'
    BY <1>3, <2>1, SrvCreateFits DEF Served
  <2> QED BY <2>1, <2>2, ServedStep
<1>4. \/ \E c, i, o : SrvSave(i, c) /\ ghost' = [ghost EXCEPT !.over = o, !.kept = @ \cup {c}]
      \/ \E c, name, s :
           SrvCreate(NewId, "file", u.to, name, c)
           /\ ghost' = [ghost EXCEPT !.id = NewId, !.kept = @ \cup {c}, !.known = s]
  BY ZenonT(60) DEF UpSend
<1> QED BY <1>2, <1>3, <1>4

----------------------------------------------------------------------------
(* The users. *)

\* The inodes up to the greatest.
LEMMA FitsTop ==
  ASSUME NEW f, NEW m \in Nat, NEW n \in Nat, n <= m, NEW seen, TreeFits(f, m, seen)
  PROVE  /\ TreeFits(f, Top(DOMAIN f \cup {n}), seen)
         /\ Top(DOMAIN f \cup {n}) \in Nat /\ n <= Top(DOMAIN f \cup {n})
<1> DEFINE S == DOMAIN f \cup {n}
           t == Top(S)
<1>1. S \subseteq 0..m /\ n \in S /\ DOMAIN f \subseteq S
  BY DEF TreeFits
<1> HIDE DEF S
<1>2. t \in S \cup {0} /\ \A x \in S : x <= t
  BY <1>1, TopIs
<1> HIDE DEF t
<1>3. t \in Nat /\ n <= t
  BY <1>1, <1>2
<1>4. DOMAIN f \subseteq 1..t
  BY <1>1, <1>2, <1>3 DEF TreeFits
<1>5. TreeFits(f, t, seen)
  BY <1>4 DEF TreeFits
<1> QED BY <1>3, <1>5 DEF t, S

\* What has a name in a folder, if anything has.
LEMMA ChosenIs ==
  ASSUME DiskFits, NEW d, NEW name
  PROVE  /\ Chosen(At(d, name)) = 0 => \A j \in DOMAIN disk : ~(disk[j].dir = d /\ disk[j].name = name)
         /\ Chosen(At(d, name)) # 0 => Chosen(At(d, name)) \in At(d, name)
<1> DEFINE S == At(d, name)
<1>1. S = {j \in DOMAIN disk : disk[j].dir = d /\ disk[j].name = name}
  BY DEF At, In
<1>2. 0 \notin S
  BY <1>1 DEF DiskFits, TreeFits
<1> HIDE DEF S
<1>3. S # {} => Chosen(S) \in S
  BY DEF Chosen
<1>4. S = {} => Chosen(S) = 0
  BY DEF Chosen
<1>5. (Chosen(S) = 0 => S = {}) /\ (Chosen(S) # 0 => Chosen(S) \in S)
  BY <1>2, <1>3, <1>4
<1> QED BY <1>1, <1>5 DEF S

\* What the user here does leaves a tree, whose versions have all been here.
LEMMA HereChangesFits ==
  ASSUME GhostFits, DiskFits, NEW o, HereChanges(o),
         o.op \in {"edit", "create"} => o.c # 0
  PROVE  \E m \in Nat : ghost.inode <= m /\ TreeFits(disk', m, ghost.seen \cup {o.c})
<1> DEFINE n == ghost.inode
           seen == ghost.seen \cup {o.c}
<1>0. n \in Nat /\ n + 1 \in Nat /\ n <= n /\ n <= n + 1
  BY DEF GhostFits
<1>1. TreeFits(disk, n, seen)
  BY <1>0, FitsLater DEF DiskFits
<1> PICK d, i : i = Chosen(At(d, o.name)) /\
      CASE o.op = "edit" /\ i # 0 /\ disk[i].kind = "file" -> disk' = [disk EXCEPT ![i].c = o.c]
        [] o.op \in {"create", "mkdir"} /\ d # None /\ i = 0 ->
             disk' = Plus(disk, NewInode, Item(IF o.op = "mkdir" THEN "folder" ELSE "file",
                                               d, o.name, o.c))
        [] o.op = "delete" /\ i # 0 -> disk' = Without(disk, {i} \cup In(i))
        [] o.op = "move" /\ i # 0 /\ Walk(o.to) # None /\ At(Walk(o.to), o.as) = {} ->
             disk' = Renamed(i, Walk(o.to), o.as)
        [] OTHER -> UNCHANGED disk
  BY Zenon DEF HereChanges
<1>2. \/ o.op = "edit" /\ i # 0 /\ disk[i].kind = "file" /\ disk' = [disk EXCEPT ![i].c = o.c]
      \/ o.op \in {"create", "mkdir"} /\ d # None /\ i = 0 /\
             disk' = Plus(disk, NewInode, Item(IF o.op = "mkdir" THEN "folder" ELSE "file",
                                               d, o.name, o.c))
      \/ \E S : disk' = Without(disk, S)
      \/ \E to, as : disk' = Renamed(i, to, as)
      \/ disk' = disk
  BY Zenon
<1>3. CASE o.op = "edit" /\ i # 0 /\ disk[i].kind = "file" /\ disk' = [disk EXCEPT ![i].c = o.c]
  <2>1. i \in DOMAIN disk
    <3>1. i \in At(d, o.name)
      BY <1>3, ChosenIs
    <3> QED BY <3>1 DEF At, In
  <2>2. o.c \in seen /\ o.c # 0
    BY <1>3
  <2>3. TreeFits([disk EXCEPT ![i].c = o.c], n, seen)
    <3> HIDE DEF seen, n
    <3> QED BY <1>1, <2>1, <2>2, FitsEdit
  <2> QED BY <1>0, <1>3, <2>3
<1>4. CASE o.op \in {"create", "mkdir"} /\ d # None /\ i = 0 /\
             disk' = Plus(disk, NewInode, Item(IF o.op = "mkdir" THEN "folder" ELSE "file",
                                               d, o.name, o.c))
  <2> DEFINE kind == IF o.op = "mkdir" THEN "folder" ELSE "file"
  <2>1. \A j \in DOMAIN disk : ~(disk[j].dir = d /\ disk[j].name = o.name)
    BY <1>4, ChosenIs
  <2>2. kind = "file" => o.c # 0 /\ o.c \in seen
    BY <1>4
  <2>3. NewInode = n + 1
    BY NewInodeIs
  <2>4. disk' = Plus(disk, n + 1, Item(kind, d, o.name, o.c))
    BY <1>4, <2>3
  <2> HIDE DEF kind, seen, n
  <2>5. TreeFits(Plus(disk, n + 1, Item(kind, d, o.name, o.c)), n + 1, seen)
    BY <1>0, <1>1, <2>1, <2>2, FitsPlus
  <2>6. TreeFits(disk', n + 1, seen)
    BY <2>4, <2>5
  <2> QED BY <1>0, <2>6 DEF n, seen
<1>5. CASE \E S : disk' = Without(disk, S)
  <2>0. PICK S : disk' = Without(disk, S)
    BY <1>5
  <2> HIDE DEF n, seen
  <2>1. TreeFits(disk', n, seen)
    BY <1>1, <2>0, FitsLess
  <2> QED BY <1>0, <2>1 DEF n, seen
<1>6. CASE \E to, as : disk' = Renamed(i, to, as)
  <2>0. PICK to, as : disk' = Moved(disk, i, to, as)
    BY <1>6 DEF Renamed
  <2> HIDE DEF n, seen
  <2>1. TreeFits(disk', n, seen)
    BY <1>1, <2>0, FitsMoved
  <2> QED BY <1>0, <2>1 DEF n, seen
<1>7. CASE disk' = disk
  BY <1>0, <1>1, <1>7
<1> QED BY <1>2, <1>3, <1>4, <1>5, <1>6, <1>7

\* The rest of what the user will do.
LEMMA RestIs ==
  ASSUME NEW s, s \in Seq(Range(s)), s # <<>>
  PROVE  /\ Head(s) \in Range(s) /\ Tail(s) \in Seq(Range(Tail(s)))
         /\ Range(Tail(s)) \subseteq Range(s)
<1>1. Len(s) \in Nat /\ DOMAIN s = 1..Len(s) /\ Len(s) > 0
  OBVIOUS
<1>2. Head(s) \in Range(s)
  BY <1>1 DEF Range
<1> DEFINE t == Tail(s)
<1>3. t \in Seq(Range(s)) /\ Len(t) = Len(s) - 1 /\ DOMAIN t = 1..Len(t)
  BY <1>1
<1>4. \A k \in DOMAIN t : t[k] \in Range(s)
  BY <1>3
<1>5. Len(t) \in Nat
  BY <1>1, <1>3
<1> HIDE DEF t
<1>6. \A k \in 1..Len(t) : t[k] \in Range(t)
  BY <1>3 DEF Range
<1>7. t \in Seq(Range(t))
  <2> DEFINE R == Range(t)
  <2>1. \A k \in 1..Len(t) : t[k] \in R
    BY <1>6
  <2> HIDE DEF R
  <2>2. t \in Seq(R)
    BY <1>3, <1>5, <2>1
  <2> QED BY <2>2 DEF R
<1>8. Range(t) \subseteq Range(s)
  BY <1>4 DEF Range
<1> QED BY <1>2, <1>7, <1>8 DEF t

\* The user here writes, makes, moves or deletes.
LEMMA UserHereStep == IInv /\ UserHere => IInv'
<1> SUFFICES ASSUME IInv, UserHere PROVE IInv'
  OBVIOUS
<1> USE DEF IInv
<1> DEFINE o == Head(user.here)
           t == Top(DOMAIN disk' \cup {ghost.inode})
<1>0. o \in Range(user.here) /\ Tail(user.here) \in Seq(Range(Tail(user.here)))
      /\ Range(Tail(user.here)) \subseteq Range(user.here)
  BY RestIs DEF UserFits, UserHere
<1>1. o.op \in {"edit", "create"} => o.c # 0
  BY <1>0 DEF UserFits
<1>2. PICK m \in Nat : ghost.inode <= m /\ TreeFits(disk', m, ghost.seen \cup {o.c})
  BY <1>1, HereChangesFits DEF UserHere
<1>3. TreeFits(disk', t, ghost.seen \cup {o.c}) /\ t \in Nat /\ ghost.inode <= t
  <2>1. ghost.inode \in Nat
    BY DEF GhostFits
  <2> QED BY <1>2, <2>1, FitsTop
<1>4. ghost' = [ghost EXCEPT !.inode = t, !.seen = @ \cup {o.c}]
  BY DEF UserHere
<1> HIDE DEF t
<1>5. DOMAIN ghost' = GhostFields /\ ghost'.inode = t /\ ghost'.seen = ghost.seen \cup {o.c}
  BY <1>4 DEF GhostFits, GhostFields
<1>6. ghost'.kept = ghost.kept /\ ghost'.unsure = ghost.unsure /\ ghost'.gone = ghost.gone
  BY <1>4 DEF GhostFits, GhostFields
<1> HIDE DEF o
<1>7. GhostLater
  BY <1>3, <1>5, <1>6 DEF GhostLater
<1>8. GhostFits'
  BY <1>7, GhostStays
<1>9. UserFits'
  <2>1. user' = [user EXCEPT !.here = Tail(@)]
    BY DEF UserHere, Acts
  <2>2. DOMAIN user' = DOMAIN user /\ user'.here = Tail(user.here)
    BY <2>1 DEF UserFits
  <2> QED BY <1>0, <2>2 DEF UserFits
<1>10. DiskFits'
  BY <1>3, <1>5 DEF DiskFits
<1>11. SrvFits'
  BY <1>7, SrvStays DEF UserHere
<1>12. DnFits'
  BY <1>7, DnMain DEF UserHere
<1>13. DownloadsKeepEdits'
  BY <1>6 DEF DownloadsKeepEdits
<1> QED BY <1>8, <1>9, <1>10, <1>11, <1>12, <1>13

\* The user at another computer does: what he writes is kept at the server.
LEMMA UserThereStep == IInv /\ UserThere => IInv'
<1> SUFFICES ASSUME IInv, UserThere PROVE IInv'
  OBVIOUS
<1> USE DEF IInv
<1> DEFINE o == Head(user.there)
           n == Top(DOMAIN srv' \cup {ghost.id})
<1>1. disk' = disk /\ dn' = dn /\ ThereChanges(o)
      /\ ghost' = [ghost EXCEPT !.id = n, !.kept = @ \cup {o.c}]
  BY DEF UserThere
<1> HIDE DEF o, n
<1>2. DOMAIN ghost' = GhostFields /\ ghost'.kept = ghost.kept \cup {o.c}
  BY <1>1 DEF GhostFits, GhostFields
<1>3. /\ ghost'.inode = ghost.inode /\ ghost'.seen = ghost.seen
      /\ ghost'.unsure = ghost.unsure /\ ghost'.gone = ghost.gone
  BY <1>1 DEF GhostFits, GhostFields
<1>4. GhostLater
  BY <1>2, <1>3 DEF GhostLater, GhostFits
<1>5. GhostFits'
  BY <1>4, GhostStays
<1>6. UserFits'
  <2>1. user' = [user EXCEPT !["there"] = Tail(@)]
    BY DEF UserThere, Acts
  <2> QED BY <2>1, UserUses
<1>7. DiskFits'
  BY <1>1, <1>3 DEF DiskFits
<1>8. SrvFits'
  <2>1. \/ SrvSave(o.item, o.c)
        \/ \E i, kind, d, name : SrvCreate(i, kind, d, name, o.c)
        \/ SrvDelete(o.item)
        \/ SrvMove(o.item, o.dir, o.name)
        \/ srv' = srv
    BY <1>1, Zenon DEF ThereChanges
  <2>2. o.c \in ghost'.kept \cup {0}
    BY <1>2
  <2> QED BY <1>4, <2>1, <2>2, SrvSaveFits, SrvCreateFits, SrvDeleteFits, SrvMoveFits, SrvStays
<1>9. DnFits'
  BY <1>1, <1>4, DnMain
<1>10. DownloadsKeepEdits'
  BY <1>3 DEF DownloadsKeepEdits
<1> QED BY <1>5, <1>6, <1>7, <1>8, <1>9, <1>10

----------------------------------------------------------------------------
(* One download. *)

\* A step of a download, and what there was before it.
LEMMA DownloadMoves ==
  ASSUME NEW d, DownloadFits(d), NEW at, at \notin {"got", "aside", "unrow", "place"}
  PROVE  DownloadFits([d EXCEPT !.at = at])
BY DEF DownloadFits, DnFields

\* A download that lets the scanner go on.
LEMMA DownloadLetsGo ==
  ASSUME NEW d, DownloadFits(d), NEW at, at \notin {"got", "aside", "unrow", "place"}
  PROVE  DownloadFits([d EXCEPT !.at = at, !.scanless = FALSE])
BY DEF DownloadFits, DnFields

\* A step that changes the disk or what happened.
LEMMA DiskStep ==
  ASSUME IInv, GhostLater, TreeFits(disk', ghost'.inode, ghost'.seen), srv' = srv,
         user' = user, DnFits', DownloadsKeepEdits'
  PROVE  IInv'
<1>1. GhostFits' /\ UserFits' /\ SrvFits'
  BY GhostStays, UserStays, SrvStays DEF IInv
<1> QED BY <1>1 DEF IInv, DiskFits

\* A step of a download that leaves the disk alone.
LEMMA PutStep ==
  ASSUME IInv, Quiet, disk' = disk, srv' = srv, NEW f, NEW v, f # "here",
         user' = user \/ user' = [user EXCEPT ![f] = v],
         NEW d, NEW w, Put(d, w), DownloadFits(w)
  PROVE  IInv'
<1> USE DEF IInv
<1>1. GhostLater /\ ghost'.inode = ghost.inode /\ ghost'.seen = ghost.seen
      /\ ghost'.gone = ghost.gone
  BY QuietLater
<1>2. GhostFits'
  BY <1>1, GhostStays
<1>3. UserFits'
  BY UserStays, UserUses
<1>4. DiskFits'
  BY <1>1 DEF DiskFits
<1>5. SrvFits'
  BY <1>1, SrvStays
<1>6. DnFits'
  <2>1. DownloadFits(w)'
    BY <1>1, DownloadLater
  <2> QED BY <1>1, <2>1, DnPut
<1>7. DownloadsKeepEdits'
  BY <1>1 DEF DownloadsKeepEdits
<1> QED BY <1>2, <1>3, <1>4, <1>5, <1>6, <1>7

\* A download begins.
LEMMA DnStartStep == ASSUME IInv, NEW t, DnStart(t) PROVE IInv'
<1> USE DEF IInv
<1>1. Quiet /\ disk' = disk /\ srv' = srv /\ user' = user
  BY DEF DnStart, Quiet
<1>2. CASE dn' = dn
  BY <1>1, <1>2, StillStep DEF Still
<1>3. CASE dn' = [dn EXCEPT !.run = @ \cup {Download(t)}]
  <2>1. DownloadFits(Download(t))
    BY DEF DownloadFits, Download, DnFields
  <2> DEFINE w == Download(t)
  <2> HIDE DEF w
  <2>2. dn' = [dn EXCEPT !.run = (@ \ {w}) \cup {w}]
    <3>1. \A S : S \cup {w} = (S \ {w}) \cup {w}
      OBVIOUS
    <3> QED BY <1>3, <3>1 DEF w
  <2>3. Put(w, w)
    BY <2>2 DEF Put
  <2>4. DownloadFits(w)
    BY <2>1 DEF w
  <2>5. "faults" # "here"
    OBVIOUS
  <2> QED BY <1>1, <2>3, <2>4, <2>5, PutStep
<1> QED BY <1>2, <1>3 DEF DnStart

\* It asks the server.
LEMMA DnGetStep == ASSUME IInv, NEW d \in dn.run, DnGet(d) PROVE IInv'
<1> USE DEF IInv
<1>1. Quiet /\ disk' = disk /\ srv' = srv /\ user' = user /\ DownloadFits(d) /\ "faults" # "here"
  BY DEF DnGet, Quiet, DnFits
<1>2. \/ Next_(d, "done")
      \/ \E c : c # 0 /\ Put(d, [d EXCEPT !.at = IF d.local = c THEN "row" ELSE "got", !.c = c])
  BY DEF DnGet
<1>3. CASE Next_(d, "done")
  BY <1>1, <1>3, DownloadMoves, PutStep DEF Next_
<1>4. ASSUME NEW c, c # 0,
             Put(d, [d EXCEPT !.at = IF d.local = c THEN "row" ELSE "got", !.c = c])
      PROVE  IInv'
  <2> DEFINE w == [d EXCEPT !.at = IF d.local = c THEN "row" ELSE "got", !.c = c]
  <2>1. DOMAIN w = DnFields /\ w.at \in {"row", "got"} /\ w.c = c
    BY <1>1 DEF DownloadFits, DnFields
  <2> HIDE DEF w
  <2>2. DownloadFits(w)
    BY <1>4, <2>1 DEF DownloadFits
  <2>3. Put(d, w)
    BY <1>4 DEF w
  <2> QED BY <1>1, <2>2, <2>3, PutStep
<1> QED BY <1>2, <1>3, <1>4

\* Its connection breaks.
LEMMA DnFailsStep == ASSUME IInv, NEW d \in dn.run, DnFails(d) PROVE IInv'
<1> USE DEF IInv
<1>1. Quiet /\ disk' = disk /\ srv' = srv /\ "faults" # "here"
      /\ user' = [user EXCEPT !.faults = user.faults - 1]
  BY DEF DnFails, Quiet
<1>2. DownloadFits([d EXCEPT !.at = "failed"]) /\ Put(d, [d EXCEPT !.at = "failed"])
  BY DownloadMoves DEF DnFails, DnFits, Next_
<1> QED BY <1>1, <1>2, PutStep

\* It is told to stop.
LEMMA DnStoppedStep == ASSUME IInv, NEW d \in dn.run, DnStopped(d) PROVE IInv'
<1> USE DEF IInv
<1>1. Quiet /\ disk' = disk /\ srv' = srv /\ user' = user /\ DownloadFits(d) /\ "faults" # "here"
  BY DEF DnStopped, Quiet, DnFits
<1>2. PICK at \in {"failed", "done", "hung"} : Put(d, [d EXCEPT !.at = at])
  BY DEF DnStopped, Next_
<1>3. DownloadFits([d EXCEPT !.at = at])
  BY <1>1, DownloadMoves
<1> QED BY <1>1, <1>2, <1>3, PutStep

\* The row of what was put aside goes.
LEMMA DnUnrowStep == ASSUME IInv, NEW d \in dn.run, DnUnrow(d) PROVE IInv'
<1> USE DEF IInv
<1>1. Quiet /\ disk' = disk /\ srv' = srv /\ user' = user /\ DownloadFits(d) /\ "faults" # "here"
  BY DEF DnUnrow, Quiet, DnFits
<1>2. DownloadFits([d EXCEPT !.at = "place"]) /\ Put(d, [d EXCEPT !.at = "place"])
  BY <1>1 DEF DnUnrow, Next_, DownloadFits, DnFields, MayPlace
<1> QED BY <1>1, <1>2, PutStep

\* It ends.
LEMMA DnEndStep == ASSUME IInv, NEW d \in dn.run, DnEnd(d) PROVE IInv'
<1> USE DEF IInv
<1>1. Quiet /\ disk' = disk /\ srv' = srv /\ user' = user
  BY KnownIfIsQuiet DEF DnEnd
<1>2. GhostLater /\ ghost'.inode = ghost.inode /\ ghost'.seen = ghost.seen
      /\ ghost'.gone = ghost.gone
  BY <1>1, QuietLater
<1>3. TreeFits(disk', ghost'.inode, ghost'.seen)
  BY <1>1, <1>2 DEF DiskFits
<1>4. DnFits'
  <2>1. DOMAIN dn' = {"main", "run"} /\ dn'.run = dn.run \ {d}
    BY DEF DnEnd, DnFits
  <2> QED BY <1>2, <2>1, DnStays
<1>5. DownloadsKeepEdits'
  BY <1>2 DEF DownloadsKeepEdits
<1> QED BY <1>1, <1>2, <1>3, <1>4, <1>5, DiskStep

\* What is there is looked at: it may be replaced when the server has it, or
\* nobody can tell.
LEMMA DnLookStep == ASSUME IInv, NEW d \in dn.run, DnLook(d) PROVE IInv'
<1> USE DEF IInv
<1> DEFINE more == IF d.fid \in DOMAIN srv THEN {} ELSE {d.n}
<1>1. /\ disk' = disk /\ srv' = srv /\ user' = user /\ DownloadFits(d) /\ d.at = "got"
      /\ ghost' = [ghost EXCEPT !.unsure = @ \cup more]
  BY DEF DnLook, DnFits
<1> PICK c : Put(d, [d EXCEPT !.seen = c, !.scanless = TRUE,
                              !.at = IF MayReplace(d, c) THEN "place" ELSE "aside"])
  BY DEF DnLook
<1> PICK w : w = [d EXCEPT !.seen = c, !.scanless = TRUE,
                           !.at = IF MayReplace(d, c) THEN "place" ELSE "aside"]
  OBVIOUS
<1>2. /\ DOMAIN w = DnFields /\ w.seen = c /\ w.c = d.c /\ w.n = d.n /\ Put(d, w)
      /\ w.at = IF MayReplace(d, c) THEN "place" ELSE "aside"
  BY <1>1 DEF DownloadFits, DnFields
<1> HIDE DEF more
<1>3. DOMAIN ghost' = GhostFields /\ ghost'.unsure = ghost.unsure \cup more
  BY <1>1 DEF GhostFits, GhostFields
<1>4. \A x \in GhostFields \ {"unsure"} : ghost'[x] = ghost[x]
  BY <1>1 DEF GhostFits
<1>5. /\ ghost'.inode = ghost.inode /\ ghost'.seen = ghost.seen /\ ghost'.kept = ghost.kept
      /\ ghost'.gone = ghost.gone
  BY <1>4 DEF GhostFields
<1>6. GhostLater
  BY <1>3, <1>5 DEF GhostLater, GhostFits
<1>7. DownloadFits(w)'
  <2>1. d.c # 0
    BY <1>1 DEF DownloadFits
  <2>2. MayReplace(d, c) => c = 0 \/ c \in ghost'.kept \/ d.n \in ghost'.unsure
    BY <1>3, <1>5 DEF MayReplace, SrvFits, more
  <2> QED BY <1>2, <2>1, <2>2 DEF DownloadFits, MayPlace
<1>8. DnFits'
  BY <1>2, <1>6, <1>7, DnPut
<1>9. TreeFits(disk', ghost'.inode, ghost'.seen)
  BY <1>1, <1>5 DEF DiskFits
<1>10. DownloadsKeepEdits'
  BY <1>5 DEF DownloadsKeepEdits
<1> QED BY <1>1, <1>6, <1>8, <1>9, <1>10, DiskStep

----------------------------------------------------------------------------
(* A download and the disk. *)

\* What DnRenamed does with the row r, the task's row and the files there.
RowFollows(r, row, f) ==
    IF f = {} \/ r \notin DOMAIN db.lfile
    THEN db' = DropTask(db, dn.main.id) /\ UNCHANGED ghost
    ELSE /\ db' = [DropTask(db, dn.main.id) EXCEPT
                     !.lfile = [Without(@, FileAt(db, row.to, row.name) \ {r}) EXCEPT
                                  ![r].dir = row.to, ![r].name = row.name,
                                  ![r].ino = Chosen(f), ![r].m = disk[Chosen(f)].c]]
         /\ KnownIf(disk[Chosen(f)].c # db.lfile[r].m, "clean")

\* The thread's step is one of these.
LEMMA DnRenamedIs == DnRenamed => \E r, row, f : RowFollows(r, row, f)
<1> SUFFICES ASSUME DnRenamed PROVE \E r, row, f : RowFollows(r, row, f)
  OBVIOUS
<1>1. \E row \in {Head(dn.main.meta)} : \E r \in {dn.main.meta[2]} :
      \E f \in {IF HasPath(db, row.to) THEN FileOn(PathOf(db, row.to), row.name) ELSE {}} :
         RowFollows(r, row, f)
  BY Zenon DEF DnRenamed, RowFollows
<1> QED BY Zenon, <1>1

\* The steps of the download thread that only write the tables.
LEMMA MainStill ==
  /\ (DnMade => Still) /\ (DnRemoved => Still) /\ (DnDeleted => Still)
  /\ (DnRenamed => Still)
<1>1. DnMade => Still
  BY KnownIfIsQuiet DEF DnMade, Still, Rests
<1>2. DnRemoved => Still
  BY KnownIfIsQuiet DEF DnRemoved, Still, Rests
<1>3. DnDeleted => Still
  BY KnownIfIsQuiet DEF DnDeleted, Still, Rests
<1>4. DnRenamed => Still
  <2> SUFFICES ASSUME DnRenamed PROVE Still
    OBVIOUS
  <2>1. PICK r, row, f : RowFollows(r, row, f)
    BY DnRenamedIs, Zenon
  <2>2. \/ UNCHANGED ghost
        \/ KnownIf(disk[Chosen(f)].c # db.lfile[r].m, "clean")
    BY <2>1, Zenon DEF RowFollows
  <2>3. Quiet
    BY <2>2, KnownIfIsQuiet, Zenon DEF Quiet
  <2> QED BY <2>3 DEF DnRenamed, Still, Rests
<1> QED BY <1>1, <1>2, <1>3, <1>4

\* And so does one that waits for the downloads.
LEMMA DnWaitsStill == ASSUME NEW t, DnWaits(t) PROVE Still
BY DEF DnWaits, Step, Still, Quiet

\* Emptied removes folders.
LEMMA FitsEmptied ==
  ASSUME NEW f, NEW n, NEW seen, TreeFits(f, n, seen), NEW d
  PROVE  TreeFits(Emptied(f, d), n, seen)
<1>1. PICK S : Emptied(f, d) = Without(f, S)
  BY DEF Emptied
<1>2. TreeFits(Without(f, S), n, seen)
  BY FitsLess
<1> QED BY <1>1, <1>2

\* What is there is put aside.
LEMMA DnAsideStep == ASSUME IInv, NEW d \in dn.run, DnAside(d) PROVE IInv'
<1> USE DEF IInv
<1>1. Quiet /\ ghost' = ghost /\ srv' = srv /\ user' = user /\ DownloadFits(d) /\ d.at = "aside"
  BY DEF DnAside, Quiet, DnFits
<1>2. GhostLater
  BY <1>1, QuietLater
<1>3. \/ disk' = disk /\ Put(d, [d EXCEPT !.at = "failed", !.scanless = FALSE])
      \/ /\ \E i, dir, name : disk' = Moved(disk, i, dir, name)
         /\ Put(d, [d EXCEPT !.at = "unrow", !.seen = 0])
  BY DEF DnAside, Renamed
<1>4. TreeFits(disk', ghost'.inode, ghost'.seen)
  BY <1>1, <1>3, FitsMoved DEF DiskFits
<1>5. DownloadsKeepEdits'
  BY <1>1 DEF DownloadsKeepEdits
<1>6. DnFits'
  <2>1. DownloadFits([d EXCEPT !.at = "failed", !.scanless = FALSE])
    BY <1>1, DownloadLetsGo
  <2>2. DownloadFits([d EXCEPT !.at = "unrow", !.seen = 0])
    BY <1>1 DEF DownloadFits, DnFields, MayPlace
  <2>3. PICK w : Put(d, w) /\ DownloadFits(w)
    BY <1>3, <2>1, <2>2
  <2>4. DownloadFits(w)'
    BY <1>2, <2>3, DownloadLater
  <2> QED BY <1>2, <2>3, <2>4, DnPut
<1> QED BY <1>1, <1>2, <1>4, <1>5, <1>6, DiskStep

\* The file that came takes the place of what is there, and what is there is what
\* was looked at, or its loss has another name.
LEMMA DnPlaceStep == ASSUME IInv, NEW d \in dn.run, DnPlace(d) PROVE IInv'
<1> USE DEF IInv
<1>1. srv' = srv /\ user' = user /\ DownloadFits(d) /\ d.at = "place" /\ d.c # 0 /\ MayPlace(d)
  BY DEF DnPlace, DnFits, DownloadFits
<1>2. ASSUME disk' = disk, ghost' = ghost,
             Put(d, [d EXCEPT !.at = "failed", !.scanless = FALSE])
      PROVE  IInv'
  <2>1. DownloadFits([d EXCEPT !.at = "failed", !.scanless = FALSE])
    BY <1>1, DownloadLetsGo
  <2> QED BY <1>1, <1>2, <2>1, PutStep DEF Quiet
<1>3. ASSUME NEW dir, NEW there, there = At(dir, d.name), dir = Walk(d.path),
             \A i \in there : disk[i].kind # "folder",
             disk' = Plus(Without(disk, there), NewInode, Item("file", dir, d.name, d.c)),
             ghost' = [Lost(Gone(there, IF ContentAt(d.path, d.name) # d.seen THEN "window"
                             ELSE IF d.n \in ghost.unsure THEN "unsure"
                             ELSE "download")) EXCEPT !.inode = NewInode, !.seen = @ \cup {d.c}],
             Next_(d, "row")
      PROVE  IInv'
  <2> DEFINE by == IF ContentAt(d.path, d.name) # d.seen THEN "window"
                   ELSE IF d.n \in ghost.unsure THEN "unsure" ELSE "download"
             g == Gone(there, by)
             n == ghost.inode
             seen == ghost.seen \cup {d.c}
  <2>1. NewInode = n + 1 /\ n \in Nat /\ n + 1 \in Nat /\ n <= n + 1
    BY NewInodeIs DEF GhostFits
  <2>2. \A x \in g : x.by # "download"
    <3> SUFFICES ASSUME by = "download", NEW x \in g PROVE FALSE
      BY DEF Gone
    <3>1. PICK j \in there : disk[j].kind = "file" /\ disk[j].c \notin ghost.kept
      BY DEF Gone
    <3>2. j \in DOMAIN disk /\ disk[j].dir = dir /\ disk[j].name = d.name
      BY <1>3 DEF At, In
    <3>3. FileOn(d.path, d.name) = {j}
      <4>1. \A i \in FileOn(d.path, d.name) : i = j
        BY <1>3, <3>2 DEF FileOn, At, In, DiskFits, TreeFits
      <4>2. j \in FileOn(d.path, d.name)
        BY <1>3, <3>1 DEF FileOn
      <4> QED BY <4>1, <4>2
    <3>4. ContentAt(d.path, d.name) = disk[j].c
      BY <3>3 DEF ContentAt, Chosen
    <3>5. d.seen = disk[j].c /\ d.n \notin ghost.unsure
      BY <3>4
    <3>6. disk[j].c # 0
      BY <3>1, <3>2 DEF DiskFits, TreeFits
    <3> QED BY <1>1, <3>1, <3>5, <3>6 DEF MayPlace
  <2> HIDE DEF by
  <2> DEFINE gh == [Lost(g) EXCEPT !.inode = NewInode]
  <2>3. ghost' = [gh EXCEPT !.seen = @ \cup {d.c}]
    BY <1>3 DEF by
  <2>4. DOMAIN Lost(g) = GhostFields /\ Lost(g).gone = ghost.gone \cup g
        /\ Lost(g).seen = ghost.seen /\ Lost(g).kept = ghost.kept /\ Lost(g).unsure = ghost.unsure
    <3> HIDE DEF g
    <3> QED BY DEF GhostFits, Lost, GhostFields
  <2>5. DOMAIN gh = GhostFields /\ gh.gone = ghost.gone \cup g /\ gh.inode = NewInode
        /\ gh.seen = ghost.seen /\ gh.kept = ghost.kept /\ gh.unsure = ghost.unsure
    BY <2>4 DEF GhostFields
  <2> HIDE DEF gh
  <2>6. /\ DOMAIN ghost' = GhostFields /\ ghost'.gone = ghost.gone \cup g /\ ghost'.inode = n + 1
        /\ ghost'.seen = seen /\ ghost'.kept = ghost.kept /\ ghost'.unsure = ghost.unsure
    BY <2>1, <2>3, <2>5 DEF GhostFields
  <2> HIDE DEF g
  <2>7. GhostLater
    BY <2>1, <2>6 DEF GhostLater
  <2>8. DownloadsKeepEdits'
    BY <2>2, <2>6, KeepsEdits
  <2>9. TreeFits(disk', n + 1, seen)
    <3> DEFINE f == Without(disk, there)
    <3>0. TreeFits(disk, n, ghost.seen)
      BY DEF DiskFits
    <3>1. TreeFits(f, n, ghost.seen) /\ DOMAIN f = DOMAIN disk \ there
          /\ \A i \in DOMAIN f : f[i] = disk[i]
      <4> HIDE DEF n
      <4>1. TreeFits(Without(disk, there), n, ghost.seen)
        BY <3>0, FitsLess
      <4> QED BY <4>1 DEF Without, Restrict
    <3>2. \A i \in DOMAIN f : ~(f[i].dir = dir /\ f[i].name = d.name)
      BY <1>3, <3>1 DEF At, In
    <3> HIDE DEF f
    <3>3. n <= n
      BY <2>1
    <3>4. ghost.seen \subseteq seen /\ d.c \in seen
      OBVIOUS
    <3> HIDE DEF n, seen
    <3>5. TreeFits(f, n, seen)
      BY <2>1, <3>1, <3>3, <3>4, FitsLater
    <3>6. "file" = "file" => d.c # 0 /\ d.c \in seen
      BY <1>1, <3>4
    <3>7. TreeFits(Plus(f, n + 1, Item("file", dir, d.name, d.c)), n + 1, seen)
      BY <2>1, <3>2, <3>5, <3>6, FitsPlus
    <3>8. disk' = Plus(f, n + 1, Item("file", dir, d.name, d.c))
      BY <1>3, <2>1 DEF f
    <3> QED BY <3>7, <3>8
  <2>10. TreeFits(disk', ghost'.inode, ghost'.seen)
    BY <2>6, <2>9
  <2>11. DnFits'
    <3>1. PICK w : w = [d EXCEPT !.at = "row"] /\ Put(d, w)
      BY <1>3 DEF Next_
    <3>2. DownloadFits(w)
      BY <1>1, <3>1, DownloadMoves
    <3>3. DownloadFits(w)'
      BY <2>7, <3>2, DownloadLater
    <3> QED BY <2>7, <3>1, <3>3, DnPut
  <2> QED BY <1>1, <2>7, <2>8, <2>10, <2>11, DiskStep
<1> DEFINE Fails1 == /\ disk' = disk /\ ghost' = ghost
                     /\ Put(d, [d EXCEPT !.at = "failed", !.scanless = FALSE])
           Places(dir, there) ==
             /\ \A i \in there : disk[i].kind # "folder"
             /\ disk' = Plus(Without(disk, there), NewInode, Item("file", dir, d.name, d.c))
             /\ ghost' = [Lost(Gone(there, IF ContentAt(d.path, d.name) # d.seen THEN "window"
                               ELSE IF d.n \in ghost.unsure THEN "unsure"
                               ELSE "download")) EXCEPT !.inode = NewInode, !.seen = @ \cup {d.c}]
             /\ Next_(d, "row")
<1>4. \E dir \in {Walk(d.path)} : \E there \in {At(dir, d.name)} :
        Fails1 \/ Places(dir, there)
  BY ZenonT(60) DEF DnPlace
<1>5. Fails1 => IInv'
  BY <1>2
<1>6. ASSUME NEW dir, NEW there, there = At(dir, d.name), dir = Walk(d.path), Places(dir, there)
      PROVE  IInv'
  BY <1>3, <1>6, Zenon
<1> HIDE DEF Fails1, Places, IInv
<1> QED BY <1>4, <1>5, <1>6

\* The row is written; a file that is not wanted any more goes, under another name.
LEMMA DnRowStep == ASSUME IInv, NEW d \in dn.run, DnRow(d) PROVE IInv'
<1> USE DEF IInv
<1>1. srv' = srv /\ user' = user /\ DownloadFits(d) /\ "faults" # "here"
  BY DEF DnRow, DnFits
<1>2. PICK w : Put(d, w) /\ DownloadFits(w)
  <2>1. \E at \in {"failed", "done"} : Put(d, [d EXCEPT !.at = at, !.scanless = FALSE])
    BY DEF DnRow
  <2> QED BY <1>1, <2>1, DownloadLetsGo
<1>3. \/ disk' = disk /\ Quiet
      \/ \E f : disk' = Without(disk, f) /\ ghost' = Lost(Gone(f, "unwanted"))
  BY DEF DnRow, Quiet
<1>4. CASE disk' = disk /\ Quiet
  BY <1>1, <1>2, <1>4, PutStep
<1>5. ASSUME NEW f, disk' = Without(disk, f), ghost' = Lost(Gone(f, "unwanted"))
      PROVE  IInv'
  <2> DEFINE g == Gone(f, "unwanted")
  <2>1. \A x \in g : x.by # "download"
    BY GoneBy
  <2> HIDE DEF g
  <2>2. ghost' = Lost(g)
    BY <1>5 DEF g
  <2>3. GhostLater /\ ghost'.gone = ghost.gone \cup g
    BY <2>2, LostLater
  <2>4. DownloadsKeepEdits'
    BY <2>1, <2>3, KeepsEdits
  <2>5. TreeFits(disk, ghost'.inode, ghost'.seen)
    BY <2>3, FitsLater DEF DiskFits, GhostFits, GhostLater
  <2>6. TreeFits(disk', ghost'.inode, ghost'.seen)
    BY <1>5, <2>5, FitsLess
  <2>7. DownloadFits(w)'
    BY <1>2, <2>3, DownloadLater
  <2>8. DnFits'
    BY <1>2, <2>3, <2>7, DnPut
  <2> QED BY <1>1, <2>3, <2>4, <2>6, <2>8, DiskStep
<1> QED BY <1>3, <1>4, <1>5

----------------------------------------------------------------------------
(* The download thread and the disk. *)

\* The name a file is put aside under is not taken, and is not its own.
LEMMA AsideIsFree ==
  ASSUME DiskFits, GhostFits, NEW d, NEW name
  PROVE  At(d, Aside(d, name)) = {}
<1> DEFINE N == Cardinality(DOMAIN disk) + 1
           free == {k \in 1..N : At(d, <<name[1], k>>) = {}}
<1>1. IsFiniteSet(DOMAIN disk) /\ N \in Nat /\ IsFiniteSet(1..N)
      /\ Cardinality(DOMAIN disk) < Cardinality(1..N)
  <2>1. IsFiniteSet(1..ghost.inode) /\ DOMAIN disk \in SUBSET (1..ghost.inode)
    BY FS_Interval DEF DiskFits, GhostFits, TreeFits
  <2>2. IsFiniteSet(DOMAIN disk)
    BY <2>1, FS_Subset
  <2>3. Cardinality(DOMAIN disk) \in Nat
    BY <2>2, FS_CardinalityType
  <2>4. IsFiniteSet(1..N) /\ Cardinality(1..N) = N
    BY <2>3, FS_Interval
  <2> QED BY <2>2, <2>3, <2>4
<1>2. free # {}
  <2> SUFFICES ASSUME free = {} PROVE FALSE
    OBVIOUS
  <2> DEFINE f == [k \in 1..N |-> CHOOSE i \in At(d, <<name[1], k>>) : TRUE]
  <2>1. \A k \in 1..N : f[k] \in At(d, <<name[1], k>>)
    OBVIOUS
  <2>2. \A k \in 1..N : f[k] \in DOMAIN disk /\ disk[f[k]].name = <<name[1], k>>
    <3> HIDE DEF f
    <3> QED BY <2>1 DEF At, In
  <2>3. f \in [1..N -> DOMAIN disk]
    BY <2>2
  <2> HIDE DEF f, N
  <2>4. PICK x, y \in 1..N : x # y /\ f[x] = f[y]
    BY <1>1, <2>3, FS_PigeonHole
  <2>5. <<name[1], x>> = <<name[1], y>>
    BY <2>2, <2>4
  <2> QED BY <2>4, <2>5
<1>3. \E x \in free : \A y \in free : x <= y
  <2>1. \A x \in free : x \in Int /\ x >= 1
    BY <1>1
  <2> HIDE DEF free
  <2>2. PICK x \in free : \A y \in free : x <= y
    <3>1. 1 \in Int
      OBVIOUS
    <3> QED BY <1>2, <2>1, <3>1, Least
  <2> QED BY <2>2
<1>4. Min(free) \in free
  <2> HIDE DEF free
  <2> QED BY <1>3 DEF Min
<1>5. Aside(d, name) = <<name[1], Min(free)>>
  BY DEF Aside
<1> QED BY <1>4, <1>5

\* A step that changes the disk, and of the downloads at most where the thread is.
LEMMA TreeStep ==
  ASSUME IInv, GhostLater, TreeFits(disk', ghost'.inode, ghost'.seen), srv' = srv,
         user' = user, dn' = dn \/ \E v : dn' = [dn EXCEPT !.main = v], DownloadsKeepEdits'
  PROVE  IInv'
<1>1. DnFits'
  BY DnMain DEF IInv
<1> QED BY <1>1, DiskStep

\* A step that changes the disk, and takes from it what is said.
LEMMA LostStep ==
  ASSUME IInv, NEW g, ghost' = Lost(g), \A x \in g : x.by # "download",
         TreeFits(disk', ghost.inode, ghost.seen), srv' = srv,
         user' = user, dn' = dn \/ \E v : dn' = [dn EXCEPT !.main = v]
  PROVE  IInv'
<1>1. GhostLater /\ ghost'.gone = ghost.gone \cup g
  BY LostLater DEF IInv
<1>2. DownloadsKeepEdits'
  BY <1>1, KeepsEdits DEF IInv
<1>3. TreeFits(disk', ghost'.inode, ghost'.seen)
  BY <1>1, FitsLater DEF IInv, GhostFits, GhostLater
<1> QED BY <1>1, <1>2, <1>3, TreeStep

\* And one that takes nothing from it.
LEMMA QuietTreeStep ==
  ASSUME IInv, Quiet, TreeFits(disk', ghost.inode, ghost.seen), srv' = srv,
         user' = user, dn' = dn \/ \E v : dn' = [dn EXCEPT !.main = v]
  PROVE  IInv'
<1>1. GhostLater /\ ghost'.inode = ghost.inode /\ ghost'.seen = ghost.seen
      /\ ghost'.gone = ghost.gone
  BY QuietLater DEF IInv
<1>2. DownloadsKeepEdits'
  BY <1>1 DEF IInv, DownloadsKeepEdits
<1> QED BY <1>1, <1>2, TreeStep

\* The disk is a tree.
LEMMA TreeNow == IInv => TreeFits(disk, ghost.inode, ghost.seen)
BY DEF IInv, DiskFits

\* A file in conflict gets its new name.
LEMMA UpConflictStep == ASSUME IInv, NEW u, UpConflict(u) PROVE IInv'
<1>1. Quiet /\ srv' = srv /\ user' = user /\ dn' = dn
  BY KnownIfIsQuiet DEF UpConflict, Quiet
<1>2. disk' = disk \/ \E i, d, name : disk' = Moved(disk, i, d, name)
  BY DEF UpConflict, Renamed
<1>3. TreeFits(disk', ghost.inode, ghost.seen)
  BY <1>2, TreeNow, FitsMoved
<1> QED BY <1>1, <1>3, QuietTreeStep

\* Empty folders are removed.
LEMMA DnRmdirStep == ASSUME IInv, NEW t, DnRmdir(t) PROVE IInv'
<1>1. Quiet /\ srv' = srv /\ user' = user /\ \E v : dn' = [dn EXCEPT !.main = v]
  BY DEF DnRmdir, Quiet, Step
<1>2. disk' = disk \/ \E d : disk' = Emptied(disk, d)
  BY DEF DnRmdir
<1>3. TreeFits(disk', ghost.inode, ghost.seen)
  BY <1>2, TreeNow, FitsEmptied
<1> QED BY <1>1, <1>3, QuietTreeStep

\* A folder is removed with its files: what only it had is lost, under another name.
LEMMA DnRmtreeStep == ASSUME IInv, NEW t, DnRmtree(t) PROVE IInv'
<1>1. srv' = srv /\ user' = user /\ \E v : dn' = [dn EXCEPT !.main = v]
  BY DEF DnRmtree, Drops, Rests
<1>2. CASE disk' = disk /\ ghost' = ghost
  BY <1>1, <1>2, TreeNow, QuietTreeStep DEF Quiet
<1>3. ASSUME NEW f, ghost' = Lost(Gone(f, "rmtree")),
             disk' = Without(disk, f) \/ \E d : disk' = Emptied(Without(disk, f), d)
      PROVE  IInv'
  <2>1. TreeFits(Without(disk, f), ghost.inode, ghost.seen)
    BY TreeNow, FitsLess
  <2>2. TreeFits(disk', ghost.inode, ghost.seen)
    BY <1>3, <2>1, FitsEmptied
  <2>3. \A x \in Gone(f, "rmtree") : x.by # "download"
    BY GoneBy
  <2> QED BY <1>1, <1>3, <2>2, <2>3, LostStep
<1>4. \/ disk' = disk /\ ghost' = ghost
      \/ \E f : /\ ghost' = Lost(Gone(f, "rmtree"))
                /\ disk' = Without(disk, f) \/ \E d : disk' = Emptied(Without(disk, f), d)
  BY Zenon DEF DnRmtree
<1> QED BY <1>2, <1>3, <1>4

\* A file is removed, in the same way.
LEMMA DnDeleteStep == ASSUME IInv, NEW t, DnDelete(t) PROVE IInv'
<1>1. srv' = srv /\ user' = user /\ \E v : dn' = [dn EXCEPT !.main = v]
  BY DEF DnDelete, Step
<1>2. PICK f : disk' = Without(disk, f) /\ ghost' = Lost(Gone(f, "delete"))
  BY Zenon DEF DnDelete
<1>3. TreeFits(Without(disk, f), ghost.inode, ghost.seen)
  BY TreeNow, FitsLess
<1>4. \A x \in Gone(f, "delete") : x.by # "download"
  BY GoneBy
<1> QED BY <1>1, <1>2, <1>3, <1>4, LostStep

\* What DnMove does when it moves nothing.
Stood(t) ==
    /\ disk' = disk /\ Rests /\ (scan' = scan \/ scan' = ScanRestarts)
    /\ ghost' = ghost \/ \E yes : KnownIf(yes, "homeless")
    /\ \/ db' = db
       \/ db' = DropTask(db, t)
       \/ \E i, l, name : db' = DropTask(ptask_download_q(db, i, l, name), t)

\* It moves the file, or nothing.
LEMMA DnMoveIs ==
  ASSUME NEW t, DnMove(t) PROVE Stood(t) \/ \E r, f, dir : MoveFile(t, r, f, dir)
<1>1. PICK row \in {Row(t)} : \E rows \in {RowsOf(Row(t).item)} :
       \/ /\ rows # {}
          /\ \/ \E r \in {Chosen(rows)} :
                   <<db.lfile[r].dir, db.lfile[r].name>> = <<row.to, row.name>>
             \/ ~HasPath(db, row.to)
          /\ Drops(t, db) /\ UNCHANGED <<disk, scan>>
          /\ KnownIf(~HasPath(db, row.to), "homeless")
       \/ /\ rows = {}
          /\ Drops(t, ptask_download_q(db, row.item, row.to, row.name))
          /\ UNCHANGED <<disk, scan, ghost>>
       \/ \E r \in {Chosen(rows)} :
          /\ rows # {} /\ HasPath(db, row.to)
          /\ <<db.lfile[r].dir, db.lfile[r].name>> # <<row.to, row.name>>
          /\ \E f \in {FileOn(PathOf(db, db.lfile[r].dir), db.lfile[r].name)} :
             \E dir \in {DirOf(row.to)} :
               IF f = {} \/ dir = None
               THEN /\ Drops(t, ptask_download_q(db, row.item, row.to, row.name))
                    /\ scan' = ScanRestarts /\ UNCHANGED disk
                    /\ KnownIf(f # {}, "homeless")
               ELSE MoveFile(t, r, f, dir) \/ MoveFails(t, dir)
  BY Zenon DEF DnMove
<1>2. PICK rows \in {RowsOf(Row(t).item)} :
       \/ /\ rows # {}
          /\ \/ \E r \in {Chosen(rows)} :
                   <<db.lfile[r].dir, db.lfile[r].name>> = <<row.to, row.name>>
             \/ ~HasPath(db, row.to)
          /\ Drops(t, db) /\ UNCHANGED <<disk, scan>>
          /\ KnownIf(~HasPath(db, row.to), "homeless")
       \/ /\ rows = {}
          /\ Drops(t, ptask_download_q(db, row.item, row.to, row.name))
          /\ UNCHANGED <<disk, scan, ghost>>
       \/ \E r \in {Chosen(rows)} :
          /\ rows # {} /\ HasPath(db, row.to)
          /\ <<db.lfile[r].dir, db.lfile[r].name>> # <<row.to, row.name>>
          /\ \E f \in {FileOn(PathOf(db, db.lfile[r].dir), db.lfile[r].name)} :
             \E dir \in {DirOf(row.to)} :
               IF f = {} \/ dir = None
               THEN /\ Drops(t, ptask_download_q(db, row.item, row.to, row.name))
                    /\ scan' = ScanRestarts /\ UNCHANGED disk
                    /\ KnownIf(f # {}, "homeless")
               ELSE MoveFile(t, r, f, dir) \/ MoveFails(t, dir)
  BY <1>1, Zenon
<1>3. CASE /\ Drops(t, db) /\ UNCHANGED <<disk, scan>>
            /\ KnownIf(~HasPath(db, row.to), "homeless")
  BY <1>3, Zenon DEF Drops, Stood
<1>4. CASE /\ Drops(t, ptask_download_q(db, row.item, row.to, row.name))
            /\ UNCHANGED <<disk, scan, ghost>>
  BY <1>4, Zenon DEF Drops, Stood
<1>5. ASSUME NEW r, NEW f, NEW dir,
             IF f = {} \/ dir = None
             THEN /\ Drops(t, ptask_download_q(db, row.item, row.to, row.name))
                  /\ scan' = ScanRestarts /\ UNCHANGED disk
                  /\ KnownIf(f # {}, "homeless")
             ELSE MoveFile(t, r, f, dir) \/ MoveFails(t, dir)
      PROVE  Stood(t) \/ MoveFile(t, r, f, dir)
  <2>1. CASE f = {} \/ dir = None
    BY <1>5, <2>1, Zenon DEF Drops, Stood
  <2>2. ASSUME MoveFails(t, dir) PROVE Stood(t)
    <3>1. UNCHANGED <<disk, db, ghost>> /\ Rests /\ scan' = ScanRestarts
      BY <2>2, Zenon DEF MoveFails
    <3> QED BY <3>1 DEF Stood
  <2> QED BY <1>5, <2>1, <2>2, Zenon
<1> QED BY <1>2, <1>3, <1>4, <1>5, Zenon

\* A file is moved over another: in the same way.
LEMMA DnMoveStep == ASSUME IInv, NEW t, DnMove(t) PROVE IInv'
<1>1. srv' = srv /\ user' = user
  BY DEF DnMove
<1>2. CASE disk' = disk /\ Quiet /\ Rests
  BY <1>1, <1>2, TreeNow, QuietTreeStep DEF Rests
<1>3. ASSUME NEW i, NEW d, NEW name, NEW f, NEW s, NEW v,
             disk' = Renamed(i, d, name), dn' = [dn EXCEPT !.main = v],
             ghost' = [Lost(Gone(f, "move")) EXCEPT !.known = s]
      PROVE  IInv'
  <2> DEFINE g == Gone(f, "move")
  <2>1. \A x \in g : x.by # "download"
    BY GoneBy
  <2> HIDE DEF g
  <2>2. DOMAIN Lost(g) = GhostFields /\ Lost(g).gone = ghost.gone \cup g
        /\ Lost(g).seen = ghost.seen /\ Lost(g).kept = ghost.kept /\ Lost(g).unsure = ghost.unsure
        /\ Lost(g).inode = ghost.inode
    BY DEF IInv, GhostFits, Lost, GhostFields
  <2> DEFINE gh == Lost(g)
  <2>3. ghost' = [gh EXCEPT !.known = s]
    BY <1>3 DEF g
  <2> HIDE DEF gh
  <2>4. DOMAIN gh = GhostFields
    BY <2>2 DEF gh
  <2>5. DOMAIN ghost' = GhostFields /\ ghost'.gone = gh.gone /\ ghost'.inode = gh.inode
        /\ ghost'.seen = gh.seen /\ ghost'.kept = gh.kept /\ ghost'.unsure = gh.unsure
    BY <2>3, <2>4 DEF GhostFields
  <2>6. DOMAIN ghost' = GhostFields /\ ghost'.gone = ghost.gone \cup g /\ ghost'.inode = ghost.inode
        /\ ghost'.seen = ghost.seen /\ ghost'.kept = ghost.kept /\ ghost'.unsure = ghost.unsure
    BY <2>2, <2>5 DEF gh
  <2>7. GhostLater
    BY <2>6 DEF GhostLater, IInv, GhostFits
  <2>8. DownloadsKeepEdits'
    BY <2>1, <2>6, KeepsEdits DEF IInv
  <2>9. TreeFits(Moved(disk, i, d, name), ghost.inode, ghost.seen)
    BY TreeNow, FitsMoved
  <2>10. TreeFits(disk', ghost'.inode, ghost'.seen)
    BY <1>3, <2>6, <2>9 DEF Renamed
  <2> QED BY <1>1, <1>3, <2>7, <2>8, <2>10, TreeStep
<1>4. \/ disk' = disk /\ Rests /\ ghost' = ghost
      \/ disk' = disk /\ Rests /\ \E yes : KnownIf(yes, "homeless")
      \/ \E r, f, dir : MoveFile(t, r, f, dir)
  BY Zenon, DnMoveIs DEF Stood
<1>5. ASSUME NEW r, NEW f, NEW dir, MoveFile(t, r, f, dir) PROVE IInv'
  <2> DEFINE name == Row(t).name
             s == Lost(Gone(At(dir, name) \ f, "move")).known
                    \cup {k \in {"crossed"} : InFlight(r)}
             v == [id |-> t, n |-> Row(t).n, at |-> "renamed", meta |-> <<Row(t), r>>]
  <2>1. ghost' = [Lost(Gone(At(dir, name) \ f, "move")) EXCEPT !.known = s]
    BY <1>5 DEF MoveFile
  <2>2. disk' = Renamed(Chosen(f), dir, name) /\ dn' = [dn EXCEPT !.main = v]
    BY <1>5 DEF MoveFile
  <2> HIDE DEF s, v, name
  <2> QED BY <1>3, <2>1, <2>2
<1>6. disk' = disk /\ Rests /\ Quiet => IInv'
  BY <1>2
<1>7. ghost' = ghost => Quiet
  BY DEF Quiet
<1> QED BY <1>4, <1>5, <1>6, <1>7, KnownIfIsQuiet

----------------------------------------------------------------------------
(* Folders that are made, moved and merged. *)

\* move_folder_contents.
LEMMA FitsMerged ==
  ASSUME NEW n, NEW seen, TreeFits(disk, n, seen), NEW i, NEW d
  PROVE  TreeFits(Merged(i, d), n, seen)
<1> DEFINE over(x) == At(d, disk[x].name)
           moves(x) == \A j \in over(x) :
                          /\ disk[j].kind = disk[x].kind
                          /\ disk[j].kind = "folder" => In(j) = {}
           goes == {x \in In(i) : moves(x)}
           out == UNION {over(x) : x \in goes}
           g == [j \in DOMAIN disk \ out |->
                   IF j \in goes THEN [disk[j] EXCEPT !.dir = d] ELSE disk[j]]
<1>1. Merged(i, d) = Emptied(g, i)
  BY Zenon DEF Merged
<1>2. \A x \in goes : x \in DOMAIN disk /\ disk[x].dir = i
  BY DEF In
<1> HIDE DEF goes
<1>3. \A x \in goes, j \in DOMAIN disk : disk[j].dir = d /\ disk[j].name = disk[x].name => j \in out
  BY DEF At, In
<1> HIDE DEF out
<1>4. DOMAIN g = DOMAIN disk \ out /\ \A j \in DOMAIN g \ goes : g[j] = disk[j]
  OBVIOUS
<1>5. ASSUME NEW j \in DOMAIN g, j \in goes
      PROVE  /\ DOMAIN g[j] = ItemFields /\ g[j].kind = disk[j].kind /\ g[j].c = disk[j].c
             /\ g[j].name = disk[j].name /\ g[j].dir = d
  <2>1. g[j] = [disk[j] EXCEPT !.dir = d] /\ DOMAIN disk[j] = ItemFields
    BY <1>5 DEF TreeFits
  <2> QED BY <2>1 DEF ItemFields
<1> HIDE DEF g
<1>6. TreeFits(g, n, seen)
  <2>1. DOMAIN g \subseteq 1..n
    BY <1>4 DEF TreeFits
  <2>2. \A j \in DOMAIN g : DOMAIN g[j] = ItemFields
    BY <1>4, <1>5 DEF TreeFits
  <2>3. ASSUME NEW j \in DOMAIN g, NEW k \in DOMAIN g, g[j].dir = g[k].dir, g[j].name = g[k].name
        PROVE  j = k
    <3>1. CASE j \in goes /\ k \in goes
      BY <1>2, <1>4, <1>5, <2>3, <3>1 DEF TreeFits
    <3>2. CASE j \notin goes /\ k \notin goes
      BY <1>4, <2>3, <3>2 DEF TreeFits
    <3>3. CASE j \in goes /\ k \notin goes
      BY <1>3, <1>4, <1>5, <2>3, <3>3
    <3>4. CASE j \notin goes /\ k \in goes
      BY <1>3, <1>4, <1>5, <2>3, <3>4
    <3> QED BY <3>1, <3>2, <3>3, <3>4
  <2>4. \A j \in DOMAIN g : g[j].kind = "file" => g[j].c # 0 /\ g[j].c \in seen
    BY <1>4, <1>5 DEF TreeFits
  <2> QED BY <2>1, <2>2, <2>3, <2>4 DEF TreeFits
<1>7. TreeFits(Emptied(g, i), n, seen)
  BY <1>6, FitsEmptied
<1> QED BY <1>1, <1>7

\* A file in the way is put aside, so that the folder has its name for itself.
LEMMA DnMkdirStep == ASSUME IInv, NEW t, DnMkdir(t) PROVE IInv'
<1> DEFINE n == ghost.inode
           seen == ghost.seen
<1>1. srv' = srv /\ user' = user /\ (dn' = dn \/ \E v : dn' = [dn EXCEPT !.main = v])
  BY DEF DnMkdir, Drops, Rests, Step
<1>2. TreeFits(disk, n, seen) /\ n \in Nat /\ n + 1 \in Nat /\ n <= n + 1 /\ NewInode = n + 1
      /\ GhostFits /\ DiskFits
  BY TreeNow, NewInodeIs DEF IInv, GhostFits
<1>3. CASE disk' = disk /\ ghost' = ghost
  BY <1>1, <1>2, <1>3, QuietTreeStep DEF Quiet
<1>4. ASSUME ghost' = [ghost EXCEPT !.inode = NewInode], NEW dir, NEW name,
             \/ disk' = disk
             \/ disk' = Plus(IF At(dir, name) = {} THEN disk
                                 ELSE Renamed(Chosen(At(dir, name)), dir, Aside(dir, name)),
                               NewInode, Item("folder", dir, name, 0))
      PROVE  IInv'
  <2>1. /\ DOMAIN ghost' = GhostFields /\ ghost'.inode = n + 1 /\ ghost'.seen = seen
        /\ ghost'.kept = ghost.kept /\ ghost'.unsure = ghost.unsure /\ ghost'.gone = ghost.gone
    BY <1>2, <1>4 DEF GhostFits, GhostFields
  <2> DEFINE f == IF At(dir, name) = {} THEN disk
                  ELSE Renamed(Chosen(At(dir, name)), dir, Aside(dir, name))
  <2>2. TreeFits(f, n, seen)
    <3> HIDE DEF n, seen
    <3>1. \A i, as : TreeFits(Moved(disk, i, dir, as), n, seen)
      BY <1>2, FitsMoved
    <3> QED BY <1>2, <3>1 DEF Renamed
  <2>3. \A j \in DOMAIN f : ~(f[j].dir = dir /\ f[j].name = name)
    <3>1. CASE At(dir, name) = {}
      BY <3>1 DEF At, In
    <3>2. CASE At(dir, name) # {}
      <4> DEFINE i == Chosen(At(dir, name))
                 as == Aside(dir, name)
                 over == {j \in DOMAIN disk \ {i} : disk[j].dir = dir /\ disk[j].name = as}
                 h == Without(disk, over)
      <4>1. i \in DOMAIN disk /\ disk[i].dir = dir /\ disk[i].name = name
        BY <3>2 DEF Chosen, At, In
      <4>2. as # name
        BY <1>2, <3>2, AsideIsFree
      <4>3. DOMAIN h \subseteq DOMAIN disk /\ \A j \in DOMAIN h : h[j] = disk[j]
        BY DEF Without, Restrict
      <4>4. f = [h EXCEPT ![i].dir = dir, ![i].name = as]
        BY <3>2 DEF Renamed, Moved
      <4> HIDE DEF h, as, i, f
      <4>5. DOMAIN f = DOMAIN h /\ \A j \in DOMAIN h \ {i} : f[j] = h[j]
        BY <4>4
      <4>6. i \in DOMAIN h => f[i].name = as
        <5>1. ASSUME i \in DOMAIN h PROVE f[i] = [[h[i] EXCEPT !.dir = dir] EXCEPT !.name = as]
          BY <4>4, <5>1
        <5>2. i \in DOMAIN h => "name" \in DOMAIN h[i]
          BY <1>2, <4>3 DEF TreeFits, ItemFields
        <5> QED BY <5>1, <5>2
      <4>7. ASSUME NEW j \in DOMAIN f, f[j].dir = dir, f[j].name = name PROVE FALSE
        <5>1. j # i
          BY <4>2, <4>5, <4>6, <4>7
        <5>2. j \in DOMAIN disk /\ disk[j].dir = dir /\ disk[j].name = name
          BY <4>3, <4>5, <4>7, <5>1
        <5> QED BY <1>2, <4>1, <5>1, <5>2 DEF TreeFits
      <4> QED BY <4>7
    <3> QED BY <3>1, <3>2
  <2>4. disk' = disk \/ disk' = Plus(f, n + 1, Item("folder", dir, name, 0))
    BY <1>2, <1>4
  <2> HIDE DEF f
  <2>5. TreeFits(disk', n + 1, seen)
    <3> HIDE DEF n, seen
    <3>1. TreeFits(disk, n + 1, seen)
      BY <1>2, FitsLater
    <3>2. "folder" = "file" => 0 # 0 /\ 0 \in seen
      OBVIOUS
    <3>3. TreeFits(Plus(f, n + 1, Item("folder", dir, name, 0)), n + 1, seen)
      BY <1>2, <2>2, <2>3, <3>2, FitsPlus
    <3> QED BY <2>4, <3>1, <3>3
  <2>6. GhostLater
    BY <1>2, <2>1 DEF GhostLater
  <2>7. DownloadsKeepEdits'
    BY <2>1 DEF IInv, DownloadsKeepEdits
  <2>8. TreeFits(disk', ghost'.inode, ghost'.seen)
    BY <2>1, <2>5
  <2> QED BY <1>1, <2>6, <2>7, <2>8, TreeStep
<1>5. \/ disk' = disk /\ ghost' = ghost
      \/ ghost' = [ghost EXCEPT !.inode = NewInode] /\ \E dir, name :
             \/ disk' = disk
             \/ disk' = Plus(IF At(dir, name) = {} THEN disk
                                 ELSE Renamed(Chosen(At(dir, name)), dir, Aside(dir, name)),
                               NewInode, Item("folder", dir, name, 0))
  BY Zenon DEF DnMkdir
<1> QED BY <1>3, <1>4, <1>5

\* A folder is moved, or merged with the one that is there.
LEMMA DnMvdirStep == ASSUME IInv, NEW t, DnMvdir(t) PROVE IInv'
<1>1. srv' = srv /\ user' = user /\ \E v : dn' = [dn EXCEPT !.main = v]
  BY DEF DnMvdir, Drops, Rests
<1>2. CASE disk' = disk /\ Quiet
  BY <1>1, <1>2, TreeNow, QuietTreeStep
<1>3. ASSUME ghost' = ghost, NEW f, f = disk \/ \E i, d, name : f = Renamed(i, d, name),
             NEW i, NEW d, NEW name, disk' = Moved(f, i, d, name)
      PROVE  IInv'
  <2>1. TreeFits(f, ghost.inode, ghost.seen)
    BY <1>3, TreeNow, FitsMoved DEF Renamed
  <2>2. TreeFits(disk', ghost.inode, ghost.seen)
    BY <1>3, <2>1, FitsMoved
  <2> QED BY <1>1, <1>3, <2>2, QuietTreeStep DEF Quiet
<1>4. ASSUME NEW i, NEW j, disk' = Merged(i, j), NEW f, ghost' = Lost(Gone(f, "merge"))
      PROVE  IInv'
  <2>1. TreeFits(disk', ghost.inode, ghost.seen)
    BY <1>4, TreeNow, FitsMerged
  <2>2. \A x \in Gone(f, "merge") : x.by # "download"
    BY GoneBy
  <2> QED BY <1>1, <1>4, <2>1, <2>2, LostStep
<1>5. \/ disk' = disk /\ (ghost' = ghost \/ (\E yes, why : KnownIf(yes, why)) \/ \E why : Known(why))
      \/ ghost' = ghost /\ \E f, i, d, name : /\ disk' = Moved(f, i, d, name)
                                              /\ f = disk \/ \E k, e, as : f = Renamed(k, e, as)
      \/ \E i, j, f : disk' = Merged(i, j) /\ ghost' = Lost(Gone(f, "merge"))
  BY DEF DnMvdir, Drops
<1>6. ghost' = ghost => Quiet
  BY DEF Quiet
<1> QED BY <1>2, <1>3, <1>4, <1>5, <1>6, KnownIsQuiet, KnownIfIsQuiet

----------------------------------------------------------------------------
(* All steps. *)

\* The invariant holds when the program starts.
LEMMA InitFits == Init => IInv
<1> SUFFICES ASSUME Init PROVE IInv
  OBVIOUS
<1>1. GhostFits /\ DownloadsKeepEdits
  BY DEF Init, GhostFits, GhostFields, DownloadsKeepEdits
<1>2. UserFits
  BY WorkloadsAssumption DEF Init, UserFits
<1>3. DiskFits
  <2> DEFINE f == <<Item("file", 0, A, 1), Item("folder", 0, B, 0), Item("file", 2, C, 2)>>
  <2>1. DOMAIN f = 1..3 /\ f[1] = Item("file", 0, A, 1) /\ f[2] = Item("folder", 0, B, 0)
        /\ f[3] = Item("file", 2, C, 2)
    OBVIOUS
  <2>2. disk = f /\ ghost.inode = 3 /\ ghost.seen = {0, 1, 2}
    BY DEF Init
  <2> HIDE DEF f
  <2>3. A # B
    BY DEF A, B
  <2>4. \A i \in DOMAIN f : i = 1 \/ i = 2 \/ i = 3
    BY <2>1
  <2>5. \A kind, d, name, c : LET x == Item(kind, d, name, c)
          IN DOMAIN x = ItemFields /\ x.kind = kind /\ x.dir = d /\ x.name = name /\ x.c = c
    BY DEF Item, ItemFields
  <2>6. TreeFits(f, 3, {0, 1, 2})
    BY <2>1, <2>3, <2>4, <2>5 DEF TreeFits
  <2> QED BY <2>2, <2>6 DEF DiskFits
<1>4. SrvFits
  <2> DEFINE s == <<SrvItem("folder", 0, <<"sync", 0>>, 0), SrvItem("folder", 0, <<"other", 0>>, 0),
               SrvItem("file", Remote, A, 1), SrvItem("folder", Remote, B, 0),
               SrvItem("file", FolderB, C, 2)>>
  <2>1. srv = s /\ ghost.kept = {1, 2}
    BY DEF Init
  <2>2. \A i \in DOMAIN s : \E kind, d, name : \E c \in {0, 1, 2} : s[i] = SrvItem(kind, d, name, c)
    OBVIOUS
  <2>3. \A kind, d, name, c : LET x == SrvItem(kind, d, name, c)
          IN DOMAIN x = SrvFields /\ x.revs = {c}
    BY DEF SrvItem, SrvFields
  <2> HIDE DEF s
  <2> QED BY <2>1, <2>2, <2>3 DEF SrvFits
<1>5. DnFits
  BY DEF Init, DnFits
<1> QED BY <1>1, <1>2, <1>3, <1>4, <1>5 DEF IInv

\* The program is killed: its downloads are gone.
LEMMA RestartStep == IInv /\ Restart => IInv'
<1> SUFFICES ASSUME IInv, Restart PROVE IInv'
  OBVIOUS
<1> USE DEF IInv
<1>1. Quiet /\ disk' = disk /\ srv' = srv /\ user' = [user EXCEPT !.restarts = @ - 1]
      /\ dn'.run = {} /\ DOMAIN dn' = {"main", "run"}
  BY KnownIfIsQuiet DEF Restart
<1>2. GhostLater /\ ghost'.inode = ghost.inode /\ ghost'.seen = ghost.seen
      /\ ghost'.gone = ghost.gone
  BY <1>1, QuietLater
<1>3. GhostFits'
  BY <1>2, GhostStays
<1>4. UserFits'
  <2>1. "restarts" # "here"
    OBVIOUS
  <2> QED BY <1>1, <2>1, UserUses
<1>5. DiskFits'
  BY <1>1, <1>2 DEF DiskFits
<1>6. SrvFits'
  BY <1>1, <1>2, SrvStays
<1>7. DnFits'
  BY <1>1 DEF DnFits
<1>8. DownloadsKeepEdits'
  BY <1>2 DEF DownloadsKeepEdits
<1> QED BY <1>3, <1>4, <1>5, <1>6, <1>7, <1>8

\* The uploads keep it,
LEMMA UpStep == IInv /\ UpNext => IInv'
<1> SUFFICES ASSUME IInv, UpNext PROVE IInv'
  OBVIOUS
<1>1. \/ UploadsStill
      \/ \E t : UpMkdir(t) \/ UpMove(t) \/ UpMvdir(t) \/ UpDelete(t)
      \/ \E u : UpSend(u) \/ UpConflict(u)
  BY Zenon DEF UpNext, UploadsStill
<1>2. CASE UploadsStill
  BY <1>2, UpStill, StillStep
<1>3. CASE \E t : UpMkdir(t) \/ UpMove(t) \/ UpMvdir(t) \/ UpDelete(t)
  BY <1>3, UpMkdirStep, UpMoveStep, UpMvdirStep, UpDeleteStep
<1>4. CASE \E u : UpSend(u) \/ UpConflict(u)
  BY <1>4, UpSendStep, UpConflictStep
<1> QED BY <1>1, <1>2, <1>3, <1>4

\* the downloads keep it,
LEMMA DnStep == IInv /\ DnNext => IInv'
<1> SUFFICES ASSUME IInv, DnNext PROVE IInv'
  OBVIOUS
<1>1. CASE DnMade \/ DnRemoved \/ DnDeleted \/ DnRenamed
  BY <1>1, MainStill, StillStep
<1>2. ASSUME NEW t, \/ DnStart(t) \/ DnMkdir(t) \/ DnWaits(t) \/ DnRmdir(t) \/ DnRmtree(t)
                    \/ DnDelete(t) \/ DnMove(t) \/ DnMvdir(t)
      PROVE  IInv'
  BY <1>2, DnStartStep, DnMkdirStep, DnWaitsStill, StillStep, DnRmdirStep, DnRmtreeStep,
     DnDeleteStep, DnMoveStep, DnMvdirStep
<1>3. ASSUME NEW d \in dn.run, DnGet(d) \/ DnFails(d) \/ DnStopped(d) \/ DnLook(d)
      PROVE  IInv'
  BY <1>3, DnGetStep, DnFailsStep, DnStoppedStep, DnLookStep
<1>4. ASSUME NEW d \in dn.run, DnAside(d) \/ DnUnrow(d) \/ DnPlace(d) \/ DnRow(d) \/ DnEnd(d)
      PROVE  IInv'
  BY <1>4, DnAsideStep, DnUnrowStep, DnPlaceStep, DnRowStep, DnEndStep
<1> QED BY <1>1, <1>2, <1>3, <1>4 DEF DnNext

\* and so does every step.
LEMMA NextFits == IInv /\ [Next]_vars => IInv'
<1>1. IInv /\ ScanNext => IInv'
  BY ScanStill, StillStep
<1>2. IInv /\ UNCHANGED vars => IInv'
  <2>1. UNCHANGED vars => Still
    BY DEF vars, Still, Quiet
  <2> QED BY <2>1, StillStep
<1>3. IInv /\ Stays => IInv'
  BY <1>2 DEF Stays
<1> QED BY <1>1, <1>2, <1>3, DiffStep, UpStep, DnStep, UserHereStep, UserThereStep, RestartStep
        DEF Next

\* task_run_download_file and what it calls (rename_if_notex, create_conflicted,
\* pfile_rename_overwrite): a file that is replaced here is one that was put aside,
\* or whose contents the server has, for all that the users do and MaxUploads.
THEOREM DownloadsKeep == Spec => []DownloadsKeepEdits
<1>1. Spec => []IInv
  BY InitFits, NextFits, PTL DEF Spec
<1>2. IInv => DownloadsKeepEdits
  BY DEF IInv
<1> QED BY <1>1, <1>2, PTL

----------------------------------------------------------------------------
(* Locks and counts: sets of transfers, and what one of them does to these. *)

\* A function that shows two sets to be of one size.
LEMMA SameSize ==
  ASSUME NEW S, NEW T, IsFiniteSet(S), NEW f \in [S -> T],
         \A x, y \in S : f[x] = f[y] => x = y, \A t \in T : \E x \in S : f[x] = t
  PROVE  IsFiniteSet(T) /\ Cardinality(T) = Cardinality(S)
<1>1. f \in Bijection(S, T)
  BY DEF Bijection, Injection, Surjection, IsInjective
<1> QED BY <1>1, FS_Bijection DEF ExistsBijection

\* One download goes on.
LEMMA DnReplaced ==
  ASSUME NEW D, DownloadsApart(D), NEW d \in D, NEW w, DownloadHolds(w), SamePath(d, w)
  PROVE  /\ DownloadsApart((D \ {d}) \cup {w})
         /\ Cardinality(Holding((D \ {d}) \cup {w}))
              = Cardinality(Holding(D)) - One(d.scanless) + One(w.scanless)
         /\ Cardinality(Holding(D)) \in Nat
<1> DEFINE H == Holding(D)
           E == (D \ {d}) \cup {w}
<1>1. IsFiniteSet(D) /\ (\A x \in D : DownloadHolds(x))
      /\ (\A x, y \in D : SamePath(x, y) => x = y)
  BY DEF DownloadsApart
<1>2. IsFiniteSet(E)
  BY <1>1, FS_RemoveElement, FS_AddElement
<1>3. \A x \in D \ {d} : ~SamePath(x, w)
  BY <1>1 DEF SamePath
<1>4. \A x, y \in E : SamePath(x, y) => x = y
  BY <1>1, <1>3 DEF SamePath
<1>5. DownloadsApart(E)
  BY <1>1, <1>2, <1>4 DEF DownloadsApart
<1>6. IsFiniteSet(H)
  BY <1>1, FS_Subset DEF Holding
<1>7. w \notin H \ {d}
  BY <1>3 DEF Holding, SamePath
<1>8. IsFiniteSet(H \ {d}) /\ Cardinality(H \ {d}) = Cardinality(H) - One(d.scanless)
  <2>1. d \in H <=> d.scanless
    BY DEF Holding
  <2> HIDE DEF H
  <2>2. Cardinality(H) \in Nat
    BY <1>6, FS_CardinalityType
  <2> QED BY <1>6, <2>1, <2>2, FS_RemoveElement DEF One
<1>9. Holding(E) = IF w.scanless THEN (H \ {d}) \cup {w} ELSE H \ {d}
  BY DEF Holding
<1>10. Cardinality((H \ {d}) \cup {w}) = Cardinality(H \ {d}) + 1
  <2> HIDE DEF H
  <2> QED BY <1>7, <1>8, FS_AddElement
<1>11. Cardinality(H) \in Nat
  BY <1>6, FS_CardinalityType
<1>12. Cardinality(Holding(E)) = Cardinality(H) - One(d.scanless) + One(w.scanless)
  <2> HIDE DEF H, E
  <2>1. CASE w.scanless
    BY <2>1, <1>8, <1>9, <1>10, <1>11 DEF One
  <2>2. CASE ~w.scanless
    BY <2>2, <1>8, <1>9, <1>11 DEF One
  <2> QED BY <2>1, <2>2
<1> QED BY <1>5, <1>11, <1>12

\* One ends.
LEMMA DnEnded ==
  ASSUME NEW D, DownloadsApart(D), NEW d, ~d.scanless
  PROVE  /\ DownloadsApart(D \ {d})
         /\ Holding(D \ {d}) = Holding(D)
<1>1. IsFiniteSet(D \ {d})
  BY FS_RemoveElement DEF DownloadsApart
<1> QED BY <1>1 DEF DownloadsApart, Holding

\* One begins, on a path that nobody has.
LEMMA DnBegun ==
  ASSUME NEW D, DownloadsApart(D), NEW w, DownloadHolds(w), ~w.scanless,
         \A d \in D : ~SamePath(d, w)
  PROVE  /\ DownloadsApart(D \cup {w})
         /\ Holding(D \cup {w}) = Holding(D)
<1>1. IsFiniteSet(D \cup {w})
  BY FS_AddElement DEF DownloadsApart
<1>2. \A x, y \in D \cup {w} : SamePath(x, y) => x = y
  BY DEF DownloadsApart, SamePath
<1> QED BY <1>1, <1>2 DEF DownloadsApart, Holding

\* The diff thread writes into some.
LEMMA DnTold ==
  ASSUME NEW D, DownloadsApart(D), NEW e
  PROVE  /\ DownloadsApart({Told(d, e) : d \in D})
         /\ Cardinality(Holding({Told(d, e) : d \in D})) = Cardinality(Holding(D))
         /\ \A x \in {Told(d, e) : d \in D} : \E d \in D : SamePath(d, x)
<1> DEFINE T == {Told(d, e) : d \in D}
           f == [d \in D |-> Told(d, e)]
<1>1. IsFiniteSet(D) /\ (\A x \in D : DownloadHolds(x))
      /\ (\A x, y \in D : SamePath(x, y) => x = y)
  BY DEF DownloadsApart
<1>2. ASSUME NEW d \in D
      PROVE  DownloadHolds(Told(d, e)) /\ SamePath(d, Told(d, e))
             /\ Told(d, e).scanless = d.scanless
  <2>1. DownloadHolds(d)
    BY <1>1
  <2>2. ASSUME NEW s PROVE LET x == [d EXCEPT !.stop = s]
                           IN DownloadHolds(x) /\ SamePath(d, x) /\ x.scanless = d.scanless
    BY <2>1 DEF DownloadHolds, DnFields, SamePath
  <2>3. Told(d, e) = d \/ \E s : Told(d, e) = [d EXCEPT !.stop = s]
    BY DEF Told
  <2>4. SamePath(d, d)
    BY DEF SamePath
  <2> QED BY <2>1, <2>2, <2>3, <2>4
<1>3. \A x, y \in D : SamePath(Told(x, e), Told(y, e)) => x = y
  BY <1>1, <1>2 DEF SamePath
<1>4. IsFiniteSet(T)
  <2>1. f \in [D -> T] /\ \A t \in T : \E d \in D : f[d] = t
    OBVIOUS
  <2>2. \A x, y \in D : f[x] = f[y] => x = y
    BY <1>3 DEF SamePath
  <2> HIDE DEF f, T
  <2> QED BY <1>1, <2>1, <2>2, SameSize
<1>6. \A x \in T : DownloadHolds(x)
  BY <1>2
<1>7. \A x, y \in T : SamePath(x, y) => x = y
  BY <1>3
<1>8. DownloadsApart(T)
  BY <1>4, <1>6, <1>7 DEF DownloadsApart
<1> DEFINE g == [d \in Holding(D) |-> Told(d, e)]
<1>9. IsFiniteSet(Holding(D))
  BY <1>1, FS_Subset DEF Holding
<1>10. Cardinality(Holding(T)) = Cardinality(Holding(D))
  <2>1. \A d \in Holding(D) : g[d] \in Holding(T)
    BY <1>2 DEF Holding
  <2>2. \A t \in Holding(T) : \E d \in Holding(D) : g[d] = t
    BY <1>2 DEF Holding
  <2>3. \A x, y \in Holding(D) : g[x] = g[y] => x = y
    BY <1>3 DEF Holding, SamePath
  <2>4. g \in [Holding(D) -> Holding(T)]
    BY <2>1
  <2> HIDE DEF g, T
  <2> QED BY <1>9, <2>2, <2>3, <2>4, SameSize
<1>11. \A x \in T : \E d \in D : SamePath(d, x)
  BY <1>2
<1> QED BY <1>8, <1>10, <1>11

----------------------------------------------------------------------------
\* A set with one more member has at most one more.
LEMMA OneMore ==
  ASSUME NEW S, NEW x, IsFiniteSet(S)
  PROVE  Cardinality(S \cup {x}) \in Nat /\ Cardinality(S \cup {x}) <= Cardinality(S) + 1
<1>1. Cardinality(S) \in Nat
  BY FS_CardinalityType
<1>2. CASE x \in S
  <2>1. S \cup {x} = S
    BY <1>2
  <2> QED BY <1>1, <2>1
<1>3. CASE x \notin S
  <2>1. Cardinality(S \cup {x}) = Cardinality(S) + 1
    BY <1>3, FS_AddElement
  <2> QED BY <1>1, <2>1
<1> QED BY <1>2, <1>3

\* One upload goes on.
LEMMA UpReplaced ==
  ASSUME NEW U, UploadsApart(U), NEW u \in U, NEW w, DOMAIN w = UpFields,
         Sending(w) => \A v \in U \ {u} : Sending(v) => ~SamePath(v, w),
         w.at # "slot" => u.at # "slot" \/ Cardinality(AdmittedOf(U)) < MaxUploads
  PROVE  UploadsApart((U \ {u}) \cup {w})
<1> DEFINE E == (U \ {u}) \cup {w}
           M == AdmittedOf(U)
<1>1. IsFiniteSet(U) /\ IsFiniteSet(U \ {u}) /\ IsFiniteSet(E)
  BY FS_RemoveElement, FS_AddElement DEF UploadsApart
<1>2. \A x, y \in E : Sending(x) /\ Sending(y) /\ SamePath(x, y) => x = y
  <2>1. \A x, y \in U : Sending(x) /\ Sending(y) /\ SamePath(x, y) => x = y
    BY DEF UploadsApart
  <2>2. \A x \in U \ {u} : Sending(x) /\ Sending(w) => ~SamePath(x, w) /\ ~SamePath(w, x)
    BY DEF SamePath
  <2> QED BY <2>1, <2>2
<1>3. IsFiniteSet(M) /\ Cardinality(M) \in Nat /\ Cardinality(M) <= MaxUploads
  <2>1. M \in SUBSET U
    BY DEF AdmittedOf
  <2> QED BY <1>1, <2>1, FS_Subset, FS_CardinalityType DEF UploadsApart
<1>4. u \in M <=> u.at # "slot"
  BY DEF AdmittedOf
<1>5. AdmittedOf(E) = IF w.at # "slot" THEN (M \ {u}) \cup {w} ELSE M \ {u}
  BY DEF AdmittedOf
<1>6. Cardinality(AdmittedOf(E)) <= MaxUploads
  <2> HIDE DEF M, E
  <2>1. IsFiniteSet(M \ {u})
        /\ Cardinality(M \ {u}) = IF u \in M THEN Cardinality(M) - 1 ELSE Cardinality(M)
    BY <1>3, FS_RemoveElement
  <2>2. /\ Cardinality((M \ {u}) \cup {w}) \in Nat
        /\ Cardinality((M \ {u}) \cup {w}) <= Cardinality(M \ {u}) + 1
    BY <2>1, OneMore
  <2>3. CASE w.at # "slot"
    <3>1. Cardinality(M \ {u}) + 1 <= MaxUploads
      BY <1>3, <1>4, <2>1, <2>3, MaxUploadsAssumption DEF M
    <3>2. Cardinality(M \ {u}) \in Nat
      BY <2>1, FS_CardinalityType
    <3>3. Cardinality((M \ {u}) \cup {w}) <= MaxUploads
      BY <2>2, <3>1, <3>2, MaxUploadsAssumption
    <3> QED BY <1>5, <2>3, <3>3
  <2>4. CASE w.at = "slot"
    BY <1>3, <1>5, <2>1, <2>4, MaxUploadsAssumption
  <2> QED BY <2>3, <2>4
<1>7. \A x \in E : DOMAIN x = UpFields
  BY DEF UploadsApart
<1> QED BY <1>1, <1>2, <1>6, <1>7 DEF UploadsApart

\* Some end.
LEMMA UpFewer ==
  ASSUME NEW U, UploadsApart(U), NEW V, V \subseteq U PROVE UploadsApart(V)
<1>1. IsFiniteSet(U) /\ IsFiniteSet(V) /\ IsFiniteSet(AdmittedOf(U))
  BY FS_Subset, AdmittedOf(U) \in SUBSET U DEF UploadsApart, AdmittedOf
<1>2. AdmittedOf(V) \in SUBSET AdmittedOf(U)
  BY DEF AdmittedOf
<1>3. Cardinality(AdmittedOf(V)) <= Cardinality(AdmittedOf(U))
  BY <1>1, <1>2, FS_Subset
<1>4. IsFiniteSet(AdmittedOf(V))
  BY <1>1, <1>2, FS_Subset
<1>5. Cardinality(AdmittedOf(V)) <= MaxUploads
  BY <1>1, <1>3, <1>4, FS_CardinalityType, MaxUploadsAssumption DEF UploadsApart
<1> QED BY <1>1, <1>5 DEF UploadsApart

\* One is put into the list, where it waits.
LEMMA UpListed ==
  ASSUME NEW U, UploadsApart(U), NEW w, DOMAIN w = UpFields, w.at = "slot"
  PROVE  UploadsApart(U \cup {w})
<1>1. IsFiniteSet(U \cup {w})
  BY FS_AddElement DEF UploadsApart
<1>2. AdmittedOf(U \cup {w}) = AdmittedOf(U)
  BY DEF AdmittedOf
<1>3. ~Sending(w)
  BY DEF Sending
<1> QED BY <1>1, <1>2, <1>3 DEF UploadsApart

\* The uploads of some rows are told to end.
StoppedOf(U, ids) == {IF u.l \in ids THEN [u EXCEPT !.stop = TRUE] ELSE u : u \in U}
LEMMA UpStoppedApart ==
  ASSUME NEW U, UploadsApart(U), NEW ids
  PROVE  /\ UploadsApart(StoppedOf(U, ids))
         /\ \A x \in StoppedOf(U, ids) : \E u \in U : u.at = x.at /\ SamePath(u, x)
<1> DEFINE stop(u) == IF u.l \in ids THEN [u EXCEPT !.stop = TRUE] ELSE u
           T == StoppedOf(U, ids)
           f == [u \in U |-> stop(u)]
           M == AdmittedOf(U)
           g == [u \in M |-> stop(u)]
<1>1. ASSUME NEW u \in U
      PROVE  DOMAIN stop(u) = UpFields /\ stop(u).at = u.at /\ SamePath(u, stop(u))
  <2>1. DOMAIN u = UpFields
    BY DEF UploadsApart
  <2> QED BY <2>1 DEF UpFields, SamePath
<1>2. T = {stop(u) : u \in U}
  BY DEF StoppedOf
<1>3. IsFiniteSet(U) /\ IsFiniteSet(M) /\ Cardinality(M) <= MaxUploads
  BY FS_Subset, M \in SUBSET U DEF UploadsApart, AdmittedOf
<1>4. IsFiniteSet(T)
  <2>1. f \in Surjection(U, T)
    BY <1>2 DEF Surjection
  <2> QED BY <1>3, <2>1, FS_Surjection
<1>5. Cardinality(AdmittedOf(T)) <= Cardinality(M) /\ IsFiniteSet(AdmittedOf(T))
  <2>1. \A u \in M : g[u] \in AdmittedOf(T)
    BY <1>1, <1>2 DEF AdmittedOf
  <2>2. \A t \in AdmittedOf(T) : \E u \in M : g[u] = t
    BY <1>1, <1>2 DEF AdmittedOf
  <2>3. g \in [M -> AdmittedOf(T)]
    BY <2>1
  <2>4. g \in Surjection(M, AdmittedOf(T))
    <3> HIDE DEF g, M, T
    <3> QED BY <2>2, <2>3 DEF Surjection
  <2> HIDE DEF g, M, T
  <2> QED BY <1>3, <2>4, FS_Surjection
<1>6. Cardinality(AdmittedOf(T)) <= MaxUploads
  <2> HIDE DEF M, T
  <2> QED BY <1>3, <1>5, FS_CardinalityType, MaxUploadsAssumption
<1>7. \A x, y \in T : Sending(x) /\ Sending(y) /\ SamePath(x, y) => x = y
  <2>1. \A x, y \in U : Sending(stop(x)) /\ Sending(stop(y)) /\ SamePath(stop(x), stop(y)) => x = y
    BY <1>1 DEF Sending, SamePath, UploadsApart
  <2> HIDE DEF stop
  <2> QED BY <1>2, <2>1
<1>8. \A x \in T : DOMAIN x = UpFields
  BY <1>1, <1>2
<1>9. \A x \in T : \E u \in U : u.at = x.at /\ SamePath(u, x)
  BY <1>1, <1>2
<1> QED BY <1>4, <1>6, <1>7, <1>8, <1>9 DEF UploadsApart
----------------------------------------------------------------------------
(* What a step does to the uploads and to the downloads. *)

UpGoes ==
    /\ DOMAIN up' = {"main", "run"} /\ UploadsApart(up'.run)
    /\ \A x \in up'.run : Sending(x) => \E u \in up.run : Sending(u) /\ SamePath(u, x)
DnGoes ==
    /\ DOMAIN dn' = {"main", "run"} /\ "stoppers" \in DOMAIN scan'
    /\ DownloadsApart(dn'.run)
    /\ scan'.stoppers = Cardinality(Holding(dn'.run)) + One(dn'.main.at = "renamed")
DnTheirs == \A x \in dn'.run : \E d \in dn.run : SamePath(d, x)
Calm == "stoppers" \in DOMAIN scan' /\ scan'.stoppers = scan.stoppers

\* Both together.
LEMMA BothGo == ASSUME CInv, UpGoes, DnGoes, DnTheirs PROVE CInv'
<1>1. Apart(up'.run, dn'.run)
  <2> SUFFICES ASSUME NEW x \in up'.run, NEW y \in dn'.run, Sending(x), SamePath(x, y)
               PROVE  FALSE
    BY DEF Apart
  <2>1. PICK u \in up.run : Sending(u) /\ SamePath(u, x)
    BY DEF UpGoes
  <2>2. PICK d \in dn.run : SamePath(d, y)
    BY DEF DnTheirs
  <2>3. SamePath(u, d)
    BY <2>1, <2>2 DEF SamePath
  <2> QED BY <2>1, <2>3 DEF CInv, Apart
<1> QED BY <1>1 DEF CInv, UpGoes, DnGoes, UploadsApart, DownloadsApart, AdmittedOf,
           Apart, Holding, One, Sending, SamePath, DownloadHolds

\* The upload thread goes on, or nothing does.
LEMMA UpMainGoes ==
  ASSUME CInv, up' = up \/ \E v : up' = [up EXCEPT !.main = v] PROVE UpGoes
<1>1. DOMAIN up' = {"main", "run"} /\ up'.run = up.run
  BY DEF CInv
<1> QED BY <1>1 DEF CInv, UpGoes, SamePath

\* One upload goes on.
LEMMA UpWithGoes ==
  ASSUME CInv, NEW u \in up.run, NEW w, NEW v, With(u, w) \/ up' = [main |-> v, run |-> (up.run \ {u}) \cup {w}],
         DOMAIN w = UpFields, Sending(w) => Sending(u) /\ SamePath(u, w),
         w.at # "slot" => u.at # "slot" \/ Cardinality(Admitted) < MaxUploads
  PROVE  UpGoes
<1>1. DOMAIN up' = {"main", "run"} /\ up'.run = (up.run \ {u}) \cup {w}
  BY DEF CInv, With
<1>2. Admitted = AdmittedOf(up.run) /\ UploadsApart(up.run)
  BY DEF CInv, Admitted, AdmittedOf
<1>3. Sending(w) => \A v_1 \in up.run \ {u} : Sending(v_1) => ~SamePath(v_1, w)
  BY <1>2 DEF UploadsApart, SamePath
<1>4. UploadsApart((up.run \ {u}) \cup {w})
  BY <1>2, <1>3, UpReplaced
<1> QED BY <1>1, <1>4 DEF UpGoes, SamePath

\* Some uploads end, or are told to.
LEMMA UpFewerGoes ==
  ASSUME CInv, NEW v, NEW u,
         up' = [main |-> v, run |-> up.run \ {u}] \/ up' = [up EXCEPT !.run = @ \ {u}]
  PROVE  UpGoes
<1>1. DOMAIN up' = {"main", "run"} /\ up'.run = up.run \ {u}
  BY DEF CInv
<1>2. UploadsApart(up.run \ {u})
  BY UpFewer, up.run \ {u} \subseteq up.run DEF CInv
<1> QED BY <1>1, <1>2 DEF UpGoes, SamePath

\* In the same way.
LEMMA UpStoppedGoes ==
  ASSUME CInv, NEW ids, up' = [up EXCEPT !.run = Stopped(ids)] PROVE UpGoes
<1>1. Stopped(ids) = StoppedOf(up.run, ids)
  BY DEF Stopped, StoppedOf
<1>2. DOMAIN up' = {"main", "run"} /\ up'.run = StoppedOf(up.run, ids)
  BY <1>1 DEF CInv
<1>3. /\ UploadsApart(StoppedOf(up.run, ids))
      /\ \A x \in StoppedOf(up.run, ids) : \E u \in up.run : u.at = x.at /\ SamePath(u, x)
  BY UpStoppedApart DEF CInv
<1> QED BY <1>2, <1>3 DEF UpGoes, Sending

\* The downloads stay as they are, and so does what holds the scanner.
LEMMA DnStaysGoes ==
  ASSUME CInv, Calm, NEW v, dn' = dn \/ (dn' = [dn EXCEPT !.main = v]
                                     /\ v.at # "renamed" /\ dn.main.at # "renamed")
  PROVE  DnGoes /\ DnTheirs
<1>1. DOMAIN dn' = {"main", "run"} /\ dn'.run = dn.run
      /\ One(dn'.main.at = "renamed") = One(dn.main.at = "renamed")
  BY DEF CInv, One
<1> QED BY <1>1 DEF CInv, Calm, DnGoes, DnTheirs, SamePath

\* The download thread stops the scanner for a rename, and lets it on after it.
LEMMA DnRenameGoes ==
  ASSUME CInv, NEW v, dn' = [dn EXCEPT !.main = v], "stoppers" \in DOMAIN scan',
         scan'.stoppers = scan.stoppers + One(v.at = "renamed") - One(dn.main.at = "renamed")
  PROVE  DnGoes /\ DnTheirs
<1>1. DOMAIN dn' = {"main", "run"} /\ dn'.run = dn.run /\ dn'.main.at = v.at
  BY DEF CInv
<1>2. Cardinality(Holding(dn.run)) \in Nat
  <2>1. IsFiniteSet(dn.run) /\ Holding(dn.run) \in SUBSET dn.run
    BY DEF CInv, DownloadsApart, Holding
  <2> QED BY <2>1, FS_Subset, FS_CardinalityType
<1>3. One(v.at = "renamed") \in Int /\ One(dn.main.at = "renamed") \in Int
  BY DEF One
<1>4. scan'.stoppers = Cardinality(Holding(dn'.run)) + One(dn'.main.at = "renamed")
  BY <1>1, <1>2, <1>3 DEF CInv
<1> QED BY <1>1, <1>4 DEF CInv, DnGoes, DnTheirs, SamePath

\* One download goes on.
LEMMA DnPutGoes ==
  ASSUME CInv, NEW d \in dn.run, NEW w, Put(d, w), DownloadHolds(w), SamePath(d, w),
         "stoppers" \in DOMAIN scan',
         scan'.stoppers = scan.stoppers + One(w.scanless) - One(d.scanless)
  PROVE  DnGoes /\ DnTheirs
<1>1. DOMAIN dn' = {"main", "run"} /\ dn'.run = (dn.run \ {d}) \cup {w}
      /\ dn'.main = dn.main
  BY DEF CInv, Put
<1>2. /\ DownloadsApart(dn'.run)
      /\ Cardinality(Holding(dn'.run))
           = Cardinality(Holding(dn.run)) - One(d.scanless) + One(w.scanless)
      /\ Cardinality(Holding(dn.run)) \in Nat
  <2> DEFINE E == (dn.run \ {d}) \cup {w}
  <2>1. DownloadsApart(dn.run)
    BY DEF CInv
  <2>2. /\ DownloadsApart(E)
        /\ Cardinality(Holding(E))
             = Cardinality(Holding(dn.run)) - One(d.scanless) + One(w.scanless)
        /\ Cardinality(Holding(dn.run)) \in Nat
    BY <2>1, DnReplaced, Zenon
  <2>3. dn'.run = E
    BY <1>1
  <2> HIDE DEF E
  <2> QED BY <2>2, <2>3
<1>3. One(w.scanless) \in Int /\ One(d.scanless) \in Int /\ One(dn.main.at = "renamed") \in Int
  BY DEF One
<1>4. scan'.stoppers = Cardinality(Holding(dn'.run)) + One(dn'.main.at = "renamed")
  BY <1>1, <1>2, <1>3 DEF CInv
<1> QED BY <1>1, <1>2, <1>4 DEF DnGoes, DnTheirs, SamePath
----------------------------------------------------------------------------
(* The scanner and the diff thread. *)

LEMMA CalmStep == ASSUME CInv, UpGoes, Calm, dn' = dn PROVE CInv'
<1>1. DnGoes /\ DnTheirs
  BY DnStaysGoes
<1> QED BY <1>1, BothGo

LEMMA ScanCounts == ASSUME CInv, ScanNext PROVE CInv'
<1>0. "stoppers" \in DOMAIN scan
  BY DEF CInv
<1>1. CASE ScanStart
  <2>1. Calm
    BY <1>1 DEF ScanStart, Calm, Idle
  <2>2. up' = up /\ dn' = dn
    BY <1>1 DEF ScanStart
  <2> QED BY <2>1, <2>2, UpMainGoes, CalmStep
<1>2. CASE ScanCheck
  <2>1. Calm
    <3>1. scan' = Idle(scan.again, scan.stoppers) \/ \E v : scan' = [scan EXCEPT !.pc = v]
      BY <1>2 DEF ScanCheck
    <3> QED BY <1>0, <3>1 DEF Calm, Idle
  <2>2. up' = up /\ dn' = dn
    BY <1>2 DEF ScanCheck
  <2> QED BY <2>1, <2>2, UpMainGoes, CalmStep
<1>3. CASE ScanFolders
  <2>1. Calm
    <3>1. \E a, b, c, e, f : scan' = [scan EXCEPT !.pc = a, !.moved = b, !.todo = c,
                                                  !.new = e, !.del = f]
      BY <1>3, Zenon DEF ScanFolders
    <3> QED BY <1>0, <3>1 DEF Calm
  <2>2. up' = up /\ dn' = dn
    BY <1>3 DEF ScanFolders
  <2> QED BY <2>1, <2>2, UpMainGoes, CalmStep
<1>4. CASE ScanFiles
  <2>1. Calm
    <3>1. \E p, a, b, c, e :
            scan' = IF p THEN Idle(scan.again, scan.stoppers)
                    ELSE [scan EXCEPT !.pc = a, !.new = b, !.mod = c, !.del = e]
      BY <1>4, Zenon DEF ScanFiles
    <3> QED BY <1>0, <3>1 DEF Calm, Idle
  <2>2. dn' = dn
    BY <1>4 DEF ScanFiles
  <2>3. \E ids : up' = [up EXCEPT !.run = Stopped(ids)]
    BY <1>4, Zenon DEF ScanFiles
  <2>4. UpGoes
    BY <2>3, UpStoppedGoes
  <2> QED BY <2>1, <2>2, <2>4, CalmStep
<1>5. CASE ScanEnd
  <2>1. Calm
    BY <1>5 DEF ScanEnd, Calm, Idle
  <2>2. up' = up /\ dn' = dn
    BY <1>5 DEF ScanEnd
  <2> QED BY <2>1, <2>2, UpMainGoes, CalmStep
<1>6. ASSUME NEW l, ScanFolder(l) PROVE CInv'
  <2>1. Calm
    <3>1. \E a, b, c, e : scan' = [scan EXCEPT !.todo = a, !.new = b, !.del = c, !.mod = e]
      BY <1>6, Zenon DEF ScanFolder
    <3> QED BY <1>0, <3>1 DEF Calm
  <2>2. up' = up /\ dn' = dn
    BY <1>6 DEF ScanFolder
  <2> QED BY <2>1, <2>2, UpMainGoes, CalmStep
<1>7. ASSUME NEW y, ScanGone(y) PROVE CInv'
  <2>1. Calm
    <3>1. \E a : scan' = [scan EXCEPT !.del = a]
      BY <1>7 DEF ScanGone
    <3> QED BY <1>0, <3>1 DEF Calm
  <2>2. dn' = dn
    BY <1>7 DEF ScanGone
  <2>3. up' = up \/ \E ids : up' = [up EXCEPT !.run = Stopped(ids)]
    BY <1>7, Zenon DEF ScanGone
  <2>4. UpGoes
    BY <2>3, UpStoppedGoes, UpMainGoes
  <2> QED BY <2>1, <2>2, <2>4, CalmStep
<1> QED BY <1>1, <1>2, <1>3, <1>4, <1>5, <1>6, <1>7 DEF ScanNext

LEMMA DiffCounts == ASSUME CInv, Diff PROVE CInv'
<1>1. up' = up /\ scan' = scan
  BY DEF Diff
<1>2. PICK e : dn' = [dn EXCEPT !.run = {Told(d, e) : d \in dn.run}]
  BY ZenonT(40) DEF Diff
<1>3. DOMAIN dn' = {"main", "run"} /\ dn'.run = {Told(d, e) : d \in dn.run}
      /\ dn'.main = dn.main
  BY <1>2 DEF CInv
<1>4. DownloadsApart(dn.run)
  BY DEF CInv
<1>5. /\ DownloadsApart(dn'.run)
      /\ Cardinality(Holding(dn'.run)) = Cardinality(Holding(dn.run))
      /\ DnTheirs
  <2>1. /\ DownloadsApart({Told(d, e) : d \in dn.run})
        /\ Cardinality(Holding({Told(d, e) : d \in dn.run})) = Cardinality(Holding(dn.run))
        /\ \A x \in {Told(d, e) : d \in dn.run} : \E d \in dn.run : SamePath(d, x)
    BY <1>4, DnTold
  <2> DEFINE T == {Told(d, e) : d \in dn.run}
  <2>2. dn'.run = T
    BY <1>3
  <2> HIDE DEF T
  <2> QED BY <2>1, <2>2 DEF DnTheirs, T
<1>6. DnGoes
  BY <1>1, <1>3, <1>5 DEF DnGoes, CInv
<1>7. UpGoes
  BY <1>1, UpMainGoes
<1> QED BY <1>5, <1>6, <1>7, BothGo

----------------------------------------------------------------------------
(* Uploads. *)

\* An upload that is not sent has no lock.
LEMMA UpEndsGoes ==
  ASSUME CInv, NEW u \in up.run, NEW at, Ends(u, at), u.at # "slot",
         at \notin {"send", "answer"}
  PROVE  UpGoes
<1> DEFINE w == [u EXCEPT !.at = at]
<1>1. DOMAIN u = UpFields
  BY DEF CInv, UploadsApart
<1>2. DOMAIN w = UpFields /\ w.at = at
  BY <1>1 DEF UpFields
<1>3. With(u, w) /\ ~Sending(w)
  BY <1>2 DEF Ends, Sending
<1> HIDE DEF w
<1> QED BY <1>2, <1>3, UpWithGoes
\* A step that leaves the downloads and the scanner alone.
LEMMA UpCalm == ASSUME CInv, UpGoes, scan' = scan, dn' = dn PROVE CInv'
BY CalmStep DEF Calm, CInv

\* An upload whose file has been read waits for the lock, and has it then.
LEMMA UpReadGoes ==
  ASSUME CInv, NEW u \in up.run, UpRead(u) PROVE CInv'
<1>1. dn' = dn /\ scan' = scan /\ u.at = "read" /\ ~Locked(PathTo(u), RowOf(u).name)
  BY DEF UpRead, Reading
<1>2. \E name, d, c : \/ Ends(u, "done")
                      \/ /\ name = RowOf(u).name
                         /\ With(u, [u EXCEPT !.at = "send", !.path = PathTo(u),
                                              !.name = name, !.to = d, !.c = c])
  <2>1. PICK src, row, d, i :
          /\ row = [RowOf(u) EXCEPT !.sum = disk[src].c]
          /\ IF d = None \/ i # 0 THEN Ends(u, "done")
             ELSE With(u, [u EXCEPT !.at = "send", !.path = PathTo(u),
                                    !.name = row.name, !.to = d, !.c = row.sum])
    BY Zenon DEF UpRead
  <2>2. row.name = RowOf(u).name
    BY <2>1
  <2> QED BY <2>1, <2>2
<1>3. CASE Ends(u, "done")
  BY <1>1, <1>3, UpEndsGoes, UpCalm
<1>4. ASSUME NEW d, NEW c,
             With(u, [u EXCEPT !.at = "send", !.path = PathTo(u),
                               !.name = RowOf(u).name, !.to = d, !.c = c])
      PROVE  CInv'
  <2> DEFINE w == [u EXCEPT !.at = "send", !.path = PathTo(u),
                            !.name = RowOf(u).name, !.to = d, !.c = c]
  <2>1. DOMAIN u = UpFields
    BY DEF CInv, UploadsApart
  <2>2. DOMAIN w = UpFields /\ w.at = "send" /\ w.path = PathTo(u) /\ w.name = RowOf(u).name
    BY <2>1 DEF UpFields
  <2>3. With(u, w)
    BY <1>4
  <2> HIDE DEF w
  <2>4. DOMAIN up' = {"main", "run"} /\ up'.run = (up.run \ {u}) \cup {w}
    BY <2>3 DEF CInv, With
  <2>5. \A v \in up.run : Sending(v) => ~SamePath(v, w)
    BY <1>1, <2>2 DEF Locked, Sending, SamePath
  <2>6. \A d_1 \in dn.run : ~SamePath(w, d_1)
    BY <1>1, <2>2 DEF Locked, SamePath, CInv, DownloadsApart, DownloadHolds
  <2>7. UploadsApart(up.run) /\ DownloadsApart(dn.run) /\ Apart(up.run, dn.run)
    BY DEF CInv
  <2>8. UploadsApart((up.run \ {u}) \cup {w})
    BY <1>1, <2>2, <2>5, <2>7, UpReplaced
  <2>9. Apart(up'.run, dn.run)
    BY <2>4, <2>6, <2>7 DEF Apart
  <2> QED BY <1>1, <2>4, <2>8, <2>9 DEF CInv, UploadsApart, DownloadsApart, AdmittedOf,
             Apart, Holding, One, Sending, SamePath, DownloadHolds
<1> QED BY <1>2, <1>3, <1>4

\* One comes to the list, or its row goes.
LEMMA UpStartCounts == ASSUME CInv, NEW t, UpStart(t) PROVE CInv'
<1>1. dn' = dn /\ scan' = scan
  BY DEF UpStart
<1>2. up' = up \/ \E v : up' = [main |-> v, run |-> up.run \cup {Upload(t)}]
  BY Zenon DEF UpStart
<1>3. UpGoes
  <2>1. CASE up' = up
    BY <2>1, UpMainGoes
  <2>2. ASSUME NEW v, up' = [main |-> v, run |-> up.run \cup {Upload(t)}] PROVE UpGoes
    <3>1. PICK w : w = Upload(t)
      OBVIOUS
    <3>2. DOMAIN w = UpFields /\ w.at = "slot"
      BY <3>1 DEF Upload, UpFields
    <3>3. DOMAIN up' = {"main", "run"} /\ up'.run = up.run \cup {w}
      BY <2>2, <3>1
    <3>4. UploadsApart(up.run \cup {w})
      BY <3>2, UpListed DEF CInv
    <3> QED BY <3>2, <3>3, <3>4 DEF UpGoes, Sending, SamePath
  <2> QED BY <1>2, <2>1, <2>2
<1> QED BY <1>1, <1>3, UpCalm

\* One has its turn.
LEMMA UpAdmitCounts == ASSUME CInv, NEW u \in up.run, UpAdmit(u) PROVE CInv'
<1>1. dn' = dn /\ scan' = scan /\ Cardinality(Admitted) < MaxUploads
  BY DEF UpAdmit
<1>2. PICK w : w = [u EXCEPT !.at = "read"]
  OBVIOUS
<1>3. up' = [main |-> NoTask, run |-> (up.run \ {u}) \cup {w}]
  BY <1>2, Zenon DEF UpAdmit
<1>4. DOMAIN w = UpFields /\ ~Sending(w)
  BY <1>2 DEF CInv, UploadsApart, UpFields, Sending
<1>5. UpGoes
  BY <1>1, <1>3, <1>4, UpWithGoes
<1> QED BY <1>1, <1>5, UpCalm

\* The file is sent.
LEMMA UpSendCounts == ASSUME CInv, NEW u \in up.run, UpSend(u) PROVE CInv'
<1>1. dn' = dn /\ scan' = scan /\ u.at = "send"
  BY DEF UpSend
<1>2. \E c, i : \/ With(u, [u EXCEPT !.at = "answer", !.sent = c, !.fid = i])
                \/ \E name : With(u, [u EXCEPT !.at = "answer", !.sent = c,
                                               !.fid = i, !.new = name])
  BY Zenon DEF UpSend
<1>3. DOMAIN u = UpFields
  BY DEF CInv, UploadsApart
<1>4. ASSUME NEW w, With(u, w), DOMAIN w = UpFields, w.at = "answer",
             w.path = u.path, w.name = u.name
      PROVE  UpGoes
  BY <1>1, <1>4, UpWithGoes DEF Sending, SamePath
<1>5. ASSUME NEW c, NEW i, With(u, [u EXCEPT !.at = "answer", !.sent = c, !.fid = i])
      PROVE  UpGoes
  <2>1. PICK w : w = [u EXCEPT !.at = "answer", !.sent = c, !.fid = i]
    OBVIOUS
  <2>2. DOMAIN w = UpFields /\ w.at = "answer" /\ w.path = u.path /\ w.name = u.name
    BY <1>3, <2>1 DEF UpFields
  <2> QED BY <1>4, <1>5, <2>1, <2>2
<1>6. ASSUME NEW c, NEW i, NEW name,
             With(u, [u EXCEPT !.at = "answer", !.sent = c, !.fid = i, !.new = name])
      PROVE  UpGoes
  <2>1. PICK w : w = [u EXCEPT !.at = "answer", !.sent = c, !.fid = i, !.new = name]
    OBVIOUS
  <2>2. DOMAIN w = UpFields /\ w.at = "answer" /\ w.path = u.path /\ w.name = u.name
    BY <1>3, <2>1 DEF UpFields
  <2> QED BY <1>4, <1>6, <2>1, <2>2
<1>7. UpGoes
  BY <1>2, <1>5, <1>6
<1> QED BY <1>1, <1>7, UpCalm

\* The steps of one upload.
LEMMA UploadCounts ==
  ASSUME CInv, NEW u \in up.run,
         \/ UpAdmit(u) \/ UpTurnedAway(u) \/ UpStopped(u)
         \/ UpNoRow(u) \/ UpLocked(u) \/ UpNoFile(u) \/ UpRead(u)
         \/ UpNotSent(u) \/ UpSend(u) \/ UpAnswer(u)
         \/ UpConflict(u) \/ UpLost(u) \/ UpEnd(u)
  PROVE  CInv'
<1>1. ASSUME NEW at, Ends(u, at), u.at # "slot", at \notin {"send", "answer"},
             scan' = scan, dn' = dn
      PROVE  CInv'
  BY <1>1, UpEndsGoes, UpCalm
<1>2. ASSUME Ends(u, "failed") \/ Ends(u, "done"), u.at # "slot", scan' = scan, dn' = dn
      PROVE  CInv'
  BY <1>1, <1>2
<1>3. CASE UpTurnedAway(u) \/ UpEnd(u)
  <2>1. dn' = dn /\ scan' = scan
    BY <1>3 DEF UpTurnedAway, UpEnd
  <2>2. \/ up' = [main |-> NoTask, run |-> up.run \ {u}]
        \/ up' = [up EXCEPT !.run = @ \ {u}]
    BY <1>3 DEF UpTurnedAway, UpEnd
  <2>3. UpGoes
    BY <2>2, UpFewerGoes
  <2> QED BY <2>1, <2>3, UpCalm
<1>4. CASE UpStopped(u)
  BY <1>2, <1>4 DEF UpStopped
<1>5. CASE UpNoRow(u)
  BY <1>2, <1>5 DEF UpNoRow, Reading
<1>6. CASE UpLocked(u)
  BY <1>2, <1>6 DEF UpLocked, Reading
<1>7. CASE UpNoFile(u)
  BY <1>2, <1>7 DEF UpNoFile, Reading
<1>8. CASE UpNotSent(u)
  BY <1>2, <1>8 DEF UpNotSent
<1>9. CASE UpAnswer(u)
  BY <1>2, <1>9 DEF UpAnswer, Answered
<1>10. CASE UpConflict(u)
  BY <1>2, <1>10 DEF UpConflict, Answered
<1>11. CASE UpLost(u)
  BY <1>2, <1>11 DEF UpLost
<1> QED BY <1>3, <1>4, <1>5, <1>6, <1>7, <1>8, <1>9, <1>10, <1>11,
           UpAdmitCounts, UpReadGoes, UpSendCounts

\* Uploads, and what the upload thread does itself.
LEMMA UpCounts == ASSUME CInv, UpNext PROVE CInv'
<1>1. ASSUME scan' = scan, dn' = dn, up' = up \/ \E v : up' = [up EXCEPT !.main = v]
      PROVE  CInv'
  BY <1>1, UpMainGoes, UpCalm
<1>2. ASSUME NEW t, UpMkdir(t) \/ UpMove(t) \/ UpMvdir(t) \/ UpDelete(t) PROVE CInv'
  <2>1. scan' = scan /\ dn' = dn
    BY <1>2 DEF UpMkdir, UpMove, UpMvdir, UpDelete
  <2>2. \E at, meta : Asked(t, at, meta)
    BY <1>2, Zenon DEF UpMkdir, UpMove, UpMvdir, UpDelete
  <2>3. \E v : up' = [up EXCEPT !.main = v]
    BY <2>2, Zenon DEF Asked
  <2> QED BY <1>1, <2>1, <2>3
<1>3. CASE UpMade \/ UpMoved
  <2>1. scan' = scan /\ dn' = dn
    BY <1>3 DEF UpMade, UpMoved
  <2>2. up' = [up EXCEPT !.main.at = "asked"]
    BY <1>3 DEF UpMade, UpMoved
  <2>3. up' = [up EXCEPT !.main = [up.main EXCEPT !.at = "asked"]]
    BY <2>2
  <2> QED BY <1>1, <2>1, <2>3
<1>4. CASE UpDone \/ UpAgain
  BY <1>1, <1>4 DEF UpDone, UpAgain
<1> QED BY <1>2, <1>3, <1>4, UpStartCounts, UploadCounts DEF UpNext

----------------------------------------------------------------------------
(* Downloads. *)

\* A step of the downloads that leaves the uploads alone.
LEMMA DnCalm == ASSUME CInv, up' = up, DnGoes, DnTheirs PROVE CInv'
BY UpMainGoes, BothGo

\* One download goes on, and what it holds changes with what is counted.
LEMMA DnPutCounts ==
  ASSUME CInv, up' = up, NEW d \in dn.run, NEW w, Put(d, w), DownloadHolds(w), SamePath(d, w),
         "stoppers" \in DOMAIN scan',
         scan'.stoppers = scan.stoppers + One(w.scanless) - One(d.scanless)
  PROVE  CInv'
BY DnPutGoes, DnCalm

\* The scanner's count is a number.
LEMMA StoppersFit == ASSUME CInv PROVE "stoppers" \in DOMAIN scan /\ scan.stoppers \in Int
<1>1. IsFiniteSet(dn.run) /\ Holding(dn.run) \in SUBSET dn.run
  BY DEF CInv, DownloadsApart, Holding
<1>2. Cardinality(Holding(dn.run)) \in Nat
  BY <1>1, FS_Subset, FS_CardinalityType
<1> QED BY <1>2 DEF CInv, One

\* It goes on and holds what it held.
LEMMA DnNextCounts ==
  ASSUME CInv, up' = up, scan' = scan, NEW d \in dn.run, NEW at, Next_(d, at),
         d.scanless => at \in {"aside", "unrow", "place", "row"}
  PROVE  CInv'
<1>1. DownloadHolds(d) /\ "stoppers" \in DOMAIN scan /\ scan.stoppers \in Int
  BY StoppersFit DEF CInv, DownloadsApart
<1>2. PICK w : w = [d EXCEPT !.at = at]
  OBVIOUS
<1>3. DownloadHolds(w) /\ SamePath(d, w) /\ w.scanless = d.scanless
  BY <1>1, <1>2 DEF DownloadHolds, DnFields, SamePath
<1>4. Put(d, w)
  BY <1>2 DEF Next_
<1>5. scan'.stoppers = scan.stoppers + One(w.scanless) - One(d.scanless)
  BY <1>1, <1>3 DEF One
<1> QED BY <1>1, <1>3, <1>4, <1>5, DnPutCounts

\* It ends its work on the disk, and lets the scanner on if it had stopped it.
LEMMA DnResumeCounts ==
  ASSUME CInv, up' = up, NEW d \in dn.run, NEW at, scan' = ScanResumes(d),
         Put(d, [d EXCEPT !.at = at, !.scanless = FALSE])
  PROVE  CInv'
<1>1. DownloadHolds(d) /\ "stoppers" \in DOMAIN scan /\ scan.stoppers \in Int
  BY StoppersFit DEF CInv, DownloadsApart
<1>2. PICK w : w = [d EXCEPT !.at = at, !.scanless = FALSE]
  OBVIOUS
<1>3. DownloadHolds(w) /\ SamePath(d, w) /\ w.scanless = FALSE
  BY <1>1, <1>2 DEF DownloadHolds, DnFields, SamePath
<1>4. Put(d, w)
  BY <1>2
<1>5. "stoppers" \in DOMAIN scan'
      /\ scan'.stoppers = scan.stoppers + One(w.scanless) - One(d.scanless)
  BY <1>1, <1>3 DEF One, ScanResumes, DownloadHolds
<1> QED BY <1>3, <1>4, <1>5, DnPutCounts

\* A download begins only on a path that nobody has locked.
LEMMA DnStartCounts == ASSUME CInv, NEW t, DnStart(t) PROVE CInv'
<1>1. up' = up /\ scan' = scan
  BY DEF DnStart
<1>2. \/ dn' = dn
      \/ /\ ~Locked(PathOf(db, db.task[t].l), db.task[t].name)
         /\ dn' = [dn EXCEPT !.run = @ \cup {Download(t)}]
  BY Zenon DEF DnStart
<1>3. CASE dn' = dn
  BY <1>1, <1>3, UpMainGoes, UpCalm
<1>4. CASE /\ ~Locked(PathOf(db, db.task[t].l), db.task[t].name)
           /\ dn' = [dn EXCEPT !.run = @ \cup {Download(t)}]
  <2>1. PICK w : w = Download(t)
    OBVIOUS
  <2>2. /\ DOMAIN w = DnFields /\ w.lock = TRUE /\ w.scanless = FALSE
        /\ w.path = PathOf(db, db.task[t].l) /\ w.name = db.task[t].name
    BY <2>1 DEF Download, DnFields
  <2>3. DOMAIN dn' = {"main", "run"} /\ dn'.run = dn.run \cup {w} /\ dn'.main = dn.main
    BY <1>4, <2>1 DEF CInv
  <2>4. UploadsApart(up.run) /\ DownloadsApart(dn.run) /\ Apart(up.run, dn.run)
    BY DEF CInv
  <2>5. \A d \in dn.run : ~SamePath(d, w)
    BY <1>4, <2>2, <2>4 DEF Locked, SamePath, DownloadsApart, DownloadHolds
  <2>6. \A u \in up.run : Sending(u) => ~SamePath(u, w)
    BY <1>4, <2>2 DEF Locked, SamePath, Sending
  <2>7. DownloadHolds(w)
    BY <2>2 DEF DownloadHolds
  <2>8. DownloadsApart(dn'.run) /\ Holding(dn'.run) = Holding(dn.run)
    BY <2>2, <2>3, <2>4, <2>5, <2>7, DnBegun
  <2>9. Apart(up.run, dn'.run)
    BY <2>3, <2>4, <2>6 DEF Apart
  <2> QED BY <1>1, <2>3, <2>8, <2>9 DEF CInv, UploadsApart, DownloadsApart, AdmittedOf,
             Apart, Holding, One, Sending, SamePath, DownloadHolds
<1> QED BY <1>2, <1>3, <1>4

\* The server is asked.
LEMMA DnGetCounts == ASSUME CInv, NEW d \in dn.run, DnGet(d) PROVE CInv'
<1>1. up' = up /\ scan' = scan /\ d.at = "get" /\ DownloadHolds(d)
  BY DEF DnGet, CInv, DownloadsApart
<1>2. d.scanless = FALSE
  BY <1>1 DEF DownloadHolds
<1>3. \/ Next_(d, "done")
      \/ \E at, c : Put(d, [d EXCEPT !.at = at, !.c = c])
  BY Zenon DEF DnGet
<1>4. CASE Next_(d, "done")
  BY <1>1, <1>2, <1>4, DnNextCounts
<1>5. ASSUME NEW at, NEW c, Put(d, [d EXCEPT !.at = at, !.c = c]) PROVE CInv'
  <2>1. PICK w : w = [d EXCEPT !.at = at, !.c = c]
    OBVIOUS
  <2>2. DownloadHolds(w) /\ SamePath(d, w) /\ w.scanless = FALSE
    BY <1>1, <1>2, <2>1 DEF DownloadHolds, DnFields, SamePath
  <2>3. Put(d, w)
    BY <1>5, <2>1
  <2>4. "stoppers" \in DOMAIN scan /\ scan.stoppers \in Int
    BY StoppersFit
  <2> QED BY <1>1, <1>2, <2>2, <2>3, <2>4, DnPutCounts DEF One
<1> QED BY <1>3, <1>4, <1>5

\* The scanner is stopped.
LEMMA DnLookCounts == ASSUME CInv, NEW d \in dn.run, DnLook(d) PROVE CInv'
<1>1. up' = up /\ scan' = ScanStops /\ d.at = "got" /\ DownloadHolds(d)
  BY DEF DnLook, CInv, DownloadsApart
<1>2. \E c, at : /\ at \in {"place", "aside"}
                 /\ Put(d, [d EXCEPT !.seen = c, !.scanless = TRUE, !.at = at])
  BY Zenon DEF DnLook
<1>3. PICK c, at : /\ at \in {"place", "aside"}
                   /\ Put(d, [d EXCEPT !.seen = c, !.scanless = TRUE, !.at = at])
  BY <1>2, Zenon
<1>4. PICK w : w = [d EXCEPT !.seen = c, !.scanless = TRUE, !.at = at]
  OBVIOUS
<1>5. DownloadHolds(w) /\ SamePath(d, w) /\ w.scanless = TRUE /\ d.scanless = FALSE
  BY <1>1, <1>3, <1>4 DEF DownloadHolds, DnFields, SamePath
<1>6. "stoppers" \in DOMAIN scan /\ scan.stoppers \in Int
  BY StoppersFit
<1>7. "stoppers" \in DOMAIN scan'
      /\ scan'.stoppers = scan.stoppers + One(w.scanless) - One(d.scanless)
  BY <1>1, <1>5, <1>6 DEF ScanStops, One
<1>8. Put(d, w)
  BY <1>3, <1>4
<1> QED BY <1>1, <1>5, <1>7, <1>8, DnPutCounts

\* What is there is put aside, or cannot be.
LEMMA DnAsideCounts == ASSUME CInv, NEW d \in dn.run, DnAside(d) PROVE CInv'
<1>1. up' = up /\ d.at = "aside" /\ DownloadHolds(d)
  BY DEF DnAside, CInv, DownloadsApart
<1>2. \/ Put(d, [d EXCEPT !.at = "failed", !.scanless = FALSE]) /\ scan' = ScanResumes(d)
      \/ Put(d, [d EXCEPT !.at = "unrow", !.seen = 0]) /\ scan' = scan
  BY Zenon DEF DnAside
<1>3. CASE Put(d, [d EXCEPT !.at = "failed", !.scanless = FALSE]) /\ scan' = ScanResumes(d)
  BY <1>1, <1>3, DnResumeCounts
<1>4. CASE Put(d, [d EXCEPT !.at = "unrow", !.seen = 0]) /\ scan' = scan
  <2>1. PICK w : w = [d EXCEPT !.at = "unrow", !.seen = 0]
    OBVIOUS
  <2>2. DownloadHolds(w) /\ SamePath(d, w) /\ w.scanless = d.scanless
    BY <1>1, <2>1 DEF DownloadHolds, DnFields, SamePath
  <2>3. Put(d, w)
    BY <1>4, <2>1
  <2>4. "stoppers" \in DOMAIN scan'
        /\ scan'.stoppers = scan.stoppers + One(w.scanless) - One(d.scanless)
    BY <1>4, <2>2, StoppersFit DEF One
  <2> QED BY <1>1, <2>2, <2>3, <2>4, DnPutCounts
<1> QED BY <1>2, <1>3, <1>4

\* The file takes its place, or cannot.
LEMMA DnPlaceCounts == ASSUME CInv, NEW d \in dn.run, DnPlace(d) PROVE CInv'
<1>1. up' = up
  BY DEF DnPlace
<1>2. \/ Put(d, [d EXCEPT !.at = "failed", !.scanless = FALSE]) /\ scan' = ScanResumes(d)
      \/ Next_(d, "row") /\ scan' = scan
  BY Zenon DEF DnPlace
<1> QED BY <1>1, <1>2, DnResumeCounts, DnNextCounts

\* Its row is written, or it failed, or is not wanted any more.
LEMMA DnRowCounts == ASSUME CInv, NEW d \in dn.run, DnRow(d) PROVE CInv'
<1>1. up' = up /\ scan' = ScanResumes(d)
  BY DEF DnRow
<1>2. \E at : Put(d, [d EXCEPT !.at = at, !.scanless = FALSE])
  BY Zenon DEF DnRow
<1> QED BY <1>1, <1>2, DnResumeCounts

\* It ends: it holds nothing then.
LEMMA DnEndCounts == ASSUME CInv, NEW d \in dn.run, DnEnd(d) PROVE CInv'
<1>1. up' = up /\ scan' = scan /\ ~d.scanless
  BY DEF DnEnd, CInv, DownloadsApart, DownloadHolds
<1>2. dn' = [dn EXCEPT !.run = @ \ {d}]
  BY DEF DnEnd
<1>3. DOMAIN dn' = {"main", "run"} /\ dn'.run = dn.run \ {d} /\ dn'.main = dn.main
  BY <1>2 DEF CInv
<1>4. DownloadsApart(dn'.run) /\ Holding(dn'.run) = Holding(dn.run)
  BY <1>1, <1>3, DnEnded DEF CInv
<1>5. DnGoes /\ DnTheirs
  BY <1>1, <1>3, <1>4 DEF CInv, DnGoes, DnTheirs, SamePath
<1> QED BY <1>1, <1>5, DnCalm

\* The steps of one download.
LEMMA DownloadCounts ==
  ASSUME CInv, NEW d \in dn.run,
         \/ DnGet(d) \/ DnFails(d) \/ DnStopped(d) \/ DnLook(d)
         \/ DnAside(d) \/ DnUnrow(d) \/ DnPlace(d) \/ DnRow(d) \/ DnEnd(d)
  PROVE  CInv'
<1>1. DownloadHolds(d)
  BY DEF CInv, DownloadsApart
<1>2. CASE DnFails(d)
  <2>1. up' = up /\ scan' = scan /\ ~d.scanless /\ Next_(d, "failed")
    BY <1>1, <1>2 DEF DnFails, DownloadHolds
  <2> QED BY <2>1, DnNextCounts
<1>3. CASE DnStopped(d)
  <2>1. up' = up /\ scan' = scan /\ ~d.scanless /\ \E at : Next_(d, at)
    BY <1>1, <1>3 DEF DnStopped, DownloadHolds
  <2> QED BY <2>1, DnNextCounts
<1>4. CASE DnUnrow(d)
  BY <1>4, DnNextCounts DEF DnUnrow
<1> QED BY <1>2, <1>3, <1>4, DnGetCounts, DnLookCounts, DnAsideCounts, DnPlaceCounts,
           DnRowCounts, DnEndCounts

\* What the download thread does itself: the list stays, and it holds the scanner
\* only while it renames a file.
LEMMA DnMainCounts ==
  ASSUME CInv, up' = up \/ \E ids : up' = [up EXCEPT !.run = Stopped(ids)],
         scan' = scan \/ scan' = ScanRestarts,
         dn' = dn \/ (\E v : dn' = [dn EXCEPT !.main = v] /\ v.at # "renamed"
                             /\ dn.main.at # "renamed")
  PROVE  CInv'
<1>1. UpGoes
  BY UpMainGoes, UpStoppedGoes
<1>2. Calm
  BY DEF CInv, Calm, ScanRestarts
<1>3. DnGoes /\ DnTheirs
  BY <1>2, DnStaysGoes
<1> QED BY <1>1, <1>3, BothGo

\* The file of a row is renamed, with the scanner stopped.
LEMMA MoveCounts ==
  ASSUME CInv, NEW t, dn.main.at # "renamed", up' = up, NEW r, NEW f, NEW dir,
         MoveFile(t, r, f, dir)
  PROVE  CInv'
<1>1. PICK v : v = [id |-> t, n |-> Row(t).n, at |-> "renamed", meta |-> <<Row(t), r>>]
  OBVIOUS
<1>2. dn' = [dn EXCEPT !.main = v] /\ scan' = ScanStops
  BY <1>1, Zenon DEF MoveFile
<1>3. v.at = "renamed"
  BY <1>1
<1>4. "stoppers" \in DOMAIN scan'
      /\ scan'.stoppers = scan.stoppers + One(v.at = "renamed") - One(dn.main.at = "renamed")
  BY <1>2, <1>3, StoppersFit DEF ScanStops, One
<1>5. DnGoes /\ DnTheirs
  BY <1>2, <1>4, DnRenameGoes
<1> QED BY <1>5, DnCalm

\* And then the row is.
LEMMA RenamedCounts == ASSUME CInv, DnRenamed PROVE CInv'
<1>1. up' = up /\ dn.main.at = "renamed" /\ dn' = [dn EXCEPT !.main = NoTask]
      /\ scan' = [scan EXCEPT !.stoppers = @ - 1]
  BY DEF DnRenamed, Rests
<1>2. NoTask.at # "renamed"
  BY DEF NoTask
<1>3. "stoppers" \in DOMAIN scan'
      /\ scan'.stoppers = scan.stoppers + One(NoTask.at = "renamed") - One(dn.main.at = "renamed")
  BY <1>1, <1>2, StoppersFit DEF One
<1>4. DnGoes /\ DnTheirs
  BY <1>1, <1>3, DnRenameGoes
<1> QED BY <1>1, <1>4, DnCalm

\* The thread with a row it has just read, or has waited with, renames nothing.
NotRenaming == dn.main.at # "renamed"
LEMMA DoingNotRenaming == ASSUME NEW t, NEW type, Doing(t, type) PROVE NotRenaming
BY DEF Doing, Held, NoTask, NotRenaming

\* A step of the thread's own that is not the rename of a file,
GoesNotRenaming ==
    \E v : dn' = [dn EXCEPT !.main = v] /\ v.at # "renamed" /\ dn.main.at # "renamed"
LEMMA StepNotRenamed ==
  ASSUME NEW t, NEW at, Step(t, at), at # "renamed", NotRenaming
  PROVE  GoesNotRenaming
<1>1. PICK v : v = [id |-> t, n |-> Row(t).n, at |-> at, meta |-> <<Row(t)>>]
  OBVIOUS
<1>2. v.at = at
  BY <1>1
<1>3. dn' = [dn EXCEPT !.main = v]
  BY <1>1, Zenon DEF Step
<1> QED BY <1>2, <1>3 DEF NotRenaming, GoesNotRenaming

\* and the end of one.
LEMMA RestsNotRenamed == ASSUME Rests, NotRenaming PROVE GoesNotRenaming
<1>1. PICK v : v = NoTask
  OBVIOUS
<1>2. v.at # "renamed" /\ dn' = [dn EXCEPT !.main = v]
  BY <1>1 DEF NoTask, Rests
<1> QED BY <1>2 DEF NotRenaming, GoesNotRenaming

\* What DnMvdir does with the task's row.
FolderFollows(t, row) ==
    \/ Drops(t, db)
    \/ \E i \in {DirOf(row.l)} : \E d \in {DirOf(row.to)} :
       \E there \in {At(d, row.name)} :
       \E b \in {[db EXCEPT !.lfolder[row.l].dir = row.to,
                            !.lfolder[row.l].name = row.name]} :
         Drops(t, b) \/ (UNCHANGED db /\ Rests)

LEMMA FolderFollowsIs == ASSUME NEW t, DnMvdir(t) PROVE \E row : FolderFollows(t, row)
<1>1. \E row \in {Row(t)} : FolderFollows(t, row)
  <2>1. ASSUME NEW row \in {Row(t)},
        IF ~HasPath(db, row.l) \/ ~HasPath(db, row.to)
       THEN /\ Drops(t, db) /\ UNCHANGED <<disk, scan>>
            /\ KnownIf(HasPath(db, row.l), "homeless")
       ELSE IF <<db.lfolder[row.l].dir, db.lfolder[row.l].name>> = <<row.to, row.name>>
       THEN Drops(t, db) /\ UNCHANGED <<disk, scan, ghost>>
       ELSE IF FolderAt(db, row.to, row.name) # {}
       THEN /\ Drops(t, db) /\ scan' = ScanRestarts /\ UNCHANGED disk
            /\ Known("clash")
       ELSE /\ scan' = ScanRestarts
            /\ \E i \in {DirOf(row.l)} : \E d \in {DirOf(row.to)} :
               \E there \in {At(d, row.name)} :
               \E b \in {[db EXCEPT !.lfolder[row.l].dir = row.to,
                                    !.lfolder[row.l].name = row.name]} :
                 \/ /\ i = None \/ d = None
                    /\ Drops(t, b) /\ UNCHANGED <<disk, ghost>>
                 \/ /\ i # None /\ d # None
                    /\ \A j \in there : disk[j].kind = "file" \/ In(j) = {}
                    /\ disk' = Moved(IF \E j \in there : disk[j].kind = "file"
                                     THEN Renamed(Chosen(there), d, Aside(d, row.name))
                                     ELSE disk, i, d, row.name)
                    /\ Drops(t, b) /\ UNCHANGED ghost
                 \/ \E j \in there :
                    /\ i # None /\ disk[j].kind = "folder" /\ In(j) # {}
                    /\ disk' = Merged(i, j)
                    /\ ghost' = Lost(Gone(DOMAIN disk \ DOMAIN disk', "merge"))
                    /\ IF i \in DOMAIN disk' THEN UNCHANGED db /\ Rests ELSE Drops(t, b)
         PROVE FolderFollows(t, row)
    BY <2>1, ZenonT(30) DEF FolderFollows
  <2> QED BY <2>1, ZenonT(30) DEF DnMvdir
<1> QED BY Zenon, <1>1

LEMMA DnOwnCounts ==
  ASSUME CInv, NEW t, \/ DnMkdir(t) \/ DnWaits(t) \/ DnRmdir(t) \/ DnRmtree(t) \/ DnDelete(t)
                      \/ DnMove(t) \/ DnMvdir(t)
  PROVE  CInv'
<1>1. CASE DnMkdir(t)
  <2>1. up' = up /\ scan' = scan /\ NotRenaming
    BY <1>1, DoingNotRenaming DEF DnMkdir
  <2>2. Rests \/ Step(t, "made")
    BY <1>1, Zenon DEF DnMkdir, Drops
  <2>3. GoesNotRenaming
    BY <2>1, <2>2, StepNotRenamed, RestsNotRenamed
  <2> QED BY <2>1, <2>3, DnMainCounts DEF GoesNotRenaming
<1>2. CASE DnRmdir(t)
  <2>1. up' = up /\ scan' = scan /\ NotRenaming /\ Step(t, "removed")
    BY <1>2, DoingNotRenaming DEF DnRmdir
  <2>2. GoesNotRenaming
    BY <2>1, StepNotRenamed
  <2> QED BY <2>1, <2>2, DnMainCounts DEF GoesNotRenaming
<1>3. CASE DnRmtree(t)
  <2>1. scan' = ScanRestarts /\ NotRenaming
    BY <1>3, DoingNotRenaming DEF DnRmtree
  <2>2. Rests
    BY <1>3, Zenon DEF DnRmtree, Drops
  <2>3. GoesNotRenaming
    BY <2>1, <2>2, RestsNotRenamed
  <2>4. up' = up \/ \E ids : up' = [up EXCEPT !.run = Stopped(ids)]
    BY <1>3, Zenon DEF DnRmtree
  <2> QED BY <2>1, <2>3, <2>4, DnMainCounts DEF GoesNotRenaming
<1>4. CASE DnDelete(t)
  <2>1. up' = up /\ scan' = ScanRestarts /\ NotRenaming /\ Step(t, "deleted")
    BY <1>4, DoingNotRenaming DEF DnDelete
  <2>2. GoesNotRenaming
    BY <2>1, StepNotRenamed
  <2> QED BY <2>1, <2>2, DnMainCounts DEF GoesNotRenaming
<1>5. CASE DnMove(t)
  <2>1. up' = up /\ NotRenaming
    BY <1>5, DoingNotRenaming DEF DnMove
  <2>2. ASSUME Stood(t) PROVE CInv'
    <3>1. GoesNotRenaming
      BY <2>1, <2>2, RestsNotRenamed DEF Stood
    <3> QED BY <2>1, <2>2, <3>1, DnMainCounts DEF Stood, GoesNotRenaming
  <2>3. ASSUME NEW r, NEW f, NEW dir, MoveFile(t, r, f, dir) PROVE CInv'
    BY <2>1, <2>3, MoveCounts DEF NotRenaming
  <2> QED BY <1>5, <2>2, <2>3, DnMoveIs
<1>6. CASE DnMvdir(t)
  <2>1. up' = up /\ NotRenaming
    <3>1. up' = up /\ Doing(t, "mvdir")
      BY <1>6, Zenon DEF DnMvdir
    <3> QED BY <3>1, DoingNotRenaming
  <2>2. Rests
    <3>1. PICK row : FolderFollows(t, row)
      BY <1>6, FolderFollowsIs
    <3>2. Rests \/ \E b : Drops(t, b)
      BY Zenon, <3>1 DEF FolderFollows
    <3> QED BY Zenon, <3>2 DEF Drops
  <2>3. GoesNotRenaming
    BY <2>1, <2>2, RestsNotRenamed
  <2>4. scan' = scan \/ scan' = ScanRestarts
    BY <1>6, ZenonT(30) DEF DnMvdir
  <2> QED BY <2>1, <2>3, <2>4, DnMainCounts DEF GoesNotRenaming
<1>7. CASE DnWaits(t)
  <2>1. up' = up /\ scan' = scan /\ Step(t, "waits") /\ NotRenaming
    BY <1>7 DEF DnWaits, NoTask, NotRenaming
  <2>2. GoesNotRenaming
    BY <2>1, StepNotRenamed
  <2> QED BY <2>1, <2>2, DnMainCounts DEF GoesNotRenaming
<1> QED BY <1>1, <1>2, <1>3, <1>4, <1>5, <1>6, <1>7

\* And the ends of those.
LEMMA DnAfterCounts == ASSUME CInv, DnMade \/ DnRemoved \/ DnDeleted PROVE CInv'
<1>1. scan' = scan /\ dn' = [dn EXCEPT !.main = NoTask]
  BY DEF DnMade, DnRemoved, DnDeleted, Rests
<1>2. NoTask.at # "renamed"
  BY DEF NoTask
<1>3. dn.main.at # "renamed"
  BY DEF DnMade, DnRemoved, DnDeleted
<1>4. up' = up \/ \E ids : up' = [up EXCEPT !.run = Stopped(ids)]
  BY Zenon DEF DnMade, DnRemoved, DnDeleted
<1> QED BY <1>1, <1>2, <1>3, <1>4, DnMainCounts

LEMMA DnCounts == ASSUME CInv, DnNext PROVE CInv'
BY DnStartCounts, DnOwnCounts, DnAfterCounts, RenamedCounts, DownloadCounts DEF DnNext

----------------------------------------------------------------------------
(* All steps. *)

LEMMA OthersCount == ASSUME CInv, UNCHANGED <<scan, up, dn>> PROVE CInv'
BY UpMainGoes, UpCalm

LEMMA EmptyCounts ==
  ASSUME CInv, DOMAIN up' = {"main", "run"}, up'.run = {},
         DOMAIN dn' = {"main", "run"}, dn'.run = {}, dn'.main.at # "renamed",
         "stoppers" \in DOMAIN scan', scan'.stoppers = 0
  PROVE  CInv'
<1>1. IsFiniteSet({}) /\ Cardinality({}) = 0
  BY FS_EmptySet
<1>2. Holding(dn'.run) = {}
  BY DEF Holding
<1>3. UploadsApart(up'.run) /\ DownloadsApart(dn'.run)
  <2>1. UploadsApart({}) /\ DownloadsApart({})
    <3>1. AdmittedOf({}) = {}
      BY DEF AdmittedOf
    <3> QED BY <1>1, <3>1, MaxUploadsAssumption DEF UploadsApart, DownloadsApart
  <2> QED BY <2>1
<1>4. scan'.stoppers = Cardinality(Holding(dn'.run)) + One(dn'.main.at = "renamed")
  <2>1. Cardinality(Holding(dn'.run)) = 0
    BY <1>1, <1>2
  <2> QED BY <2>1 DEF One
<1>5. UpGoes /\ DnGoes /\ DnTheirs
  BY <1>3, <1>4 DEF UpGoes, DnGoes, DnTheirs
<1> QED BY <1>5, BothGo

LEMMA InitCounts == Init => CInv
<1> SUFFICES ASSUME Init PROVE CInv
  OBVIOUS
<1>1. DOMAIN up = {"main", "run"} /\ up.run = {}
      /\ DOMAIN dn = {"main", "run"} /\ dn.run = {} /\ dn.main.at # "renamed"
      /\ "stoppers" \in DOMAIN scan /\ scan.stoppers = 0
  BY DEF Init, NoTask, Idle
<1>2. IsFiniteSet({}) /\ Cardinality({}) = 0
  BY FS_EmptySet
<1>3. AdmittedOf(up.run) = {} /\ Holding(dn.run) = {}
  BY <1>1 DEF AdmittedOf, Holding
<1> QED BY <1>1, <1>2, <1>3, MaxUploadsAssumption
        DEF CInv, UploadsApart, DownloadsApart, Apart, One

LEMMA NextCounts == CInv /\ [Next]_vars => CInv'
<1> SUFFICES ASSUME CInv, [Next]_vars PROVE CInv'
  OBVIOUS
<1>1. CASE UNCHANGED vars
  BY <1>1, OthersCount DEF vars
<1>2. CASE UserHere \/ UserThere \/ Stays
  BY <1>2, OthersCount DEF UserHere, UserThere, Stays, vars
<1>3. CASE Restart
  <2>1. /\ up' = [main |-> NoTask, run |-> {}] /\ dn' = [main |-> NoTask, run |-> {}]
        /\ scan' = Idle(FALSE, 0)
    BY <1>3 DEF Restart
  <2>2. DOMAIN up' = {"main", "run"} /\ up'.run = {}
        /\ DOMAIN dn' = {"main", "run"} /\ dn'.run = {} /\ dn'.main.at # "renamed"
        /\ "stoppers" \in DOMAIN scan' /\ scan'.stoppers = 0
    BY <2>1 DEF NoTask, Idle
  <2> QED BY <2>2, EmptyCounts
<1> QED BY <1>1, <1>2, <1>3, ScanCounts, DiffCounts, UpCounts, DnCounts DEF Next

\* psync_lock_file (pupload.c, pdownload.c) and the list of uploads: no two
\* transfers that run have one path, the scanner is stopped as often as there are
\* threads that hold it, and never more than MaxUploads files are sent at once.
THEOREM TransfersApart == Spec => [](PathsExclusive /\ StoppersCounted /\ UploadsBounded)
<1>1. Spec => []CInv
  BY InitCounts, NextCounts, PTL DEF Spec
<1>2. CInv => PathsExclusive /\ StoppersCounted /\ UploadsBounded
  BY DEF CInv, UploadsApart, DownloadsApart, Apart, AdmittedOf, Admitted, Holding, One,
         PathsExclusive, StoppersCounted, UploadsBounded
<1> QED BY <1>1, <1>2, PTL

----------------------------------------------------------------------------
(* The tables: the loops of the scanner, and of a folder that is added. *)

\* What a loop makes of its place, the tables and what is still to be added.
Adding(seen, s) == DOMAIN s = {"b", "at", "todo"} /\ Based(seen, s.b)

RenameFolders == INSTANCE Fold WITH Op <- scan_rename_folder, Kept <- Based
CreateFolders == INSTANCE Fold WITH Op <- scan_create_folder, Kept <- Based
RenameFiles == INSTANCE Fold WITH Op <- scan_rename_file, Kept <- Based
UploadFiles == INSTANCE Fold WITH Op <- scan_upload_file, Kept <- Based
UploadModified == INSTANCE Fold WITH Op <- scan_upload_modified_file, Kept <- Based
DeleteFiles == INSTANCE Fold WITH Op <- scan_delete_file, Kept <- Based
DropUploads == INSTANCE Fold WITH Op <- pupload_del_tasks, Kept <- Based
AddFolders == INSTANCE Fold WITH Op <- dl_add, Kept <- Adding

\* Tables with the same files, and finitely many folders.
LEMMA BasedLike ==
  ASSUME NEW seen, NEW b, Based(seen, b), NEW c, DOMAIN c = DbFields, c.lfile = b.lfile,
         IsFiniteSet(DOMAIN c.lfolder), IsFiniteSet(DOMAIN c.mir)
  PROVE  Based(seen, c)
BY DEF Based

\* A row of task, more, less, or taken.
LEMMA BasedQueue ==
  ASSUME NEW seen, NEW b, Based(seen, b), NEW type, NEW item, NEW l, NEW to, NEW name
  PROVE  Based(seen, Queue(b, type, item, l, to, name))
<1> DEFINE row == [type |-> type, item |-> item, l |-> l, to |-> to,
                   name |-> name, busy |-> FALSE, n |-> b.born + 1]
           v == Plus(b.task, NextTask(b), row)
           w == b.born + 1
           c == Queue(b, type, item, l, to, name)
<1>1. c = [b EXCEPT !.task = v, !.born = w]
  BY DEF Queue
<1> HIDE DEF c, v, w
<1>2. DOMAIN c = DbFields /\ c.lfile = b.lfile /\ c.lfolder = b.lfolder /\ c.mir = b.mir
  BY <1>1 DEF Based, DbFields
<1>3. IsFiniteSet(DOMAIN c.lfolder) /\ IsFiniteSet(DOMAIN c.mir)
  BY <1>2 DEF Based
<1>4. Based(seen, c)
  BY <1>2, <1>3, BasedLike
<1> QED BY <1>4 DEF c

\* Other rows of task.
LEMMA BasedTasks ==
  ASSUME NEW seen, NEW b, Based(seen, b), NEW v
  PROVE  Based(seen, [b EXCEPT !.task = v])
<1> DEFINE c == [b EXCEPT !.task = v]
<1>2. DOMAIN c = DbFields /\ c.lfile = b.lfile /\ c.lfolder = b.lfolder /\ c.mir = b.mir
  BY DEF Based, DbFields
<1> HIDE DEF c
<1>3. IsFiniteSet(DOMAIN c.lfolder) /\ IsFiniteSet(DOMAIN c.mir)
  BY <1>2 DEF Based
<1>4. Based(seen, c)
  BY <1>2, <1>3, BasedLike
<1> QED BY <1>4 DEF c

\* A row of task less,
LEMMA BasedDrop ==
  ASSUME NEW seen, NEW b, Based(seen, b), NEW t
  PROVE  Based(seen, DropTask(b, t))
<1> DEFINE v == Without(b.task, {t})
<1>1. DropTask(b, t) = [b EXCEPT !.task = v]
  BY DEF DropTask
<1> HIDE DEF v
<1> QED BY <1>1, BasedTasks

\* or one that is taken, or let go.
LEMMA BasedBusy ==
  ASSUME NEW seen, NEW b, Based(seen, b), NEW t, NEW yes
  PROVE  Based(seen, Busy(b, t, yes))
<1> DEFINE v == [b.task EXCEPT ![t].busy = yes]
<1>1. [b EXCEPT !.task[t].busy = yes] = [b EXCEPT !.task = v]
  OBVIOUS
<1>2. Based(seen, [b EXCEPT !.task = v])
  <2> HIDE DEF v
  <2> QED BY BasedTasks
<1> HIDE DEF v
<1> QED BY <1>1, <1>2 DEF Busy

\* The numbers that were given, and whether a statement failed.
LEMMA BasedFails ==
  ASSUME NEW seen, NEW b, Based(seen, b) PROVE Based(seen, Fails(b))
<1> DEFINE c == Fails(b)
<1>2. DOMAIN c = DbFields /\ c.lfile = b.lfile /\ c.lfolder = b.lfolder /\ c.mir = b.mir
  BY DEF Based, DbFields, Fails
<1> HIDE DEF c
<1>3. IsFiniteSet(DOMAIN c.lfolder) /\ IsFiniteSet(DOMAIN c.mir)
  BY <1>2 DEF Based
<1>4. Based(seen, c)
  BY <1>2, <1>3, BasedLike
<1> QED BY <1>4 DEF c

\* Folders that are synced.
LEMMA BasedSynced ==
  ASSUME NEW seen, NEW b, Based(seen, b), NEW v
  PROVE  Based(seen, [b EXCEPT !.synced = v])
<1> DEFINE c == [b EXCEPT !.synced = v]
<1>2. DOMAIN c = DbFields /\ c.lfile = b.lfile /\ c.lfolder = b.lfolder /\ c.mir = b.mir
  BY DEF Based, DbFields
<1> HIDE DEF c
<1>3. IsFiniteSet(DOMAIN c.lfolder) /\ IsFiniteSet(DOMAIN c.mir)
  BY <1>2 DEF Based
<1>4. Based(seen, c)
  BY <1>2, <1>3, BasedLike
<1> QED BY <1>4 DEF c

\* Folders here.
LEMMA BasedFolders ==
  ASSUME NEW seen, NEW b, Based(seen, b), NEW v, IsFiniteSet(DOMAIN v)
  PROVE  Based(seen, [b EXCEPT !.lfolder = v])
<1> DEFINE c == [b EXCEPT !.lfolder = v]
<1>2. DOMAIN c = DbFields /\ c.lfile = b.lfile /\ c.lfolder = v /\ c.mir = b.mir
  BY DEF Based, DbFields
<1> HIDE DEF c
<1>3. IsFiniteSet(DOMAIN c.lfolder) /\ IsFiniteSet(DOMAIN c.mir)
  BY <1>2 DEF Based
<1>4. Based(seen, c)
  BY <1>2, <1>3, BasedLike
<1> QED BY <1>4 DEF c

\* Other rows of the mirror of the server.
LEMMA BasedMir ==
  ASSUME NEW seen, NEW b, Based(seen, b), NEW v, IsFiniteSet(DOMAIN v)
  PROVE  Based(seen, [b EXCEPT !.mir = v])
<1> DEFINE c == [b EXCEPT !.mir = v]
<1>2. DOMAIN c = DbFields /\ c.lfile = b.lfile /\ c.lfolder = b.lfolder /\ c.mir = v
  BY DEF Based, DbFields
<1> HIDE DEF c
<1>3. IsFiniteSet(DOMAIN c.lfolder) /\ IsFiniteSet(DOMAIN c.mir)
  BY <1>2 DEF Based
<1>4. Based(seen, c)
  BY <1>2, <1>3, BasedLike
<1> QED BY <1>4 DEF c

\* Some more or fewer rows are finitely many.
LEMMA FinitePlus ==
  ASSUME NEW f, IsFiniteSet(DOMAIN f), NEW x, NEW v
  PROVE  IsFiniteSet(DOMAIN Plus(f, x, v))
<1>1. DOMAIN Plus(f, x, v) = DOMAIN f \cup {x}
  BY DEF Plus
<1> QED BY <1>1, FS_AddElement

\* and so are fewer.
LEMMA FiniteWithout ==
  ASSUME NEW f, IsFiniteSet(DOMAIN f), NEW S
  PROVE  IsFiniteSet(DOMAIN Without(f, S))
<1>1. DOMAIN Without(f, S) = DOMAIN f \ S
  BY DEF Without, Restrict
<1> QED BY <1>1, FS_Subset

\* A file whose row is another.
RowFits(seen, row) == DOMAIN row = RowFields /\ row.hash \in seen /\ row.sum \in seen

\* Rows of files, all of versions that have been here.
LEMMA BasedFiles ==
  ASSUME NEW seen, NEW b, Based(seen, b), NEW v, IsFiniteSet(DOMAIN v),
         \A r \in DOMAIN v : RowFits(seen, v[r])
  PROVE  Based(seen, [b EXCEPT !.lfile = v])
<1> DEFINE c == [b EXCEPT !.lfile = v]
<1>2. DOMAIN c = DbFields /\ c.lfile = v /\ c.lfolder = b.lfolder /\ c.mir = b.mir
  BY DEF Based, DbFields
<1> HIDE DEF c
<1>3. IsFiniteSet(DOMAIN c.lfolder) /\ IsFiniteSet(DOMAIN c.mir) /\ 0 \in seen
  BY <1>2 DEF Based
<1>4. Based(seen, c)
  BY <1>2, <1>3 DEF Based, RowFits
<1> QED BY <1>4 DEF c

\* They are finitely many, and each one fits.
LEMMA RowsFit ==
  ASSUME NEW seen, NEW b, Based(seen, b)
  PROVE  IsFiniteSet(DOMAIN b.lfile) /\ \A r \in DOMAIN b.lfile : RowFits(seen, b.lfile[r])
BY DEF Based, RowFits

\* Some rows of files less,
LEMMA BasedLess ==
  ASSUME NEW seen, NEW b, Based(seen, b), NEW S
  PROVE  Based(seen, [b EXCEPT !.lfile = Without(@, S)])
<1> DEFINE v == Without(b.lfile, S)
<1>1. IsFiniteSet(DOMAIN v)
  BY RowsFit, FiniteWithout
<1>2. \A r \in DOMAIN v : RowFits(seen, v[r])
  BY RowsFit DEF Without, Restrict
<1> HIDE DEF v
<1>3. Based(seen, [b EXCEPT !.lfile = v])
  BY <1>1, <1>2, BasedFiles
<1> QED BY <1>3 DEF v

\* or one more, or another in its place.
LEMMA BasedRow ==
  ASSUME NEW seen, NEW b, Based(seen, b), NEW r, NEW row, RowFits(seen, row)
  PROVE  /\ Based(seen, [b EXCEPT !.lfile = Plus(@, r, row)])
         /\ Based(seen, [b EXCEPT !.lfile[r] = row])
<1>1. Based(seen, [b EXCEPT !.lfile = Plus(@, r, row)])
  <2> DEFINE v == Plus(b.lfile, r, row)
  <2>1. IsFiniteSet(DOMAIN v)
    BY RowsFit, FinitePlus
  <2>2. \A x \in DOMAIN v : RowFits(seen, v[x])
    BY RowsFit DEF Plus
  <2> HIDE DEF v
  <2>3. Based(seen, [b EXCEPT !.lfile = v])
    BY <2>1, <2>2, BasedFiles
  <2> QED BY <2>3 DEF v
<1>2. Based(seen, [b EXCEPT !.lfile[r] = row])
  <2> DEFINE v == [b.lfile EXCEPT ![r] = row]
  <2>1. IsFiniteSet(DOMAIN v)
    BY RowsFit
  <2>2. \A x \in DOMAIN v : RowFits(seen, v[x])
    BY RowsFit
  <2> HIDE DEF v
  <2>3. Based(seen, [b EXCEPT !.lfile = v])
    BY <2>1, <2>2, BasedFiles
  <2> QED BY <2>3 DEF v
<1> QED BY <1>1, <1>2

\* A file is written of in another place, by another inode, with another version.
LEMMA BasedPlace ==
  ASSUME NEW seen, NEW b, Based(seen, b), NEW r \in DOMAIN b.lfile, NEW d, NEW name
  PROVE  Based(seen, [b EXCEPT !.lfile[r].dir = d, !.lfile[r].name = name])
<1> DEFINE row == [b.lfile[r] EXCEPT !.dir = d, !.name = name]
<1>1. [b EXCEPT !.lfile[r].dir = d, !.lfile[r].name = name] = [b EXCEPT !.lfile[r] = row]
  BY DEF Based, DbFields
<1>2. RowFits(seen, row)
  BY RowsFit DEF RowFits, RowFields
<1> HIDE DEF row
<1>3. Based(seen, [b EXCEPT !.lfile[r] = row])
  BY <1>2, BasedRow
<1> QED BY <1>1, <1>3

\* It is given the inode and the time of the file,
LEMMA BasedInode ==
  ASSUME NEW seen, NEW b, Based(seen, b), NEW r \in DOMAIN b.lfile, NEW i, NEW m
  PROVE  Based(seen, [b EXCEPT !.lfile[r].ino = i, !.lfile[r].m = m])
<1> DEFINE row == [b.lfile[r] EXCEPT !.ino = i, !.m = m]
<1>1. [b EXCEPT !.lfile[r].ino = i, !.lfile[r].m = m] = [b EXCEPT !.lfile[r] = row]
  BY DEF Based, DbFields
<1>2. RowFits(seen, row)
  BY RowsFit DEF RowFits, RowFields
<1> HIDE DEF row
<1>3. Based(seen, [b EXCEPT !.lfile[r] = row])
  BY <1>2, BasedRow
<1> QED BY <1>1, <1>3

\* or the version it stands for, which has been here.
LEMMA BasedVersion ==
  ASSUME NEW seen, NEW b, Based(seen, b), NEW r \in DOMAIN b.lfile, NEW f, NEW c \in seen
  PROVE  Based(seen, [b EXCEPT !.lfile[r].fid = f, !.lfile[r].hash = c])
<1> DEFINE row == [b.lfile[r] EXCEPT !.fid = f, !.hash = c]
<1>1. [b EXCEPT !.lfile[r].fid = f, !.lfile[r].hash = c] = [b EXCEPT !.lfile[r] = row]
  BY DEF Based, DbFields
<1>2. RowFits(seen, row)
  BY RowsFit DEF RowFits, RowFields
<1> HIDE DEF row
<1>3. Based(seen, [b EXCEPT !.lfile[r] = row])
  BY <1>2, BasedRow
<1> QED BY <1>1, <1>3

----------------------------------------------------------------------------
(* What the scanner does for one entry. *)

\* scan_rename_folder: the rows of folders.
LEMMA ScanRenameFolder ==
  ASSUME NEW seen, NEW b, Based(seen, b), NEW p
  PROVE  Based(seen, scan_rename_folder(b, p))
<1> DEFINE y == p[1]
           x == p[2]
           v == [b.lfolder EXCEPT ![y.id].dir = x.dir, ![y.id].name = x.name]
           c == [b EXCEPT !.lfolder[y.id].dir = x.dir, !.lfolder[y.id].name = x.name]
<1>1. IsFiniteSet(DOMAIN v)
  BY DEF Based
<1>2. c = [b EXCEPT !.lfolder = v]
  BY DEF Based, DbFields
<1>3. Based(seen, c)
  <2> HIDE DEF v, c
  <2> QED BY <1>1, <1>2, BasedFolders
<1>4. Based(seen, ptask_rdir_rename(c, y.id, x.dir, x.name))
  <2> HIDE DEF c
  <2> QED BY <1>3, BasedQueue DEF ptask_rdir_rename
<1>5. \/ scan_rename_folder(b, p) = b \/ scan_rename_folder(b, p) = Fails(b)
      \/ scan_rename_folder(b, p) = ptask_rdir_rename(c, y.id, x.dir, x.name)
  <2>1. scan_rename_folder(b, p) =
          IF y.id \notin DOMAIN b.lfolder THEN b
          ELSE IF FolderAt(b, x.dir, x.name) \ {y.id} # {} \/ ~HasPath(b, x.dir) THEN Fails(b)
          ELSE ptask_rdir_rename(c, y.id, x.dir, x.name)
    BY DEF scan_rename_folder
  <2> HIDE DEF c, x, y
  <2> QED BY <2>1
<1> HIDE DEF c, x, y
<1> QED BY <1>4, <1>5, BasedFails

\* scan_create_folder: a row for a folder that is new.
LEMMA ScanCreateFolder ==
  ASSUME NEW seen, NEW b, Based(seen, b), NEW x
  PROVE  Based(seen, scan_create_folder(b, x))
<1> DEFINE there == FolderAt(b, x.dir, x.name)
           id == b.lastfolder + 1
           row == [dir |-> x.dir, name |-> x.name, ino |-> x.ino, fid |-> 0]
           v == Plus(b.lfolder, id, row)
           w == Plus(b.synced, id, 0)
           u == [b.lfolder EXCEPT ![Chosen(there)].ino = x.ino]
           a == [b EXCEPT !.lfolder[Chosen(there)].ino = x.ino]
           c == [b EXCEPT !.lfolder = v, !.synced = w, !.lastfolder = id]
<1>1. Based(seen, a)
  <2>1. IsFiniteSet(DOMAIN u)
    BY DEF Based
  <2>2. a = [b EXCEPT !.lfolder = u]
    BY DEF Based, DbFields
  <2> HIDE DEF a, u
  <2> QED BY <2>1, <2>2, BasedFolders
<1>2. Based(seen, c)
  <2>1. IsFiniteSet(DOMAIN v)
    <3> HIDE DEF row, id
    <3> QED BY FinitePlus DEF Based
  <2> HIDE DEF v, w, id
  <2>2. DOMAIN c = DbFields /\ c.lfile = b.lfile /\ c.lfolder = v /\ c.mir = b.mir
    BY DEF Based, DbFields
  <2> HIDE DEF c
  <2>3. IsFiniteSet(DOMAIN c.mir)
    BY <2>2 DEF Based
  <2> QED BY <2>1, <2>2, <2>3, BasedLike
<1>3. Based(seen, ptask_rdir_mk(c, id, x.name))
  <2> HIDE DEF c, id
  <2> QED BY <1>2, BasedQueue DEF ptask_rdir_mk
<1>4. scan_create_folder(b, x) =
        IF there # {} THEN a ELSE IF ~HasPath(b, x.dir) THEN Fails(b)
        ELSE ptask_rdir_mk(c, id, x.name)
  BY DEF scan_create_folder
<1> HIDE DEF a, c, id, there
<1> QED BY <1>1, <1>3, <1>4, BasedFails

\* scan_rename_file: the row follows its file.
LEMMA ScanRenameFile ==
  ASSUME NEW seen, NEW b, Based(seen, b), NEW p
  PROVE  Based(seen, scan_rename_file(b, p))
<1> DEFINE y == p[1]
           x == p[2]
           c == [b EXCEPT !.lfile[y.id].dir = x.dir, !.lfile[y.id].name = x.name]
<1>1. scan_rename_file(b, p) =
        IF y.id \notin DOMAIN b.lfile THEN b
        ELSE IF FileAt(b, x.dir, x.name) \ {y.id} # {} \/ ~HasPath(b, x.dir) THEN Fails(b)
        ELSE ptask_rfile_rename(c, y.id, x.dir, x.name)
  BY DEF scan_rename_file
<1>2. y.id \in DOMAIN b.lfile => Based(seen, c)
  <2> HIDE DEF x, y
  <2> QED BY BasedPlace
<1>3. y.id \in DOMAIN b.lfile => Based(seen, ptask_rfile_rename(c, y.id, x.dir, x.name))
  <2> HIDE DEF c, x, y
  <2> QED BY <1>2, BasedQueue DEF ptask_rfile_rename
<1> HIDE DEF c, x, y
<1> QED BY <1>1, <1>3, BasedFails

\* scan_upload_file: a row without a version, and a task.
LEMMA ScanUploadFile ==
  ASSUME NEW seen, NEW b, Based(seen, b), NEW x
  PROVE  Based(seen, scan_upload_file(b, x))
<1> DEFINE id == b.lastfile + 1
           row == [dir |-> x.dir, name |-> x.name, fid |-> 0, hash |-> 0, sum |-> 0,
                   ino |-> x.ino, m |-> x.m]
           v == Plus(b.lfile, id, row)
           c == [b EXCEPT !.lfile = v, !.lastfile = id]
<1>1. RowFits(seen, row)
  BY DEF RowFits, RowFields, Based
<1>2. IsFiniteSet(DOMAIN v) /\ \A r \in DOMAIN v : RowFits(seen, v[r])
  <2> HIDE DEF row, id
  <2>1. IsFiniteSet(DOMAIN v)
    BY RowsFit, FinitePlus
  <2>2. \A r \in DOMAIN v : RowFits(seen, v[r])
    BY <1>1, RowsFit DEF Plus
  <2> QED BY <2>1, <2>2
<1>3. Based(seen, c)
  <2> HIDE DEF v, id
  <2>1. DOMAIN c = DbFields /\ c.lfile = v /\ c.lfolder = b.lfolder /\ c.mir = b.mir
    BY DEF Based, DbFields
  <2> HIDE DEF c
  <2>2. IsFiniteSet(DOMAIN c.lfolder) /\ IsFiniteSet(DOMAIN c.mir) /\ 0 \in seen
    BY <2>1 DEF Based
  <2> QED BY <1>2, <2>1, <2>2 DEF Based, RowFits
<1>4. Based(seen, ptask_upload_q(c, id, x.name))
  <2> HIDE DEF c, id
  <2> QED BY <1>3, BasedQueue DEF ptask_upload_q
<1>5. scan_upload_file(b, x) =
        IF FileAt(b, x.dir, x.name) # {} THEN b ELSE IF ~HasPath(b, x.dir) THEN Fails(b)
        ELSE ptask_upload_q(c, id, x.name)
  BY DEF scan_upload_file
<1> HIDE DEF c, id
<1> QED BY <1>4, <1>5, BasedFails

\* pupload_del_tasks: the uploads of a row are dropped.
LEMMA DelTasks ==
  ASSUME NEW seen, NEW b, Based(seen, b), NEW r
  PROVE  /\ Based(seen, pupload_del_tasks(b, r))
         /\ pupload_del_tasks(b, r).lfile = b.lfile
<1> DEFINE v == Without(b.task, UploadsOf(b, r))
<1>1. pupload_del_tasks(b, r) = [b EXCEPT !.task = v]
  BY DEF pupload_del_tasks
<1> HIDE DEF v
<1>2. Based(seen, [b EXCEPT !.task = v])
  BY BasedTasks
<1>3. [b EXCEPT !.task = v].lfile = b.lfile
  BY DEF Based, DbFields
<1> QED BY <1>1, <1>2, <1>3

\* scan_upload_modified_file: the row knows that the file is another.
LEMMA ScanUploadModified ==
  ASSUME NEW seen, NEW b, Based(seen, b), NEW x
  PROVE  Based(seen, scan_upload_modified_file(b, x))
<1> DEFINE a == pupload_del_tasks(b, x.id)
           c == [a EXCEPT !.lfile[x.id].ino = x.ino, !.lfile[x.id].m = x.m]
           e == IF x.id \notin DOMAIN b.lfile THEN a ELSE c
<1>1. Based(seen, a) /\ a.lfile = b.lfile
  BY DelTasks
<1>2. x.id \in DOMAIN b.lfile => Based(seen, c)
  <2> HIDE DEF a
  <2> QED BY <1>1, BasedInode
<1>3. Based(seen, e)
  <2> HIDE DEF a, c
  <2> QED BY <1>1, <1>2
<1>4. scan_upload_modified_file(b, x) = ptask_upload_q(e, x.id, x.name)
  BY DEF scan_upload_modified_file
<1> HIDE DEF e
<1> QED BY <1>3, <1>4, BasedQueue DEF ptask_upload_q

\* scan_delete_file: the row goes.
LEMMA ScanDeleteFile ==
  ASSUME NEW seen, NEW b, Based(seen, b), NEW y
  PROVE  Based(seen, scan_delete_file(b, y))
<1> DEFINE a == pupload_del_tasks(b, y.id)
           c == [a EXCEPT !.lfile = Without(@, {y.id})]
           fid == b.lfile[y.id].fid
<1>1. Based(seen, a)
  BY DelTasks
<1>2. Based(seen, c)
  <2> HIDE DEF a
  <2> QED BY <1>1, BasedLess
<1>3. Based(seen, ptask_rfile_rm(c, fid))
  <2> HIDE DEF c, fid
  <2> QED BY <1>2, BasedQueue DEF ptask_rfile_rm
<1>4. scan_delete_file(b, y) =
        IF y.id \notin DOMAIN b.lfile THEN b
        ELSE IF fid = 0 THEN c ELSE ptask_rfile_rm(c, fid)
  BY DEF scan_delete_file
<1> HIDE DEF c, fid
<1> QED BY <1>2, <1>3, <1>4

----------------------------------------------------------------------------
(* The loops of the scanner. *)

\* The elements of a finite set one after another.
LEMMA SeqOfSet ==
  ASSUME NEW S, IsFiniteSet(S)
  PROVE  /\ Cardinality(S) \in Nat
         /\ SetToSeq(S) \in [1..Cardinality(S) -> S]
<1>1. Cardinality(S) \in Nat /\ ExistsBijection(1..Cardinality(S), S)
  BY FS_CardinalityType
<1>2. \E f \in [1..Cardinality(S) -> S] : IsInjective(f)
  <2>1. PICK f \in Bijection(1..Cardinality(S), S) : TRUE
    BY <1>1 DEF ExistsBijection
  <2>2. f \in [1..Cardinality(S) -> S] /\ IsInjective(f)
    BY <2>1 DEF Bijection, Injection, IsInjective
  <2> QED BY <2>2
<1> QED BY <1>1, <1>2 DEF SetToSeq

\* The loops, one after another: folders that were renamed,
LEMMA RenameFoldersKeeps ==
  ASSUME NEW seen, NEW b, Based(seen, b), NEW S, IsFiniteSet(S)
  PROVE  Based(seen, Each(scan_rename_folder, b, S))
<1> DEFINE s == SetToSeq(S)
           n == Cardinality(S)
<1>1. n \in Nat /\ DOMAIN s = 1..n
  BY SeqOfSet
<1> HIDE DEF s, n
<1>2. \A i \in 1..n : \A c : Based(seen, c) => Based(seen, scan_rename_folder(c, s[i]))
  BY ScanRenameFolder
<1>3. RenameFolders!FoldLeft(scan_rename_folder, b, s) = FoldLeft(scan_rename_folder, b, s)
  BY DEF FoldLeft, RenameFolders!FoldLeft, MapThenFoldSet, RenameFolders!MapThenFoldSet, Max, RenameFolders!Max
<1>4. Based(seen, RenameFolders!FoldLeft(scan_rename_folder, b, s))
  BY <1>1, <1>2, RenameFolders!FoldKeeps
<1> QED BY <1>3, <1>4 DEF Each, s

\* folders that are new,
LEMMA CreateFoldersKeeps ==
  ASSUME NEW seen, NEW b, Based(seen, b), NEW S, IsFiniteSet(S)
  PROVE  Based(seen, Each(scan_create_folder, b, S))
<1> DEFINE s == SetToSeq(S)
           n == Cardinality(S)
<1>1. n \in Nat /\ DOMAIN s = 1..n
  BY SeqOfSet
<1> HIDE DEF s, n
<1>2. \A i \in 1..n : \A c : Based(seen, c) => Based(seen, scan_create_folder(c, s[i]))
  BY ScanCreateFolder
<1>3. CreateFolders!FoldLeft(scan_create_folder, b, s) = FoldLeft(scan_create_folder, b, s)
  BY DEF FoldLeft, CreateFolders!FoldLeft, MapThenFoldSet, CreateFolders!MapThenFoldSet, Max, CreateFolders!Max
<1>4. Based(seen, CreateFolders!FoldLeft(scan_create_folder, b, s))
  BY <1>1, <1>2, CreateFolders!FoldKeeps
<1> QED BY <1>3, <1>4 DEF Each, s

\* files that were renamed,
LEMMA RenameFilesKeeps ==
  ASSUME NEW seen, NEW b, Based(seen, b), NEW S, IsFiniteSet(S)
  PROVE  Based(seen, Each(scan_rename_file, b, S))
<1> DEFINE s == SetToSeq(S)
           n == Cardinality(S)
<1>1. n \in Nat /\ DOMAIN s = 1..n
  BY SeqOfSet
<1> HIDE DEF s, n
<1>2. \A i \in 1..n : \A c : Based(seen, c) => Based(seen, scan_rename_file(c, s[i]))
  BY ScanRenameFile
<1>3. RenameFiles!FoldLeft(scan_rename_file, b, s) = FoldLeft(scan_rename_file, b, s)
  BY DEF FoldLeft, RenameFiles!FoldLeft, MapThenFoldSet, RenameFiles!MapThenFoldSet, Max, RenameFiles!Max
<1>4. Based(seen, RenameFiles!FoldLeft(scan_rename_file, b, s))
  BY <1>1, <1>2, RenameFiles!FoldKeeps
<1> QED BY <1>3, <1>4 DEF Each, s

\* files that are new,
LEMMA UploadFilesKeeps ==
  ASSUME NEW seen, NEW b, Based(seen, b), NEW S, IsFiniteSet(S)
  PROVE  Based(seen, Each(scan_upload_file, b, S))
<1> DEFINE s == SetToSeq(S)
           n == Cardinality(S)
<1>1. n \in Nat /\ DOMAIN s = 1..n
  BY SeqOfSet
<1> HIDE DEF s, n
<1>2. \A i \in 1..n : \A c : Based(seen, c) => Based(seen, scan_upload_file(c, s[i]))
  BY ScanUploadFile
<1>3. UploadFiles!FoldLeft(scan_upload_file, b, s) = FoldLeft(scan_upload_file, b, s)
  BY DEF FoldLeft, UploadFiles!FoldLeft, MapThenFoldSet, UploadFiles!MapThenFoldSet, Max, UploadFiles!Max
<1>4. Based(seen, UploadFiles!FoldLeft(scan_upload_file, b, s))
  BY <1>1, <1>2, UploadFiles!FoldKeeps
<1> QED BY <1>3, <1>4 DEF Each, s

\* files that were modified,
LEMMA UploadModifiedKeeps ==
  ASSUME NEW seen, NEW b, Based(seen, b), NEW S, IsFiniteSet(S)
  PROVE  Based(seen, Each(scan_upload_modified_file, b, S))
<1> DEFINE s == SetToSeq(S)
           n == Cardinality(S)
<1>1. n \in Nat /\ DOMAIN s = 1..n
  BY SeqOfSet
<1> HIDE DEF s, n
<1>2. \A i \in 1..n : \A c : Based(seen, c) => Based(seen, scan_upload_modified_file(c, s[i]))
  BY ScanUploadModified
<1>3. UploadModified!FoldLeft(scan_upload_modified_file, b, s) = FoldLeft(scan_upload_modified_file, b, s)
  BY DEF FoldLeft, UploadModified!FoldLeft, MapThenFoldSet, UploadModified!MapThenFoldSet, Max, UploadModified!Max
<1>4. Based(seen, UploadModified!FoldLeft(scan_upload_modified_file, b, s))
  BY <1>1, <1>2, UploadModified!FoldKeeps
<1> QED BY <1>3, <1>4 DEF Each, s

\* files that are gone,
LEMMA DeleteFilesKeeps ==
  ASSUME NEW seen, NEW b, Based(seen, b), NEW S, IsFiniteSet(S)
  PROVE  Based(seen, Each(scan_delete_file, b, S))
<1> DEFINE s == SetToSeq(S)
           n == Cardinality(S)
<1>1. n \in Nat /\ DOMAIN s = 1..n
  BY SeqOfSet
<1> HIDE DEF s, n
<1>2. \A i \in 1..n : \A c : Based(seen, c) => Based(seen, scan_delete_file(c, s[i]))
  BY ScanDeleteFile
<1>3. DeleteFiles!FoldLeft(scan_delete_file, b, s) = FoldLeft(scan_delete_file, b, s)
  BY DEF FoldLeft, DeleteFiles!FoldLeft, MapThenFoldSet, DeleteFiles!MapThenFoldSet, Max, DeleteFiles!Max
<1>4. Based(seen, DeleteFiles!FoldLeft(scan_delete_file, b, s))
  BY <1>1, <1>2, DeleteFiles!FoldKeeps
<1> QED BY <1>3, <1>4 DEF Each, s

\* and the uploads of all files of a folder.
LEMMA DropUploadsKeeps ==
  ASSUME NEW seen, NEW b, Based(seen, b), NEW S, IsFiniteSet(S)
  PROVE  Based(seen, Each(pupload_del_tasks, b, S))
<1> DEFINE s == SetToSeq(S)
           n == Cardinality(S)
<1>1. n \in Nat /\ DOMAIN s = 1..n
  BY SeqOfSet
<1> HIDE DEF s, n
<1>2. \A i \in 1..n : \A c : Based(seen, c) => Based(seen, pupload_del_tasks(c, s[i]))
  BY DelTasks
<1>3. DropUploads!FoldLeft(pupload_del_tasks, b, s) = FoldLeft(pupload_del_tasks, b, s)
  BY DEF FoldLeft, DropUploads!FoldLeft, MapThenFoldSet, DropUploads!MapThenFoldSet, Max, DropUploads!Max
<1>4. Based(seen, DropUploads!FoldLeft(pupload_del_tasks, b, s))
  BY <1>1, <1>2, DropUploads!FoldKeeps
<1> QED BY <1>3, <1>4 DEF Each, s

----------------------------------------------------------------------------
(* What the diff thread enters. *)

\* A change is entered into the mirror, and taken out of it.
LEMMA BasedEntered ==
  ASSUME NEW seen, NEW b, Based(seen, b), NEW e
  PROVE  Based(seen, Entered(b, e)) /\ Based(seen, Forgotten(b, e.id))
<1> DEFINE row == [kind |-> e.kind, dir |-> e.dir, name |-> e.name, c |-> e.c]
           u == Without(b.mir, {e.del})
           v == Plus(u, e.id, row)
           w == Without(b.mir, {e.id})
<1>1. Based(seen, [b EXCEPT !.mir = v])
  <2>1. IsFiniteSet(DOMAIN u)
    BY FiniteWithout DEF Based
  <2>2. IsFiniteSet(DOMAIN v)
    <3> HIDE DEF u, row
    <3> QED BY <2>1, FinitePlus
  <2> HIDE DEF v
  <2> QED BY <2>2, BasedMir
<1>2. Based(seen, [b EXCEPT !.mir = w])
  <2>1. IsFiniteSet(DOMAIN w)
    BY FiniteWithout DEF Based
  <2> HIDE DEF w
  <2> QED BY <2>1, BasedMir
<1>3. Entered(b, e) = [b EXCEPT !.mir = v] /\ Forgotten(b, e.id) = [b EXCEPT !.mir = w]
  BY DEF Entered, Forgotten
<1> HIDE DEF v, w
<1> QED BY <1>1, <1>2, <1>3

\* A folder here for one of the server.
LEMMA BasedFolderCreate ==
  ASSUME NEW seen, NEW b, Based(seen, b), NEW f, NEW l, NEW name
  PROVE  Based(seen, psyncer_db_folder_create(b, f, l, name))
<1> DEFINE id == FolderFor(b, f, l, name)
           row == [dir |-> l, name |-> name, ino |-> 0, fid |-> f]
           v == Plus(b.lfolder, id, row)
           c == [b EXCEPT !.lfolder = v, !.lastfolder = id]
<1>1. IsFiniteSet(DOMAIN v)
  <2> HIDE DEF row, id
  <2> QED BY FinitePlus DEF Based
<1>2. psyncer_db_folder_create(b, f, l, name) = IF id \in DOMAIN b.lfolder THEN b ELSE c
  BY DEF psyncer_db_folder_create
<1>3. Based(seen, c)
  <2> HIDE DEF v, id
  <2>1. DOMAIN c = DbFields /\ c.lfile = b.lfile /\ c.lfolder = v /\ c.mir = b.mir
    BY DEF Based, DbFields
  <2> HIDE DEF c
  <2>2. IsFiniteSet(DOMAIN c.mir)
    BY <2>1 DEF Based
  <2> QED BY <1>1, <2>1, <2>2, BasedLike
<1> HIDE DEF c, id
<1> QED BY <1>2, <1>3

\* A folder is synced with one of the server.
LEMMA BasedBound ==
  ASSUME NEW seen, NEW b, Based(seen, b), NEW f, NEW l
  PROVE  Based(seen, Bound(b, f, l))
<1> DEFINE v == Plus(Without(b.synced, LocalOf(b, f)), l, f)
<1>1. Bound(b, f, l) = [b EXCEPT !.synced = v]
  BY DEF Bound
<1> HIDE DEF v
<1> QED BY <1>1, BasedSynced

\* What psyncer_dl_folder_add does for one entry.
LEMMA DlAdd ==
  ASSUME NEW seen, NEW s, Adding(seen, s), NEW k
  PROVE  Adding(seen, dl_add(s, k))
<1>1. ASSUME NEW i PROVE Adding(seen, dl_add_folder(s, i))
  <2> DEFINE l == s.at[s.b.mir[i].dir]
             id == FolderFor(s.b, i, l, s.b.mir[i].name)
             a == psyncer_db_folder_create(s.b, i, l, s.b.mir[i].name)
             c == ptask_ldir_mk(a, i, id)
  <2>1. Based(seen, s.b)
    BY DEF Adding
  <2>2. Based(seen, a)
    <3> HIDE DEF l
    <3> QED BY <2>1, BasedFolderCreate
  <2>3. Based(seen, c)
    <3> HIDE DEF a, id
    <3> QED BY <2>2, BasedQueue DEF ptask_ldir_mk
  <2>4. Based(seen, Bound(c, i, id))
    <3> HIDE DEF c, id
    <3> QED BY <2>3, BasedBound
  <2>5. dl_add_folder(s, i) = [b |-> Bound(c, i, id), at |-> Plus(s.at, i, id),
                               todo |-> Listed(s.b, i) \o Tail(s.todo)]
    BY DEF dl_add_folder
  <2> HIDE DEF c, id
  <2> QED BY <2>4, <2>5 DEF Adding
<1>2. ASSUME NEW i PROVE Adding(seen, dl_add_file(s, i))
  <2> DEFINE to == s.at[s.b.mir[i].dir]
             name == s.b.mir[i].name
             c == ptask_download_q(s.b, i, to, name)
             rest == Tail(s.todo)
             t == [s EXCEPT !.b = c, !.todo = rest]
  <2>1. dl_add_file(s, i) = t
    BY DEF dl_add_file, Adding
  <2>2. Based(seen, c)
    <3> HIDE DEF to, name
    <3> QED BY BasedQueue DEF ptask_download_q, Adding
  <2> HIDE DEF c, rest
  <2>3. DOMAIN t = {"b", "at", "todo"} /\ t.b = c
    BY DEF Adding
  <2> HIDE DEF t
  <2> QED BY <2>1, <2>2, <2>3 DEF Adding
<1> QED BY <1>1, <1>2 DEF dl_add

\* psyncer_dl_folder_add: the tree of a folder, through the loop dl_add.
LEMMA BasedFolderAdd ==
  ASSUME NEW seen, NEW b, Based(seen, b), NEW f, NEW l
  PROVE  Based(seen, psyncer_dl_folder_add(b, f, l))
<1> DEFINE n == Cardinality(DOMAIN b.mir)
           s == [round \in 1..n |-> round]
           start == [b |-> Bound(b, f, l), at |-> Plus(<<>>, f, l), todo |-> Listed(b, f)]
<1>1. n \in Nat
  BY FS_CardinalityType DEF Based
<1>2. psyncer_dl_folder_add(b, f, l) = FoldLeft(dl_add, start, s).b
  BY DEF psyncer_dl_folder_add
<1>3. DOMAIN s = 1..n
  OBVIOUS
<1>4. Adding(seen, start)
  BY BasedBound DEF Adding
<1> HIDE DEF n, s, start
<1>5. \A i \in 1..n : \A c : Adding(seen, c) => Adding(seen, dl_add(c, s[i]))
  BY DlAdd
<1>6. AddFolders!FoldLeft(dl_add, start, s) = FoldLeft(dl_add, start, s)
  BY DEF FoldLeft, AddFolders!FoldLeft, MapThenFoldSet, AddFolders!MapThenFoldSet, Max, AddFolders!Max
<1>7. Adding(seen, AddFolders!FoldLeft(dl_add, start, s))
  BY <1>1, <1>3, <1>4, <1>5, AddFolders!FoldKeeps
<1> QED BY <1>2, <1>6, <1>7 DEF Adding

\* The changes of folders.
LEMMA BasedCreateFolder ==
  ASSUME NEW seen, NEW b, Based(seen, b), NEW e
  PROVE  Based(seen, process_createfolder(b, e))
<1> DEFINE a == Entered(b, e)
           l == Chosen(LocalOf(a, e.dir))
           id == FolderFor(a, e.id, l, e.name)
           c == psyncer_db_folder_create(a, e.id, l, e.name)
           v == Plus(c.synced, id, e.id)
           w == [c.synced EXCEPT ![id] = e.id]
           n == [c EXCEPT !.synced = v]
           m == [c EXCEPT !.synced = w]
<1>1. Based(seen, a)
  BY BasedEntered
<1>2. Based(seen, c)
  <2> HIDE DEF a, l
  <2> QED BY <1>1, BasedFolderCreate
<1>3. Based(seen, n) /\ Based(seen, m)
  <2> HIDE DEF c, v, w
  <2> QED BY <1>2, BasedSynced
<1>4. Based(seen, ptask_ldir_mk(n, e.id, id))
  <2> HIDE DEF n, id
  <2> QED BY <1>3, BasedQueue DEF ptask_ldir_mk
<1>5. process_createfolder(b, e) =
        IF LocalOf(a, e.dir) = {} THEN a
        ELSE IF id \notin DOMAIN c.synced /\ LocalOf(c, e.id) = {}
        THEN ptask_ldir_mk(n, e.id, id)
        ELSE IF LocalOf(c, e.id) = {} THEN m ELSE c
  BY DEF process_createfolder
<1> HIDE DEF a, c, n, m, id
<1> QED BY <1>1, <1>2, <1>3, <1>4, <1>5

\* A folder is moved at the server,
LEMMA BasedModifyFolder ==
  ASSUME NEW seen, NEW b, Based(seen, b), NEW e
  PROVE  Based(seen, process_modifyfolder(b, e))
<1> DEFINE a == Entered(b, e)
<1>1. Based(seen, a)
  BY BasedEntered
<1> HIDE DEF a
<1>2. Based(seen, MovedWithin(a, e))
  BY <1>1, BasedQueue DEF MovedWithin, ptask_ldir_rename
<1>3. Based(seen, MovedOut(a, e))
  <2>1. PICK v : del_synced_folder_rec(a, e.id) = [a EXCEPT !.synced = v]
    BY DEF del_synced_folder_rec
  <2> DEFINE c == [a EXCEPT !.synced = v]
  <2>2. Based(seen, c)
    BY <1>1, BasedSynced
  <2> HIDE DEF c
  <2>3. Based(seen, ptask_ldir_rm_r(c, e.id, Chosen(LocalOf(a, e.id))))
    BY <2>2, BasedQueue DEF ptask_ldir_rm_r
  <2> QED BY <1>1, <2>1, <2>3 DEF MovedOut, c
<1>4. Based(seen, MovedIn(a, e))
  <2> DEFINE l == Chosen(LocalOf(a, e.dir))
             id == FolderFor(a, e.id, l, e.name)
             c == psyncer_db_folder_create(a, e.id, l, e.name)
             d == ptask_ldir_mk(c, e.id, id)
  <2>1. Based(seen, c)
    <3> HIDE DEF l
    <3> QED BY <1>1, BasedFolderCreate
  <2>2. Based(seen, d)
    <3> HIDE DEF c, id
    <3> QED BY <2>1, BasedQueue DEF ptask_ldir_mk
  <2>3. Based(seen, psyncer_dl_folder_add(d, e.id, id))
    <3> HIDE DEF d, id
    <3> QED BY <2>2, BasedFolderAdd
  <2> QED BY <2>3 DEF MovedIn
<1>5. \/ process_modifyfolder(b, e) \in {process_createfolder(b, e), a, MovedWithin(a, e)}
      \/ process_modifyfolder(b, e) \in {MovedOut(a, e), MovedIn(a, e)}
  BY DEF process_modifyfolder, a
<1> QED BY <1>1, <1>2, <1>3, <1>4, <1>5, BasedCreateFolder

\* or deleted.
LEMMA BasedDeleteFolder ==
  ASSUME NEW seen, NEW b, Based(seen, b), NEW e
  PROVE  Based(seen, process_deletefolder(b, e))
<1> DEFINE l == LocalOf(b, e.id)
           v == Without(b.synced, l)
           a == [b EXCEPT !.synced = v]
           c == IF l = {} THEN b ELSE ptask_ldir_rm(a, e.id, Chosen(l))
<1>1. Based(seen, a)
  <2> HIDE DEF v
  <2> QED BY BasedSynced
<1>2. Based(seen, c)
  <2> HIDE DEF a, l
  <2> QED BY <1>1, BasedQueue DEF ptask_ldir_rm
<1>3. process_deletefolder(b, e) = Forgotten(c, e.id)
  BY DEF process_deletefolder
<1> HIDE DEF c
<1> QED BY <1>2, <1>3, BasedEntered

\* The changes of files.
LEMMA BasedFetch ==
  ASSUME NEW seen, NEW b, Based(seen, b), NEW e
  PROVE  Based(seen, Fetch(b, e))
BY BasedQueue DEF Fetch, ptask_download_q

\* Downloads that are dropped.
LEMMA BasedTasksDelete ==
  ASSUME NEW seen, NEW b, Based(seen, b), NEW i
  PROVE  Based(seen, pdownload_tasks_delete(b, i))
<1>1. PICK v : pdownload_tasks_delete(b, i) = [b EXCEPT !.task = v]
  BY DEF pdownload_tasks_delete
<1> QED BY <1>1, BasedTasks

\* A file is made at the server,
LEMMA BasedCreateFile ==
  ASSUME NEW seen, NEW b, Based(seen, b), NEW e
  PROVE  Based(seen, process_createfile(b, e))
BY BasedEntered, BasedFetch DEF process_createfile

\* changed or moved,
LEMMA BasedModifyFile ==
  ASSUME NEW seen, NEW b, Based(seen, b), NEW e
  PROVE  Based(seen, process_modifyfile(b, e))
<1> DEFINE old == b.mir[e.id]
           a == Entered(b, e)
           was == LocalOf(b, old.dir)
           is == LocalOf(b, e.dir)
           changed == old.c # e.c
           c == IF changed THEN pdownload_tasks_delete(a, e.id) ELSE a
           d == IF <<old.dir, old.name>> = <<e.dir, e.name>> THEN c
                ELSE ptask_lfile_rename(c, e.id, Chosen(was), Chosen(is), e.name)
<1>1. Based(seen, a)
  BY BasedEntered
<1>2. Based(seen, c)
  <2> HIDE DEF a, changed
  <2> QED BY <1>1, BasedTasksDelete
<1>3. Based(seen, d)
  <2> HIDE DEF c, old, was, is
  <2> QED BY <1>2, BasedQueue DEF ptask_lfile_rename
<1>4. Based(seen, Fetch(d, e))
  <2> HIDE DEF d
  <2> QED BY <1>3, BasedFetch
<1>5. Based(seen, pdownload_tasks_delete(ptask_lfile_rm(c, e.id), e.id))
  <2> HIDE DEF c
  <2>1. Based(seen, ptask_lfile_rm(c, e.id))
    BY <1>2, BasedQueue DEF ptask_lfile_rm
  <2> QED BY <2>1, BasedTasksDelete
<1>6. Based(seen, ptask_download_q(c, e.id, Chosen(is), e.name))
  <2> HIDE DEF c, is
  <2> QED BY <1>2, BasedQueue DEF ptask_download_q
<1>7. process_modifyfile(b, e) =
        IF e.id \notin DOMAIN b.mir THEN process_createfile(b, e)
        ELSE IF was = {} /\ is = {} THEN a
        ELSE IF is = {} THEN pdownload_tasks_delete(ptask_lfile_rm(c, e.id), e.id)
        ELSE IF was = {} THEN ptask_download_q(c, e.id, Chosen(is), e.name)
        ELSE IF changed THEN Fetch(d, e) ELSE d
  BY DEF process_modifyfile
<1> HIDE DEF a, c, d, is, was, changed
<1> QED BY <1>1, <1>3, <1>4, <1>5, <1>6, <1>7, BasedCreateFile

\* or deleted.
LEMMA BasedDeleteFile ==
  ASSUME NEW seen, NEW b, Based(seen, b), NEW e
  PROVE  Based(seen, process_deletefile(b, e))
<1> DEFINE a == pdownload_tasks_delete(b, e.id)
           c == IF LocalOf(b, e.dir) = {} THEN b
                ELSE IF e.id \in DOMAIN b.mir THEN ptask_lfile_rm(a, e.id) ELSE a
<1>1. Based(seen, a)
  BY BasedTasksDelete
<1>2. Based(seen, c)
  <2> HIDE DEF a
  <2> QED BY <1>1, BasedQueue DEF ptask_lfile_rm
<1>3. process_deletefile(b, e) = Forgotten(c, e.id)
  BY DEF process_deletefile
<1> HIDE DEF c
<1> QED BY <1>2, <1>3, BasedEntered

\* Any change.
LEMMA BasedEntry ==
  ASSUME NEW seen, NEW b, Based(seen, b), NEW e
  PROVE  Based(seen, process_entry(b, e))
BY BasedCreateFolder, BasedModifyFolder, BasedDeleteFolder, BasedCreateFile, BasedModifyFile,
   BasedDeleteFile DEF process_entry

----------------------------------------------------------------------------
(* A folder that goes with all that is in it. *)
LEMMA BasedRec ==
  ASSUME NEW seen, NEW b, Based(seen, b), NEW l
  PROVE  Based(seen, delete_local_folder_rec(b, l))
<1> DEFINE F == FilesUnder(b, l)
           U == Under(b, l)
           a == Each(pupload_del_tasks, b, F)
           v == Without(a.lfile, F)
           w == Without(a.lfolder, U)
           x == Without(a.synced, U)
           c == [a EXCEPT !.lfile = v, !.lfolder = w, !.synced = x]
<1>1. F \subseteq DOMAIN b.lfile
  BY DEF FilesUnder
<1>2. IsFiniteSet(F)
  <2> HIDE DEF F
  <2> QED BY <1>1, FS_Subset DEF Based
<1>3. Based(seen, a)
  <2> HIDE DEF F
  <2> QED BY <1>2, DropUploadsKeeps
<1>4. Based(seen, [a EXCEPT !.lfile = v])
  <2> HIDE DEF a, F
  <2> QED BY <1>3, BasedLess
<1>5. delete_local_folder_rec(b, l) = c
  BY DEF delete_local_folder_rec
<1> HIDE DEF a, F, U
<1>6. IsFiniteSet(DOMAIN w)
  BY <1>3, FiniteWithout DEF Based
<1> DEFINE d == [a EXCEPT !.lfile = v]
<1> HIDE DEF v, w, x
<1>7. DOMAIN c = DbFields /\ c.lfile = d.lfile /\ c.lfolder = w /\ c.mir = d.mir
  BY <1>3 DEF Based, DbFields
<1>8. IsFiniteSet(DOMAIN c.mir)
  BY <1>4, <1>7 DEF Based
<1> HIDE DEF c, d
<1>9. Based(seen, d)
  BY <1>4 DEF d
<1> QED BY <1>5, <1>6, <1>7, <1>8, <1>9, BasedLike

----------------------------------------------------------------------------
(* What a step has to keep. *)

\* What has been here stays known, and no upload replaces anything.
Spared == ghost.seen \subseteq ghost'.seen /\ ghost'.over = ghost.over

Placed(d) == d.local \in ghost.seen /\ (d.at = "row" => d.c \in ghost.seen)

\* The uploads and the downloads fit after a step, when each of them did before
\* or does now.
UpsKept == \/ up' = up
           \/ /\ DOMAIN up' = {"main", "run"}
              /\ \A u \in up'.run : u \in up.run \/ UploadFits(u)'
PlacedKept == dn' = dn \/ \A d \in dn'.run : d \in dn.run \/ Placed(d)'

\* More may have been here.
LEMMA BasedLater ==
  ASSUME NEW seen, NEW b, Based(seen, b), NEW more, seen \subseteq more
  PROVE  Based(more, b)
BY DEF Based

\* The parts of the invariant after a step, one by one.
LEMMA Together ==
  ASSUME BInv, IInv', Spared, Based(ghost.seen, db') \/ Based(ghost'.seen, db') \/ db' = db,
         scan' = scan \/ ScanFits', UpsKept, PlacedKept
  PROVE  BInv'
<1>1. DbFits'
  <2>1. Based(ghost'.seen, db')
    BY BasedLater DEF BInv, DbFits, Spared
  <2> QED BY <2>1 DEF DbFits
<1>2. ScanFits'
  BY DEF BInv, ScanFits
<1>3. UpFits'
  <2>1. DOMAIN up' = {"main", "run"} /\ \A u \in up'.run : u \in up.run \/ UploadFits(u)'
    BY DEF BInv, UpFits, UpsKept
  <2>2. \A u \in up.run : UploadFits(u)'
    BY DEF BInv, UpFits, UploadFits, Spared
  <2> QED BY <2>1, <2>2 DEF UpFits
<1>4. PlacedFits'
  <2>1. \A d \in dn'.run : d \in dn.run \/ Placed(d)'
    BY DEF PlacedKept
  <2>2. \A d \in dn.run : Placed(d)'
    BY DEF BInv, PlacedFits, Placed, Spared
  <2> QED BY <2>1, <2>2 DEF PlacedFits, Placed
<1>5. UploadsKeepEdits'
  BY DEF BInv, Spared, UploadsKeepEdits
<1> QED BY <1>1, <1>2, <1>3, <1>4, <1>5 DEF BInv

\* To meet a flaw replaces nothing,
LEMMA QuietSpares == ASSUME GhostFits, Quiet PROVE Spared
<1>1. ASSUME NEW s, ghost' = [ghost EXCEPT !.known = s] PROVE Spared
  <2>1. ghost'.seen = ghost.seen /\ ghost'.over = ghost.over
    BY <1>1 DEF GhostFits, GhostFields
  <2> QED BY <2>1 DEF Spared
<1>2. CASE ghost' = ghost
  BY <1>2 DEF Spared
<1> QED BY <1>1, <1>2 DEF Quiet

\* nor does what is gone here.
LEMMA LostSpares == ASSUME GhostFits, NEW g, ghost' = Lost(g) PROVE Spared
<1>1. ghost'.seen = ghost.seen /\ ghost'.over = ghost.over
  BY DEF GhostFits, GhostFields, Lost
<1> QED BY <1>1 DEF Spared

\* The same, for the whole invariant.
LEMMA QuietSpared == BInv /\ Quiet => Spared
BY QuietSpares DEF BInv, IInv

\* Tables that fit, by what they are made of.
LEMMA DbNow == BInv => Based(ghost.seen, db)
BY DEF BInv, DbFits

\* The lists of the uploads.
LEMMA UpMain ==
  ASSUME BInv, NEW v, up' = [up EXCEPT !.main = v]
  PROVE  DOMAIN up' = {"main", "run"} /\ up'.run = up.run
BY DEF BInv, UpFits

\* Another list of uploads.
LEMMA UpRuns ==
  ASSUME BInv, NEW v, up' = [up EXCEPT !.run = v]
  PROVE  DOMAIN up' = {"main", "run"} /\ up'.run = v
BY DEF BInv, UpFits

\* An upload that is told to stop.
LEMMA StoppedFit ==
  ASSUME BInv, Spared, NEW S
  PROVE  \A u \in Stopped(S) : UploadFits(u)'
<1> TAKE u \in Stopped(S)
<1>1. PICK o \in up.run : u = o \/ u = [o EXCEPT !.stop = TRUE]
  BY DEF Stopped
<1> DEFINE w == [o EXCEPT !.stop = TRUE]
<1>2. UploadFits(o)
  BY DEF BInv, UpFits
<1>3. DOMAIN w = UpFields /\ w.at = o.at /\ w.sent = o.sent
  BY <1>2 DEF UploadFits, UpFields
<1> HIDE DEF w
<1>4. u = o \/ u = w
  BY <1>1 DEF w
<1> QED BY <1>2, <1>3, <1>4 DEF UploadFits, Spared

\* The uploads of some rows are told to stop.
LEMMA UpStops ==
  ASSUME BInv, Spared, NEW S, up' = [up EXCEPT !.run = Stopped(S)]
  PROVE  UpsKept
<1> DEFINE v == Stopped(S)
<1>1. \A u \in v : UploadFits(u)'
  BY StoppedFit
<1>2. up' = [up EXCEPT !.run = v]
  OBVIOUS
<1> HIDE DEF v
<1>3. DOMAIN up' = {"main", "run"} /\ up'.run = v
  BY <1>2, UpRuns
<1> QED BY <1>1, <1>3 DEF UpsKept

----------------------------------------------------------------------------
(* The scanner. *)

\* Finitely many files here, and rows.
LEMMA DiskIsFinite == IInv => IsFiniteSet(DOMAIN disk)
<1> SUFFICES ASSUME IInv PROVE IsFiniteSet(DOMAIN disk)
  OBVIOUS
<1>1. DOMAIN disk \subseteq 1..ghost.inode /\ ghost.inode \in Int /\ 1 \in Int
  BY DEF IInv, DiskFits, TreeFits, GhostFits
<1>2. IsFiniteSet(1..ghost.inode)
  BY <1>1, FS_Interval
<1> QED BY <1>1, <1>2, FS_Subset

\* The values of a function with a finite domain.
LEMMA FiniteImage ==
  ASSUME NEW S, IsFiniteSet(S), NEW f
  PROVE  IsFiniteSet({f[x] : x \in S})
<1> DEFINE T == {f[x] : x \in S}
           g == [x \in S |-> f[x]]
<1>1. g \in Surjection(S, T)
  BY DEF Surjection
<1> HIDE DEF g, T
<1>2. IsFiniteSet(T)
  BY <1>1, FS_Surjection
<1> QED BY <1>2 DEF T

\* What is listed of a folder, on the disk and in the table,
LEMMA ListsAreFinite ==
  ASSUME BInv, NEW l
  PROVE  IsFiniteSet(DiskList(l)) /\ IsFiniteSet(DbList(l))
<1>1. IsFiniteSet(DiskList(l))
  <2> DEFINE S == In(DirOf(l))
             f == [i \in S |-> [kind |-> disk[i].kind, name |-> disk[i].name, dir |-> l, ino |-> i,
                                m |-> IF disk[i].kind = "file" THEN disk[i].c ELSE 0, id |-> 0]]
  <2>1. S \subseteq DOMAIN disk
    BY DEF In
  <2>2. DiskList(l) \subseteq {f[i] : i \in S}
    BY DEF DiskList
  <2> HIDE DEF S, f
  <2>3. IsFiniteSet(S)
    BY <2>1, DiskIsFinite, FS_Subset DEF BInv
  <2>4. IsFiniteSet({f[i] : i \in S})
    BY <2>3, FiniteImage
  <2> QED BY <2>2, <2>4, FS_Subset
<1>2. IsFiniteSet(DbList(l))
  <2> DEFINE S == DbFolders(l)
             T == {j \in DOMAIN db.lfile : db.lfile[j].dir = l}
             f == [i \in S |-> [kind |-> "folder", name |-> db.lfolder[i].name, dir |-> l,
                                ino |-> db.lfolder[i].ino, m |-> 0, id |-> i]]
             g == [i \in T |-> [kind |-> "file", name |-> db.lfile[i].name, dir |-> l,
                                ino |-> db.lfile[i].ino, m |-> db.lfile[i].m, id |-> i]]
  <2>1. S \subseteq DOMAIN db.lfolder /\ T \subseteq DOMAIN db.lfile
    BY DEF DbFolders
  <2>2. DbList(l) \subseteq {f[i] : i \in S} \cup {g[i] : i \in T}
    BY DEF DbList
  <2> HIDE DEF S, T, f, g
  <2>3. IsFiniteSet(S) /\ IsFiniteSet(T)
    BY <2>1, DbNow, FS_Subset DEF Based
  <2>4. IsFiniteSet({f[i] : i \in S}) /\ IsFiniteSet({g[i] : i \in T})
    BY <2>3, FiniteImage
  <2>5. IsFiniteSet({f[i] : i \in S} \cup {g[i] : i \in T})
    BY <2>4, FS_Union
  <2> QED BY <2>2, <2>5, FS_Subset
<1> QED BY <1>1, <1>2

\* and how the two differ.
LEMMA DifferencesAreFinite ==
  ASSUME BInv, NEW l
  PROVE  IsFiniteSet(New(l)) /\ IsFiniteSet(Deleted(l)) /\ IsFiniteSet(Modified(l))
<1>1. IsFiniteSet(DiskList(l)) /\ IsFiniteSet(DbList(l))
  BY ListsAreFinite
<1>2. IsFiniteSet(New(l))
  BY <1>1, FS_Subset DEF New
<1>3. IsFiniteSet(Deleted(l))
  <2>1. Deleted(l) \subseteq DbList(l)
    BY DEF Deleted
  <2> QED BY <1>1, <2>1, FS_Subset
<1>4. IsFiniteSet(Modified(l))
  <2> DEFINE P == DiskList(l) \X DbList(l)
             f == [p \in P |-> [p[1] EXCEPT !.id = p[2].id]]
  <2>1. IsFiniteSet(P)
    BY <1>1, FS_Product
  <2>2. Modified(l) \subseteq {f[p] : p \in P}
    BY DEF Modified, Both
  <2> HIDE DEF P, f
  <2>3. IsFiniteSet({f[p] : p \in P})
    BY <2>1, FiniteImage
  <2> QED BY <2>2, <2>3, FS_Subset
<1> QED BY <1>2, <1>3, <1>4

\* None has read anything when it is idle.
LEMMA IdleFits == ASSUME NEW a, NEW n, scan' = Idle(a, n) PROVE ScanFits'
<1>1. DOMAIN scan' = ScanFields /\ scan'.new = {} /\ scan'.del = {} /\ scan'.mod = {}
  BY DEF Idle, ScanFields
<1> QED BY <1>1, FS_EmptySet DEF ScanFits

\* What the scanner does not read or write of.
LEMMA ScanSpares == BInv /\ ScanNext => Spared /\ dn' = dn
<1>1. ScanNext => dn' = dn /\ ghost' = ghost
  BY DEF ScanNext, ScanStart, ScanCheck, ScanFolders, ScanFiles, ScanEnd, ScanFolder, ScanGone
<1> QED BY <1>1 DEF Spared

\* A scan begins,
LEMMA ScanStartBased == BInv /\ ScanStart => ScanFits' /\ UNCHANGED <<db, up>>
<1> SUFFICES ASSUME BInv, ScanStart PROVE ScanFits' /\ UNCHANGED <<db, up>>
  OBVIOUS
<1> DEFINE i == Idle(FALSE, 0)
<1>1. DOMAIN i = ScanFields /\ i.new = {} /\ i.del = {} /\ i.mod = {}
  BY DEF Idle, ScanFields
<1>2. scan' = [i EXCEPT !.pc = "read", !.todo = {0}] /\ UNCHANGED <<db, up>>
  BY DEF ScanStart
<1> HIDE DEF i
<1>3. DOMAIN scan' = ScanFields /\ scan'.new = {} /\ scan'.del = {} /\ scan'.mod = {}
  BY <1>1, <1>2 DEF ScanFields
<1> QED BY <1>2, <1>3, FS_EmptySet DEF ScanFits

\* and looks whether it was told to start again.
LEMMA ScanCheckBased == BInv /\ ScanCheck => ScanFits' /\ UNCHANGED <<db, up>>
<1> SUFFICES ASSUME BInv, ScanCheck PROVE ScanFits' /\ UNCHANGED <<db, up>>
  OBVIOUS
<1>1. UNCHANGED <<db, up>> /\ (\/ scan' = Idle(scan.again, scan.stoppers)
                               \/ \E v : scan' = [scan EXCEPT !.pc = v])
  BY DEF ScanCheck
<1>2. ASSUME NEW v, scan' = [scan EXCEPT !.pc = v] PROVE ScanFits'
  <2>1. DOMAIN scan' = ScanFields /\ scan'.new = scan.new /\ scan'.del = scan.del
        /\ scan'.mod = scan.mod
    BY <1>2 DEF BInv, ScanFits, ScanFields
  <2> QED BY <2>1 DEF BInv, ScanFits
<1> QED BY <1>1, <1>2, IdleFits

\* A folder is read.
LEMMA ScanFolderBased == ASSUME BInv, NEW l, ScanFolder(l) PROVE ScanFits' /\ UNCHANGED <<db, up>>
<1> DEFINE todo == (scan.todo \ {l}) \cup {p[2].id : p \in {q \in Both(l) : q[1].kind = "folder"}}
           new == scan.new \cup New(l)
           del == scan.del \cup Deleted(l)
           mod == scan.mod \cup Modified(l)
<1>1. scan' = [scan EXCEPT !.todo = todo, !.new = new, !.del = del, !.mod = mod]
      /\ UNCHANGED <<db, up>>
  BY Zenon DEF ScanFolder
<1>2. IsFiniteSet(new) /\ IsFiniteSet(del) /\ IsFiniteSet(mod)
  BY DifferencesAreFinite, FS_Union DEF BInv, ScanFits
<1> HIDE DEF todo, new, del, mod
<1>3. DOMAIN scan' = ScanFields /\ scan'.new = new /\ scan'.del = del /\ scan'.mod = mod
  BY <1>1 DEF BInv, ScanFits, ScanFields
<1> QED BY <1>1, <1>2, <1>3 DEF ScanFits

\* What was renamed is finite too.
LEMMA RenamesAreFinite == BInv => IsFiniteSet(FolderRenames) /\ IsFiniteSet(FileRenames)
<1> SUFFICES ASSUME BInv PROVE IsFiniteSet(FolderRenames) /\ IsFiniteSet(FileRenames)
  OBVIOUS
<1>1. IsFiniteSet(scan.del \X scan.new)
  BY FS_Product DEF BInv, ScanFits
<1>2. FolderRenames \subseteq scan.del \X scan.new /\ FileRenames \subseteq scan.del \X scan.new
  BY DEF FolderRenames, FileRenames, Renames
<1> QED BY <1>1, <1>2, FS_Subset

\* The transaction of the folders,
LEMMA ScanFoldersBased ==
  BInv /\ ScanFolders => ScanFits' /\ up' = up /\ Based(ghost.seen, db')
<1> SUFFICES ASSUME BInv, ScanFolders
             PROVE  ScanFits' /\ up' = up /\ Based(ghost.seen, db')
  OBVIOUS
<1> DEFINE renamed == {p[2] : p \in FolderRenames}
           N == NewFolders \ renamed
           a == Each(scan_rename_folder, db, FolderRenames)
           b == Each(scan_create_folder, a, N)
           todo == IF b.bad THEN {} ELSE DOMAIN b.lfolder \ DOMAIN db.lfolder
           new == scan.new \ NewFolders
           del == scan.del \ {p[1] : p \in FolderRenames}
<1>1. /\ db' = Committed(b) /\ up' = up
      /\ scan' = [scan EXCEPT !.pc = "read", !.moved = TRUE, !.todo = todo, !.new = new, !.del = del]
  BY Zenon DEF ScanFolders
<1>2. N \subseteq scan.new /\ new \subseteq scan.new /\ del \subseteq scan.del
  BY DEF NewFolders
<1> HIDE DEF renamed, N, todo, new, del
<1>3. IsFiniteSet(N) /\ IsFiniteSet(new) /\ IsFiniteSet(del) /\ IsFiniteSet(scan.mod)
  BY <1>2, FS_Subset DEF BInv, ScanFits
<1>4. Based(ghost.seen, a)
  BY DbNow, RenamesAreFinite, RenameFoldersKeeps
<1> HIDE DEF a
<1>5. Based(ghost.seen, b)
  BY <1>3, <1>4, CreateFoldersKeeps
<1> HIDE DEF b
<1>6. DOMAIN scan' = ScanFields /\ scan'.new = new /\ scan'.del = del /\ scan'.mod = scan.mod
  BY <1>1 DEF BInv, ScanFits, ScanFields
<1>7. ScanFits'
  BY <1>3, <1>6 DEF ScanFits
<1> QED BY <1>1, <1>5, <1>7, DbNow DEF Committed

\* the one of the files,
LEMMA ScanFilesBased ==
  BInv /\ ScanFiles => /\ ScanFits' /\ Based(ghost.seen, db')
                       /\ \E S : up' = [up EXCEPT !.run = Stopped(S)]
<1> SUFFICES ASSUME BInv, ScanFiles
             PROVE  ScanFits' /\ Based(ghost.seen, db') /\ \E S : up' = [up EXCEPT !.run = Stopped(S)]
  OBVIOUS
<1> DEFINE files(S) == {x \in S : x.kind = "file"}
           new == files(scan.new) \ {p[2] : p \in FileRenames}
           gone == files(scan.del) \ {p[1] : p \in FileRenames}
           a == Each(scan_rename_file, db, FileRenames)
           c == Each(scan_upload_file, a, new)
           e == Each(scan_upload_modified_file, c, scan.mod)
           b == Each(scan_delete_file, e, gone)
           del == scan.del \ files(scan.del)
           ids == {x.id : x \in scan.mod \cup gone}
<1>1. /\ db' = Committed(b) /\ up' = [up EXCEPT !.run = Stopped(ids)]
      /\ scan' = IF b.bad THEN Idle(scan.again, scan.stoppers)
                 ELSE [scan EXCEPT !.pc = "gone", !.new = {}, !.mod = {}, !.del = del]
  BY Zenon DEF ScanFiles
<1>2. new \subseteq scan.new /\ gone \subseteq scan.del /\ del \subseteq scan.del
  OBVIOUS
<1> HIDE DEF files, new, gone, del, ids
<1>3. IsFiniteSet(new) /\ IsFiniteSet(gone) /\ IsFiniteSet(del) /\ IsFiniteSet(scan.mod)
  BY <1>2, FS_Subset DEF BInv, ScanFits
<1>4. Based(ghost.seen, a)
  BY DbNow, RenamesAreFinite, RenameFilesKeeps
<1> HIDE DEF a
<1>5. Based(ghost.seen, c)
  BY <1>3, <1>4, UploadFilesKeeps
<1> HIDE DEF c
<1>6. Based(ghost.seen, e)
  BY <1>3, <1>5, UploadModifiedKeeps
<1> HIDE DEF e
<1>7. Based(ghost.seen, b)
  BY <1>3, <1>6, DeleteFilesKeeps
<1> HIDE DEF b
<1>8. ScanFits'
  <2>1. ASSUME scan' = [scan EXCEPT !.pc = "gone", !.new = {}, !.mod = {}, !.del = del]
        PROVE  ScanFits'
    <3>1. DOMAIN scan' = ScanFields /\ scan'.new = {} /\ scan'.del = del /\ scan'.mod = {}
      BY <2>1 DEF BInv, ScanFits, ScanFields
    <3> QED BY <1>3, <3>1, FS_EmptySet DEF ScanFits
  <2> QED BY <1>1, <2>1, IdleFits
<1> QED BY <1>1, <1>7, <1>8, DbNow DEF Committed

\* and a folder that is gone.
LEMMA ScanGoneBased ==
  ASSUME BInv, NEW y, ScanGone(y)
  PROVE  /\ ScanFits' /\ Based(ghost.seen, db')
         /\ up' = up \/ \E S : up' = [up EXCEPT !.run = Stopped(S)]
<1> DEFINE del == scan.del \ {y}
           b == delete_local_folder_rec(db, y.id)
           v == Without(b.task, CreationOf(db, y.id))
           fid == db.lfolder[y.id].fid
           c == [b EXCEPT !.task = v]
<1>1. scan' = [scan EXCEPT !.del = del]
  BY DEF ScanGone
<1>2. \/ db' = db /\ up' = up
      \/ /\ db' = ptask_rdir_rm(b, fid) \/ db' = c
         /\ up' = [up EXCEPT !.run = Stopped(FilesUnder(db, y.id))]
  BY DEF ScanGone
<1>3. Based(ghost.seen, b)
  BY DbNow, BasedRec
<1>4. Based(ghost.seen, ptask_rdir_rm(b, fid))
  <2> HIDE DEF b, fid
  <2> QED BY <1>3, BasedQueue DEF ptask_rdir_rm
<1>5. Based(ghost.seen, c)
  <2> HIDE DEF b, v
  <2> QED BY <1>3, BasedTasks
<1>6. IsFiniteSet(del)
  BY FS_Subset DEF BInv, ScanFits
<1> HIDE DEF b, c, del, fid
<1>7. DOMAIN scan' = ScanFields /\ scan'.new = scan.new /\ scan'.del = del
      /\ scan'.mod = scan.mod
  BY <1>1 DEF BInv, ScanFits, ScanFields
<1>8. ScanFits'
  BY <1>6, <1>7 DEF BInv, ScanFits
<1> QED BY <1>2, <1>4, <1>5, <1>8, DbNow

\* The scanner keeps the invariant.
LEMMA ScanBased == BInv /\ IInv' /\ ScanNext => BInv'
<1> SUFFICES ASSUME BInv, IInv', ScanNext PROVE BInv'
  OBVIOUS
<1>1. Spared /\ dn' = dn
  BY ScanSpares
<1>2. \/ ScanStart \/ ScanCheck \/ ScanFolders \/ ScanFiles \/ ScanEnd
      \/ (\E l : ScanFolder(l)) \/ \E y : ScanGone(y)
  BY DEF ScanNext
<1>3. ScanEnd => ScanFits' /\ UNCHANGED <<db, up>>
  BY IdleFits DEF ScanEnd
<1>4. /\ ScanFits' /\ (db' = db \/ Based(ghost.seen, db'))
      /\ up' = up \/ \E S : up' = [up EXCEPT !.run = Stopped(S)]
  BY <1>2, <1>3, ScanStartBased, ScanCheckBased, ScanFoldersBased, ScanFilesBased, ScanFolderBased,
     ScanGoneBased
<1>5. UpsKept
  BY <1>1, <1>4, UpStops DEF UpsKept
<1> QED BY <1>1, <1>4, <1>5, Together DEF PlacedKept

----------------------------------------------------------------------------
(* Changes of the server. *)

\* A download that is told to stop is the one it was.
LEMMA ToldIs ==
  ASSUME BInv, NEW d \in dn.run, NEW e
  PROVE  /\ DOMAIN Told(d, e) = DnFields /\ Told(d, e).at = d.at /\ Told(d, e).c = d.c
         /\ Told(d, e).local = d.local
<1> DEFINE new == [d EXCEPT !.stop = StopFlag(db, e)]
<1>1. DOMAIN d = DnFields
  BY DEF BInv, IInv, DnFits, DownloadFits
<1>2. DOMAIN new = DnFields /\ new.at = d.at /\ new.c = d.c /\ new.local = d.local
  BY <1>1 DEF DnFields
<1>3. Told(d, e) = d \/ Told(d, e) = new
  BY DEF Told
<1> HIDE DEF new
<1> QED BY <1>1, <1>2, <1>3

\* The diff thread keeps it.
LEMMA DiffBased == BInv /\ IInv' /\ Diff => BInv'
<1> SUFFICES ASSUME BInv, IInv', Diff PROVE BInv'
  OBVIOUS
<1> DEFINE e == Head(diff)
           run == {Told(d, e) : d \in dn.run}
<1>1. Quiet /\ scan' = scan /\ up' = up
  BY DEF Diff, Quiet
<1>2. dn' = [dn EXCEPT !.run = run] /\ db' = process_entry(db, e)
  <2>1. PICK x \in {Head(diff)} : /\ dn' = [dn EXCEPT !.run = {Told(d, x) : d \in @}]
                                  /\ db' = process_entry(db, x)
    BY Zenon DEF Diff
  <2>2. x = e
    OBVIOUS
  <2> QED BY <2>1, <2>2, Zenon
<1>3. Spared
  BY <1>1, QuietSpared
<1>4. Based(ghost.seen, db')
  BY <1>2, DbNow, BasedEntry
<1>5. PlacedKept
  <2>1. dn'.run = run
    BY <1>2 DEF BInv, IInv, DnFits
  <2> SUFFICES \A d \in dn'.run : Placed(d)'
    BY DEF PlacedKept
  <2>2. TAKE w \in dn'.run
  <2>3. PICK d \in dn.run : w = Told(d, e)
    BY <2>1
  <2> HIDE DEF e, run
  <2>4. w.at = d.at /\ w.c = d.c /\ w.local = d.local
    BY <2>3, ToldIs
  <2>5. Placed(d)
    BY DEF BInv, PlacedFits, Placed
  <2> QED BY <1>3, <2>4, <2>5 DEF Placed, Spared
<1> QED BY <1>1, <1>3, <1>4, <1>5, Together DEF UpsKept

----------------------------------------------------------------------------
(* Uploads. *)

\* An upload has its fields.
LEMMA UploadIs == ASSUME BInv, NEW u \in up.run PROVE UploadFits(u) /\ DOMAIN u = UpFields
BY DEF BInv, UpFits, UploadFits

\* What is to be shown of a step of the uploads that replaces nothing.
LEMMA UpTogether ==
  ASSUME BInv, IInv', Still, scan' = scan, UpsKept,
         Based(ghost.seen, db') \/ Based(ghost'.seen, db') \/ db' = db
  PROVE  BInv'
<1>1. Spared
  BY QuietSpared DEF Still
<1>2. dn'.run = dn.run
  BY DEF Still, BInv, IInv, DnFits
<1>3. PlacedKept
  BY <1>2 DEF PlacedKept
<1> QED BY <1>1, <1>3, Together

\* One upload goes on.
LEMMA UpWith ==
  ASSUME BInv, NEW u, NEW w, With(u, w), UploadFits(w)'
  PROVE  UpsKept
<1> DEFINE v == (up.run \ {u}) \cup {w}
<1>1. up' = [up EXCEPT !.run = v]
  BY DEF With
<1> HIDE DEF v
<1>2. DOMAIN up' = {"main", "run"} /\ up'.run = v
  BY <1>1, UpRuns
<1> QED BY <1>2 DEF UpsKept, v

\* An upload ends, with its row or without.
LEMMA UpEnds ==
  ASSUME BInv, NEW u \in up.run, NEW at, at # "answer", Ends(u, at)
  PROVE  UpsKept
<1> DEFINE w == [u EXCEPT !.at = at]
<1>1. DOMAIN w = UpFields /\ w.at = at
  BY UploadIs DEF UpFields
<1>2. With(u, w)
  BY DEF Ends
<1> HIDE DEF w
<1>3. UploadFits(w)'
  BY <1>1 DEF UploadFits
<1> QED BY <1>2, <1>3, UpWith

\* Some end.
LEMMA UpLeaves ==
  ASSUME BInv, NEW S \in SUBSET up.run, up' = [up EXCEPT !.run = S]
  PROVE  UpsKept
BY UpRuns DEF UpsKept

\* The upload thread itself may go on.
LEMMA UpMains ==
  ASSUME BInv, NEW v, up' = [up EXCEPT !.main = v]
  PROVE  UpsKept
BY UpMain DEF UpsKept

\* An upload starts,
LEMMA UpStartBased == ASSUME BInv, IInv', NEW t, UpStart(t) PROVE BInv'
<1>1. Still /\ scan' = scan
  BY UpStill DEF UploadsStill, UpStart
<1>2. db' = DropTask(db, t) \/ db' = Busy(db, t, TRUE)
  BY DEF UpStart
<1>3. Based(ghost.seen, db')
  BY <1>2, DbNow, BasedDrop, BasedBusy
<1>4. UpsKept
  <2>1. PICK v : v = Upload(t)
    OBVIOUS
  <2> DEFINE m == [NoTask EXCEPT !.at = "slot"]
             r == up.run \cup {v}
  <2>2. up' = up \/ up' = [main |-> m, run |-> r]
    BY <2>1 DEF UpStart
  <2>3. DOMAIN v = UpFields /\ v.at = "slot"
    BY <2>1 DEF Upload, UpFields
  <2> HIDE DEF m
  <2>4. UploadFits(v)'
    BY <2>3 DEF UploadFits
  <2> QED BY <2>2, <2>4 DEF UpsKept
<1> QED BY <1>1, <1>3, <1>4, UpTogether

\* gets its turn,
LEMMA UpAdmitBased == ASSUME BInv, IInv', NEW u \in up.run, UpAdmit(u) PROVE BInv'
<1>1. Still /\ scan' = scan /\ db' = db
  BY UpStill DEF UploadsStill, UpAdmit
<1>2. UpsKept
  <2> DEFINE w == [u EXCEPT !.at = "read"]
  <2>1. up' = [main |-> NoTask, run |-> (up.run \ {u}) \cup {w}]
    BY DEF UpAdmit
  <2>2. DOMAIN w = UpFields /\ w.at = "read"
    BY UploadIs DEF UpFields
  <2> HIDE DEF w
  <2>3. UploadFits(w)'
    BY <2>2 DEF UploadFits
  <2> QED BY <2>1, <2>3 DEF UpsKept
<1> QED BY <1>1, <1>2, UpTogether

\* or none.
LEMMA UpTurnedAwayBased == ASSUME BInv, IInv', NEW u \in up.run, UpTurnedAway(u) PROVE BInv'
<1>1. Still /\ scan' = scan
  BY UpStill DEF UploadsStill, UpTurnedAway
<1>2. Based(ghost.seen, db')
  BY DbNow, BasedBusy DEF UpTurnedAway
<1>3. UpsKept
  BY DEF UpTurnedAway, UpsKept
<1> QED BY <1>1, <1>2, <1>3, UpTogether

\* An upload ends, and the tables stay as they are.
LEMMA UpEndsBased ==
  ASSUME BInv, IInv', NEW u \in up.run,
         UpStopped(u) \/ UpNoRow(u) \/ UpLocked(u) \/ UpNotSent(u) \/ UpLost(u)
  PROVE  BInv'
<1>1. Still
  BY UpStill DEF UploadsStill
<1>2. scan' = scan /\ db' = db
  BY DEF UpStopped, UpNoRow, UpLocked, UpNotSent, UpLost
<1>3. UpsKept
  BY UpEnds DEF UpStopped, UpNoRow, UpLocked, UpNotSent, UpLost
<1> QED BY <1>1, <1>2, <1>3, UpTogether

\* There is no file to upload.
LEMMA UpNoFileBased == ASSUME BInv, IInv', NEW u \in up.run, UpNoFile(u) PROVE BInv'
<1>1. Still /\ scan' = scan
  BY UpStill DEF UploadsStill, UpNoFile
<1>2. UpsKept
  BY UpEnds DEF UpNoFile
<1>3. Based(ghost.seen, db')
  BY DbNow, BasedLess DEF UpNoFile
<1> QED BY <1>1, <1>2, <1>3, UpTogether

\* The checksum and the hash of a row are of a version that is here.
LEMMA UpReadBased == ASSUME BInv, IInv', NEW u \in up.run, UpRead(u) PROVE BInv'
<1>1. Still /\ scan' = scan
  BY UpStill DEF UploadsStill, UpRead
<1>2. PICK src \in SourceOf(u) : \E i, d :
        LET row == [RowOf(u) EXCEPT !.sum = disk[src].c]
        IN /\ db' = [db EXCEPT !.lfile[u.l] = IF i = 0 THEN row
                                              ELSE [row EXCEPT !.fid = i, !.hash = row.sum]]
           /\ \/ Ends(u, "done")
              \/ With(u, [u EXCEPT !.at = "send", !.path = PathTo(u),
                                   !.name = row.name, !.to = d, !.c = row.sum])
  BY Zenon DEF UpRead
<1>2a. PICK i, d :
        LET row == [RowOf(u) EXCEPT !.sum = disk[src].c]
        IN /\ db' = [db EXCEPT !.lfile[u.l] = IF i = 0 THEN row
                                              ELSE [row EXCEPT !.fid = i, !.hash = row.sum]]
           /\ \/ Ends(u, "done")
              \/ With(u, [u EXCEPT !.at = "send", !.path = PathTo(u),
                                   !.name = row.name, !.to = d, !.c = row.sum])
  BY Zenon, <1>2
<1> DEFINE c == disk[src].c
           row == [RowOf(u) EXCEPT !.sum = c]
           found == [row EXCEPT !.fid = i, !.hash = row.sum]
           new == IF i = 0 THEN row ELSE found
           w == [u EXCEPT !.at = "send", !.path = PathTo(u), !.name = row.name, !.to = d,
                          !.c = row.sum]
<1>3. db' = [db EXCEPT !.lfile[u.l] = new] /\ (Ends(u, "done") \/ With(u, w))
  BY <1>2a
<1>4. c \in ghost.seen
  <2>1. src \in DOMAIN disk /\ disk[src].kind = "file"
    BY DEF SourceOf, FileOn, At, In
  <2> QED BY <2>1 DEF BInv, IInv, DiskFits, TreeFits
<1>5. u.l \in DOMAIN db.lfile
  BY DEF UpRead
<1>6. RowFits(ghost.seen, new)
  <2>1. RowFits(ghost.seen, RowOf(u))
    BY <1>5, DbNow, RowsFit DEF RowOf
  <2> HIDE DEF c
  <2>2. DOMAIN row = RowFields /\ row.hash \in ghost.seen /\ row.sum = c
    BY <2>1 DEF RowFits, RowFields
  <2> HIDE DEF row
  <2>3. DOMAIN found = RowFields /\ found.hash = c /\ found.sum = c
    BY <2>2 DEF RowFields
  <2> HIDE DEF found
  <2> QED BY <1>4, <2>2, <2>3 DEF RowFits
<1> HIDE DEF new
<1>7. Based(ghost.seen, db')
  BY <1>3, <1>6, DbNow, BasedRow
<1>8. UpsKept
  <2> HIDE DEF row
  <2>1. DOMAIN w = UpFields /\ w.at = "send"
    BY UploadIs DEF UpFields
  <2>2. PICK x : x = w
    OBVIOUS
  <2> HIDE DEF w
  <2>3. UploadFits(x)'
    BY <2>1, <2>2 DEF UploadFits
  <2>4. Ends(u, "done") \/ With(u, x)
    BY <1>3, <2>2
  <2> QED BY <2>3, <2>4, UpWith, UpEnds
<1> QED BY <1>1, <1>7, <1>8, UpTogether

\* The answer names what was sent.
LEMMA AnsweredKeeps == ASSUME BInv, NEW u \in up.run, Answered(u) PROVE UpsKept
<1> DEFINE at == IF u.sent = u.c THEN "done" ELSE "failed"
<1>1. at # "answer" /\ Ends(u, at)
  BY DEF Answered
<1> HIDE DEF at
<1> QED BY <1>1, UpEnds

\* The answer is written to the row.
LEMMA UpAnswerBased == ASSUME BInv, IInv', NEW u \in up.run, UpAnswer(u) PROVE BInv'
<1>1. Still /\ scan' = scan
  BY UpStill DEF UploadsStill, UpAnswer
<1>2. u.sent \in ghost.seen
  BY DEF UpAnswer, BInv, UpFits, UploadFits
<1>3. \/ db' = db
      \/ /\ u.l \in DOMAIN db.lfile
         /\ db' = [db EXCEPT !.lfile[u.l].fid = u.fid, !.lfile[u.l].hash = u.sent]
  BY DEF UpAnswer
<1>4. db' = db \/ Based(ghost.seen, db')
  <2>1. u.l \in DOMAIN db.lfile =>
          Based(ghost.seen, [db EXCEPT !.lfile[u.l].fid = u.fid, !.lfile[u.l].hash = u.sent])
    BY <1>2, DbNow, BasedVersion
  <2> QED BY <1>3, <2>1
<1>5. UpsKept
  BY AnsweredKeeps DEF UpAnswer
<1> QED BY <1>1, <1>4, <1>5, UpTogether

\* An upload ends.
LEMMA UpEndBased == ASSUME BInv, IInv', NEW u \in up.run, UpEnd(u) PROVE BInv'
<1>1. Still /\ scan' = scan
  BY UpStill DEF UploadsStill, UpEnd
<1>2. db' = DropTask(db, u.id) \/ db' = Busy(db, u.id, FALSE)
  BY DEF UpEnd
<1>3. Based(ghost.seen, db')
  BY <1>2, DbNow, BasedDrop, BasedBusy
<1>4. UpsKept
  <2> DEFINE S == up.run \ {u}
  <2>1. up' = [up EXCEPT !.run = S]
    BY DEF UpEnd
  <2>2. S \in SUBSET up.run
    OBVIOUS
  <2> HIDE DEF S
  <2> QED BY <2>1, <2>2, UpLeaves
<1> QED BY <1>1, <1>3, <1>4, UpTogether

\* The row gets the name that the server gave the file.
LEMMA UpConflictBased == ASSUME BInv, IInv', NEW u \in up.run, UpConflict(u) PROVE BInv'
<1>1. Quiet /\ scan' = scan /\ dn' = dn
  BY KnownIfIsQuiet DEF UpConflict, Quiet
<1>2. u.sent \in ghost.seen
  BY DEF UpConflict, BInv, UpFits, UploadFits
<1> DEFINE a == [db EXCEPT !.lfile[u.l].fid = u.fid, !.lfile[u.l].hash = u.sent]
<1>3. db' = db \/ (u.l \in DOMAIN db.lfile /\ db' = Renaming(a, u))
  BY DEF UpConflict
<1>4. ASSUME u.l \in DOMAIN db.lfile PROVE Based(ghost.seen, Renaming(a, u))
  <2>1. Based(ghost.seen, a)
    BY <1>2, <1>4, DbNow, BasedVersion
  <2>2. u.l \in DOMAIN a.lfile
    BY <1>4, DbNow DEF Based, DbFields
  <2> HIDE DEF a
  <2> DEFINE row == [a.lfile[u.l] EXCEPT !.name = u.new]
             c == [a EXCEPT !.lfile[u.l].name = u.new]
             v == [c.task EXCEPT ![u.id].name = u.new]
  <2>3. c = [a EXCEPT !.lfile[u.l] = row]
    BY <2>1 DEF Based, DbFields
  <2>4. RowFits(ghost.seen, row)
    BY <2>1, <2>2, RowsFit DEF RowFits, RowFields
  <2>5. Based(ghost.seen, c)
    <3> HIDE DEF c, row
    <3> QED BY <2>1, <2>3, <2>4, BasedRow
  <2>6. Renaming(a, u) = c \/ Renaming(a, u) = [c EXCEPT !.task = v]
    BY DEF Renaming
  <2> HIDE DEF c, v
  <2> QED BY <2>5, <2>6, BasedTasks
<1>5. UpsKept
  BY AnsweredKeeps DEF UpConflict
<1>6. Spared
  BY <1>1, QuietSpared
<1> HIDE DEF a
<1>7. db' = db \/ Based(ghost.seen, db')
  BY <1>3, <1>4
<1> QED BY <1>1, <1>5, <1>6, <1>7, Together DEF PlacedKept

\* What talks to the server only asks, and the tables stay.
LEMMA UpAsksBased ==
  ASSUME BInv, IInv', NEW t, UpMkdir(t) \/ UpMove(t) \/ UpMvdir(t) \/ UpDelete(t)
  PROVE  BInv'
<1>1. scan' = scan /\ db' = db /\ dn' = dn
  BY DEF UpMkdir, UpMove, UpMvdir, UpDelete
<1>2. \E v : up' = [up EXCEPT !.main = v]
  BY DEF UpMkdir, UpMove, UpMvdir, UpDelete, Asked
<1>3. Spared
  <2>1. ASSUME NEW s, ghost' = [ghost EXCEPT !.id = NewId, !.known = s] PROVE Spared
    <3>1. ghost'.seen = ghost.seen /\ ghost'.over = ghost.over
      BY <2>1 DEF BInv, IInv, GhostFits, GhostFields
    <3> QED BY <3>1 DEF Spared
  <2>2. Quiet \/ \E s : ghost' = [ghost EXCEPT !.id = NewId, !.known = s]
    <3>1. UpMkdir(t) => Quiet \/ \E s : ghost' = [ghost EXCEPT !.id = NewId, !.known = s]
      BY Zenon DEF UpMkdir, Quiet
    <3>2. UpMove(t) \/ UpMvdir(t) \/ UpDelete(t) => Quiet
      BY KnownIsQuiet DEF UpMove, UpMvdir, UpDelete, Quiet
    <3> QED BY <3>1, <3>2
  <2> QED BY <2>1, <2>2, QuietSpared
<1>4. UpsKept
  BY <1>2, UpMains
<1> QED BY <1>1, <1>3, <1>4, Together DEF PlacedKept

\* The rows of a folder that was made at the server.
LEMMA UpMadeBased == BInv /\ IInv' /\ UpMade => BInv'
<1> SUFFICES ASSUME BInv, IInv', UpMade PROVE BInv'
  OBVIOUS
<1>1. Still /\ scan' = scan
  BY UpStill DEF UploadsStill, UpMade
<1>2. UpsKept
  <2> DEFINE v == [up.main EXCEPT !.at = "asked"]
  <2>1. up' = [up EXCEPT !.main = v]
    BY DEF UpMade, BInv, UpFits
  <2> HIDE DEF v
  <2> QED BY <2>1, UpMains
<1>3. PICK e, l :
        db' = [db EXCEPT
                  !.mir = IF e.id \in DOMAIN @ THEN @ ELSE Entered(db, e).mir,
                  !.lfolder = IF l \in DOMAIN @ THEN [@ EXCEPT ![l].fid = e.id] ELSE @,
                  !.synced = IF l \in DOMAIN @ THEN [@ EXCEPT ![l] = e.id] ELSE @]
  BY Zenon DEF UpMade
<1> DEFINE m == IF e.id \in DOMAIN db.mir THEN db.mir ELSE Entered(db, e).mir
           f == IF l \in DOMAIN db.lfolder THEN [db.lfolder EXCEPT ![l].fid = e.id]
                ELSE db.lfolder
           s == IF l \in DOMAIN db.synced THEN [db.synced EXCEPT ![l] = e.id] ELSE db.synced
<1>4. db' = [db EXCEPT !.mir = m, !.lfolder = f, !.synced = s]
  BY <1>3
<1>5. IsFiniteSet(DOMAIN m) /\ IsFiniteSet(DOMAIN f)
  <2>1. IsFiniteSet(DOMAIN Entered(db, e).mir)
    BY DbNow, BasedEntered DEF Based
  <2>2. IsFiniteSet(DOMAIN m)
    BY <2>1, DbNow DEF Based
  <2>3. DOMAIN f = DOMAIN db.lfolder
    OBVIOUS
  <2> QED BY <2>2, <2>3, DbNow DEF Based
<1> HIDE DEF m, f, s
<1>6. DOMAIN db' = DbFields /\ db'.lfile = db.lfile /\ db'.lfolder = f /\ db'.mir = m
  BY <1>4, DbNow DEF Based, DbFields
<1>7. Based(ghost.seen, db')
  BY <1>5, <1>6, DbNow, BasedLike
<1> QED BY <1>1, <1>2, <1>7, UpTogether

\* A file was moved at the server,
LEMMA UpMovedBased == BInv /\ IInv' /\ UpMoved => BInv'
<1> SUFFICES ASSUME BInv, IInv', UpMoved PROVE BInv'
  OBVIOUS
<1>1. Still /\ scan' = scan
  BY UpStill DEF UploadsStill, UpMoved
<1>2. UpsKept
  <2> DEFINE v == [up.main EXCEPT !.at = "asked"]
  <2>1. up' = [up EXCEPT !.main = v]
    BY DEF UpMoved, BInv, UpFits
  <2> HIDE DEF v
  <2> QED BY <2>1, UpMains
<1>3. PICK e : db' = process_modifyfolder(db, e)
  BY Zenon DEF UpMoved
<1>4. Based(ghost.seen, db')
  BY <1>3, DbNow, BasedModifyFolder
<1> QED BY <1>1, <1>2, <1>4, UpTogether

\* something was done there,
LEMMA UpDoneBased == BInv /\ IInv' /\ UpDone => BInv'
<1> SUFFICES ASSUME BInv, IInv', UpDone PROVE BInv'
  OBVIOUS
<1>1. Still /\ scan' = scan
  BY UpStill DEF UploadsStill, UpDone
<1>2. UpsKept
  BY UpMains DEF UpDone
<1>3. Based(ghost.seen, db')
  BY DbNow, BasedDrop DEF UpDone
<1> QED BY <1>1, <1>2, <1>3, UpTogether

\* or is tried again.
LEMMA UpAgainBased == BInv /\ IInv' /\ UpAgain => BInv'
<1> SUFFICES ASSUME BInv, IInv', UpAgain PROVE BInv'
  OBVIOUS
<1>1. Still /\ scan' = scan /\ db' = db
  BY UpStill DEF UploadsStill, UpAgain
<1>2. UpsKept
  BY UpMains DEF UpAgain
<1> QED BY <1>1, <1>2, UpTogether

\* A version that is replaced is the hash of the row: it has been here.
LEMMA UpSendBased == ASSUME BInv, IInv', NEW u \in up.run, UpSend(u) PROVE BInv'
<1>1. scan' = scan /\ db' = db /\ dn' = dn
  BY DEF UpSend
<1>2. PICK src \in FileOn(u.path, u.name) : \E c \in {disk[src].c} : \E there :
        \/ \E i \in there :
             /\ srv[i].c = IfHash(u, i)
             /\ ghost' = [ghost EXCEPT !.over = @ \cup ({srv[i].c} \ ghost.seen),
                                       !.kept = @ \cup {c}]
             /\ With(u, [u EXCEPT !.at = "answer", !.sent = c, !.fid = i])
        \/ /\ \E name :
                With(u, [u EXCEPT !.at = "answer", !.sent = c, !.fid = NewId, !.new = name])
           /\ ghost' = [ghost EXCEPT !.id = NewId, !.kept = @ \cup {c},
                           !.known = @ \cup {k \in {"misplaced"} : u.to = 0}]
  BY ZenonT(30) DEF UpSend
<1>3. PICK c : c = disk[src].c
  OBVIOUS
<1>4. \/ \E i : /\ srv[i].c = IfHash(u, i)
                /\ ghost' = [ghost EXCEPT !.over = @ \cup ({srv[i].c} \ ghost.seen),
                                          !.kept = @ \cup {c}]
                /\ With(u, [u EXCEPT !.at = "answer", !.sent = c, !.fid = i])
      \/ \E n, name, s :
                /\ With(u, [u EXCEPT !.at = "answer", !.sent = c, !.fid = n, !.new = name])
                /\ ghost' = [ghost EXCEPT !.id = n, !.kept = @ \cup {c}, !.known = s]
  BY <1>2, <1>3, Zenon
<1>5. c \in ghost.seen
  <2>1. src \in DOMAIN disk /\ disk[src].kind = "file"
    BY DEF FileOn, At, In
  <2> QED BY <1>3, <2>1 DEF BInv, IInv, DiskFits, TreeFits
<1>6. \A i : IfHash(u, i) \in ghost.seen
  BY DbNow DEF IfHash, RowOf, Based
<1>7. ASSUME NEW i, srv[i].c = IfHash(u, i),
             ghost' = [ghost EXCEPT !.over = @ \cup ({srv[i].c} \ ghost.seen), !.kept = @ \cup {c}],
             With(u, [u EXCEPT !.at = "answer", !.sent = c, !.fid = i])
      PROVE  Spared /\ UpsKept
  <2> DEFINE o == ghost.over \cup ({srv[i].c} \ ghost.seen)
             k == ghost.kept \cup {c}
             w == [u EXCEPT !.at = "answer", !.sent = c, !.fid = i]
  <2>1. o = ghost.over
    BY <1>6, <1>7
  <2>2. ghost' = [ghost EXCEPT !.over = o, !.kept = k]
    BY <1>7
  <2>3. DOMAIN w = UpFields /\ w.sent = c
    BY UploadIs DEF UpFields
  <2>4. With(u, w)
    BY <1>7
  <2> HIDE DEF o, k, w
  <2>5. ghost'.seen = ghost.seen /\ ghost'.over = ghost.over
    BY <2>1, <2>2 DEF BInv, IInv, GhostFits, GhostFields
  <2>6. UploadFits(w)'
    BY <1>5, <2>3, <2>5 DEF UploadFits
  <2> QED BY <2>4, <2>5, <2>6, UpWith DEF Spared
<1>8. ASSUME NEW n, NEW name, NEW s,
             With(u, [u EXCEPT !.at = "answer", !.sent = c, !.fid = n, !.new = name]),
             ghost' = [ghost EXCEPT !.id = n, !.kept = @ \cup {c}, !.known = s]
      PROVE  Spared /\ UpsKept
  <2> DEFINE k == ghost.kept \cup {c}
             w == [u EXCEPT !.at = "answer", !.sent = c, !.fid = n, !.new = name]
  <2>1. ghost' = [ghost EXCEPT !.id = n, !.kept = k, !.known = s]
    BY <1>8
  <2>2. DOMAIN w = UpFields /\ w.sent = c
    BY UploadIs DEF UpFields
  <2>3. With(u, w)
    BY <1>8
  <2> HIDE DEF k, w
  <2>4. ghost'.seen = ghost.seen /\ ghost'.over = ghost.over
    BY <2>1 DEF BInv, IInv, GhostFits, GhostFields
  <2>5. UploadFits(w)'
    BY <1>5, <2>2, <2>4 DEF UploadFits
  <2> QED BY <2>3, <2>4, <2>5, UpWith DEF Spared
<1>9. Spared /\ UpsKept
  BY <1>4, <1>7, <1>8, Zenon
<1> QED BY <1>1, <1>9, Together DEF PlacedKept

\* The uploads keep the invariant.
LEMMA UpBased == BInv /\ IInv' /\ UpNext => BInv'
<1> SUFFICES ASSUME BInv, IInv', UpNext PROVE BInv'
  OBVIOUS
<1>1. CASE \E t : UpStart(t) \/ UpMkdir(t) \/ UpMove(t) \/ UpMvdir(t) \/ UpDelete(t)
  BY <1>1, UpStartBased, UpAsksBased
<1>2. CASE UpMade \/ UpMoved \/ UpDone \/ UpAgain
  BY <1>2, UpMadeBased, UpMovedBased, UpDoneBased, UpAgainBased
<1>3. ASSUME NEW u \in up.run,
             \/ UpAdmit(u) \/ UpTurnedAway(u) \/ UpStopped(u) \/ UpNoRow(u) \/ UpLocked(u)
             \/ UpNoFile(u) \/ UpRead(u) \/ UpNotSent(u)
      PROVE  BInv'
  BY <1>3, UpAdmitBased, UpTurnedAwayBased, UpEndsBased, UpNoFileBased, UpReadBased
<1>4. ASSUME NEW u \in up.run,
             UpSend(u) \/ UpAnswer(u) \/ UpConflict(u) \/ UpLost(u) \/ UpEnd(u)
      PROVE  BInv'
  BY <1>4, UpSendBased, UpAnswerBased, UpConflictBased, UpEndsBased, UpEndBased
<1>5. \/ \E t : UpStart(t) \/ UpMkdir(t) \/ UpMove(t) \/ UpMvdir(t) \/ UpDelete(t)
      \/ UpMade \/ UpMoved \/ UpDone \/ UpAgain
      \/ \E u \in up.run : \/ UpAdmit(u) \/ UpTurnedAway(u) \/ UpStopped(u) \/ UpNoRow(u)
                           \/ UpLocked(u) \/ UpNoFile(u) \/ UpRead(u) \/ UpNotSent(u)
      \/ \E u \in up.run : UpSend(u) \/ UpAnswer(u) \/ UpConflict(u) \/ UpLost(u) \/ UpEnd(u)
  BY Zenon DEF UpNext
<1> QED BY <1>1, <1>2, <1>3, <1>4, <1>5

----------------------------------------------------------------------------
(* Downloads. *)

\* A download has its fields, and what it found was here.
LEMMA DownloadIs ==
  ASSUME BInv, NEW d \in dn.run PROVE DOMAIN d = DnFields /\ Placed(d)
BY DEF BInv, IInv, DnFits, DownloadFits, PlacedFits, Placed

\* A download that goes on with what was here.
LEMMA PutPlaced ==
  ASSUME BInv, NEW d, NEW w, Put(d, w), Placed(w)' PROVE PlacedKept
<1>1. dn'.run = (dn.run \ {d}) \cup {w}
  BY DEF Put, BInv, IInv, DnFits
<1> QED BY <1>1 DEF PlacedKept

\* It goes on to a step before it has put anything here.
LEMMA NextPlaced ==
  ASSUME BInv, Spared, NEW d \in dn.run, NEW at, at # "row",
         Next_(d, at) \/ Put(d, [d EXCEPT !.at = at, !.scanless = FALSE])
                      \/ Put(d, [d EXCEPT !.at = at, !.seen = 0])
  PROVE  PlacedKept
<1>1. DOMAIN d = DnFields /\ Placed(d)
  BY DownloadIs
<1>2. ASSUME NEW w, Put(d, w), w.at = at, w.local = d.local PROVE PlacedKept
  <2>1. Placed(w)'
    BY <1>1, <1>2 DEF Placed, Spared
  <2> QED BY <1>2, <2>1, PutPlaced
<1>3. ASSUME NEW w, \/ w = [d EXCEPT !.at = at] \/ w = [d EXCEPT !.at = at, !.scanless = FALSE]
                    \/ w = [d EXCEPT !.at = at, !.seen = 0]
      PROVE  w.at = at /\ w.local = d.local
  BY <1>1, <1>3 DEF DnFields
<1>4. \E w : /\ Put(d, w)
            /\ \/ w = [d EXCEPT !.at = at] \/ w = [d EXCEPT !.at = at, !.scanless = FALSE]
               \/ w = [d EXCEPT !.at = at, !.seen = 0]
  BY Zenon DEF Next_
<1> QED BY <1>2, <1>3, <1>4

\* The download thread itself may go on.
LEMMA MainPlaced == ASSUME BInv, NEW v, dn' = dn \/ dn' = [dn EXCEPT !.main = v] PROVE PlacedKept
<1>1. dn'.run = dn.run
  BY DEF BInv, IInv, DnFits
<1> QED BY <1>1 DEF PlacedKept

\* The scanner is stopped, let on, or told to start again: it has read what it has.
LEMMA ScanTold ==
  ASSUME BInv, \/ scan' = scan \/ scan' = ScanStops \/ scan' = ScanRestarts
               \/ \E d : scan' = ScanResumes(d)
               \/ \E v : scan' = [scan EXCEPT !.stoppers = v]
  PROVE  scan' = scan \/ ScanFits'
<1>1. /\ DOMAIN scan' = ScanFields
      /\ scan'.new = scan.new /\ scan'.del = scan.del /\ scan'.mod = scan.mod
  BY DEF BInv, ScanFits, ScanFields, ScanStops, ScanRestarts, ScanResumes
<1> QED BY <1>1 DEF BInv, ScanFits

\* What is at a path has been here.
LEMMA ContentSeen == ASSUME BInv, NEW path, NEW name PROVE ContentAt(path, name) \in ghost.seen
<1> DEFINE f == FileOn(path, name)
<1>1. \A i \in f : disk[i].c \in ghost.seen
  BY DEF FileOn, At, In, BInv, IInv, DiskFits, TreeFits
<1>2. ContentAt(path, name) = IF f = {} THEN 0 ELSE disk[Chosen(f)].c
  BY DEF ContentAt
<1> HIDE DEF f
<1>3. f # {} => Chosen(f) \in f
  BY DEF Chosen
<1> QED BY <1>1, <1>2, <1>3, DbNow DEF Based

\* A download starts,
LEMMA DnStartBased == ASSUME BInv, IInv', NEW t, DnStart(t) PROVE BInv'
<1>1. Quiet /\ scan' = scan /\ up' = up
  BY DEF DnStart, Quiet
<1>2. Spared
  BY <1>1, QuietSpared
<1>3. Based(ghost.seen, db')
  <2>1. db' = DropTask(db, t) \/ db' = Busy(db, t, TRUE)
    BY DEF DnStart
  <2> QED BY <2>1, DbNow, BasedDrop, BasedBusy
<1>4. PlacedKept
  <2>1. PICK w : w = Download(t)
    OBVIOUS
  <2>2. w.at = "get" /\ w.local = ContentAt(PathOf(db, db.task[t].l), db.task[t].name)
    BY <2>1 DEF Download
  <2>3. Placed(w)'
    BY <1>2, <2>2, ContentSeen DEF Placed, Spared
  <2>4. dn' = dn \/ dn' = [dn EXCEPT !.run = @ \cup {w}]
    BY <2>1 DEF DnStart
  <2>5. dn' = dn \/ dn'.run = dn.run \cup {w}
    BY <2>4 DEF BInv, IInv, DnFits
  <2> QED BY <2>3, <2>5 DEF PlacedKept
<1> QED BY <1>1, <1>2, <1>3, <1>4, Together DEF UpsKept

\* A row gets the hash of a version that it has the checksum of.
LEMMA DnGetBased == ASSUME BInv, IInv', NEW d \in dn.run, DnGet(d) PROVE BInv'
<1>1. Quiet /\ scan' = scan /\ up' = up
  BY DEF DnGet, Quiet
<1>2. Spared
  BY <1>1, QuietSpared
<1>3. \/ db' = db /\ Next_(d, "done")
      \/ \E c : /\ RowFor(d, c) # {}
                /\ db' = [db EXCEPT !.lfile[Chosen(RowFor(d, c))].fid = d.fid,
                                    !.lfile[Chosen(RowFor(d, c))].hash = c]
                /\ Next_(d, "done")
      \/ \E c : db' = db /\ Put(d, [d EXCEPT !.at = IF d.local = c THEN "row" ELSE "got", !.c = c])
  BY DEF DnGet
<1>4. ASSUME NEW c, RowFor(d, c) # {},
             db' = [db EXCEPT !.lfile[Chosen(RowFor(d, c))].fid = d.fid,
                              !.lfile[Chosen(RowFor(d, c))].hash = c]
      PROVE  Based(ghost.seen, db')
  <2> DEFINE r == Chosen(RowFor(d, c))
  <2>1. r \in RowFor(d, c)
    BY <1>4 DEF Chosen
  <2>2. r \in DOMAIN db.lfile /\ db.lfile[r].sum = c
    BY <2>1 DEF RowFor, FileAt
  <2>3. c \in ghost.seen
    BY <2>2, DbNow DEF Based
  <2>4. db' = [db EXCEPT !.lfile[r].fid = d.fid, !.lfile[r].hash = c]
    BY <1>4
  <2> HIDE DEF r
  <2> QED BY <2>2, <2>3, <2>4, DbNow, BasedVersion
<1>5. ASSUME NEW c, Put(d, [d EXCEPT !.at = IF d.local = c THEN "row" ELSE "got", !.c = c])
      PROVE  PlacedKept
  <2> DEFINE w == [d EXCEPT !.at = IF d.local = c THEN "row" ELSE "got", !.c = c]
  <2>1. /\ w.local = d.local /\ w.c = c /\ (w.at = "row" => d.local = c)
    BY DownloadIs DEF DnFields
  <2>2. Put(d, w)
    BY <1>5
  <2> HIDE DEF w
  <2>3. Placed(w)'
    BY <1>2, <2>1, DownloadIs DEF Placed, Spared
  <2> QED BY <2>2, <2>3, PutPlaced
<1>6. PlacedKept
  BY <1>2, <1>3, <1>5, NextPlaced
<1>7. db' = db \/ Based(ghost.seen, db')
  BY <1>3, <1>4
<1> QED BY <1>1, <1>2, <1>6, <1>7, Together DEF UpsKept

\* A download fails, or is stopped.
LEMMA DnEndsBased ==
  ASSUME BInv, IInv', NEW d \in dn.run, DnFails(d) \/ DnStopped(d) PROVE BInv'
<1>1. Quiet /\ scan' = scan /\ up' = up /\ db' = db
  BY DEF DnFails, DnStopped, Quiet
<1>2. Spared
  BY <1>1, QuietSpared
<1>3. Next_(d, "failed") \/ Next_(d, "done") \/ Next_(d, "hung")
  BY DEF DnFails, DnStopped
<1>4. PlacedKept
  BY <1>2, <1>3, NextPlaced
<1> QED BY <1>1, <1>2, <1>4, Together DEF UpsKept

\* It looks at what is there,
LEMMA DnLookBased == ASSUME BInv, IInv', NEW d \in dn.run, DnLook(d) PROVE BInv'
<1>1. up' = up /\ db' = db /\ scan' = ScanStops
  BY DEF DnLook
<1>2. Spared
  <2>1. PICK v : ghost' = [ghost EXCEPT !.unsure = v]
    BY DEF DnLook
  <2>2. ghost'.seen = ghost.seen /\ ghost'.over = ghost.over
    BY <2>1 DEF BInv, IInv, GhostFits, GhostFields
  <2> QED BY <2>2 DEF Spared
<1>3. PICK c, w : /\ Put(d, w)
                  /\ w = [d EXCEPT !.seen = c, !.scanless = TRUE,
                                   !.at = IF MayReplace(d, c) THEN "place" ELSE "aside"]
  BY DEF DnLook
<1>4. w.at # "row" /\ w.local = d.local
  <2> DEFINE at == IF MayReplace(d, c) THEN "place" ELSE "aside"
  <2>1. at # "row" /\ w = [d EXCEPT !.seen = c, !.scanless = TRUE, !.at = at]
    BY <1>3
  <2> HIDE DEF at
  <2> QED BY <2>1, DownloadIs DEF DnFields
<1>5. Placed(w)'
  BY <1>2, <1>4, DownloadIs DEF Placed, Spared
<1>6. PlacedKept
  BY <1>3, <1>5, PutPlaced
<1>7. scan' = scan \/ ScanFits'
  BY <1>1, ScanTold
<1> QED BY <1>1, <1>2, <1>6, <1>7, Together DEF UpsKept

\* puts it aside,
LEMMA DnAsideBased == ASSUME BInv, IInv', NEW d \in dn.run, DnAside(d) PROVE BInv'
<1>1. Quiet /\ up' = up /\ db' = db /\ (scan' = scan \/ scan' = ScanResumes(d))
  BY DEF DnAside, Quiet
<1>2. Spared
  BY <1>1, QuietSpared
<1>3. PICK at \in {"failed", "unrow"} :
        \/ Put(d, [d EXCEPT !.at = at, !.scanless = FALSE])
        \/ Put(d, [d EXCEPT !.at = at, !.seen = 0])
  BY DEF DnAside
<1>4. PlacedKept
  BY <1>2, <1>3, NextPlaced
<1>5. scan' = scan \/ ScanFits'
  BY <1>1, ScanTold
<1> QED BY <1>1, <1>2, <1>4, <1>5, Together DEF UpsKept

\* with its row,
LEMMA DnUnrowBased == ASSUME BInv, IInv', NEW d \in dn.run, DnUnrow(d) PROVE BInv'
<1>1. Quiet /\ up' = up /\ scan' = scan /\ Next_(d, "place")
  BY DEF DnUnrow, Quiet
<1>2. Spared
  BY <1>1, QuietSpared
<1>3. Based(ghost.seen, db')
  BY DbNow, BasedLess DEF DnUnrow
<1>4. PlacedKept
  BY <1>1, <1>2, NextPlaced
<1> QED BY <1>1, <1>2, <1>3, <1>4, Together DEF UpsKept

\* and ends.
LEMMA DnEndBased == ASSUME BInv, IInv', NEW d \in dn.run, DnEnd(d) PROVE BInv'
<1>1. Quiet /\ up' = up /\ scan' = scan
  BY KnownIfIsQuiet DEF DnEnd
<1>2. Spared
  BY <1>1, QuietSpared
<1>3. Based(ghost.seen, db')
  BY DbNow, BasedDrop, BasedBusy DEF DnEnd
<1>4. PlacedKept
  <2>1. dn' = [dn EXCEPT !.run = @ \ {d}]
    BY DEF DnEnd
  <2>2. dn'.run = dn.run \ {d}
    BY <2>1 DEF BInv, IInv, DnFits
  <2> QED BY <2>2 DEF PlacedKept
<1> QED BY <1>1, <1>2, <1>3, <1>4, Together DEF UpsKept

\* What a download is about to be, when it goes on with what it found.
LEMMA OnPlaced ==
  ASSUME BInv, Spared, NEW d \in dn.run, NEW at,
         Next_(d, at) \/ Put(d, [d EXCEPT !.at = at, !.scanless = FALSE]),
         at = "row" => d.c \in ghost'.seen
  PROVE  PlacedKept
<1>1. DOMAIN d = DnFields /\ Placed(d)
  BY DownloadIs
<1>2. ASSUME NEW w, Put(d, w), w.at = at, w.local = d.local, w.c = d.c PROVE PlacedKept
  <2>1. Placed(w)'
    BY <1>1, <1>2 DEF Placed, Spared
  <2> QED BY <1>2, <2>1, PutPlaced
<1>3. ASSUME NEW w, w = [d EXCEPT !.at = at] \/ w = [d EXCEPT !.at = at, !.scanless = FALSE]
      PROVE  w.at = at /\ w.local = d.local /\ w.c = d.c
  BY <1>1, <1>3 DEF DnFields
<1>4. \E w : Put(d, w) /\ (w = [d EXCEPT !.at = at] \/ w = [d EXCEPT !.at = at, !.scanless = FALSE])
  BY Zenon DEF Next_
<1> QED BY <1>2, <1>3, <1>4

\* The file that a download puts here has been here from then on.
LEMMA DnPlaceBased == ASSUME BInv, IInv', NEW d \in dn.run, DnPlace(d) PROVE BInv'
<1>1. up' = up /\ db' = db /\ (scan' = scan \/ scan' = ScanResumes(d))
  BY DEF DnPlace
<1>2. \/ ghost' = ghost /\ Put(d, [d EXCEPT !.at = "failed", !.scanless = FALSE])
      \/ Next_(d, "row") /\ \E g : ghost' = [Lost(g) EXCEPT !.inode = NewInode, !.seen = @ \cup {d.c}]
  BY Zenon DEF DnPlace
<1>3. ASSUME NEW g, ghost' = [Lost(g) EXCEPT !.inode = NewInode, !.seen = @ \cup {d.c}]
      PROVE  Spared /\ d.c \in ghost'.seen
  <2>1. DOMAIN ghost = GhostFields
    BY DEF BInv, IInv, GhostFits
  <2>2. PICK l : l = Lost(g)
    OBVIOUS
  <2>3. DOMAIN l = GhostFields /\ l.seen = ghost.seen /\ l.over = ghost.over
    BY <2>1, <2>2 DEF Lost, GhostFields
  <2>4. ghost' = [l EXCEPT !.inode = NewInode, !.seen = l.seen \cup {d.c}]
    BY <1>3, <2>2
  <2>5. ghost'.seen = ghost.seen \cup {d.c} /\ ghost'.over = ghost.over
    BY <2>3, <2>4 DEF GhostFields
  <2> QED BY <2>5 DEF Spared
<1>4. Spared
  BY <1>2, <1>3 DEF Spared
<1>5. PlacedKept
  BY <1>2, <1>3, <1>4, OnPlaced
<1>6. scan' = scan \/ ScanFits'
  BY <1>1, ScanTold
<1> QED BY <1>1, <1>4, <1>5, <1>6, Together DEF UpsKept

\* A row for what is there.
LEMMA BasedNoted ==
  ASSUME BInv, NEW d, d.c \in ghost.seen, NEW i PROVE Based(ghost.seen, Noted(d, i))
<1> DEFINE old == FileAt(db, d.l, d.name)
           id == IF old = {} THEN db.lastfile + 1 ELSE Chosen(old)
           row == [dir |-> d.l, name |-> d.name, fid |-> d.fid,
                   hash |-> d.c, sum |-> d.c, ino |-> i, m |-> disk[i].c]
           v == Plus(db.lfile, id, row)
           a == [db EXCEPT !.lfile = v]
           w == IF old = {} THEN id ELSE db.lastfile
           c == [db EXCEPT !.lfile = v, !.lastfile = w]
<1>1. RowFits(ghost.seen, row)
  BY DEF RowFits, RowFields
<1>2. Based(ghost.seen, a)
  <2> HIDE DEF row, id
  <2> QED BY <1>1, DbNow, BasedRow
<1>3. Noted(d, i) = c
  BY DEF Noted
<1> HIDE DEF v, w
<1>4. /\ DOMAIN c = DbFields /\ c.lfile = a.lfile /\ c.lfolder = a.lfolder /\ c.mir = a.mir
      /\ DOMAIN a = DbFields
  BY DbNow DEF Based, DbFields
<1> HIDE DEF a, c
<1>5. IsFiniteSet(DOMAIN c.lfolder) /\ IsFiniteSet(DOMAIN c.mir)
  BY <1>2, <1>4 DEF Based
<1>6. Based(ghost.seen, c)
  BY <1>2, <1>4, <1>5, BasedLike
<1> QED BY <1>3, <1>6

\* The row gets the version that was put here.
LEMMA DnRowBased == ASSUME BInv, IInv', NEW d \in dn.run, DnRow(d) PROVE BInv'
<1>1. up' = up /\ scan' = ScanResumes(d) /\ d.at = "row"
  BY DEF DnRow
<1>2. d.c \in ghost.seen
  BY <1>1, DownloadIs DEF Placed
<1>3. \/ ghost' = ghost
      \/ \E g : ghost' = Lost(g)
      \/ \E v : ghost' = [ghost EXCEPT !.known = v]
  BY DEF DnRow
<1>4. Spared
  BY <1>3, QuietSpared, LostSpares DEF Quiet, BInv, IInv
<1>5. \E at \in {"failed", "done"} : Put(d, [d EXCEPT !.at = at, !.scanless = FALSE]) /\ at # "row"
  <2>1. Put(d, [d EXCEPT !.at = "failed", !.scanless = FALSE])
        \/ Put(d, [d EXCEPT !.at = "done", !.scanless = FALSE])
    BY DEF DnRow
  <2>2. "failed" # "row" /\ "done" # "row"
    OBVIOUS
  <2> QED BY Zenon, <2>1, <2>2
<1>6. PlacedKept
  BY <1>4, <1>5, OnPlaced
<1>7. \/ db' = db \/ db' = [db EXCEPT !.lfile = Without(@, FileAt(db, d.l, d.name))]
      \/ \E i : db' = Noted(d, i)
  BY DEF DnRow
<1>8. Based(ghost.seen, db')
  BY <1>2, <1>7, DbNow, BasedLess, BasedNoted
<1>9. scan' = scan \/ ScanFits'
  BY <1>1, ScanTold
<1> QED BY <1>1, <1>4, <1>6, <1>8, <1>9, Together DEF UpsKept

----------------------------------------------------------------------------
(* The download thread itself. *)

\* What it does to the tables, to the scanner and to the uploads.
LEMMA MainBased ==
  ASSUME BInv, IInv', Spared, Based(ghost.seen, db'),
         dn' = dn \/ \E v : dn' = [dn EXCEPT !.main = v],
         \/ scan' = scan \/ scan' = ScanStops \/ scan' = ScanRestarts
         \/ \E v : scan' = [scan EXCEPT !.stoppers = v],
         up' = up \/ \E S : up' = [up EXCEPT !.run = Stopped(S)]
  PROVE  BInv'
<1>1. PlacedKept
  BY MainPlaced
<1>2. UpsKept
  BY UpStops DEF UpsKept
<1>3. scan' = scan \/ ScanFits'
  BY ScanTold
<1> QED BY <1>1, <1>2, <1>3, Together

\* A folder is made,
LEMMA DnMkdirBased == ASSUME BInv, IInv', NEW t, DnMkdir(t) PROVE BInv'
<1>1. /\ up' = up /\ scan' = scan
      /\ db' = db \/ db' = DropTask(db, t)
      /\ dn' = dn \/ \E v : dn' = [dn EXCEPT !.main = v]
      /\ ghost' = ghost \/ ghost' = [ghost EXCEPT !.inode = NewInode]
  BY DEF DnMkdir, Drops, Rests, Step
<1>2. Spared
  BY <1>1 DEF Spared, BInv, IInv, GhostFits, GhostFields
<1>3. Based(ghost.seen, db')
  BY <1>1, DbNow, BasedDrop
<1> QED BY <1>1, <1>2, <1>3, MainBased

\* and noted.
LEMMA DnMadeBased == ASSUME BInv, IInv', DnMade PROVE BInv'
<1>1. /\ up' = up /\ scan' = scan /\ Quiet
      /\ \E v : dn' = [dn EXCEPT !.main = v]
      /\ \E l, i : \/ db' = DropTask(db, dn.main.id)
                   \/ db' = DropTask([db EXCEPT !.lfolder[l].ino = i], dn.main.id)
  BY KnownIfIsQuiet DEF DnMade, Rests
<1>2. ASSUME NEW l, NEW i PROVE Based(ghost.seen, [db EXCEPT !.lfolder[l].ino = i])
  <2> DEFINE v == [db.lfolder EXCEPT ![l].ino = i]
  <2>1. [db EXCEPT !.lfolder[l].ino = i] = [db EXCEPT !.lfolder = v]
    OBVIOUS
  <2>2. IsFiniteSet(DOMAIN v)
    BY DbNow DEF Based
  <2> HIDE DEF v
  <2> QED BY <2>1, <2>2, DbNow, BasedFolders
<1>3. ASSUME NEW l, NEW i, \/ db' = DropTask(db, dn.main.id)
                           \/ db' = DropTask([db EXCEPT !.lfolder[l].ino = i], dn.main.id)
      PROVE  Based(ghost.seen, db')
  <2> DEFINE c == [db EXCEPT !.lfolder[l].ino = i]
  <2>1. Based(ghost.seen, c) /\ Based(ghost.seen, db)
    BY <1>2, DbNow
  <2>2. db' = DropTask(db, dn.main.id) \/ db' = DropTask(c, dn.main.id)
    BY <1>3
  <2> HIDE DEF c
  <2> QED BY <2>1, <2>2, BasedDrop
<1>4. Spared
  BY <1>1, QuietSpared
<1> QED BY <1>1, <1>3, <1>4, MainBased

\* A folder is removed,
LEMMA DnRmdirBased == ASSUME BInv, IInv', NEW t, DnRmdir(t) PROVE BInv'
<1>1. /\ up' = up /\ scan' = scan /\ db' = db /\ ghost' = ghost
      /\ \E v : dn' = [dn EXCEPT !.main = v]
  BY DEF DnRmdir, Step
<1>2. Spared
  BY <1>1 DEF Spared
<1> QED BY <1>1, <1>2, DbNow, MainBased

\* and its rows.
LEMMA DnRemovedBased == ASSUME BInv, IInv', DnRemoved PROVE BInv'
<1>1. /\ scan' = scan /\ Quiet
      /\ \E v : dn' = [dn EXCEPT !.main = v]
      /\ \E S : up' = [up EXCEPT !.run = Stopped(S)]
      /\ \E l : db' = DropTask(delete_local_folder_rec(db, l), dn.main.id)
  BY KnownIfIsQuiet DEF DnRemoved, Rests
<1>2. Based(ghost.seen, db')
  BY <1>1, DbNow, BasedRec, BasedDrop
<1>3. Spared
  BY <1>1, QuietSpared
<1> QED BY <1>1, <1>2, <1>3, MainBased

\* A folder is removed with all that is in it.
LEMMA DnRmtreeBased == ASSUME BInv, IInv', NEW t, DnRmtree(t) PROVE BInv'
<1>1. /\ scan' = ScanRestarts /\ \E v : dn' = [dn EXCEPT !.main = v]
      /\ up' = up \/ \E S : up' = [up EXCEPT !.run = Stopped(S)]
      /\ db' = DropTask(db, t) \/ \E l : db' = DropTask(delete_local_folder_rec(db, l), t)
      /\ ghost' = ghost \/ \E g : ghost' = Lost(g)
  BY DEF DnRmtree, Drops, Rests
<1>2. Based(ghost.seen, db')
  BY <1>1, DbNow, BasedRec, BasedDrop
<1>3. Spared
  BY <1>1, QuietSpared, LostSpares DEF Quiet, BInv, IInv
<1> QED BY <1>1, <1>2, <1>3, MainBased

\* A file is deleted,
LEMMA DnDeleteBased == ASSUME BInv, IInv', NEW t, DnDelete(t) PROVE BInv'
<1>1. /\ scan' = ScanRestarts /\ up' = up /\ db' = db
      /\ \E v : dn' = [dn EXCEPT !.main = v]
      /\ \E g : ghost' = Lost(g)
  BY DEF DnDelete, Step
<1>2. Spared
  BY <1>1, LostSpares DEF BInv, IInv
<1> QED BY <1>1, <1>2, DbNow, MainBased

\* and its row.
LEMMA DnDeletedBased == ASSUME BInv, IInv', DnDeleted PROVE BInv'
<1>1. /\ up' = up /\ scan' = scan /\ Quiet
      /\ \E v : dn' = [dn EXCEPT !.main = v]
      /\ \E S : db' = DropTask([db EXCEPT !.lfile = Without(@, S)], dn.main.id)
  BY KnownIfIsQuiet DEF DnDeleted, Rests
<1>2. Based(ghost.seen, db')
  BY <1>1, DbNow, BasedLess, BasedDrop
<1>3. Spared
  BY <1>1, QuietSpared
<1> QED BY <1>1, <1>2, <1>3, MainBased

\* What a rename does to what happened before.
LEMMA LostKnown ==
  ASSUME BInv, NEW g, NEW v, ghost' = [Lost(g) EXCEPT !.known = v] PROVE Spared
<1>1. PICK l : l = Lost(g)
  OBVIOUS
<1>2. DOMAIN l = GhostFields /\ l.seen = ghost.seen /\ l.over = ghost.over
  BY <1>1 DEF Lost, GhostFields, BInv, IInv, GhostFits
<1>3. ghost' = [l EXCEPT !.known = v]
  BY <1>1
<1>4. ghost'.seen = ghost.seen /\ ghost'.over = ghost.over
  BY <1>2, <1>3 DEF GhostFields
<1> QED BY <1>4 DEF Spared

\* A file is moved, or its row waits to be; or it is fetched instead.
LEMMA DnMoveBased == ASSUME BInv, IInv', NEW t, DnMove(t) PROVE BInv'
<1>1. up' = up
  BY DEF DnMove
<1>2. ASSUME NEW r, NEW f, NEW dir, MoveFile(t, r, f, dir) PROVE BInv'
  <2>1. scan' = ScanStops /\ db' = db /\ \E v : dn' = [dn EXCEPT !.main = v]
    BY <1>2 DEF MoveFile
  <2>2. \E g, v : ghost' = [Lost(g) EXCEPT !.known = v]
    BY <1>2, Zenon DEF MoveFile
  <2>3. Spared
    BY <2>2, LostKnown
  <2> QED BY <1>1, <2>1, <2>3, DbNow, MainBased
<1>3. \/ \E r, f, dir : MoveFile(t, r, f, dir)
      \/ /\ Rests /\ (scan' = scan \/ scan' = ScanRestarts)
         /\ ghost' = ghost \/ \E yes : KnownIf(yes, "homeless")
         /\ \/ db' = db
            \/ db' = DropTask(db, t)
            \/ \E i, l, name : db' = DropTask(ptask_download_q(db, i, l, name), t)
  BY Zenon, DnMoveIs DEF Stood
<1>4. ASSUME NEW i, NEW l, NEW name
      PROVE  Based(ghost.seen, DropTask(ptask_download_q(db, i, l, name), t))
  <2>1. Based(ghost.seen, ptask_download_q(db, i, l, name))
    BY DbNow, BasedQueue DEF ptask_download_q
  <2> QED BY <2>1, BasedDrop
<1>5. ASSUME Rests, scan' = scan \/ scan' = ScanRestarts,
             ghost' = ghost \/ \E yes : KnownIf(yes, "homeless"),
             \/ db' = db
             \/ db' = DropTask(db, t)
             \/ \E i, l, name : db' = DropTask(ptask_download_q(db, i, l, name), t)
      PROVE  BInv'
  <2>1. Based(ghost.seen, db')
    BY <1>4, <1>5, DbNow, BasedDrop
  <2>2. Quiet
    BY <1>5, KnownIfIsQuiet DEF Quiet
  <2>3. Spared
    BY <2>2, QuietSpared
  <2> QED BY <1>1, <1>5, <2>1, <2>3, MainBased DEF Rests
<1> QED BY <1>2, <1>3, <1>5

\* The row that follows its file keeps the version it stands for.
LEMMA BasedRenamed ==
  ASSUME BInv, NEW t, NEW S, NEW r \in DOMAIN db.lfile, r \notin S, NEW dir, NEW name, NEW i, NEW m
  PROVE  Based(ghost.seen, [DropTask(db, t) EXCEPT
                              !.lfile = [Without(@, S) EXCEPT ![r].dir = dir, ![r].name = name,
                                                              ![r].ino = i, ![r].m = m]])
<1> DEFINE w == Without(db.lfile, S)
           v == [w EXCEPT ![r].dir = dir, ![r].name = name, ![r].ino = i, ![r].m = m]
           a == DropTask(db, t)
<1>1. a.lfile = db.lfile
  BY DbNow DEF DropTask, Based, DbFields
<1>2. Based(ghost.seen, a)
  BY DbNow, BasedDrop
<1>3. IsFiniteSet(DOMAIN w) /\ \A x \in DOMAIN w : RowFits(ghost.seen, w[x])
  <2>1. IsFiniteSet(DOMAIN w)
    BY DbNow, RowsFit, FiniteWithout
  <2>2. \A x \in DOMAIN w : x \in DOMAIN db.lfile /\ w[x] = db.lfile[x]
    BY DEF Without, Restrict
  <2> HIDE DEF w
  <2> QED BY <2>1, <2>2, DbNow, RowsFit
<1>4. r \in DOMAIN w
  BY DEF Without, Restrict
<1> HIDE DEF w
<1>5. DOMAIN v = DOMAIN w /\ \A x \in DOMAIN w : x # r => v[x] = w[x]
  OBVIOUS
<1>6. v[r] = [w[r] EXCEPT !.dir = dir, !.name = name, !.ino = i, !.m = m]
  BY <1>4
<1>7. RowFits(ghost.seen, v[r])
  <2> HIDE DEF v
  <2> QED BY <1>3, <1>4, <1>6 DEF RowFits, RowFields
<1>8. IsFiniteSet(DOMAIN v) /\ \A x \in DOMAIN v : RowFits(ghost.seen, v[x])
  <2> HIDE DEF v
  <2> QED BY <1>3, <1>5, <1>7
<1>9. [a EXCEPT !.lfile = [Without(@, S) EXCEPT ![r].dir = dir, ![r].name = name,
                                                ![r].ino = i, ![r].m = m]]
        = [a EXCEPT !.lfile = v]
  BY <1>1 DEF w
<1> HIDE DEF v, a
<1>10. Based(ghost.seen, [a EXCEPT !.lfile = v])
  BY <1>2, <1>8, BasedFiles
<1> QED BY <1>9, <1>10 DEF a

\* The row follows a file that was moved.
LEMMA DnRenamedBased == ASSUME BInv, IInv', DnRenamed PROVE BInv'
<1>1. up' = up /\ (\E v : dn' = [dn EXCEPT !.main = v]) /\ \E v : scan' = [scan EXCEPT !.stoppers = v]
  BY DEF DnRenamed, Rests
<1>0. PICK r, row, f : RowFollows(r, row, f)
  BY DnRenamedIs
<1>2. ghost' = ghost \/ \E yes, why : KnownIf(yes, why)
  BY Zenon, <1>0 DEF RowFollows
<1>3. Quiet
  BY <1>2, KnownIfIsQuiet DEF Quiet
<1>4. Spared
  BY <1>3, QuietSpared
<1>5. \/ db' = DropTask(db, dn.main.id)
      \/ /\ r \in DOMAIN db.lfile
         /\ db' = [DropTask(db, dn.main.id) EXCEPT
                       !.lfile = [Without(@, FileAt(db, row.to, row.name) \ {r}) EXCEPT
                                    ![r].dir = row.to, ![r].name = row.name,
                                    ![r].ino = Chosen(f), ![r].m = disk[Chosen(f)].c]]
  BY Zenon, <1>0 DEF RowFollows
<1>6. ASSUME r \in DOMAIN db.lfile
      PROVE  Based(ghost.seen, [DropTask(db, dn.main.id) EXCEPT
                       !.lfile = [Without(@, FileAt(db, row.to, row.name) \ {r}) EXCEPT
                                    ![r].dir = row.to, ![r].name = row.name,
                                    ![r].ino = Chosen(f), ![r].m = disk[Chosen(f)].c]])
  <2>1. r \notin FileAt(db, row.to, row.name) \ {r}
    OBVIOUS
  <2> QED BY Zenon, <1>6, <2>1, BasedRenamed
<1>7. Based(ghost.seen, db')
  <2>1. Based(ghost.seen, DropTask(db, dn.main.id))
    BY DbNow, BasedDrop
  <2> QED BY Zenon, <1>5, <1>6, <2>1
<1> QED BY <1>1, <1>4, <1>7, MainBased

\* A folder is given another place.
LEMMA DnMvdirBased == ASSUME BInv, IInv', NEW t, DnMvdir(t) PROVE BInv'
<1>1. up' = up /\ (\E v : dn' = [dn EXCEPT !.main = v]) /\ (scan' = scan \/ scan' = ScanRestarts)
  BY DEF DnMvdir, Drops, Rests
<1>2. ghost' = ghost \/ (\E yes, why : KnownIf(yes, why)) \/ (\E why : Known(why))
      \/ \E g : ghost' = Lost(g)
  BY SMTT(30) DEF DnMvdir
<1>3. Spared
  BY <1>2, KnownIsQuiet, KnownIfIsQuiet, QuietSpared, LostSpares DEF Quiet, BInv, IInv
<1>4. \/ db' = db \/ db' = DropTask(db, t)
      \/ \E l, d, name, b : /\ b = [db EXCEPT !.lfolder[l].dir = d, !.lfolder[l].name = name]
                            /\ db' = DropTask(b, t)
  <2>1. \/ db' = db \/ Drops(t, db)
        \/ \E row, b : /\ b = [db EXCEPT !.lfolder[row.l].dir = row.to,
                                         !.lfolder[row.l].name = row.name]
                       /\ Drops(t, b)
    <3>1. PICK row : FolderFollows(t, row)
      BY FolderFollowsIs
    <3>2. \/ Drops(t, db) \/ UNCHANGED db
          \/ \E b \in {[db EXCEPT !.lfolder[row.l].dir = row.to,
                                  !.lfolder[row.l].name = row.name]} : Drops(t, b)
      BY Zenon, <3>1 DEF FolderFollows
    <3> QED BY Zenon, <3>2
  <2> QED BY Zenon, <2>1 DEF Drops
<1>5. ASSUME NEW l, NEW d, NEW name, NEW b,
             b = [db EXCEPT !.lfolder[l].dir = d, !.lfolder[l].name = name]
      PROVE  Based(ghost.seen, DropTask(b, t))
  <2> DEFINE v == [db.lfolder EXCEPT ![l].dir = d, ![l].name = name]
             c == [db EXCEPT !.lfolder = v]
  <2>1. [db EXCEPT !.lfolder[l].dir = d, !.lfolder[l].name = name] = c
    BY DbNow DEF Based, DbFields
  <2>2. IsFiniteSet(DOMAIN v) /\ b = c
    BY <1>5, <2>1, DbNow DEF Based
  <2>3. Based(ghost.seen, c)
    <3> HIDE DEF v
    <3> QED BY <2>2, DbNow, BasedFolders
  <2> HIDE DEF c
  <2>4. Based(ghost.seen, DropTask(c, t))
    BY <2>3, BasedDrop
  <2> QED BY <2>2, <2>4
<1>6. Based(ghost.seen, db')
  <2>1. Based(ghost.seen, db) /\ Based(ghost.seen, DropTask(db, t))
    BY DbNow, BasedDrop
  <2>2. ASSUME NEW l, NEW d, NEW name, NEW b,
               b = [db EXCEPT !.lfolder[l].dir = d, !.lfolder[l].name = name],
               db' = DropTask(b, t)
        PROVE  Based(ghost.seen, db')
    <3>1. Based(ghost.seen, DropTask(b, t))
      BY <1>5, <2>2
    <3> QED BY <2>2, <3>1
  <2> QED BY Zenon, <1>4, <2>1, <2>2
<1> QED BY <1>1, <1>3, <1>6, MainBased

\* A row that waits for the downloads.
LEMMA DnWaitsBased == ASSUME BInv, IInv', NEW t, DnWaits(t) PROVE BInv'
<1>1. /\ up' = up /\ scan' = scan /\ db' = db /\ ghost' = ghost
      /\ \E v : dn' = [dn EXCEPT !.main = v]
  BY DEF DnWaits, Step
<1>2. Spared
  BY <1>1 DEF Spared
<1> QED BY <1>1, <1>2, DbNow, MainBased

\* The downloads keep the invariant.
LEMMA DnBased == BInv /\ IInv' /\ DnNext => BInv'
<1> SUFFICES ASSUME BInv, IInv', DnNext PROVE BInv'
  OBVIOUS
<1>1. DnMade \/ DnRemoved \/ DnDeleted \/ DnRenamed => BInv'
  BY DnMadeBased, DnRemovedBased, DnDeletedBased, DnRenamedBased
<1>2. ASSUME NEW t, \/ DnStart(t) \/ DnMkdir(t) \/ DnWaits(t) \/ DnRmdir(t) \/ DnRmtree(t)
                    \/ DnDelete(t) \/ DnMove(t) \/ DnMvdir(t)
      PROVE  BInv'
  BY <1>2, DnStartBased, DnMkdirBased, DnWaitsBased, DnRmdirBased, DnRmtreeBased, DnDeleteBased,
     DnMoveBased, DnMvdirBased
<1>3. ASSUME NEW d \in dn.run, DnGet(d) \/ DnFails(d) \/ DnStopped(d) \/ DnLook(d)
      PROVE  BInv'
  BY <1>3, DnGetBased, DnEndsBased, DnLookBased
<1>4. ASSUME NEW d \in dn.run, DnAside(d) \/ DnUnrow(d) \/ DnPlace(d) \/ DnRow(d) \/ DnEnd(d)
      PROVE  BInv'
  BY <1>4, DnAsideBased, DnUnrowBased, DnPlaceBased, DnRowBased, DnEndBased
<1> QED BY Zenon, <1>1, <1>2, <1>3, <1>4 DEF DnNext

----------------------------------------------------------------------------
(* All steps, with the tables. *)

\* The users change no table.
LEMMA UsersBased == BInv /\ IInv' /\ (UserHere \/ UserThere) => BInv'
<1> SUFFICES ASSUME BInv, IInv', UserHere \/ UserThere PROVE BInv'
  OBVIOUS
<1>1. UNCHANGED <<db, scan, up, dn>>
  BY DEF UserHere, UserThere
<1>2. Spared
  <2>1. ASSUME NEW i, NEW c, \/ ghost' = [ghost EXCEPT !.inode = i, !.seen = @ \cup {c}]
                             \/ ghost' = [ghost EXCEPT !.id = i, !.kept = @ \cup {c}]
        PROVE  Spared
    <3>1. DOMAIN ghost = GhostFields
      BY DEF BInv, IInv, GhostFits
    <3>2. ghost.seen \subseteq ghost'.seen /\ ghost'.over = ghost.over
      BY <2>1, <3>1 DEF GhostFields
    <3> QED BY <3>2 DEF Spared
  <2>2. \E i, c : \/ ghost' = [ghost EXCEPT !.inode = i, !.seen = @ \cup {c}]
                  \/ ghost' = [ghost EXCEPT !.id = i, !.kept = @ \cup {c}]
    <3>1. CASE UserHere
      <4>1. ghost' = [ghost EXCEPT !.inode = Top(DOMAIN disk' \cup {@}),
                                   !.seen = @ \cup {Head(user.here).c}]
        BY <3>1 DEF UserHere
      <4> QED BY <4>1, Zenon
    <3>2. CASE UserThere
      <4>1. ghost' = [ghost EXCEPT !.id = Top(DOMAIN srv' \cup {@}),
                                   !.kept = @ \cup {Head(user.there).c}]
        BY <3>2 DEF UserThere
      <4> QED BY <4>1, Zenon
    <3> QED BY <3>1, <3>2
  <2> QED BY <2>1, <2>2
<1> QED BY <1>1, <1>2, Together DEF UpsKept, PlacedKept

\* When the program is started again there are the tables.
LEMMA RestartBased == BInv /\ IInv' /\ Restart => BInv'
<1> SUFFICES ASSUME BInv, IInv', Restart PROVE BInv'
  OBVIOUS
<1>1. /\ Quiet /\ scan' = Idle(FALSE, 0)
      /\ up' = [main |-> NoTask, run |-> {}] /\ dn' = [main |-> NoTask, run |-> {}]
      /\ \E v : db' = [db EXCEPT !.task = v]
  BY KnownIfIsQuiet DEF Restart
<1>2. Spared
  BY <1>1, QuietSpared
<1>3. Based(ghost.seen, db')
  BY <1>1, DbNow, BasedTasks
<1>4. ScanFits'
  BY <1>1, IdleFits
<1>5. UpsKept /\ PlacedKept
  BY <1>1 DEF UpsKept, PlacedKept
<1> QED BY <1>2, <1>3, <1>4, <1>5, Together

\* The invariant holds when the program starts.
LEMMA InitBased == Init => BInv
<1> SUFFICES ASSUME Init PROVE BInv
  OBVIOUS
<1>1. IInv
  BY InitFits
<1>2. ghost.seen = {0, 1, 2} /\ ghost.over = {}
  BY DEF Init
<1>3. DbFits
  <2> DEFINE files == <<LocalRow(A, 0, FileA, 1, 1), LocalRow(C, 1, FileC, 2, 3)>>
             folders == <<[dir |-> 0, name |-> B, ino |-> 2, fid |-> FolderB]>>
             synced == [l \in {0, 1} |-> IF l = 0 THEN Remote ELSE FolderB]
             mir == MirrorOf(srv)
  <2>1. db = TablesOf(files, folders, synced, mir)
    BY DEF Init
  <2>2. DOMAIN files = 1..2 /\ DOMAIN folders = 1..1
    OBVIOUS
  <2>3. DOMAIN mir = 1..5
    <3>1. DOMAIN mir = DOMAIN srv
      BY DEF MirrorOf
    <3>2. DOMAIN srv = 1..5
      BY DEF Init
    <3> QED BY <3>1, <3>2
  <2>4. \A r \in DOMAIN files : RowFits({0, 1, 2}, files[r])
    <3>1. \A name, d, fid, c, i : c \in {0, 1, 2} => RowFits({0, 1, 2}, LocalRow(name, d, fid, c, i))
      BY DEF RowFits, RowFields, LocalRow
    <3>2. files[1] = LocalRow(A, 0, FileA, 1, 1) /\ files[2] = LocalRow(C, 1, FileC, 2, 3)
      OBVIOUS
    <3>3. \A r \in DOMAIN files : r = 1 \/ r = 2
      BY <2>2
    <3> HIDE DEF files
    <3> QED BY <3>1, <3>2, <3>3
  <2> HIDE DEF files, folders, synced, mir
  <2>5. DOMAIN db = DbFields /\ db.lfile = files /\ db.lfolder = folders /\ db.mir = mir
    BY <2>1 DEF TablesOf, DbFields
  <2>6. IsFiniteSet(1..2) /\ IsFiniteSet(1..1) /\ IsFiniteSet(1..5)
    BY FS_Interval, 1 \in Int, 2 \in Int, 5 \in Int
  <2> QED BY <1>2, <2>2, <2>3, <2>4, <2>5, <2>6 DEF DbFits, Based, RowFits
<1>4. ScanFits
  <2>1. DOMAIN scan = ScanFields /\ scan.new = {} /\ scan.del = {} /\ scan.mod = {}
    BY DEF Init, Idle, ScanFields
  <2> QED BY <2>1, FS_EmptySet DEF ScanFits
<1>5. UpFits /\ PlacedFits
  BY DEF Init, UpFits, PlacedFits
<1>6. UploadsKeepEdits
  BY <1>2 DEF UploadsKeepEdits
<1> QED BY <1>1, <1>3, <1>4, <1>5, <1>6 DEF BInv

\* Every step keeps it.
LEMMA NextBased == BInv /\ [Next]_vars => BInv'
<1> SUFFICES ASSUME BInv, [Next]_vars PROVE BInv'
  OBVIOUS
<1>1. IInv'
  BY NextFits DEF BInv
<1>2. CASE UNCHANGED vars
  <2>1. Spared /\ UNCHANGED <<db, scan, up, dn>>
    BY <1>2 DEF vars, Spared
  <2> QED BY <1>1, <2>1, Together DEF UpsKept, PlacedKept
<1>3. CASE Stays
  BY <1>2, <1>3 DEF Stays
<1> QED BY <1>1, <1>2, <1>3, ScanBased, DiffBased, UpBased, DnBased, UsersBased, RestartBased
        DEF Next

\* task_uploadfile (pupload.c) sends ifhash, the hash of the row on which the
\* upload is based: no version that was not here is replaced at the server, for
\* all that the users do and MaxUploads.
THEOREM UploadsKeep == Spec => []UploadsKeepEdits
<1>1. Spec => []BInv
  BY InitBased, NextBased, PTL DEF Spec
<1>2. BInv => UploadsKeepEdits
  BY DEF BInv
<1> QED BY <1>1, <1>2, PTL
=============================================================================
