--------------------------- MODULE FsWriteProofs ---------------------------
(***************************************************************************)
(* The references of an open file of the drive (of->refcnt in pfs.c), for  *)
(* programs of any length that open, write, flush and close the file, any  *)
(* number of restarts, expiries of the write timer and lost connections.   *)
(***************************************************************************)
EXTENDS FsWrite, FiniteSetTheorems, Induction

----------------------------------------------------------------------------
(* The inductive invariant.                                               *)

UserFields == {"content", "cached", "scripts", "faults", "restarts", "timers", "late"}
ProcStates == [pc : {"idle", "create", "fill", "flushed", "close"},
               w : Int, n : Int, open : BOOLEAN]
OfFields == {"id", "newfile", "modified", "released", "writeid", "size", "initial",
             "hash", "local", "ref", "timer"}
TabFields == {"rows", "entries", "lost", "mir", "pages", "cache", "caching"}
RowFields == {"type", "status", "int1", "base", "after"}
GhostFields == {"last", "versions", "rows", "known"}
Releases == [w : Int, n : Int, pc : {"row", "done"}]

UserFits(u) == DOMAIN u = UserFields /\ u.scripts \in [Procs -> Seq(Operations)]

\* As many ids were given as rows were made.
RowsFit(rows, made) ==
  /\ made \in Nat
  /\ DOMAIN rows \subseteq 1..made
  /\ \A t \in DOMAIN rows :
       DOMAIN rows[t] = RowFields /\ rows[t].status \in 0..3 /\ rows[t].int1 \in Int
TabFits(t, g) ==
  DOMAIN t = TabFields /\ DOMAIN g = GhostFields /\ RowsFit(t.rows, g.rows)
FilesFit(f) == DOMAIN f \subseteq Nat \ {0}

IsOpen(o) ==
  /\ DOMAIN o = OfFields
  /\ o.id \in Nat /\ o.ref \in Nat /\ o.writeid \in Int
  /\ o.timer \in {"none", "armed", "running"}

\* A call that holds the mutex has a file with a row, and every call is the one
\* its program's script says.
CallFits(s, c, o) ==
  /\ OpensAndCloses(s, c.open)
  /\ c.pc # "idle" => c.open /\ s # <<>>
  /\ c.pc \in {"create", "fill"} => Head(s).op \in {"write", "size"} /\ o.id # 0
  /\ c.pc = "flushed" => Head(s).op \in {"flush", "close"}
  /\ c.pc = "close" => Head(s).op = "close"

\* Who has a reference: handles, the timer, and threads that the timer started.
Handles(pr) == (IF pr[1].open THEN 1 ELSE 0) + (IF pr[2].open THEN 1 ELSE 0)
Armed(o) == IF o.timer = "none" THEN 0 ELSE 1
Referenced(o, pr, r) ==
  \/ o = NoFile /\ r = <<>> /\ Handles(pr) = 0
  \/ IsOpen(o) /\ o.ref = Handles(pr) + Len(r) + Armed(o)

IInv ==
  /\ UserFits(user) /\ TabFits(tab, ghost) /\ FilesFit(file)
  /\ proc \in [Procs -> ProcStates] /\ rel \in Seq(Releases)
  /\ \A p \in Procs : CallFits(user.scripts[p], proc[p], of)
  /\ Referenced(of, proc, rel)

\* The handles are counted one by one.
LEMMA HandlesCounted ==
  ASSUME NEW pr \in [Procs -> ProcStates]
  PROVE  Handles(pr) = Cardinality({p \in Procs : pr[p].open})
<1> DEFINE S == {p \in Procs : pr[p].open}
<1>1. S = (IF pr[1].open THEN {1} ELSE {}) \cup (IF pr[2].open THEN {2} ELSE {})
  BY DEF Procs
<1>2. Cardinality({}) = 0 /\ Cardinality({1}) = 1 /\ Cardinality({2}) = 1
  BY FS_EmptySet, FS_Singleton
<1>3. Cardinality({1} \cup {2}) = 2
  <2>1. IsFiniteSet({1}) /\ 2 \notin {1}
    BY FS_EmptySet, FS_AddElement
  <2> QED BY <2>1, <1>2, FS_AddElement
<1> HIDE DEF S
<1>9. Handles(pr) = Cardinality(S)
  <2>4. CASE pr[1].open /\ pr[2].open
    BY <1>1, <1>3, <2>4 DEF Handles
  <2>5. CASE pr[1].open /\ ~pr[2].open
    <3>1. S = {1}
      BY <1>1, <2>5
    <3> QED BY <3>1, <1>2, <2>5 DEF Handles
  <2>6. CASE ~pr[1].open /\ pr[2].open
    <3>1. S = {2}
      BY <1>1, <2>6
    <3> QED BY <3>1, <1>2, <2>6 DEF Handles
  <2>7. CASE ~pr[1].open /\ ~pr[2].open
    <3>1. S = {}
      BY <1>1, <2>7
    <3> QED BY <3>1, <1>2, <2>7 DEF Handles
  <2> QED BY <2>4, <2>5, <2>6, <2>7
<1> QED BY <1>9 DEF S

\* The invariant says at least what the runs check.
LEMMA InvariantSays == IInv => TypeOK
<1> SUFFICES ASSUME IInv PROVE TypeOK
  OBVIOUS
<1>1. DOMAIN file \cup DOMAIN tab.rows \subseteq Nat \ {0}
  BY DEF IInv, FilesFit, TabFits, RowsFit
<1>2. \A t \in DOMAIN tab.rows : tab.rows[t].status \in 0..3
  BY DEF IInv, TabFits, RowsFit
<1>3. Handles(proc) = Cardinality({p \in Procs : proc[p].open})
  BY HandlesCounted DEF IInv
<1>4. Referenced(of, proc, rel)
  BY DEF IInv
<1>5. CASE of = NoFile
  <2>1. ~IsOpen(of)
    BY <1>5 DEF IsOpen, NoFile, OfFields
  <2>2. rel = <<>> /\ Handles(proc) = 0
    BY <1>4, <2>1 DEF Referenced
  <2>3. \A p \in Procs : ~proc[p].open
    BY <2>2 DEF Handles, Procs
  <2> QED BY <1>1, <1>2, <1>5, <2>2, <2>3 DEF TypeOK
<1>6. CASE of # NoFile
  <2>1. of.ref = Handles(proc) + Len(rel) + Armed(of)
    BY <1>4, <1>6 DEF Referenced
  <2> QED BY <1>1, <1>2, <1>3, <1>6, <2>1 DEF TypeOK, Armed
<1> QED BY <1>5, <1>6

\* As the program starts.
LEMMA InitFits == Init => IInv
<1> SUFFICES ASSUME Init PROVE IInv
  OBVIOUS
<1>1. user \in Workloads
  BY DEF Init
<1>2. UserFits(user) /\ \A p \in Procs : OpensAndCloses(user.scripts[p], FALSE)
  BY <1>1, WorkloadsAssumption DEF UserFits, UserFields
<1>3. TabFits(tab, ghost)
  BY DEF Init, TabFits, TabFields, GhostFields, RowsFit
<1>4. FilesFit(file) /\ rel \in Seq(Releases)
  BY DEF Init, FilesFit
<1>5. proc \in [Procs -> ProcStates]
  BY DEF Init, ProcStates
<1>6. \A p \in Procs : CallFits(user.scripts[p], proc[p], of)
  BY <1>2 DEF Init, CallFits
<1>7. Referenced(of, proc, rel)
  BY DEF Init, Referenced, Handles, Procs
<1> QED BY <1>2, <1>3, <1>4, <1>5, <1>6, <1>7 DEF IInv

----------------------------------------------------------------------------
(* The operators on rows.                                                 *)

\* sqlite gives a new row the id after the largest.
LEMMA NewIdFits ==
  ASSUME NEW made, RowsFit(tab.rows, made)
  PROVE  NewId \in 1..(made + 1)
<1> DEFINE S == DOMAIN tab.rows \cup {0}
<1>1. made \in Nat /\ S # {} /\ S \subseteq 0..made
  BY DEF RowsFit
<1> HIDE DEF S
<1>2. \E k \in S : \A j \in S : j <= k
  BY <1>1, Greatest
<1>3. \A x, y \in S : x <= y => y >= x
  BY <1>1
<1>4. Max(S) \in S
  <2>1. PICK k \in S : \A j \in S : k >= j
    BY <1>2, <1>3
  <2> QED BY <2>1 DEF Max
<1> QED BY <1>1, <1>4 DEF NewId, S

LEMMA RowAdded ==
  ASSUME NEW rows, NEW made, RowsFit(rows, made), NEW t \in 1..(made + 1), NEW row,
         DOMAIN row = RowFields, row.status \in 0..3, row.int1 \in Int
  PROVE  RowsFit(Extended(rows, t, row), made + 1)
BY DEF RowsFit, Extended

LEMMA RowsTaken ==
  ASSUME NEW rows, NEW made, RowsFit(rows, made), NEW S
  PROVE  RowsFit(Without(rows, S), made)
BY DEF RowsFit, Without, Restrict

LEMMA ArrowsTaken ==
  ASSUME NEW rows, NEW made, RowsFit(rows, made), NEW S
  PROVE  RowsFit([i \in DOMAIN rows |-> [rows[i] EXCEPT !.after = @ \ S]], made)
BY DEF RowsFit, RowFields

LEMMA RowTaken ==
  ASSUME NEW rows, NEW made, RowsFit(rows, made), NEW t
  PROVE  /\ RowsFit(WithoutArrows(rows, t), made)
         /\ RowsFit(WithoutRow(rows, t), made)
BY RowsTaken, ArrowsTaken DEF WithoutRow, WithoutArrows

LEMMA StatusSet ==
  ASSUME NEW rows, NEW made, RowsFit(rows, made), NEW t, NEW s \in 0..3
  PROVE  RowsFit(WithStatus(rows, t, s), made)
BY DEF RowsFit, RowFields, WithStatus

----------------------------------------------------------------------------
(* Scripts.                                                               *)

LEMMA NextCall ==
  ASSUME NEW s \in Seq(Operations), NEW open, OpensAndCloses(s, open), s # <<>>
  PROVE  /\ Tail(s) \in Seq(Operations)
         /\ OpensAndCloses(Tail(s), Head(s).op # "close")
         /\ Head(s).op \in {"open", "trunc"} <=> ~open
<1>1. /\ Tail(s) \in Seq(Operations)
      /\ Len(s) \in Nat /\ Len(Tail(s)) = Len(s) - 1 /\ Head(s) = s[1] /\ 1 \in DOMAIN s
      /\ \A i \in DOMAIN Tail(s) : Tail(s)[i] = s[i + 1] /\ i + 1 \in DOMAIN s /\ i \in Nat
  OBVIOUS
<1>2. ASSUME NEW i \in DOMAIN Tail(s)
      PROVE  /\ Tail(s)[i].op \in {"open", "trunc"}
                <=> IF i = 1 THEN s[1].op = "close" ELSE Tail(s)[i - 1].op = "close"
             /\ i = Len(Tail(s)) => Tail(s)[i].op = "close"
  <2>1. i # 1 => i - 1 \in DOMAIN Tail(s) /\ Tail(s)[i - 1] = s[i]
    BY <1>1
  <2>2. i + 1 # 1 /\ (i + 1) - 1 = i /\ (i = Len(Tail(s)) => i + 1 = Len(s))
    BY <1>1
  <2> QED BY <1>1, <2>1, <2>2 DEF OpensAndCloses
<1>3. s[1].op \in {"open", "trunc"} <=> ~open
  BY <1>1 DEF OpensAndCloses
<1> QED BY <1>1, <1>2, <1>3 DEF OpensAndCloses

\* A program that could not open the file goes on with its next opening.
LEMMA SkipFits ==
  ASSUME NEW s \in Seq(Operations), NEW open, OpensAndCloses(s, open)
  PROVE  Skip(s) \in Seq(Operations) /\ OpensAndCloses(Skip(s), FALSE)
<1> DEFINE opens == {k \in 2..Len(s) : s[k].op \in {"open", "trunc"}}
<1>1. CASE opens = {}
  BY <1>1 DEF Skip, OpensAndCloses
<1>2. CASE opens # {}
  <2> DEFINE m == Min(opens)
             n == Len(s)
             z == SubSeq(s, m, n)
  <2>1. m \in opens
    <3>1. \A k \in opens : k \in Int /\ k >= 0
      OBVIOUS
    <3> HIDE DEF opens
    <3>2. PICK k \in opens : \A j \in opens : k <= j
      BY <1>2, <3>1, Least, 0 \in Int
    <3> QED BY <3>2 DEF Min
  <2>2. Skip(s) = z
    BY <1>2 DEF Skip
  <2>3. n \in Nat /\ m \in 2..n /\ s[m].op \in {"open", "trunc"}
    BY <2>1
  <2> HIDE DEF m, n
  <2>4. z \in Seq(Operations) /\ Len(z) = n - m + 1
    BY <2>3 DEF n
  <2>5. \A i \in DOMAIN z : i \in Nat \ {0} /\ z[i] = s[m + i - 1] /\ m + i - 1 \in DOMAIN s
    <3>1. DOMAIN z = 1..(n - m + 1) /\ DOMAIN s = 1..n
      BY <2>3 DEF n
    <3>2. z = [i \in 1..(n - m + 1) |-> s[i + m - 1]]
      BY <2>3
    <3>3. \A i \in 1..(n - m + 1) : z[i] = s[i + m - 1] /\ i + m - 1 = m + i - 1
      BY <3>2, <2>3
    <3> HIDE DEF z
    <3> QED BY <3>1, <3>3, <2>3
  <2>6. ASSUME NEW i \in DOMAIN z
        PROVE  /\ z[i].op \in {"open", "trunc"} <=> IF i = 1 THEN TRUE ELSE z[i - 1].op = "close"
               /\ i = Len(z) => z[i].op = "close"
    <3>1. m + i - 1 \in DOMAIN s /\ m + i - 1 # 1
      BY <2>3, <2>5
    <3>2. i # 1 => i - 1 \in DOMAIN z /\ z[i - 1] = s[(m + i - 1) - 1]
      BY SMTT(30), <2>3, <2>4, <2>5
    <3>3. i = Len(z) => m + i - 1 = Len(s)
      BY <2>3, <2>4, <2>5 DEF n
    <3>4. i = 1 => z[i] = s[m]
      BY <2>3, <2>5
    <3>5. \A j \in DOMAIN s : /\ j # 1 => (s[j].op \in {"open", "trunc"} <=> s[j - 1].op = "close")
                              /\ j = Len(s) => s[j].op = "close"
      BY DEF OpensAndCloses
    <3>6. z[i] = s[m + i - 1]
      BY <2>5
    <3> HIDE DEF z, m
    <3>7. i # 1 => (z[i].op \in {"open", "trunc"} <=> z[i - 1].op = "close")
      BY <3>1, <3>2, <3>5, <3>6
    <3> QED BY <2>3, <3>1, <3>3, <3>4, <3>5, <3>6, <3>7
  <2> HIDE DEF z
  <2> QED BY <2>2, <2>4, <2>6 DEF OpensAndCloses
<1> QED BY <1>1, <1>2

----------------------------------------------------------------------------
(* The operators on the open file.                                        *)

\* What a write does to the open file leaves who it is and who refers to it.
Same(a, b) ==
  /\ DOMAIN a = OfFields
  /\ a.id = b.id /\ a.ref = b.ref /\ a.writeid = b.writeid /\ a.timer = b.timer
Leaves(s, o) == DOMAIN s = {"o", "f"} /\ Same(s.o, o)

\* So does the enlargement before a write, and each kind of write.
LEMMA CheckSizeLeaves ==
  ASSUME NEW s, NEW o, Leaves(s, o), NEW n
  PROVE  Leaves(psync_fs_modfile_check_size_ok(s, n), o)
<1>1. CASE s.o.size >= n
  BY <1>1 DEF psync_fs_modfile_check_size_ok
<1>2. CASE ~(s.o.size >= n) /\ s.o.newfile
  BY <1>2 DEF psync_fs_modfile_check_size_ok, Leaves, Same
<1>3. CASE ~(s.o.size >= n) /\ ~s.o.newfile
  <2> DEFINE added == (s.o.size + 1)..n
             f == [d |-> Resize(s.f.d, n), i |-> s.f.i \cup added]
             g == [s.o EXCEPT !.local = @ \cup added, !.size = n]
             e == [s EXCEPT !.f = f, !.o = g]
  <2>1. psync_fs_modfile_check_size_ok(s, n) = e
    BY <1>3 DEF psync_fs_modfile_check_size_ok
  <2> HIDE DEF added, f
  <2>2. DOMAIN e = {"o", "f"} /\ e.o = g
    <3> HIDE DEF g
    <3> QED BY DEF Leaves
  <2>3. Same(e.o, o)
    BY <2>2 DEF Leaves, Same, OfFields
  <2> QED BY <2>1, <2>2, <2>3 DEF Leaves
<1> QED BY <1>1, <1>2, <1>3

LEMMA AppliedLeaves ==
  ASSUME NEW o, DOMAIN o = OfFields, NEW f, NEW c
  PROVE  Leaves(Applied([o |-> o, f |-> f], c), o)
<1> DEFINE s == [o |-> o, f |-> f]
<1>1. Leaves(s, o)
  BY DEF Leaves, Same
<1> HIDE DEF s
<1>2. ASSUME NEW n PROVE Leaves(psync_fs_ftruncate_of_locked(s, n), o)
  <2> DEFINE e == psync_fs_modfile_check_size_ok(s, n)
             r == [e EXCEPT !.f.d = Resize(@, n), !.o.size = n]
  <2>1. Leaves(e, o)
    BY <1>1, CheckSizeLeaves
  <2>2. psync_fs_ftruncate_of_locked(s, n) = r
    BY DEF psync_fs_ftruncate_of_locked
  <2> HIDE DEF e
  <2>3. DOMAIN r = {"o", "f"} /\ r.o = [e.o EXCEPT !.size = n]
    BY <2>1 DEF Leaves
  <2>4. Same(r.o, o)
    BY <2>1, <2>3 DEF Leaves, Same, OfFields
  <2> QED BY <2>2, <2>3, <2>4 DEF Leaves
<1>3. ASSUME NEW at, NEW v PROVE Leaves(psync_fs_write_newfile(s, at, v), o)
  <2> DEFINE r == [s EXCEPT !.f.d = Put(@, at, v), !.o.size = Larger(@, at)]
  <2>1. psync_fs_write_newfile(s, at, v) = r
    BY DEF psync_fs_write_newfile
  <2>2. DOMAIN r = {"o", "f"} /\ r.o = [s.o EXCEPT !.size = Larger(@, at)]
    BY <1>1 DEF Leaves
  <2>3. Same(r.o, o)
    BY <1>1, <2>2 DEF Leaves, Same, OfFields
  <2> QED BY <2>1, <2>2, <2>3 DEF Leaves
<1>4. ASSUME NEW at, NEW v PROVE Leaves(psync_fs_write_modified(s, at, v), o)
  <2> DEFINE e == psync_fs_modfile_check_size_ok(s, at - 1)
             h == [d |-> Put(e.f.d, at, v), i |-> e.f.i \cup {at}]
             g == [e.o EXCEPT !.local = @ \cup {at}, !.size = Larger(@, at)]
             r == [e EXCEPT !.f = h, !.o = g]
  <2>1. Leaves(e, o)
    BY <1>1, CheckSizeLeaves
  <2>2. psync_fs_write_modified(s, at, v) = r
    BY DEF psync_fs_write_modified
  <2> HIDE DEF e, h
  <2>3. DOMAIN r = {"o", "f"} /\ r.o = g
    <3> HIDE DEF g
    <3> QED BY <2>1 DEF Leaves
  <2>4. Same(r.o, o)
    BY <2>1, <2>3 DEF Leaves, Same, OfFields
  <2> QED BY <2>2, <2>3, <2>4 DEF Leaves
<1> QED BY <1>2, <1>3, <1>4 DEF Applied, s

\* A write starts the timer, which takes a reference if it had none.
LEMMA WriteIdLeaves ==
  ASSUME NEW o, IsOpen(o)
  PROVE  LET i == psync_fs_inc_writeid_locked(o)
         IN IsOpen(i) /\ i.id = o.id /\ i.ref - Armed(i) = o.ref - Armed(o)
BY DEF psync_fs_inc_writeid_locked, IsOpen, OfFields, Armed

LEMMA SameIsOpen ==
  ASSUME NEW a, NEW b, IsOpen(b), Same(a, b)
  PROVE  IsOpen(a) /\ Armed(a) = Armed(b)
BY DEF IsOpen, Same, Armed

LEMMA OpenIsSomeFile == ~IsOpen(NoFile)
BY DEF IsOpen, NoFile, OfFields

\* The last reference gives the open file up, and no other does.
LEMMA ReferenceGiven ==
  ASSUME NEW o, IsOpen(o), NEW n \in Nat, o.ref = n + 1
  PROVE  LET d == psync_fs_dec_of_refcnt(o)
         IN \/ n = 0 /\ d = NoFile
            \/ n > 0 /\ IsOpen(d) /\ d.ref = n /\ d.timer = o.timer /\ d.id = o.id
<1>1. CASE n = 0
  BY <1>1 DEF psync_fs_dec_of_refcnt
<1>2. CASE n > 0
  BY <1>2 DEF psync_fs_dec_of_refcnt, IsOpen, OfFields
<1> QED BY <1>1, <1>2

----------------------------------------------------------------------------
(* Steps that leave the programs and the open file's references alone: the *)
(* uploads, the page cache's task and the diff thread.                     *)

LEMMA TabSet ==
  ASSUME NEW t, NEW g, TabFits(t, g), NEW u, DOMAIN u = TabFields, RowsFit(u.rows, g.rows),
         NEW flags
  PROVE  TabFits(u, g) /\ TabFits(u, Noting(g, flags))
BY DEF TabFits, Noting, GhostFields

LEMMA Apart ==
  ASSUME IInv, UserFits(user'), user'.scripts = user.scripts, TabFits(tab', ghost'),
         FilesFit(file'), UNCHANGED <<proc, of, rel>>
  PROVE  IInv'
BY DEF IInv

\* What was uploaded is no longer the file of a row; only the name of it changes.
LEMMA Answered ==
  ASSUME IInv, NEW t, NEW h, psync_fs_update_openfile(t, h), ~Locked,
         UNCHANGED <<user, file, proc, rel>>, TabFits(tab', ghost')
  PROVE  IInv'
<1>1. Referenced(of', proc, rel)
  <2>1. CASE of = NoFile \/ of.id # t
    BY <2>1 DEF psync_fs_update_openfile, IInv
  <2>2. CASE ~(of = NoFile \/ of.id # t)
    <3>1. IsOpen(of) /\ of.ref = Handles(proc) + Len(rel) + Armed(of)
      BY <2>2 DEF IInv, Referenced
    <3>2. IsOpen(of') /\ of'.ref = of.ref /\ of'.timer = of.timer
      BY <2>2, <3>1 DEF psync_fs_update_openfile, IsOpen, OfFields
    <3> QED BY <3>1, <3>2 DEF Referenced, Armed
  <2> QED BY <2>1, <2>2
<1>2. \A p \in Procs : CallFits(user.scripts[p], proc[p], of')
  <2>1. \A p \in Procs : CallFits(user.scripts[p], proc[p], of)
    BY DEF IInv
  <2> QED BY <2>1 DEF CallFits, Locked
<1> QED BY <1>1, <1>2 DEF IInv

\* A thread's step on the rows: they are deleted, or get another status.
LEMMA GivenUp ==
  ASSUME IInv, NEW t, perm_fail_upload_task(t)
  PROVE  TabFits(tab', ghost)
<1>1. TabFits(tab, ghost) /\ RowsFit(tab.rows, ghost.rows)
  BY DEF IInv, TabFits
<1>2. RowsFit(WithoutRow(tab.rows, t), ghost.rows)
  BY <1>1, RowTaken
<1>3. DOMAIN tab' = TabFields /\ tab'.rows = WithoutRow(tab.rows, t)
  BY <1>1 DEF TabFits, TabFields, perm_fail_upload_task
<1> QED BY <1>1, <1>2, <1>3, TabSet

LEMMA UploadingFits ==
  ASSUME IInv, Uploading
  PROVE  IInv'
<1>0. /\ UserFits(user) /\ TabFits(tab, ghost) /\ FilesFit(file)
      /\ DOMAIN tab = TabFields /\ RowsFit(tab.rows, ghost.rows)
  BY DEF IInv, TabFits
<1>1. CASE clean_stuck_tasks
  <2> DEFINE stuck == DOMAIN tab.rows \ Live(tab.rows)
             rows == Without(tab.rows, stuck)
             left == [i \in DOMAIN rows |-> [rows[i] EXCEPT !.after = @ \ stuck]]
  <2>1. tab' = [tab EXCEPT !.rows = left] /\ file' = Without(file, stuck)
    BY <1>1 DEF clean_stuck_tasks
  <2>2. RowsFit(rows, ghost.rows)
    <3> HIDE DEF stuck
    <3> QED BY <1>0, RowsTaken
  <2>3. RowsFit(left, ghost.rows)
    <3> HIDE DEF stuck, rows
    <3> QED BY <2>2, ArrowsTaken
  <2>4. TabFits(tab', ghost)
    <3> HIDE DEF left
    <3> QED BY <1>0, <2>1, <2>3, TabSet DEF TabFields
  <2>5. FilesFit(file')
    <3> HIDE DEF stuck
    <3> QED BY <1>0, <2>1 DEF FilesFit, Without, Restrict
  <2> QED BY <1>0, <1>1, <2>4, <2>5, Apart DEF clean_stuck_tasks
<1>2. CASE psync_fsupload_check_tasks
  <2>1. TabFits(tab', ghost')
    BY <1>0, <1>2, TabSet DEF psync_fsupload_check_tasks
  <2> QED BY <1>0, <1>2, <2>1, Apart DEF psync_fsupload_check_tasks
<1>3. CASE psync_send_task_creat
  <2>1. TabFits(tab', ghost)
    BY <1>0, <1>3, GivenUp DEF psync_send_task_creat
  <2> QED BY <1>0, <1>3, <2>1, Apart DEF psync_send_task_creat
<1>4. CASE psync_send_task_creat_upload_small
  BY <1>0, <1>4, Apart DEF psync_send_task_creat_upload_small
<1>5. CASE SendSmall
  BY <1>0, <1>5, Apart DEF SendSmall
<1>6. CASE LostSmall
  BY <1>0, <1>6, Apart DEF LostSmall, UserFits, UserFields
<1>7. CASE psync_process_task_creat
  <2>1. CASE get_file_writeid(upl.t) # upl.w
    BY <1>0, <1>7, <2>1, Apart DEF psync_process_task_creat
  <2>2. CASE ~(get_file_writeid(upl.t) # upl.w)
    <3>1. tab' = [tab EXCEPT !.mir = upl.data, !.entries = WithoutEntry(upl.t)]
      BY <1>7, <2>2 DEF psync_process_task_creat
    <3>2. DOMAIN tab' = TabFields /\ tab'.rows = tab.rows
      BY <1>0, <3>1 DEF TabFields
    <3>3. TabFits(tab', ghost')
      BY <1>0, <1>7, <3>2, TabSet DEF psync_process_task_creat
    <3> QED BY <1>7, <2>2, <3>3, Answered DEF psync_process_task_creat
  <2> QED BY <2>1, <2>2
<1>8. CASE CacheSmall
  <2>1. TabFits(tab', ghost)
    BY <1>0, <1>8, TabSet DEF CacheSmall, TabFields
  <2>2. FilesFit(file')
    BY <1>0, <1>8 DEF CacheSmall, FilesFit, Without, Restrict
  <2> QED BY <1>0, <1>8, <2>1, <2>2, Apart DEF CacheSmall
<1>9. CASE pr_del_task
  <2>1. TabFits(tab', ghost)
    BY <1>9, GivenUp DEF pr_del_task, perm_fail_upload_task
  <2> QED BY <1>0, <1>9, <2>1, Apart DEF pr_del_task
<1>10. CASE psync_sent_task_creat_upload_large
  <2>1. RowsFit(WithStatus(tab.rows, upl.t, 2), ghost.rows)
    BY <1>0, StatusSet, 2 \in 0..3
  <2>2. TabFits(tab', ghost)
    BY <1>0, <1>10, <2>1, TabSet DEF psync_sent_task_creat_upload_large, TabFields
  <2> QED BY <1>0, <1>10, <2>2, Apart DEF psync_sent_task_creat_upload_large
<1> QED BY <1>1, <1>2, <1>3, <1>4, <1>5, <1>6, <1>7, <1>8, <1>9, <1>10 DEF Uploading

LEMMA UploadingLargeFits ==
  ASSUME IInv, UploadingLarge
  PROVE  IInv'
<1>0. /\ UserFits(user) /\ TabFits(tab, ghost) /\ FilesFit(file)
      /\ DOMAIN tab = TabFields /\ RowsFit(tab.rows, ghost.rows)
  BY DEF IInv, TabFits
<1>1. CASE Pick
  BY <1>0, <1>1, Apart DEF Pick
<1>2. CASE psync_get_local_file_checksum
  <2>1. TabFits(tab', ghost)
    BY <1>0, <1>2, GivenUp DEF psync_get_local_file_checksum, Gives
  <2> QED BY <1>0, <1>2, <2>1, Apart DEF psync_get_local_file_checksum
<1>3. CASE large_upload_creat
  BY <1>0, <1>3, Apart DEF large_upload_creat
<1>4. CASE LoadIndex
  <2>1. TabFits(tab', ghost)
    BY <1>0, <1>4, GivenUp DEF LoadIndex, Gives
  <2> QED BY <1>0, <1>4, <2>1, Apart DEF LoadIndex
<1>5. CASE LoadSize
  <2>1. TabFits(tab', ghost)
    BY <1>0, <1>5, GivenUp DEF LoadSize, Gives
  <2> QED BY <1>0, <1>5, <2>1, Apart DEF LoadSize
<1>6. CASE upload_modify
  BY <1>0, <1>6, Apart DEF upload_modify
<1>7. CASE upload_modify_send_local
  <2>1. TabFits(tab', ghost)
    BY <1>0, <1>7, GivenUp DEF upload_modify_send_local, Gives
  <2>2. TabFits(tab', ghost')
    BY <1>7, <2>1, TabSet DEF upload_modify_send_local, TabFits
  <2> QED BY <1>0, <1>7, <2>2, Apart DEF upload_modify_send_local
<1>8. CASE large_upload_save
  BY <1>0, <1>8, Apart DEF large_upload_save
<1>9. CASE LostLarge
  BY <1>0, <1>9, Apart DEF LostLarge, UserFits, UserFields
<1>10. CASE save_meta
  <2>1. CASE get_file_writeid(big.t) # big.w
    BY <1>0, <1>10, <2>1, Apart DEF save_meta
  <2>2. CASE ~(get_file_writeid(big.t) # big.w)
    <3> DEFINE left == WithStatus(WithoutArrows(tab.rows, big.t), big.t, 3)
    <3>1. RowsFit(left, ghost.rows)
      BY <1>0, RowTaken, StatusSet, 3 \in 0..3
    <3>2. DOMAIN tab' = TabFields /\ tab'.rows = left
      <4> HIDE DEF left
      <4>1. PICK e, c : tab' = [tab EXCEPT !.mir = big.data, !.entries = e, !.cache = c,
                                           !.rows = left]
        BY <1>10, <2>2 DEF save_meta, left
      <4> QED BY <1>0, <4>1 DEF TabFields
    <3>3. TabFits(tab', ghost')
      <4> HIDE DEF left
      <4> QED BY <1>0, <1>10, <3>1, <3>2, TabSet DEF save_meta
    <3> QED BY <1>10, <2>2, <3>3, Answered DEF save_meta
  <2> QED BY <2>1, <2>2
<1> QED BY <1>1, <1>2, <1>3, <1>4, <1>5, <1>6, <1>7, <1>8, <1>9, <1>10 DEF UploadingLarge

LEMMA CachingFits ==
  ASSUME IInv, Caching
  PROVE  IInv'
<1>0. /\ UserFits(user) /\ TabFits(tab, ghost) /\ FilesFit(file)
      /\ DOMAIN tab = TabFields /\ RowsFit(tab.rows, ghost.rows)
  BY DEF IInv, TabFits
<1>1. CASE CacheUploaded
  <2>1. \E pages, t : /\ tab' = [tab EXCEPT !.pages = pages, !.caching = "del"]
                      /\ file' = Without(file, {t})
    BY <1>1 DEF CacheUploaded
  <2>2. TabFits(tab', ghost)
    BY <1>0, <2>1, TabSet DEF TabFields
  <2>3. FilesFit(file')
    BY <1>0, <2>1 DEF FilesFit, Without, Restrict
  <2> QED BY <1>0, <1>1, <2>2, <2>3, Apart DEF CacheUploaded
<1>2. CASE CacheEnds
  <2>1. PICK t, c : tab' = [tab EXCEPT !.rows = WithoutRow(@, t), !.cache = c, !.caching = "idle"]
    BY <1>2 DEF CacheEnds
  <2>2. RowsFit(WithoutRow(tab.rows, t), ghost.rows)
    BY <1>0, RowTaken
  <2>3. DOMAIN tab' = TabFields /\ tab'.rows = WithoutRow(tab.rows, t)
    BY <1>0, <2>1 DEF TabFields
  <2>4. TabFits(tab', ghost)
    BY <1>0, <2>2, <2>3, TabSet
  <2> QED BY <1>0, <1>2, <2>4, Apart DEF CacheEnds
<1> QED BY <1>1, <1>2 DEF Caching

LEMMA DiffFits ==
  ASSUME IInv, DiffAsks \/ process_modifyfile
  PROVE  IInv'
<1>0. /\ UserFits(user) /\ TabFits(tab, ghost) /\ FilesFit(file)
      /\ DOMAIN tab = TabFields /\ RowsFit(tab.rows, ghost.rows)
  BY DEF IInv, TabFits
<1>1. CASE DiffAsks
  BY <1>0, <1>1, Apart DEF DiffAsks, UserFits, UserFields
<1>2. CASE process_modifyfile
  <2>1. DOMAIN tab' = TabFields /\ tab'.rows = tab.rows
    BY <1>0, <1>2 DEF process_modifyfile, TabFields
  <2>2. TabFits(tab', ghost')
    BY <1>0, <1>2, <2>1, TabSet DEF process_modifyfile
  <2> QED BY <1>0, <1>2, <2>2, Apart DEF process_modifyfile
<1> QED BY <1>1, <1>2

----------------------------------------------------------------------------
(* The write timer, and the threads it starts.                            *)

LEMMA ReleaseFits ==
  ASSUME IInv, NEW w \in Int, NEW n, Release(w, n)
  PROVE  TabFits(tab', ghost')
<1>0. TabFits(tab, ghost) /\ DOMAIN tab = TabFields /\ RowsFit(tab.rows, ghost.rows)
  BY DEF IInv, TabFits
<1>1. CASE of.id \notin DOMAIN tab.rows
  BY <1>0, <1>1 DEF Release
<1>2. CASE of.id \in DOMAIN tab.rows
  <2> DEFINE row == Released(tab.rows[of.id], w)
             rows == [tab.rows EXCEPT ![of.id] = row]
  <2>1. tab' = [tab EXCEPT !.rows = rows]
    BY <1>2 DEF Release
  <2>2. DOMAIN row = RowFields /\ row.status \in 0..3 /\ row.int1 \in Int
    BY <1>0, <1>2 DEF RowsFit, RowFields, Released, Larger
  <2>3. RowsFit(rows, ghost.rows)
    <3> HIDE DEF row
    <3> QED BY <1>0, <2>2 DEF RowsFit
  <2>4. DOMAIN tab' = TabFields /\ tab'.rows = rows
    <3> HIDE DEF rows
    <3> QED BY <1>0, <2>1 DEF TabFields
  <2>5. \E flags : ghost' = ghost \/ ghost' = Noting(ghost, flags)
    BY <1>2 DEF Release
  <2> HIDE DEF rows
  <2> QED BY <1>0, <2>3, <2>4, <2>5, TabSet
<1> QED BY <1>1, <1>2

\* The open file gets another state, or another thread refers to it.
LEMMA FileMoves ==
  ASSUME IInv, UserFits(user'), user'.scripts = user.scripts, TabFits(tab', ghost'),
         UNCHANGED <<proc, file>>, of'.id = of.id \/ ~Locked, rel' \in Seq(Releases),
         Referenced(of', proc, rel')
  PROVE  IInv'
<1>1. \A p \in Procs : CallFits(user.scripts[p], proc[p], of)
  BY DEF IInv
<1>2. \A p \in Procs : CallFits(user.scripts[p], proc[p], of')
  BY <1>1 DEF CallFits, Locked
<1> QED BY <1>2 DEF IInv

LEMMA HandlesAre ==
  ASSUME NEW pr \in [Procs -> ProcStates]
  PROVE  Handles(pr) \in Nat /\ \A p \in Procs : pr[p].open => Handles(pr) > 0
BY DEF Handles, Procs

LEMMA ReleasingFits ==
  ASSUME IInv, Releasing
  PROVE  IInv'
<1>0. /\ UserFits(user) /\ TabFits(tab, ghost) /\ rel \in Seq(Releases)
      /\ proc \in [Procs -> ProcStates] /\ Referenced(of, proc, rel)
      /\ Len(rel) \in Nat /\ Handles(proc) \in Nat /\ ghost.rows \in Nat
  BY HandlesAre DEF IInv, TabFits, RowsFit
<1>1. CASE TimerDue
  <2>1. IsOpen(of) /\ of.ref = Handles(proc) + Len(rel) + Armed(of)
    BY <1>0, <1>1 DEF TimerDue, Referenced
  <2>2. IsOpen(of') /\ of'.ref = of.ref /\ of'.id = of.id /\ Armed(of') = Armed(of)
    BY <1>1, <2>1 DEF TimerDue, IsOpen, OfFields, Armed
  <2>3. UserFits(user') /\ user'.scripts = user.scripts
    BY <1>0, <1>1 DEF TimerDue, UserFits, UserFields
  <2> QED BY <1>0, <1>1, <2>1, <2>2, <2>3, FileMoves DEF TimerDue, Referenced
<1>2. CASE psync_fs_write_timer
  <2> DEFINE o == [of EXCEPT !.timer = "none"]
  <2>1. /\ IsOpen(of) /\ of.ref = Handles(proc) + Len(rel) + 1 /\ of.writeid \in Int
    BY <1>0, <1>2 DEF psync_fs_write_timer, Referenced, Armed, IsOpen
  <2>2. IsOpen(o) /\ o.ref = Handles(proc) + Len(rel) + 1 /\ Armed(o) = 0
    BY <2>1 DEF IsOpen, OfFields, Armed
  <2>3. CASE of.modified /\ ~of.released
    <3> DEFINE r == [w |-> of.writeid, n |-> ghost.rows, pc |-> "row"]
    <3>1. of' = [o EXCEPT !.released = TRUE] /\ rel' = Append(rel, r)
      BY <1>2, <2>3 DEF psync_fs_write_timer
    <3>2. r \in Releases
      BY <1>0, <2>1 DEF Releases
    <3>3. rel' \in Seq(Releases) /\ Len(rel') = Len(rel) + 1
      <4> HIDE DEF r
      <4> QED BY <1>0, <3>1, <3>2
    <3>4. IsOpen(of') /\ of'.ref = o.ref /\ Armed(of') = 0
      <4> HIDE DEF o
      <4> QED BY <2>2, <3>1 DEF IsOpen, OfFields, Armed
    <3>5. Referenced(of', proc, rel')
      BY <1>0, <2>2, <3>3, <3>4 DEF Referenced
    <3> QED BY <1>0, <1>2, <3>3, <3>5, FileMoves DEF psync_fs_write_timer
  <2>4. CASE ~(of.modified /\ ~of.released)
    <3>1. of' = psync_fs_dec_of_refcnt(o) /\ rel' = rel
      BY <1>2, <2>4 DEF psync_fs_write_timer
    <3> HIDE DEF o
    <3>2. Handles(proc) + Len(rel) \in Nat
      BY <1>0
    <3>3. \/ Handles(proc) + Len(rel) = 0 /\ of' = NoFile
          \/ IsOpen(of') /\ of'.ref = Handles(proc) + Len(rel) /\ of'.timer = o.timer
      BY <2>2, <3>1, <3>2, ReferenceGiven
    <3>4. Len(rel) = 0 => rel = <<>>
      BY <1>0
    <3>5. Referenced(of', proc, rel')
      BY <1>0, <2>2, <3>1, <3>3, <3>4 DEF Referenced, Armed
    <3> QED BY <1>0, <1>2, <3>1, <3>5, FileMoves DEF psync_fs_write_timer
  <2> QED BY <2>3, <2>4
<1>3. ASSUME NEW k \in DOMAIN rel, psync_fs_upload_release_timer(k) PROVE IInv'
  <2>0. rel[k] \in Releases
    BY <1>0
  <2>1. rel[k].w \in Int
    BY <2>0 DEF Releases
  <2>2. TabFits(tab', ghost')
    BY <1>3, <2>1, ReleaseFits DEF psync_fs_upload_release_timer
  <2> DEFINE d == [rel[k] EXCEPT !.pc = "done"]
  <2>3. d \in Releases /\ rel' = [rel EXCEPT ![k] = d]
    BY <1>3, <2>0 DEF Releases, psync_fs_upload_release_timer
  <2>4. rel' \in Seq(Releases) /\ Len(rel') = Len(rel)
    <3> HIDE DEF d
    <3> QED BY <1>0, <2>3
  <2>5. IsOpen(of) /\ of.ref = Handles(proc) + Len(rel) + Armed(of)
    BY <1>0 DEF Referenced
  <2>6. Referenced(of', proc, rel')
    BY <1>3, <2>4, <2>5 DEF Referenced, psync_fs_upload_release_timer
  <2> QED BY <1>0, <1>3, <2>2, <2>4, <2>6, FileMoves DEF psync_fs_upload_release_timer
<1>4. ASSUME NEW k \in DOMAIN rel, ReleaseEnds(k) PROVE IInv'
  <2>1. k \in 1..Len(rel) /\ Len(rel) >= 1
    BY <1>0
  <2>2. rel' \in Seq(Releases) /\ Len(rel') = Len(rel) - 1
    <3> DEFINE a == SubSeq(rel, 1, k - 1)
               b == SubSeq(rel, k + 1, Len(rel))
    <3>1. a \in Seq(Releases) /\ Len(a) = k - 1
      BY <1>0, <2>1
    <3>2. b \in Seq(Releases) /\ Len(b) = Len(rel) - k
      BY <1>0, <2>1
    <3>3. rel' = a \o b
      BY <1>4 DEF ReleaseEnds, RemoveAt
    <3> HIDE DEF a, b
    <3> QED BY <1>0, <2>1, <3>1, <3>2, <3>3
  <2>3. IsOpen(of) /\ of.ref = (Handles(proc) + Len(rel') + Armed(of)) + 1
    BY <1>0, <2>1, <2>2 DEF Referenced, Armed
  <2>4. Handles(proc) + Len(rel') + Armed(of) \in Nat /\ Armed(of) \in 0..1
    BY <1>0, <2>1, <2>2 DEF Armed
  <2>5. \/ Handles(proc) + Len(rel') + Armed(of) = 0 /\ of' = NoFile
        \/ /\ IsOpen(of') /\ of'.timer = of.timer
           /\ of'.ref = Handles(proc) + Len(rel') + Armed(of)
    BY <1>4, <2>3, <2>4, ReferenceGiven DEF ReleaseEnds
  <2>6. Len(rel') = 0 => rel' = <<>>
    BY <2>2
  <2>7. Referenced(of', proc, rel')
    BY <1>0, <2>1, <2>2, <2>4, <2>5, <2>6 DEF Referenced, Armed
  <2> QED BY <1>0, <1>4, <2>2, <2>7, FileMoves DEF ReleaseEnds
<1> QED BY <1>1, <1>2, <1>3, <1>4 DEF Releasing

----------------------------------------------------------------------------
(* The programs' calls.                                                   *)

\* One program's call, its script and the open file move together.
LEMMA CallMoves ==
  ASSUME IInv, NEW p \in Procs, NEW c \in ProcStates, NEW s \in Seq(Operations),
         proc' = [proc EXCEPT ![p] = c], UserFits(user'),
         user'.scripts = [user.scripts EXCEPT ![p] = s], CallFits(s, c, of'),
         of'.id = of.id \/ ~Locked, TabFits(tab', ghost'), FilesFit(file'), rel' = rel,
         Referenced(of', proc', rel)
  PROVE  IInv'
<1>1. /\ \A q \in Procs : CallFits(user.scripts[q], proc[q], of)
      /\ proc \in [Procs -> ProcStates] /\ UserFits(user)
  BY DEF IInv
<1>2. proc' \in [Procs -> ProcStates]
  BY <1>1
<1>3. \A q \in Procs : CallFits(user'.scripts[q], proc'[q], of')
  <2> SUFFICES ASSUME NEW q \in Procs PROVE CallFits(user'.scripts[q], proc'[q], of')
    OBVIOUS
  <2>1. CASE q = p
    BY <1>1, <2>1 DEF UserFits
  <2>2. CASE q # p
    <3>1. user'.scripts[q] = user.scripts[q] /\ proc'[q] = proc[q]
      BY <1>1, <2>2 DEF UserFits
    <3> QED BY <1>1, <3>1 DEF CallFits, Locked
  <2> QED BY <2>1, <2>2
<1> QED BY <1>2, <1>3 DEF IInv

LEMMA ScriptsFit ==
  ASSUME NEW u, UserFits(u), NEW p \in Procs, NEW s \in Seq(Operations)
  PROVE  LET v == [u EXCEPT !.scripts[p] = s]
         IN UserFits(v) /\ v.scripts = [u.scripts EXCEPT ![p] = s]
<1> DEFINE scripts == [u.scripts EXCEPT ![p] = s]
<1>1. scripts \in [Procs -> Seq(Operations)]
  BY DEF UserFits
<1>2. [u EXCEPT !.scripts[p] = s] = [u EXCEPT !.scripts = scripts]
  OBVIOUS
<1> HIDE DEF scripts
<1>3. DOMAIN [u EXCEPT !.scripts = scripts] = UserFields /\ [u EXCEPT !.scripts = scripts].scripts = scripts
  BY DEF UserFits, UserFields
<1>4. UserFits([u EXCEPT !.scripts = scripts])
  BY <1>1, <1>3 DEF UserFits
<1> QED BY <1>2, <1>3, <1>4 DEF scripts

LEMMA DoneFits ==
  ASSUME IInv, NEW p \in Procs, user.scripts[p] # <<>>, Done(p)
  PROVE  UserFits(user') /\ user'.scripts = [user.scripts EXCEPT ![p] = Tail(user.scripts[p])]
<1>1. UserFits(user) /\ Tail(user.scripts[p]) \in Seq(Operations)
  BY DEF IInv, UserFits
<1> QED BY <1>1, ScriptsFit DEF Done

\* What is known of a program that calls.
LEMMA Caller ==
  ASSUME IInv, NEW p \in Procs, user.scripts[p] # <<>>
  PROVE  /\ user.scripts[p] \in Seq(Operations) /\ Tail(user.scripts[p]) \in Seq(Operations)
         /\ proc[p] \in ProcStates
         /\ OpensAndCloses(Tail(user.scripts[p]), Call(p).op # "close")
         /\ Call(p).op \in {"open", "trunc"} <=> ~proc[p].open
<1>1. /\ user.scripts[p] \in Seq(Operations) /\ proc[p] \in ProcStates
      /\ CallFits(user.scripts[p], proc[p], of)
  BY DEF IInv, UserFits
<1> QED BY <1>1, NextCall DEF CallFits, Call

\* A program that has the file open has an open file.
LEMMA HandleHasFile ==
  ASSUME IInv, NEW p \in Procs, proc[p].open
  PROVE  /\ IsOpen(of) /\ of.ref = Handles(proc) + Len(rel) + Armed(of)
         /\ Handles(proc) \in Nat /\ Handles(proc) > 0 /\ Len(rel) \in Nat
BY HandlesAre DEF IInv, Referenced

LEMMA HandlesChange ==
  ASSUME NEW pr \in [Procs -> ProcStates], NEW p \in Procs, NEW c
  PROVE  /\ c.open /\ ~pr[p].open => Handles([pr EXCEPT ![p] = c]) = Handles(pr) + 1
         /\ ~c.open /\ pr[p].open => Handles([pr EXCEPT ![p] = c]) = Handles(pr) - 1
         /\ (c.open <=> pr[p].open) => Handles([pr EXCEPT ![p] = c]) = Handles(pr)
<1> p \in {1, 2} /\ DOMAIN pr = {1, 2}
  BY DEF Procs
<1>1. CASE p = 1
  BY <1>1 DEF Handles
<1>2. CASE p = 2
  BY <1>2 DEF Handles
<1> QED BY <1>1, <1>2

LEMMA ExpectedFits ==
  ASSUME DOMAIN ghost = GhostFields, NEW c
  PROVE  DOMAIN Expected(c) = GhostFields /\ Expected(c).rows = ghost.rows
<1> DEFINE new == CASE c.op = "write" -> Put(ghost.last, c.at, c.v)
                    [] c.op = "size" -> Resize(ghost.last, c.at)
                    [] c.op = "trunc" -> <<>>
           g == [ghost EXCEPT !.last = new, !.versions = @ \cup {new}]
<1>1. Expected(c) = g
  BY DEF Expected
<1> HIDE DEF new
<1>2. DOMAIN g = GhostFields /\ g.rows = ghost.rows
  BY DEF GhostFields
<1> QED BY <1>1, <1>2

LEMMA GhostSet ==
  ASSUME NEW t, NEW g, TabFits(t, g), NEW h, DOMAIN h = GhostFields, h.rows = g.rows, NEW flags
  PROVE  TabFits(t, h) /\ TabFits(t, Noting(h, flags))
BY DEF TabFits, Noting, GhostFields

\* A row is made: its id has not been given before.
LEMMA RowMade ==
  ASSUME IInv, NEW base, NEW g, DOMAIN g = GhostFields, g.rows = ghost.rows + 1
  PROVE  /\ TabFits(psync_fstask_add_creat(base), g)
         /\ TabFits(psync_fstask_add_modified_file(base), g)
         /\ NewId \in Nat \ {0}
<1>0. DOMAIN tab = TabFields /\ RowsFit(tab.rows, ghost.rows) /\ ghost.rows \in Nat
  BY DEF IInv, TabFits, RowsFit
<1>1. NewId \in 1..(ghost.rows + 1)
  BY <1>0, NewIdFits
<1>2. ASSUME NEW row, DOMAIN row = RowFields, row.status = 1, row.int1 = 0
      PROVE  RowsFit(Extended(tab.rows, NewId, row), g.rows)
  BY <1>0, <1>1, <1>2, RowAdded
<1>3. ASSUME NEW rows, RowsFit(rows, g.rows), NEW e
      PROVE  TabFits([tab EXCEPT !.rows = rows, !.entries = e, !.lost = FALSE], g)
  BY <1>0, <1>3 DEF TabFits, TabFields
<1>4. TabFits(psync_fstask_add_creat(base), g)
  <2> DEFINE row == NewRow("creat", base)
             rows == Extended(tab.rows, NewId, row)
  <2>1. DOMAIN row = RowFields /\ row.status = 1 /\ row.int1 = 0
    BY DEF NewRow, RowFields
  <2>2. RowsFit(rows, g.rows)
    <3> HIDE DEF row
    <3> QED BY <1>2, <2>1
  <2> HIDE DEF rows
  <2> QED BY <1>3, <2>2 DEF psync_fstask_add_creat, rows
<1>5. TabFits(psync_fstask_add_modified_file(base), g)
  <2> DEFINE row == [NewRow("modify", base) EXCEPT !.after = @ \cup ({Entry} \ {0})]
             rows == Extended(tab.rows, NewId, row)
  <2>1. DOMAIN row = RowFields /\ row.status = 1 /\ row.int1 = 0
    BY DEF NewRow, RowFields
  <2>2. RowsFit(rows, g.rows)
    <3> HIDE DEF row
    <3> QED BY <1>2, <2>1
  <2> HIDE DEF rows
  <2> QED BY <1>3, <2>2 DEF psync_fstask_add_modified_file, rows
<1> QED BY <1>0, <1>1, <1>4, <1>5

\* What the open file is once more program has opened it.
Opened(o) ==
  /\ IsOpen(o)
  /\ of = NoFile => o.ref = 1 + Armed(o)
  /\ of # NoFile => o.ref = of.ref + 1 + Armed(o) - Armed(of)

LEMMA CreatedFits ==
  ASSUME NEW id \in Nat, NEW newfile, NEW size, NEW base, NEW w \in Int,
         NEW o, o = psync_fs_create_file(id, newfile, size, base, w)
  PROVE  IsOpen(o) /\ o.ref = 1 /\ Armed(o) = 0
BY DEF psync_fs_create_file, IsOpen, OfFields, Armed

LEMMA ReferenceTaken ==
  ASSUME IInv, of # NoFile
  PROVE  /\ IsOpen(of) /\ Opened([of EXCEPT !.ref = @ + 1])
         /\ [of EXCEPT !.ref = @ + 1].id = of.id
<1>1. IsOpen(of)
  BY DEF IInv, Referenced
<1> QED BY <1>1 DEF Opened, IsOpen, OfFields, Armed

LEMMA TruncateLeaves ==
  ASSUME NEW o, DOMAIN o = OfFields, NEW f
  PROVE  Same(psync_fs_ftruncate_of_locked([o |-> o, f |-> f], 0).o, o)
<1> DEFINE c == [op |-> "size", at |-> 0]
<1>1. Applied([o |-> o, f |-> f], c) = psync_fs_ftruncate_of_locked([o |-> o, f |-> f], 0)
  BY DEF Applied
<1> HIDE DEF c
<1> QED BY <1>1, AppliedLeaves DEF Leaves

LEMMA OpenTaskFits ==
  ASSUME IInv, NEW p \in Procs, Entry \in DOMAIN tab.rows, OpenTask(p, Entry)
  PROVE  Opened(of') /\ FilesFit(file') /\ TabFits(tab', ghost')
<1> DEFINE t == Entry
           row == tab.rows[t]
           trunc == Call(p).op = "trunc"
           o == [OpenFile(t) EXCEPT !.released = row.status # 1]
           f == IF trunc THEN [d |-> <<>>, i |-> {}] ELSE DataOf(t)
<1>0. /\ TabFits(tab, ghost) /\ FilesFit(file) /\ RowsFit(tab.rows, ghost.rows)
      /\ DOMAIN tab = TabFields /\ DOMAIN ghost = GhostFields
  BY DEF IInv, TabFits
<1>1. t \in Nat \ {0} /\ row.int1 \in Int
  BY <1>0 DEF RowsFit
<1>2. Opened(OpenFile(t))
  <2>1. CASE of = NoFile
    BY <1>1, <2>1, CreatedFits DEF OpenFile, Opened
  <2>2. CASE of # NoFile
    BY <2>2, ReferenceTaken DEF OpenFile
  <2> QED BY <2>1, <2>2
<1>3. Opened(o)
  <2> HIDE DEF row
  <2>1. IsOpen(o) /\ o.ref = OpenFile(t).ref /\ o.timer = OpenFile(t).timer
    BY <1>2 DEF Opened, IsOpen, OfFields
  <2> HIDE DEF o
  <2> QED BY <1>2, <2>1 DEF Opened, Armed
<1>4. ASSUME NEW u, TabFits(u, ghost) PROVE TabFits(u, ghost')
  <2>1. \E flags : ghost' = Noting(IF trunc THEN Expected(Call(p)) ELSE ghost, flags)
    BY DEF OpenTask
  <2>2. DOMAIN Expected(Call(p)) = GhostFields /\ Expected(Call(p)).rows = ghost.rows
    BY <1>0, ExpectedFits
  <2> QED BY <1>0, <1>4, <2>1, <2>2, GhostSet
<1>5. CASE of = NoFile
  <2> DEFINE initial == IF trunc \/ o.newfile THEN 0 ELSE Len(o.hash)
  <2>1. of' = [o EXCEPT !.size = Len(f.d), !.local = f.i, !.initial = initial]
    BY <1>5 DEF OpenTask
  <2>2. file' = Extended(file, t, f) /\ tab' = tab
    BY <1>5 DEF OpenTask
  <2> HIDE DEF initial, f, o
  <2>3. Opened(of')
    BY <1>3, <2>1 DEF Opened, IsOpen, OfFields, Armed
  <2>4. FilesFit(file')
    BY <1>0, <1>1, <2>2 DEF FilesFit, Extended
  <2> QED BY <1>0, <1>4, <2>2, <2>3, <2>4
<1>6. CASE of # NoFile /\ trunc /\ o.size > 0
  <2> DEFINE i == psync_fs_inc_writeid_locked(o)
             s == psync_fs_ftruncate_of_locked([o |-> i, f |-> file[t]], 0)
  <2>1. /\ of' = s.o /\ file' = [file EXCEPT ![t] = s.f]
        /\ tab' = tab \/ tab' = [tab EXCEPT !.rows = WithStatus(@, t, 1)]
    BY <1>6 DEF OpenTask
  <2> HIDE DEF o
  <2>2. IsOpen(i) /\ i.ref - Armed(i) = o.ref - Armed(o)
    BY <1>3, WriteIdLeaves DEF Opened
  <2> HIDE DEF i
  <2>3. Same(s.o, i)
    BY <2>2, TruncateLeaves DEF IsOpen
  <2> HIDE DEF s
  <2>4. IsOpen(of') /\ of'.ref = i.ref /\ Armed(of') = Armed(i)
    BY <2>1, <2>2, <2>3, SameIsOpen DEF Same
  <2>5. Opened(of')
    <3>1. /\ Armed(i) \in Nat /\ Armed(o) \in Nat /\ Armed(of) \in Nat
          /\ i.ref \in Nat /\ o.ref \in Nat
      BY <1>3, <2>2 DEF Armed, IsOpen, Opened
    <3>2. IsOpen(of)
      BY <1>6, ReferenceTaken
    <3>3. of.ref \in Nat
      BY <3>2 DEF IsOpen
    <3>4. o.ref = of.ref + 1 + Armed(o) - Armed(of)
      BY <1>3, <1>6 DEF Opened
    <3>5. of'.ref = of.ref + 1 + Armed(of') - Armed(of)
      BY <2>2, <2>4, <3>1, <3>3, <3>4
    <3> QED BY <1>6, <2>4, <3>5 DEF Opened
  <2>6. FilesFit(file')
    BY <1>0, <2>1 DEF FilesFit
  <2>7. RowsFit(WithStatus(tab.rows, t, 1), ghost.rows)
    BY <1>0, StatusSet, 1 \in 0..3
  <2>8. TabFits(tab', ghost)
    BY <1>0, <2>1, <2>7 DEF TabFits, TabFields
  <2> QED BY <1>4, <2>5, <2>6, <2>8
<1>7. CASE of # NoFile /\ ~(trunc /\ o.size > 0)
  <2>1. of' = o /\ file' = file /\ tab' = tab
    BY <1>7 DEF OpenTask
  <2> QED BY <1>0, <1>3, <1>4, <2>1
<1> QED BY <1>5, <1>6, <1>7

LEMMA OpenServerFits ==
  ASSUME IInv, OpenServer
  PROVE  Opened(of') /\ FilesFit(file') /\ TabFits(tab', ghost')
<1>1. Opened(of')
  <2>1. CASE of = NoFile
    <3>1. of' = psync_fs_create_file(0, FALSE, Len(tab.mir), tab.mir, 0)
      BY <2>1 DEF OpenServer
    <3>2. IsOpen(of') /\ of'.ref = 1 /\ Armed(of') = 0
      BY <3>1 DEF psync_fs_create_file, IsOpen, OfFields, Armed
    <3> QED BY <2>1, <3>2 DEF Opened
  <2>2. CASE of # NoFile
    BY <2>2, ReferenceTaken DEF OpenServer
  <2> QED BY <2>1, <2>2
<1> QED BY <1>1 DEF OpenServer, IInv

LEMMA RecreateFits ==
  ASSUME IInv, NEW p \in Procs, Recreate(p)
  PROVE  Opened(of') /\ FilesFit(file') /\ TabFits(tab', ghost')
<1> DEFINE e == Expected(Call(p))
           g == [e EXCEPT !.rows = @ + 1]
<1>0. DOMAIN ghost = GhostFields /\ ghost.rows \in Nat
  BY DEF IInv, TabFits, RowsFit
<1>1. DOMAIN e = GhostFields /\ e.rows = ghost.rows
  BY <1>0, ExpectedFits
<1>2. ghost' = g /\ of = NoFile
  BY DEF Recreate
<1> HIDE DEF e
<1>3. DOMAIN g = GhostFields /\ g.rows = ghost.rows + 1
  BY <1>1 DEF GhostFields
<1> HIDE DEF g
<1>4. TabFits(tab', ghost') /\ NewId \in Nat \ {0}
  BY <1>2, <1>3, RowMade DEF Recreate
<1>5. Opened(of')
  <2>1. NewId \in Nat /\ 0 \in Int /\ of' = psync_fs_create_file(NewId, TRUE, 0, <<>>, 0)
    BY <1>4 DEF Recreate
  <2>2. IsOpen(of') /\ of'.ref = 1 /\ Armed(of') = 0
    BY <2>1, CreatedFits
  <2> QED BY <1>2, <2>2 DEF Opened
<1>6. FilesFit(file')
  BY <1>4 DEF Recreate, FilesFit, Extended, IInv
<1> QED BY <1>4, <1>5, <1>6

LEMMA OpenFits ==
  ASSUME IInv, NEW p \in Procs, Open(p)
  PROVE  IInv'
<1>0. /\ user.scripts[p] # <<>> /\ proc[p].pc = "idle" /\ ~Locked /\ rel' = rel
      /\ Call(p).op \in {"open", "trunc"}
  BY DEF Open, Idle
<1>1. /\ user.scripts[p] \in Seq(Operations) /\ Tail(user.scripts[p]) \in Seq(Operations)
      /\ proc[p] \in ProcStates /\ ~proc[p].open
      /\ OpensAndCloses(Tail(user.scripts[p]), Call(p).op # "close")
  BY <1>0, Caller
<1>2. /\ UserFits(user) /\ TabFits(tab, ghost) /\ FilesFit(file) /\ Referenced(of, proc, rel)
      /\ proc \in [Procs -> ProcStates] /\ CallFits(user.scripts[p], proc[p], of)
  BY DEF IInv
<1>3. CASE Entry # 0 /\ (tab.lost \/ Entry \notin DOMAIN tab.rows)
  <2> DEFINE s == Skip(user.scripts[p])
  <2>1. s \in Seq(Operations) /\ OpensAndCloses(s, FALSE)
    BY <1>1, <1>2, SkipFits DEF CallFits
  <2>2. user' = [user EXCEPT !.scripts[p] = s] /\ UNCHANGED <<proc, of, file, tab, ghost>>
    BY <1>3 DEF Open
  <2> HIDE DEF s
  <2>3. UserFits(user') /\ user'.scripts = [user.scripts EXCEPT ![p] = s]
    BY <1>2, <2>1, <2>2, ScriptsFit
  <2>6. proc[p].open = FALSE
    BY <1>1 DEF ProcStates
  <2>4. CallFits(s, proc[p], of')
    BY <1>0, <2>1, <2>6 DEF CallFits
  <2>5. proc' = [proc EXCEPT ![p] = proc[p]]
    BY <1>2, <2>2
  <2> QED BY <1>0, <1>1, <1>2, <2>1, <2>2, <2>3, <2>4, <2>5, CallMoves
<1>4. CASE ~(Entry # 0 /\ (tab.lost \/ Entry \notin DOMAIN tab.rows))
  <2> DEFINE c == [proc[p] EXCEPT !.open = TRUE]
             s == Tail(user.scripts[p])
  <2>1. /\ Done(p) /\ proc' = [proc EXCEPT ![p] = c]
        /\ (OpenTask(p, Entry) /\ Entry # 0) \/ Recreate(p) \/ OpenServer
    BY <1>4 DEF Open
  <2>2. Opened(of') /\ FilesFit(file') /\ TabFits(tab', ghost')
    BY <1>4, <2>1, OpenTaskFits, RecreateFits, OpenServerFits
  <2>3. UserFits(user') /\ user'.scripts = [user.scripts EXCEPT ![p] = s]
    BY <1>0, <2>1, DoneFits
  <2>4. c \in ProcStates /\ c.open /\ c.pc = "idle"
    BY <1>0, <1>1 DEF ProcStates
  <2> HIDE DEF c
  <2>5. Handles(proc') = Handles(proc) + 1
    BY <1>1, <1>2, <2>1, <2>4, HandlesChange
  <2>6. CallFits(s, c, of')
    BY <1>0, <1>1, <2>4 DEF CallFits
  <2>7. Referenced(of', proc', rel)
    <3>1. CASE of = NoFile
      <4>1. rel = <<>> /\ Handles(proc) = 0
        BY <1>2, <3>1, OpenIsSomeFile DEF Referenced
      <4> QED BY <2>2, <2>5, <3>1, <4>1 DEF Opened, Referenced, Armed
    <3>2. CASE of # NoFile
      <4>1. /\ IsOpen(of) /\ of.ref = Handles(proc) + Len(rel) + Armed(of)
            /\ Handles(proc) \in Nat /\ Len(rel) \in Nat
        BY <1>2, <3>2, HandlesAre DEF Referenced, IInv
      <4> QED BY <2>2, <2>5, <3>2, <4>1 DEF Opened, Referenced, Armed
    <3> QED BY <3>1, <3>2
  <2> HIDE DEF s
  <2>8. s \in Seq(Operations)
    BY <1>1 DEF s
  <2> QED BY <1>0, <2>1, <2>2, <2>3, <2>4, <2>6, <2>7, <2>8, CallMoves
<1> QED BY <1>3, <1>4

\* A call that gives no reference up and takes none but the timer's.
LEMMA ReferencesKept ==
  ASSUME IInv, NEW p \in Procs, proc[p].open, NEW c, c.open,
         proc' = [proc EXCEPT ![p] = c], IsOpen(of'),
         of'.ref - Armed(of') = of.ref - Armed(of)
  PROVE  Referenced(of', proc', rel)
<1>1. proc \in [Procs -> ProcStates]
  BY DEF IInv
<1>2. Handles(proc') = Handles(proc)
  BY <1>1, HandlesChange
<1>3. /\ IsOpen(of) /\ of.ref = Handles(proc) + Len(rel) + Armed(of)
      /\ Handles(proc) \in Nat /\ Len(rel) \in Nat
  BY HandleHasFile
<1>4. Armed(of) \in Nat /\ Armed(of') \in Nat /\ of.ref \in Nat /\ of'.ref \in Nat
  BY <1>3 DEF Armed, IsOpen
<1>5. of'.ref = Handles(proc') + Len(rel) + Armed(of')
  BY <1>2, <1>3, <1>4
<1> QED BY <1>5 DEF Referenced

\* The caller's type, from its state.
LEMMA CallFollows ==
  ASSUME IInv, NEW p \in Procs, proc[p].pc # "idle" \/ Idle(p), NEW pc
  PROVE  /\ [proc[p] EXCEPT !.pc = pc].open = proc[p].open
         /\ [proc[p] EXCEPT !.pc = pc].pc = pc
         /\ pc \in {"idle", "create", "fill", "flushed", "close"}
              => [proc[p] EXCEPT !.pc = pc] \in ProcStates
         /\ user.scripts[p] # <<>> /\ CallFits(user.scripts[p], proc[p], of)
         /\ user.scripts[p] \in Seq(Operations) /\ proc[p] \in ProcStates
         /\ user.scripts = [user.scripts EXCEPT ![p] = user.scripts[p]]
<1>1. /\ CallFits(user.scripts[p], proc[p], of) /\ proc[p] \in ProcStates
      /\ user.scripts \in [Procs -> Seq(Operations)]
  BY DEF IInv, UserFits
<1>2. user.scripts[p] # <<>>
  BY <1>1 DEF CallFits, Idle
<1>3. /\ [proc[p] EXCEPT !.pc = pc].open = proc[p].open
      /\ [proc[p] EXCEPT !.pc = pc].pc = pc
      /\ pc \in {"idle", "create", "fill", "flushed", "close"}
           => [proc[p] EXCEPT !.pc = pc] \in ProcStates
  BY <1>1 DEF ProcStates
<1> QED BY <1>1, <1>2, <1>3

\* The file is made one that can be written.
LEMMA ReopenFits ==
  ASSUME IInv, NEW p \in Procs, IsOpen(of), psync_fs_reopen_file_for_writing(p)
  PROVE  /\ IsOpen(of') /\ of'.id # 0 /\ of'.ref - Armed(of') = of.ref - Armed(of)
         /\ TabFits(tab', ghost')
<1> DEFINE i == psync_fs_inc_writeid_locked(of)
           o == [i EXCEPT !.id = NewId]
           g == [ghost EXCEPT !.rows = @ + 1]
<1>1. DOMAIN ghost = GhostFields /\ ghost.rows \in Nat
  BY DEF IInv, TabFits, RowsFit
<1>2. DOMAIN g = GhostFields /\ g.rows = ghost.rows + 1
  BY <1>1 DEF GhostFields
<1>3. IsOpen(i) /\ i.ref - Armed(i) = of.ref - Armed(of)
  BY WriteIdLeaves
<1>4. NewId \in Nat \ {0}
  BY <1>2, RowMade
<1>5. IsOpen(o) /\ o.id # 0 /\ o.ref = i.ref /\ o.timer = i.timer
  <2> HIDE DEF i
  <2> QED BY <1>3, <1>4 DEF IsOpen, OfFields
<1>6. \/ /\ tab' = psync_fstask_add_creat(of.hash)
         /\ of' = [o EXCEPT !.newfile = TRUE, !.modified = TRUE] /\ ghost' = g
      \/ /\ tab' = psync_fstask_add_modified_file(of.hash) /\ of' = o
         /\ \E flags : ghost' = Noting(g, flags)
  BY DEF psync_fs_reopen_file_for_writing
<1> HIDE DEF o
<1>7. IsOpen(of') /\ of'.id # 0 /\ of'.ref = o.ref /\ of'.timer = o.timer
  <2>1. CASE of' = o
    BY <1>5, <2>1
  <2>2. CASE of' = [o EXCEPT !.newfile = TRUE, !.modified = TRUE]
    BY <1>5, <2>2 DEF IsOpen, OfFields
  <2> QED BY <1>6, <2>1, <2>2
<1>8. TabFits(tab', ghost')
  <2> HIDE DEF g
  <2>1. TabFits(psync_fstask_add_creat(of.hash), g) /\ TabFits(psync_fstask_add_modified_file(of.hash), g)
    BY <1>2, RowMade
  <2> QED BY <1>2, <1>6, <2>1, GhostSet
<1>9. Armed(of') = Armed(i)
  BY <1>5, <1>7 DEF Armed
<1> HIDE DEF i
<1> QED BY <1>3, <1>5, <1>7, <1>8, <1>9

LEMMA ChangeFits ==
  ASSUME IInv, NEW p \in Procs, Change(p)
  PROVE  IInv'
<1>0. /\ proc[p].open /\ proc[p].pc = "idle" /\ ~Locked /\ rel' = rel /\ Idle(p)
      /\ Call(p).op \in {"write", "size"} /\ user.scripts[p] # <<>>
  BY DEF Change, Idle
<1>1. /\ Tail(user.scripts[p]) \in Seq(Operations) /\ proc[p] \in ProcStates
      /\ OpensAndCloses(Tail(user.scripts[p]), TRUE) /\ proc[p].open = TRUE
  <2>1. Call(p).op # "close"
    BY <1>0
  <2>2. /\ Tail(user.scripts[p]) \in Seq(Operations) /\ proc[p] \in ProcStates
        /\ OpensAndCloses(Tail(user.scripts[p]), Call(p).op # "close")
    BY <1>0, Caller
  <2> QED BY <1>0, <2>1, <2>2 DEF ProcStates
<1>2. /\ UserFits(user) /\ TabFits(tab, ghost) /\ FilesFit(file) /\ RowsFit(tab.rows, ghost.rows)
      /\ DOMAIN tab = TabFields /\ DOMAIN ghost = GhostFields /\ proc \in [Procs -> ProcStates]
  BY DEF IInv, TabFits
<1>3. IsOpen(of) /\ of # NoFile
  BY <1>0, HandleHasFile, OpenIsSomeFile
<1>4. ASSUME proc' = proc, Done(p), IsOpen(of'), TabFits(tab', ghost'), FilesFit(file'),
             of'.ref - Armed(of') = of.ref - Armed(of)
      PROVE  IInv'
  <2> DEFINE s == Tail(user.scripts[p])
  <2>1. UserFits(user') /\ user'.scripts = [user.scripts EXCEPT ![p] = s]
    BY <1>0, <1>4, DoneFits
  <2>2. proc' = [proc EXCEPT ![p] = proc[p]]
    BY <1>2, <1>4
  <2>3. Referenced(of', proc', rel)
    BY <1>0, <1>4, <2>2, ReferencesKept
  <2>4. CallFits(s, proc[p], of')
    BY <1>0, <1>1 DEF CallFits
  <2>5. s \in Seq(Operations)
    BY <1>1
  <2> HIDE DEF s
  <2> QED BY <1>0, <1>1, <1>4, <2>1, <2>2, <2>3, <2>4, <2>5, CallMoves
<1>5. CASE Call(p).op = "size" /\ of.size = Call(p).at
  BY <1>2, <1>3, <1>4, <1>5 DEF Change
<1>6. CASE ~(Call(p).op = "size" /\ of.size = Call(p).at) /\ of.modified
  <2> DEFINE i == psync_fs_inc_writeid_locked(of)
             s == Applied([o |-> i, f |-> file[of.id]], Call(p))
  <2>1. /\ psync_fsupload_stop_upload_locked /\ of' = s.o
        /\ file' = [file EXCEPT ![of.id] = s.f]
        /\ ghost' = Expected(Call(p)) /\ Done(p) /\ proc' = proc
    BY <1>6 DEF Change
  <2>2. IsOpen(i) /\ i.ref - Armed(i) = of.ref - Armed(of)
    BY <1>3, WriteIdLeaves
  <2> HIDE DEF i
  <2>3. Same(s.o, i)
    BY <2>2, AppliedLeaves DEF IsOpen, Leaves
  <2> HIDE DEF s
  <2>4. IsOpen(of') /\ of'.ref - Armed(of') = of.ref - Armed(of)
    BY <2>1, <2>2, <2>3, SameIsOpen DEF Same
  <2>5. FilesFit(file')
    BY <1>2, <2>1 DEF FilesFit
  <2>6. TabFits(tab', ghost)
    <3>1. RowsFit(WithStatus(tab.rows, of.id, 1), ghost.rows)
      BY <1>2, StatusSet, 1 \in 0..3
    <3> QED BY <1>2, <2>1, <3>1 DEF psync_fsupload_stop_upload_locked, TabFits, TabFields
  <2>7. TabFits(tab', ghost')
    BY <1>2, <2>1, <2>6, ExpectedFits, GhostSet
  <2> QED BY <1>4, <2>1, <2>4, <2>5, <2>7
<1>7. CASE ~(Call(p).op = "size" /\ of.size = Call(p).at) /\ ~of.modified
  <2> DEFINE c == [proc[p] EXCEPT !.pc = "create"]
  <2>1. psync_fs_reopen_file_for_writing(p)
    BY <1>7 DEF Change
  <2>2. proc' = [proc EXCEPT ![p] = c] /\ user' = user /\ file' = file
    BY <2>1 DEF psync_fs_reopen_file_for_writing
  <2>3. /\ IsOpen(of') /\ of'.id # 0 /\ of'.ref - Armed(of') = of.ref - Armed(of)
        /\ TabFits(tab', ghost')
    BY <1>3, <2>1, ReopenFits
  <2>4. /\ c \in ProcStates /\ c.open = proc[p].open /\ c.pc = "create"
        /\ user.scripts[p] \in Seq(Operations) /\ CallFits(user.scripts[p], proc[p], of)
        /\ user.scripts = [user.scripts EXCEPT ![p] = user.scripts[p]]
    BY <1>0, CallFollows
  <2> HIDE DEF c
  <2>5. CallFits(user.scripts[p], c, of')
    BY <1>0, <2>3, <2>4 DEF CallFits, Call
  <2>6. Referenced(of', proc', rel)
    BY <1>0, <2>2, <2>3, <2>4, ReferencesKept
  <2> QED BY <1>0, <1>2, <2>2, <2>3, <2>4, <2>5, <2>6, CallMoves
<1> QED BY <1>5, <1>6, <1>7

\* A call that returns.
LEMMA Returns ==
  ASSUME IInv, NEW p \in Procs, Done(p), user.scripts[p] # <<>>, NEW c \in ProcStates,
         c.pc = "idle", c.open = (Call(p).op # "close"), proc' = [proc EXCEPT ![p] = c],
         of'.id = of.id \/ ~Locked, TabFits(tab', ghost'), FilesFit(file'), rel' = rel,
         Referenced(of', proc', rel)
  PROVE  IInv'
<1> DEFINE s == Tail(user.scripts[p])
<1>1. s \in Seq(Operations) /\ OpensAndCloses(s, c.open)
  BY Caller
<1>2. UserFits(user') /\ user'.scripts = [user.scripts EXCEPT ![p] = s]
  BY DoneFits
<1> HIDE DEF s
<1>3. CallFits(s, c, of')
  BY <1>1 DEF CallFits
<1> QED BY <1>1, <1>2, <1>3, CallMoves

LEMMA CreateFilesFits ==
  ASSUME IInv, NEW p \in Procs, CreateFiles(p)
  PROVE  IInv'
<1> DEFINE c == [proc[p] EXCEPT !.pc = "fill"]
<1>0. proc[p].pc = "create" /\ proc' = [proc EXCEPT ![p] = c] /\ UNCHANGED <<user, of, tab, rel, ghost>>
  BY DEF CreateFiles
<1>1. /\ c \in ProcStates /\ c.open = proc[p].open /\ c.pc = "fill"
      /\ user.scripts[p] \in Seq(Operations) /\ CallFits(user.scripts[p], proc[p], of)
      /\ user.scripts = [user.scripts EXCEPT ![p] = user.scripts[p]]
  BY <1>0, CallFollows
<1>2. proc[p].open /\ of.id # 0
  BY <1>0, <1>1 DEF CallFits
<1> HIDE DEF c
<1>3. CallFits(user.scripts[p], c, of)
  BY <1>0, <1>1, <1>2 DEF CallFits
<1>4. IsOpen(of)
  BY <1>2, HandleHasFile
<1>5. FilesFit(file')
  BY <1>2, <1>4 DEF CreateFiles, FilesFit, Extended, IInv, IsOpen
<1>6. Referenced(of', proc', rel)
  BY <1>0, <1>1, <1>2, <1>4, ReferencesKept
<1>7. TabFits(tab', ghost') /\ UserFits(user')
  BY <1>0 DEF IInv
<1> QED BY <1>0, <1>1, <1>3, <1>5, <1>6, <1>7, CallMoves

LEMMA FillFits ==
  ASSUME IInv, NEW p \in Procs, Fill(p)
  PROVE  IInv'
<1> DEFINE c == [proc[p] EXCEPT !.pc = "idle"]
<1>0. /\ proc[p].pc = "fill" /\ proc' = [proc EXCEPT ![p] = c] /\ Done(p)
      /\ UNCHANGED <<tab, rel>>
  BY DEF Fill
<1>1. /\ c \in ProcStates /\ c.open = proc[p].open /\ c.pc = "idle"
      /\ CallFits(user.scripts[p], proc[p], of) /\ user.scripts[p] # <<>> /\ proc[p] \in ProcStates
  BY <1>0, CallFollows
<1>2. proc[p].open = TRUE /\ Call(p).op \in {"write", "size"}
  BY <1>0, <1>1 DEF CallFits, Call, ProcStates
<1> HIDE DEF c
<1>3. IsOpen(of)
  BY <1>2, HandleHasFile
<1>4. ASSUME Same(of', of), \E g : file' = [file EXCEPT ![of.id] = g], TabFits(tab, ghost')
      PROVE  IInv'
  <2>1. FilesFit(file')
    BY <1>4 DEF FilesFit, IInv
  <2>2. IsOpen(of') /\ Armed(of') = Armed(of) /\ of'.ref = of.ref /\ of'.id = of.id
    BY <1>3, <1>4, SameIsOpen DEF Same
  <2>3. Referenced(of', proc', rel)
    BY <1>0, <1>1, <1>2, <2>2, ReferencesKept
  <2> QED BY <1>0, <1>1, <1>2, <1>4, <2>1, <2>2, <2>3, Returns
<1> DEFINE f == file[of.id]
           o == [of EXCEPT !.modified = TRUE, !.size = of.initial, !.local = @ \cup f.i]
           z == [of EXCEPT !.size = of.initial]
           copied == [f EXCEPT !.d = ppagecache_copy_to_file(of.hash)]
           sized == [f EXCEPT !.d = Resize(@, of.initial)]
<1>5. TabFits(tab, Expected(Call(p))) /\ TabFits(tab, Noting(ghost, {"uncopied"}))
  BY ExpectedFits, GhostSet DEF IInv, TabFits
<1>6. Same(o, of) /\ Same(z, of)
  BY <1>3 DEF Same, IsOpen, OfFields
<1>7. CASE of.newfile /\ ~ppagecache_have_all_pages(of.hash)
  <2>1. Same(of', of)
    BY <1>3, <1>7 DEF Fill, Same, IsOpen
  <2>2. file' = [file EXCEPT ![of.id] = copied] /\ ghost' = Noting(ghost, {"uncopied"})
    BY <1>7 DEF Fill
  <2> HIDE DEF copied
  <2> QED BY <1>4, <1>5, <2>1, <2>2
<1>8. CASE ~(of.newfile /\ ~ppagecache_have_all_pages(of.hash))
  <2>1. \E b, g : /\ b \in {o, z} /\ of' = Applied([o |-> b, f |-> g], Call(p)).o
                  /\ file' = [file EXCEPT ![of.id] = Applied([o |-> b, f |-> g], Call(p)).f]
    <3>1. CASE of.newfile
      <4> DEFINE r == Applied([o |-> z, f |-> copied], Call(p))
      <4>1. of' = r.o /\ file' = [file EXCEPT ![of.id] = r.f]
        BY <1>8, <3>1 DEF Fill
      <4> HIDE DEF copied, z
      <4> QED BY <4>1
    <3>2. CASE ~of.newfile
      <4> DEFINE r == Applied([o |-> o, f |-> sized], Call(p))
      <4>1. of' = r.o /\ file' = [file EXCEPT ![of.id] = r.f]
        BY <1>8, <3>2 DEF Fill
      <4> HIDE DEF sized, o
      <4> QED BY <4>1
    <3> QED BY <3>1, <3>2
  <2>2. ghost' = Expected(Call(p))
    BY <1>8 DEF Fill
  <2> HIDE DEF o, z
  <2>3. PICK b, g : /\ b \in {o, z} /\ of' = Applied([o |-> b, f |-> g], Call(p)).o
                    /\ file' = [file EXCEPT ![of.id] = Applied([o |-> b, f |-> g], Call(p)).f]
    BY <2>1
  <2>4. Same(b, of) /\ DOMAIN b = OfFields
    BY <1>6, <2>3 DEF Same
  <2>5. Same(of', b)
    BY <2>3, <2>4, AppliedLeaves DEF Leaves
  <2>6. Same(of', of)
    BY <2>4, <2>5 DEF Same
  <2> QED BY <1>4, <1>5, <2>2, <2>3, <2>6
<1> QED BY <1>7, <1>8

LEMMA DisarmedFits ==
  ASSUME NEW o, IsOpen(o), o.timer # "none" => o.ref > 0
  PROVE  /\ IsOpen(Disarmed(o)) /\ Disarmed(o).id = o.id
         /\ Disarmed(o).ref - Armed(Disarmed(o)) = o.ref - Armed(o)
BY DEF Disarmed, IsOpen, OfFields, Armed

LEMMA FlushFits ==
  ASSUME IInv, NEW p \in Procs, Flush(p)
  PROVE  IInv'
<1>0. /\ Idle(p) /\ proc[p].pc = "idle" /\ proc[p].open /\ ~Locked
      /\ Call(p).op \in {"flush", "close"} /\ UNCHANGED <<file, tab, rel, ghost>>
  BY DEF Flush, Idle
<1>1. /\ UserFits(user) /\ TabFits(tab, ghost) /\ FilesFit(file) /\ ghost.rows \in Nat
      /\ proc \in [Procs -> ProcStates]
      /\ CallFits(user.scripts[p], proc[p], of) /\ user.scripts[p] # <<>>
      /\ user.scripts[p] \in Seq(Operations) /\ proc[p] \in ProcStates
      /\ user.scripts = [user.scripts EXCEPT ![p] = user.scripts[p]]
  BY <1>0, CallFollows DEF IInv, TabFits, RowsFit
<1>2. /\ IsOpen(of) /\ of.ref = Handles(proc) + Len(rel) + Armed(of)
      /\ Handles(proc) \in Nat /\ Handles(proc) > 0 /\ Len(rel) \in Nat
  BY <1>0, HandleHasFile
<1>3. CASE of.modified
  <2> DEFINE o == [of EXCEPT !.released = TRUE]
             c == [proc[p] EXCEPT !.pc = "flushed", !.w = of.writeid, !.n = ghost.rows]
  <2>1. of' = Disarmed(o) /\ proc' = [proc EXCEPT ![p] = c] /\ user' = user
    BY <1>3 DEF Flush
  <2>2. IsOpen(o) /\ o.ref = of.ref /\ o.timer = of.timer
    BY <1>2 DEF IsOpen, OfFields
  <2>3. o.ref > 0 /\ Armed(o) = Armed(of)
    BY <1>2, <2>2 DEF Armed
  <2> HIDE DEF o
  <2>4. IsOpen(of') /\ of'.ref - Armed(of') = of.ref - Armed(of)
    BY <2>1, <2>2, <2>3, DisarmedFits
  <2>5. c \in ProcStates /\ c.pc = "flushed" /\ c.open = proc[p].open
    <3>1. of.writeid \in Int /\ ghost.rows \in Int
      BY <1>1, <1>2 DEF IsOpen
    <3>2. PICK w \in Int, n \in Int :
            c = [proc[p] EXCEPT !.pc = "flushed", !.w = w, !.n = n]
      BY <3>1
    <3> HIDE DEF c
    <3> QED BY <1>1, <3>2 DEF ProcStates
  <2> HIDE DEF c
  <2>6. Referenced(of', proc', rel)
    BY <1>0, <2>1, <2>4, <2>5, ReferencesKept
  <2>7. CallFits(user.scripts[p], c, of')
    BY <1>0, <1>1, <2>5 DEF CallFits, Call
  <2> QED BY <1>0, <1>1, <2>1, <2>5, <2>6, <2>7, CallMoves
<1>4. CASE ~of.modified /\ Call(p).op = "close"
  <2> DEFINE c == [proc[p] EXCEPT !.pc = "close"]
  <2>1. of' = of /\ proc' = [proc EXCEPT ![p] = c] /\ user' = user
    BY <1>4 DEF Flush
  <2>2. c \in ProcStates /\ c.pc = "close" /\ c.open = proc[p].open
    BY <1>0, CallFollows
  <2> HIDE DEF c
  <2>3. Referenced(of', proc', rel)
    BY <1>0, <1>2, <2>1, <2>2, ReferencesKept
  <2>4. CallFits(user.scripts[p], c, of')
    BY <1>0, <1>1, <1>4, <2>2 DEF CallFits, Call
  <2> QED BY <1>0, <1>1, <2>1, <2>2, <2>3, <2>4, CallMoves
<1>5. CASE ~of.modified /\ Call(p).op # "close"
  <2>1. of' = of /\ proc' = proc /\ Done(p)
    BY <1>5 DEF Flush
  <2>2. proc' = [proc EXCEPT ![p] = proc[p]]
    BY <1>1, <2>1
  <2>3. Referenced(of', proc', rel)
    BY <1>0, <1>2, <2>1, <2>2, ReferencesKept
  <2>4. proc[p].open = (Call(p).op # "close")
    BY <1>0, <1>1, <1>5 DEF ProcStates
  <2> QED BY <1>0, <1>1, <2>1, <2>2, <2>3, <2>4, Returns
<1> QED BY <1>3, <1>4, <1>5

LEMMA FlushedFits ==
  ASSUME IInv, NEW p \in Procs, Flushed(p)
  PROVE  IInv'
<1>0. proc[p].pc = "flushed" /\ Release(proc[p].w, proc[p].n) /\ UNCHANGED <<of, file, rel>>
  BY DEF Flushed
<1>1. /\ UserFits(user) /\ FilesFit(file)
      /\ CallFits(user.scripts[p], proc[p], of) /\ user.scripts[p] # <<>>
      /\ user.scripts[p] \in Seq(Operations) /\ proc[p] \in ProcStates
      /\ user.scripts = [user.scripts EXCEPT ![p] = user.scripts[p]]
  BY <1>0, CallFollows DEF IInv
<1>2. proc[p].open = TRUE /\ Call(p).op \in {"flush", "close"} /\ proc[p].w \in Int
  BY <1>0, <1>1 DEF CallFits, Call, ProcStates
<1>3. TabFits(tab', ghost')
  BY <1>0, <1>2, ReleaseFits
<1>4. IsOpen(of)
  BY <1>2, HandleHasFile
<1> DEFINE pc == IF Call(p).op = "close" THEN "close" ELSE "idle"
           c == [proc[p] EXCEPT !.pc = pc, !.w = 0, !.n = 0]
<1>5. /\ proc' = [proc EXCEPT ![p] = c]
      /\ IF Call(p).op = "close" THEN UNCHANGED user ELSE Done(p)
  BY DEF Flushed
<1>6. c \in ProcStates /\ c.pc = pc /\ c.open = proc[p].open
  <2>1. /\ pc \in {"idle", "flushed", "close"} /\ 0 \in Int
        /\ c = [proc[p] EXCEPT !.pc = pc, !.w = 0, !.n = 0]
    OBVIOUS
  <2> HIDE DEF pc, c
  <2> QED BY <1>1, <2>1 DEF ProcStates
<1> HIDE DEF c
<1>7. Referenced(of', proc', rel)
  BY <1>0, <1>2, <1>4, <1>5, <1>6, ReferencesKept
<1>8. CASE Call(p).op = "close"
  <2>1. CallFits(user.scripts[p], c, of')
    BY <1>0, <1>1, <1>2, <1>6, <1>8 DEF CallFits, Call
  <2> QED BY <1>0, <1>1, <1>3, <1>5, <1>6, <1>7, <1>8, <2>1, CallMoves
<1>9. CASE Call(p).op # "close"
  <2>1. c.open = (Call(p).op # "close")
    BY <1>2, <1>6, <1>9
  <2> QED BY <1>0, <1>1, <1>3, <1>5, <1>6, <1>7, <1>9, <2>1, Returns
<1> QED BY <1>8, <1>9

LEMMA CloseFits ==
  ASSUME IInv, NEW p \in Procs, Close(p)
  PROVE  IInv'
<1> DEFINE c == [proc[p] EXCEPT !.pc = "idle", !.open = FALSE]
<1>0. /\ proc[p].pc = "close" /\ ~Locked /\ of' = psync_fs_dec_of_refcnt(of) /\ Done(p)
      /\ proc' = [proc EXCEPT ![p].pc = "idle", ![p].open = FALSE]
      /\ UNCHANGED <<file, tab, rel, ghost>>
  BY DEF Close
<1>1. /\ TabFits(tab, ghost) /\ FilesFit(file) /\ proc \in [Procs -> ProcStates]
      /\ CallFits(user.scripts[p], proc[p], of) /\ user.scripts[p] # <<>>
      /\ proc[p] \in ProcStates
  BY <1>0, CallFollows DEF IInv
<1>2. proc[p].open /\ Call(p).op = "close"
  BY <1>0, <1>1 DEF CallFits, Call
<1>3. c \in ProcStates /\ c.pc = "idle" /\ c.open = FALSE
  BY <1>1 DEF ProcStates
<1>4. proc' = [proc EXCEPT ![p] = c]
  BY <1>0, <1>1
<1> HIDE DEF c
<1>5. /\ IsOpen(of) /\ of.ref = Handles(proc) + Len(rel) + Armed(of)
      /\ Handles(proc) \in Nat /\ Handles(proc) > 0 /\ Len(rel) \in Nat
  BY <1>2, HandleHasFile
<1>6. Handles(proc') = Handles(proc) - 1
  BY <1>1, <1>2, <1>3, <1>4, HandlesChange
<1> DEFINE n == Handles(proc') + Len(rel) + Armed(of)
<1>7. n \in Nat /\ of.ref = n + 1 /\ Armed(of) \in 0..1 /\ Handles(proc') \in Nat
  BY <1>5, <1>6 DEF Armed
<1> HIDE DEF n
<1>8. \/ n = 0 /\ of' = NoFile
      \/ n > 0 /\ IsOpen(of') /\ of'.ref = n /\ of'.timer = of.timer
  BY <1>0, <1>5, <1>7, ReferenceGiven
<1>9. Referenced(of', proc', rel)
  <2>1. CASE n = 0 /\ of' = NoFile
    <3>1. Handles(proc') = 0 /\ Len(rel) = 0
      BY <1>5, <1>7, <2>1 DEF n
    <3>2. rel = <<>>
      BY <3>1 DEF IInv
    <3> QED BY <2>1, <3>1, <3>2 DEF Referenced
  <2>2. CASE IsOpen(of') /\ of'.ref = n /\ of'.timer = of.timer
    BY <2>2 DEF n, Referenced, Armed
  <2> QED BY <1>8, <2>1, <2>2
<1>10. c.open = (Call(p).op # "close")
  BY <1>2, <1>3
<1> QED BY <1>0, <1>1, <1>3, <1>4, <1>9, <1>10, Returns

----------------------------------------------------------------------------
(* A restart, and the theorem.                                            *)

LEMMA RestartFits ==
  ASSUME IInv, Restart
  PROVE  IInv'
<1> DEFINE rows == [t \in DOMAIN tab.rows |->
                      [tab.rows[t] EXCEPT !.status = IF @ \in {1, 2} THEN 0 ELSE @]]
           scripts == [p \in Procs |-> IF proc[p].open THEN Skip(user.scripts[p])
                                       ELSE user.scripts[p]]
<1>0. /\ UserFits(user) /\ TabFits(tab, ghost) /\ FilesFit(file) /\ RowsFit(tab.rows, ghost.rows)
      /\ DOMAIN tab = TabFields /\ DOMAIN ghost = GhostFields /\ proc \in [Procs -> ProcStates]
  BY DEF IInv, TabFits
<1>1. RowsFit(rows, ghost.rows)
  BY <1>0 DEF RowsFit, RowFields
<1> DEFINE entries == EntriesOf(rows)
<1>2. \E lost, pages, flags :
        /\ tab' = [tab EXCEPT !.rows = rows, !.lost = lost, !.pages = pages,
                              !.caching = "idle", !.entries = entries]
        /\ ghost' = Noting(ghost, flags)
  <2> DEFINE again == upl.pc \in {"cache", "del"} /\ upl.t \in DOMAIN rows
                      /\ (upl.t \notin DOMAIN file \/ Live(rows) # {upl.t})
             flags(lost) == (IF lost THEN {"noname"} ELSE {}) \cup
                            (IF again THEN {"again"} ELSE {}) \cup
                            (IF Locked /\ of.initial > 0 THEN {"halfcopied"} ELSE {})
  <2>1. PICK lost, pages :
          /\ tab' = [tab EXCEPT !.rows = rows, !.lost = lost, !.pages = pages,
                                !.caching = "idle", !.entries = entries]
          /\ ghost' = Noting(ghost, flags(lost))
    BY DEF Restart
  <2> HIDE DEF rows, entries, flags
  <2> QED BY <2>1
<1>3. /\ user' = [user EXCEPT !.restarts = @ - 1, !.scripts = scripts]
      /\ of' = NoFile /\ rel' = <<>> /\ file' = file
      /\ proc' = [p \in Procs |-> [pc |-> "idle", w |-> 0, n |-> 0, open |-> FALSE]]
  BY DEF Restart
<1>4. TabFits(tab', ghost')
  <2> HIDE DEF rows, entries
  <2>1. DOMAIN tab' = TabFields /\ tab'.rows = rows
    BY <1>0, <1>2 DEF TabFields
  <2>2. RowsFit(tab'.rows, ghost.rows)
    BY <1>1, <2>1
  <2>3. PICK flags : ghost' = Noting(ghost, flags)
    BY <1>2
  <2>4. TabFits(tab', Noting(ghost, flags))
    BY <1>0, <2>1, <2>2, TabSet
  <2> QED BY <2>3, <2>4
<1>5. ASSUME NEW p \in Procs PROVE scripts[p] \in Seq(Operations) /\ OpensAndCloses(scripts[p], FALSE)
  <2>1. user.scripts[p] \in Seq(Operations) /\ OpensAndCloses(user.scripts[p], proc[p].open)
    BY <1>0 DEF UserFits, IInv, CallFits
  <2>2. CASE proc[p].open
    BY <2>1, <2>2, SkipFits
  <2>3. CASE ~proc[p].open
    <3>1. proc[p].open = FALSE
      BY <1>0, <2>3 DEF ProcStates
    <3> QED BY <2>1, <3>1
  <2> QED BY <2>2, <2>3
<1>6. scripts \in [Procs -> Seq(Operations)]
  BY <1>5
<1>7. UserFits(user') /\ user'.scripts = scripts
  <2> HIDE DEF scripts
  <2> QED BY <1>0, <1>3, <1>6 DEF UserFits, UserFields
<1>8. proc' \in [Procs -> ProcStates]
  BY <1>3 DEF ProcStates
<1>9. ASSUME NEW p \in Procs PROVE CallFits(user'.scripts[p], proc'[p], of')
  <2>1. proc'[p].pc = "idle" /\ proc'[p].open = FALSE
    BY <1>3
  <2> HIDE DEF scripts
  <2> QED BY <1>5, <1>7, <2>1 DEF CallFits
<1>10. Referenced(of', proc', rel')
  BY <1>3 DEF Referenced, Handles, Procs
<1>11. rel' \in Seq(Releases) /\ FilesFit(file')
  BY <1>0, <1>3
<1> QED BY <1>4, <1>7, <1>8, <1>9, <1>10, <1>11 DEF IInv

\* Every step of a program, a thread, the timer, the diff or a restart keeps it.
LEMMA StepFits ==
  ASSUME IInv, [Next]_vars
  PROVE  IInv'
<1>1. ASSUME NEW p \in Procs, Calls(p) PROVE IInv'
  BY <1>1, OpenFits, ChangeFits, CreateFilesFits, FillFits, FlushFits, FlushedFits, CloseFits
     DEF Calls
<1>2. CASE UNCHANGED vars
  BY <1>2 DEF vars, IInv
<1> QED BY <1>1, <1>2, ReleasingFits, UploadingFits, UploadingLargeFits, CachingFits, DiffFits,
           RestartFits DEF Next

\* Ids are those of rows that were made, every call is the one its program is at,
\* a call that took the mutex of the file in psync_fs_write or psync_fs_ftruncate
\* has a file with a row, and the references are those of the handles, the timer
\* and the threads that psync_fs_write_timer started.
THEOREM WriteInvariant == Spec => []IInv
<1>1. Init => IInv
  BY InitFits
<1>2. IInv /\ [Next]_vars => IInv'
  BY StepFits
<1> QED BY <1>1, <1>2, PTL DEF Spec

\* Whatever the programs, the timer, the threads and the restarts do in whatever
\* order, the open file has one reference for each of those that will give one up:
\* psync_fs_dec_of_refcnt never frees a file that is in use, and frees every other.
\* Every row has a status of its own, and the files are those of rows.
THEOREM ReferencesAreRight == Spec => []TypeOK
BY WriteInvariant, InvariantSays, PTL
=============================================================================
