----------------------------- MODULE WriteFile -----------------------------
(***************************************************************************)
(* Writing to a file of the virtual drive: the open file (pfs.c), its data *)
(* file and index, and the row of fstask that stands for its upload.       *)
(*                                                                         *)
(* There is one file; the server has it from the start.  Contents are      *)
(* sequences of units, 0 is a hole; the content is its own hash.  0 is the *)
(* server's file as an id of an open file, t > 0 the file of task t (-t in *)
(* the code).  At most one psync_openfile_t exists at a time: the file is  *)
(* not opened with O_TRUNC while it is open and not being written.         *)
(***************************************************************************)
EXTENDS Integers, FiniteSets, SequencesExt

CONSTANTS
    Workloads,      \* what two programs do, see user
    PageUnits,      \* PSYNC_FS_PAGE_SIZE
    ConvertLimit,   \* PSYNC_FS_MAX_SIZE_CONVERT_NEWFILE
    DirectLimit     \* PSYNC_FS_DIRECT_UPLOAD_LIMIT

ASSUME SizesAssumption == {PageUnits, ConvertLimit, DirectLimit} \subseteq Nat \ {0}

\* What programs do: each opens the file, writes to it or changes its size, flushes
\* and closes it, as the kernel lets them, before it opens it again.
Procs == 1..2
Operations ==
    [op : {"open", "trunc", "write", "size", "flush", "close"}, at : Nat, v : Int]
OpensAndCloses(s, open) ==
    \A i \in DOMAIN s :
        /\ s[i].op \in {"open", "trunc"} <=> IF i = 1 THEN ~open ELSE s[i - 1].op = "close"
        /\ i = Len(s) => s[i].op = "close"

ASSUME WorkloadsAssumption ==
    \A w \in Workloads :
        /\ w \in [content : Seq(Int), cached : BOOLEAN, scripts : [Procs -> Seq(Operations)],
                  faults : Nat, restarts : Nat, timers : Nat, late : Nat]
        /\ \A p \in Procs : OpensAndCloses(w.scripts[p], FALSE)

VARIABLES
    user,   \* [scripts, faults, restarts, timers, late]: still to happen
    proc,   \* the two programs' calls: [pc, w, n, open]
    of,     \* the psync_openfile_t, or NoFile
    file,   \* task id -> [d, i]: the data file and what its index covers
    tab,    \* fstask (rows, entries of the overlay, lost: the first of them has
            \* no file id that fits), file (mir), the page cache and its tasks
    srv,    \* [now, saved, diff]: the server's file, what it ever was, the
            \* answer to diff that is being entered
    rel,    \* the threads the write timer started: [w, n, pc]
    upl,    \* the thread of small uploads
    big,    \* the thread of large uploads
    ghost   \* [last, versions, rows, known]: what was written, see FsWrite

vars == <<user, proc, of, file, tab, srv, rel, upl, big, ghost>>

NoFile == [id |-> -1]
Noting(g, flags) == [g EXCEPT !.known = @ \cup flags]
Without(f, S) == Restrict(f, DOMAIN f \ S)
Extended(f, k, v) == [x \in DOMAIN f \cup {k} |-> IF x = k THEN v ELSE f[x]]
Larger(a, b) == IF a > b THEN a ELSE b
Smaller(a, b) == IF a < b THEN a ELSE b

----------------------------------------------------------------------------
(* Contents, and the cache of pages that have been read or written. *)

Resize(c, n) == [k \in 1..n |-> IF k <= Len(c) THEN c[k] ELSE 0]
Put(c, at, v) == [Resize(c, Larger(Len(c), at)) EXCEPT ![at] = v]

\* Units a page holds of n units.
Units(n, page) == ((page - 1) * PageUnits + 1)..Smaller(page * PageUnits, n)
NumPages(n) == (n + PageUnits - 1) \div PageUnits
PageOf(h, c, page) ==
    [h |-> h, n |-> page, data |-> [k \in Units(Len(c), page) |-> c[k]]]
PagesOf(c) == {PageOf(c, c, n) : n \in 1..NumPages(Len(c))}
CachedPage(P, h, n) == {q \in P : q.h = h /\ q.n = n}
AddPages(P, new) == P \cup {q \in new : CachedPage(P, q.h, q.n) = {}}

ppagecache_have_all_pages(h) ==
    \A n \in 1..NumPages(Len(h)) : CachedPage(tab.pages, h, n) # {}
\* What it wrote to an empty file when it came to the first page that is missing.
ppagecache_copy_to_file(h) ==
    LET page(k) == 1 + (k - 1) \div PageUnits
        copied == {k \in 1..Len(h) : \A n \in 1..page(k) : CachedPage(tab.pages, h, n) # {}}
    IN [k \in 1..Cardinality(copied) |->
           (CHOOSE q \in CachedPage(tab.pages, h, page(k)) : TRUE).data[k]]

----------------------------------------------------------------------------
(* The rows of fstask for this file: all have its name. *)

NewId == 1 + Max(DOMAIN tab.rows \cup {0})
WithoutArrows(rows, t) == [i \in DOMAIN rows |-> [rows[i] EXCEPT !.after = @ \ {t}]]
HasArrows(rows, t) == \E i \in DOMAIN rows : t \in rows[i].after
WithoutRow(rows, t) == WithoutArrows(Without(rows, {t}), t)
WithStatus(rows, t, s) ==
    [i \in DOMAIN rows |-> IF i = t THEN [rows[i] EXCEPT !.status = s] ELSE rows[i]]
Live(rows) == {i \in DOMAIN rows : rows[i].status # 3}
NewRow(type, base) ==
    [type |-> type, status |-> 1, int1 |-> 0, base |-> base, after |-> Live(tab.rows)]

\* psync_fstask_find_creat without a task id: the one that came first.
Entry == IF tab.entries = <<>> THEN 0 ELSE Head(tab.entries)
WithoutEntry(t) ==
    IF \E k \in DOMAIN tab.entries : tab.entries[k] = t
    THEN RemoveAt(tab.entries, CHOOSE k \in DOMAIN tab.entries : tab.entries[k] = t)
    ELSE tab.entries

psync_fstask_add_creat(base) ==
    [tab EXCEPT !.rows = Extended(@, NewId, NewRow("creat", base)),
                !.entries = Append(@, NewId), !.lost = FALSE]
\* It takes the entry that is there off the overlay.
psync_fstask_add_modified_file(base) ==
    [tab EXCEPT
        !.rows = Extended(@, NewId, [NewRow("modify", base) EXCEPT
                                       !.after = @ \cup ({Entry} \ {0})]),
        !.entries = Append(WithoutEntry(Entry), NewId), !.lost = FALSE]
\* Ids come back.  Not here the one of a row that clean_stuck_tasks deleted
\* before the page cache had the file: see the README.
FreshId == NewId \notin {tab.cache[k].t : k \in DOMAIN tab.cache}

Released(row, w) ==
    IF row.status = 1 THEN [row EXCEPT !.status = 0, !.int1 = w]
    ELSE [row EXCEPT !.int1 = Larger(@, w)]
\* The row is released for upload with write id w, unless a large upload or a
\* release before this one has it.  Its id is read now; when the open file was
\* locked, n rows had been made.
Release(w, n) ==
    IF of.id \notin DOMAIN tab.rows THEN UNCHANGED <<tab, upl, ghost>>
    ELSE /\ tab' = [tab EXCEPT !.rows[of.id] = Released(@, w)]
         /\ upl' = IF tab.rows[of.id].status = 1 THEN [upl EXCEPT !.wake = TRUE] ELSE upl
         /\ ghost' = IF ghost.rows = n THEN ghost ELSE Noting(ghost, {"otherrow"})

----------------------------------------------------------------------------
(* The open file. *)

Locked == \E p \in Procs : proc[p].pc \in {"create", "fill"}     \* of->mutex
Idle(p) == proc[p].pc = "idle" /\ user.scripts[p] # <<>>
Call(p) == Head(user.scripts[p])
Done(p) == user' = [user EXCEPT !.scripts[p] = Tail(@)]
\* The program gives up what it meant to do with the file it could not open.
Skip(s) ==
    LET opens == {k \in 2..Len(s) : s[k].op \in {"open", "trunc"}}
    IN IF opens = {} THEN <<>> ELSE SubSeq(s, Min(opens), Len(s))

psync_fs_create_file(id, newfile, size, base, w) ==
    [id |-> id, newfile |-> newfile, modified |-> id > 0, released |-> FALSE,
     writeid |-> w, size |-> size, initial |-> size, hash |-> base, local |-> {},
     ref |-> 1, timer |-> "none"]
psync_fs_dec_of_refcnt(o) == IF o.ref = 1 THEN NoFile ELSE [o EXCEPT !.ref = @ - 1]

\* An upload of what is released is stopped; the timer starts again, unless it
\* is running already.
psync_fs_inc_writeid_locked(o) ==
    [o EXCEPT !.released = FALSE, !.writeid = @ + 1,
              !.ref = IF o.timer = "none" THEN @ + 1 ELSE @,
              !.timer = IF @ = "running" THEN @ ELSE "armed"]
psync_fsupload_stop_upload_locked ==
    /\ big' = IF of.released /\ big.current = of.id THEN [big EXCEPT !.stop = TRUE] ELSE big
    /\ tab' = IF of.released THEN [tab EXCEPT !.rows = WithStatus(@, of.id, 1)] ELSE tab

\* Mutant: the index does not know of what a larger size adds.
psync_fs_modfile_check_size_ok_NoIndex(s, n) ==
    IF s.o.size >= n THEN s
    ELSE [s EXCEPT !.f.d = Resize(@, n), !.o.size = IF s.o.newfile THEN @ ELSE n]

\* What a write or a change of size does to [o, f]: an open file that is being
\* written, and its data file with its index.
psync_fs_modfile_check_size_ok(s, n) ==
    IF s.o.size >= n THEN s
    ELSE IF s.o.newfile THEN [s EXCEPT !.f.d = Resize(@, n)]
    ELSE [s EXCEPT !.f = [d |-> Resize(@.d, n), i |-> @.i \cup (s.o.size + 1)..n],
                   !.o = [s.o EXCEPT !.local = @ \cup (s.o.size + 1)..n, !.size = n]]
psync_fs_write_newfile(s, at, v) ==
    [s EXCEPT !.f.d = Put(@, at, v), !.o.size = Larger(@, at)]
psync_fs_write_modified(s, at, v) ==
    LET e == psync_fs_modfile_check_size_ok(s, at - 1)
    IN [e EXCEPT !.f = [d |-> Put(@.d, at, v), i |-> @.i \cup {at}],
                 !.o = [e.o EXCEPT !.local = @ \cup {at}, !.size = Larger(@, at)]]
psync_fs_ftruncate_of_locked(s, n) ==
    LET e == psync_fs_modfile_check_size_ok(s, n)
    IN [e EXCEPT !.f.d = Resize(@, n), !.o.size = n]
Applied(s, c) ==
    CASE c.op = "size" -> psync_fs_ftruncate_of_locked(s, c.at)
      [] c.op = "write" /\ s.o.newfile -> psync_fs_write_newfile(s, c.at, c.v)
      [] OTHER -> psync_fs_write_modified(s, c.at, c.v)

\* What the program then expects to read.
Expected(c) ==
    LET new == CASE c.op = "write" -> Put(ghost.last, c.at, c.v)
                 [] c.op = "size" -> Resize(ghost.last, c.at)
                 [] c.op = "trunc" -> <<>>
    IN [ghost EXCEPT !.last = new, !.versions = @ \cup {new}]

----------------------------------------------------------------------------
(* psync_fs_open. *)

\* An upload of t has begun, and its write id is going to be right.
InFlight(t) == (upl.pc # "idle" /\ upl.t = t) \/ (big.pc \notin {"off", "pick"} /\ big.t = t)

\* The upload of row t was under way when the row was released and the write
\* id is what it was: only the status tells that it is released.
Forgets(t) == of # NoFile /\ of.released /\ tab.rows[t].status = 1

OpenFile(t) ==
    LET row == tab.rows[t]
    IN IF of # NoFile THEN [of EXCEPT !.ref = @ + 1]
       ELSE psync_fs_create_file(t, row.type = "creat", 0, row.base, row.int1)
DataOf(t) == IF t \in DOMAIN file THEN file[t] ELSE [d |-> <<>>, i |-> {}]

\* The file is waiting to be uploaded.  open_write_files: a data file that is
\* open is truncated like by ftruncate, one that is not by O_TRUNC.
OpenTask(p, t) ==
    LET trunc == Call(p).op = "trunc"
        o == [OpenFile(t) EXCEPT !.released = tab.rows[t].status # 1]
        f == IF trunc THEN [d |-> <<>>, i |-> {}] ELSE DataOf(t)
        loses == trunc /\ of = NoFile /\ f # DataOf(t) /\ InFlight(t)
    IN /\ ghost' = Noting(IF trunc THEN Expected(Call(p)) ELSE ghost,
                          (IF loses THEN {"truncated"} ELSE {})
                          \cup (IF Forgets(t) THEN {"forgotten"} ELSE {}))
       /\ IF of = NoFile
          THEN /\ file' = Extended(file, t, f)
               /\ of' = [o EXCEPT !.size = Len(f.d), !.local = f.i,
                                  !.initial = IF trunc \/ o.newfile THEN 0 ELSE Len(o.hash)]
               /\ UNCHANGED <<tab, big>>
          ELSE IF trunc /\ o.size > 0
          THEN LET s == psync_fs_ftruncate_of_locked(
                            [o |-> psync_fs_inc_writeid_locked(o), f |-> file[t]], 0)
               IN /\ of' = s.o
                  /\ file' = [file EXCEPT ![t] = s.f]
                  /\ IF o.released
                     THEN /\ big' = IF big.current = t THEN [big EXCEPT !.stop = TRUE] ELSE big
                          /\ tab' = [tab EXCEPT !.rows = WithStatus(@, t, 1)]
                     ELSE UNCHANGED <<tab, big>>
          ELSE of' = o /\ UNCHANGED <<file, tab, big>>

\* The file is what the server has.
OpenServer ==
    /\ of' = IF of # NoFile THEN [of EXCEPT !.ref = @ + 1]
             ELSE psync_fs_create_file(0, FALSE, Len(tab.mir), tab.mir, 0)
    /\ UNCHANGED <<file, tab, big, ghost>>

\* O_TRUNC: a new file takes its place.
Recreate(p) ==
    /\ of = NoFile /\ FreshId
    /\ tab' = psync_fstask_add_creat(<<>>)
    /\ of' = psync_fs_create_file(NewId, TRUE, 0, <<>>, 0)
    /\ file' = Extended(file, NewId, [d |-> <<>>, i |-> {}])
    /\ ghost' = [Expected(Call(p)) EXCEPT !.rows = @ + 1]
    /\ UNCHANGED big

Open(p) ==
    /\ Idle(p) /\ Call(p).op \in {"open", "trunc"} /\ ~Locked
    /\ UNCHANGED <<srv, rel, upl>>
    /\ IF Entry # 0 /\ (tab.lost \/ Entry \notin DOMAIN tab.rows)
       THEN /\ user' = [user EXCEPT !.scripts[p] = Skip(@)]        \* ENOENT
            /\ UNCHANGED <<proc, of, file, tab, big, ghost>>
       ELSE /\ of = NoFile \/ of.id = Entry
            /\ Done(p)
            /\ proc' = [proc EXCEPT ![p].open = TRUE]
            /\ IF Entry # 0 THEN OpenTask(p, Entry)
               ELSE IF Call(p).op = "trunc" THEN Recreate(p)
               ELSE OpenServer

----------------------------------------------------------------------------
(* psync_fs_write, psync_fs_ftruncate. *)

\* A small file of which all pages are there becomes a new file, others are
\* written over the revision the server has.
psync_fs_reopen_file_for_writing(p) ==
    LET o == [psync_fs_inc_writeid_locked(of) EXCEPT !.id = NewId]
    IN /\ FreshId
       /\ \/ /\ of.initial = 0 \/ (of.initial <= ConvertLimit /\ ppagecache_have_all_pages(of.hash))
             /\ tab' = psync_fstask_add_creat(of.hash)
             /\ of' = [o EXCEPT !.newfile = TRUE, !.modified = TRUE]
             /\ ghost' = [ghost EXCEPT !.rows = @ + 1]
          \/ /\ of.initial > 0
             /\ tab' = psync_fstask_add_modified_file(of.hash)
             /\ of' = o
             /\ ghost' = Noting([ghost EXCEPT !.rows = @ + 1],
                               IF of.local = {} THEN {} ELSE {"stalelocal"})
       /\ proc' = [proc EXCEPT ![p].pc = "create"]
       /\ UNCHANGED <<user, file, big>>

Change(p) ==
    /\ Idle(p) /\ Call(p).op \in {"write", "size"} /\ proc[p].open /\ ~Locked
    /\ UNCHANGED <<srv, rel, upl>>
    /\ IF Call(p).op = "size" /\ of.size = Call(p).at
       THEN Done(p) /\ UNCHANGED <<proc, of, file, tab, big, ghost>>
       ELSE IF of.modified
       THEN LET s == Applied([o |-> psync_fs_inc_writeid_locked(of), f |-> file[of.id]], Call(p))
            IN /\ psync_fsupload_stop_upload_locked
               /\ of' = s.o
               /\ file' = [file EXCEPT ![of.id] = s.f]
               /\ ghost' = Expected(Call(p))
               /\ Done(p) /\ UNCHANGED proc
       ELSE psync_fs_reopen_file_for_writing(p)

\* open_write_files after the row is there: O_CREAT alone.
CreateFiles(p) ==
    /\ proc[p].pc = "create"
    /\ file' = Extended(file, of.id, DataOf(of.id))
    /\ proc' = [proc EXCEPT ![p].pc = "fill"]
    /\ UNCHANGED <<user, of, tab, srv, rel, upl, big, ghost>>

\* The pages are copied, or the data file is given its size; then the write.  A
\* page may be gone by now: the call fails, and leaves a file that is not whole.
Fill(p) ==
    /\ proc[p].pc = "fill"
    /\ LET f == file[of.id]
           o == [of EXCEPT !.modified = TRUE, !.size = of.initial, !.local = @ \cup f.i]
           s == IF of.newfile
                THEN [o |-> [of EXCEPT !.size = of.initial],
                      f |-> [f EXCEPT !.d = ppagecache_copy_to_file(of.hash)]]
                ELSE [o |-> o, f |-> [f EXCEPT !.d = Resize(@, of.initial)]]
           t == Applied(s, Call(p))
       IN IF of.newfile /\ ~ppagecache_have_all_pages(of.hash)
          THEN /\ file' = [file EXCEPT ![of.id] = s.f]
               /\ ghost' = Noting(ghost, {"uncopied"})
               /\ UNCHANGED of
          ELSE /\ of' = t.o /\ file' = [file EXCEPT ![of.id] = t.f]
               /\ ghost' = Expected(Call(p))
    /\ Done(p) /\ proc' = [proc EXCEPT ![p].pc = "idle"]
    /\ UNCHANGED <<tab, srv, rel, upl, big>>

----------------------------------------------------------------------------
(* psync_fs_flush, psync_fs_release, and the write timer. *)

\* Mutant: the reference of the timer is kept.
Disarmed_Kept(o) == IF o.timer = "armed" THEN [o EXCEPT !.timer = "none"] ELSE o
Disarmed(o) == IF o.timer = "armed" THEN [o EXCEPT !.timer = "none", !.ref = @ - 1] ELSE o

Flush(p) ==
    /\ Idle(p) /\ Call(p).op \in {"flush", "close"} /\ proc[p].open /\ ~Locked
    /\ IF of.modified
       THEN /\ of' = Disarmed([of EXCEPT !.released = TRUE])
            /\ proc' = [proc EXCEPT ![p] = [@ EXCEPT !.pc = "flushed", !.w = of.writeid, !.n = ghost.rows]]
            /\ UNCHANGED user
       ELSE IF Call(p).op = "close"
       THEN /\ proc' = [proc EXCEPT ![p].pc = "close"]
            /\ UNCHANGED <<user, of>>
       ELSE Done(p) /\ UNCHANGED <<of, proc>>
    /\ UNCHANGED <<file, tab, srv, rel, big, upl, ghost>>

\* Without the mutex, of->fileid may be another one by now.
Flushed(p) ==
    /\ proc[p].pc = "flushed"
    /\ Release(proc[p].w, proc[p].n)
    /\ proc' = [proc EXCEPT ![p] =
                  [@ EXCEPT !.pc = IF Call(p).op = "close" THEN "close" ELSE "idle",
                            !.w = 0, !.n = 0]]
    /\ IF Call(p).op = "close" THEN UNCHANGED user ELSE Done(p)
    /\ UNCHANGED <<of, file, srv, rel, big>>

Close(p) ==
    /\ proc[p].pc = "close" /\ ~Locked
    /\ of' = psync_fs_dec_of_refcnt(of)
    /\ proc' = [proc EXCEPT ![p].pc = "idle", ![p].open = FALSE]
    /\ Done(p)
    /\ UNCHANGED <<file, tab, srv, rel, upl, big, ghost>>

TimerDue ==
    /\ user.timers > 0 /\ of # NoFile
    /\ of.timer = "armed"
    /\ of' = [of EXCEPT !.timer = "running"]
    /\ user' = [user EXCEPT !.timers = @ - 1]
    /\ UNCHANGED <<proc, file, tab, srv, rel, upl, big, ghost>>

psync_fs_write_timer ==
    /\ of # NoFile
    /\ of.timer = "running" /\ ~Locked
    /\ LET o == [of EXCEPT !.timer = "none"]
       IN IF of.modified /\ ~of.released
          THEN /\ of' = [o EXCEPT !.released = TRUE]
               /\ rel' = Append(rel, [w |-> of.writeid, n |-> ghost.rows, pc |-> "row"])
          ELSE of' = psync_fs_dec_of_refcnt(o) /\ UNCHANGED rel
    /\ UNCHANGED <<user, proc, file, tab, srv, upl, big, ghost>>

psync_fs_upload_release_timer(k) ==
    /\ rel[k].pc = "row"
    /\ Release(rel[k].w, rel[k].n)
    /\ rel' = [rel EXCEPT ![k].pc = "done"]
    /\ UNCHANGED <<user, proc, of, file, srv, big>>

ReleaseEnds(k) ==
    /\ rel[k].pc = "done" /\ ~Locked
    /\ of' = psync_fs_dec_of_refcnt(of)
    /\ rel' = RemoveAt(rel, k)
    /\ UNCHANGED <<user, proc, file, tab, srv, upl, big, ghost>>
=============================================================================
