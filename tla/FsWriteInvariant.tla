-------------------------- MODULE FsWriteInvariant -------------------------
(***************************************************************************)
(* The inductive invariants behind the properties of FsWrite that are      *)
(* about contents (ReadsLastWritten, ServerHasVersions, PagesAreTrue): how *)
(* the data file, its index and its row, the open file, what an upload has *)
(* read, the server's file, table file and the cached pages agree on what  *)
(* was written last; and about what is uploaded in the end                 *)
(* (UploadsLastWritten): who looks at a row that waits to be uploaded.     *)
(***************************************************************************)
EXTENDS FsWrite

----------------------------------------------------------------------------
(* Types of what holds contents.                                          *)

Contents == Seq(Int)
Types == {"creat", "modify"}
DataFits(f) == DOMAIN f = {"d", "i"} /\ f.d \in Contents /\ f.i \subseteq Int
RowsTyped(rows) ==
  \A t \in DOMAIN rows : rows[t].type \in Types /\ rows[t].base \in Contents /\ rows[t].int1 \in Nat
FilesTyped(f) == \A t \in DOMAIN f : DataFits(f[t])
OpenTyped(o) ==
  o # NoFile =>
    /\ o.hash \in Contents /\ o.local \subseteq Int /\ o.size \in Nat /\ o.initial \in Nat
    /\ o.writeid \in Nat /\ o.newfile \in BOOLEAN /\ o.modified \in BOOLEAN
CacheTyped(c) == c \in Seq([t : Nat, type : Types, hash : Contents, old : Contents])
SmallTyped(u) ==
  /\ DOMAIN u = {"pc", "wake", "t", "w", "size", "data"}
  /\ u.t \in Nat /\ u.w \in Nat /\ u.size \in Nat /\ u.data \in Contents
LargeTyped(b) ==
  /\ DOMAIN b = {"pc", "current", "stop", "t", "w", "type", "base", "sum", "ints", "size", "data"}
  /\ b.current \in Nat /\ b.t \in Nat /\ b.w \in Nat /\ b.size \in Nat /\ b.type \in Types
  /\ b.base \in Contents /\ b.sum \in Contents /\ b.data \in Contents /\ b.ints \subseteq Int
SrvTyped(s) == DOMAIN s = {"now", "saved", "diff"} /\ s.now \in Contents

----------------------------------------------------------------------------
(* The inductive invariant.                                               *)

\* What a data file and its index show over the revision that was opened; where
\* the index has nothing that revision has.
Content(type, base, f) == Shown(type = "creat", TRUE, f, f.i, Len(f.d), base)
Sound(type, base, f) ==
  type = "modify" => \A k \in 1..Len(f.d) : k \in f.i \/ k <= Len(base)
Right(r, f, c) == Content(r.type, r.base, f) = c /\ Sound(r.type, r.base, f)

\* The row of an id, as far as contents go, and its data file.
NoRow == [type |-> "none"]
NoData == [d |-> <<>>]
Row(rows, e) ==
  IF e \in DOMAIN rows
  THEN [type |-> rows[e].type, base |-> rows[e].base,
        status |-> rows[e].status, int1 |-> rows[e].int1]
  ELSE NoRow
Data(f, e) == IF e \in DOMAIN f THEN f[e] ELSE NoData

\* The call that has the mutex makes a row, creates the data file, and fills it.
Stage(pr) ==
  IF \E p \in Procs : pr[p].pc = "create" THEN "create"
  ELSE IF \E p \in Procs : pr[p].pc = "fill" THEN "fill" ELSE "none"
Single(pr) ==
  \A p, q \in Procs :
    pr[p].pc \in {"create", "fill"} /\ pr[q].pc \in {"create", "fill"} => p = q

Entering(u) == IF u.pc \in {"cache", "del"} THEN {u.t} ELSE {}
Sending(u) == u.pc \in {"send", "rest", "check", "answer", "defer"}
SendingLarge(b) == b.pc \in {"sum", "parts", "index", "size", "modify", "read", "check", "meta"}
WriteId(o, row) == IF o # NoFile THEN o.writeid ELSE row.int1

\* The overlay has one name at most.  A row that is to be uploaded is the entry's,
\* or the one whose answer is being entered; the open file is the entry's.
OneName(t) ==
  /\ ~t.lost
  /\ \/ t.entries = <<>>
     \/ t.entries[1] \in Nat \ {0} /\ t.entries = <<t.entries[1]>>
Naming(e, rows, o, u) ==
  /\ Live(rows) \subseteq {e} \cup Entering(u)
  /\ e \notin Entering(u)
  /\ e \in DOMAIN rows => e \in Live(rows)
  /\ o # NoFile => o.id = e /\ (e # 0 => e \in DOMAIN rows)
  /\ \A t \in DOMAIN rows : rows[t].status = 2 => u.pc = "idle"

\* The server and the table file have what was written last, unless the entry has
\* a data file; the entry's row has one, unless the call that made it was killed
\* or is about to create it.
Filing(row, data, o, s, last, mir, now) ==
  /\ data = NoData => mir = last /\ now = last
  /\ data # NoData => row # NoRow
  /\ row # NoRow /\ data = NoData =>
       IF o = NoFile THEN row.type = "creat" /\ last = <<>> ELSE s = "create"
  /\ s = "create" => data = NoData
  /\ s = "fill" => data # NoData /\ data.d = <<>> /\ data.i = {}

\* A small upload whose answer is being entered was of what its data file has.
Entered(row, rows, f, u, last) ==
  u.pc \in {"cache", "del"} =>
    /\ u.t \in DOMAIN rows /\ rows[u.t].type = "creat" /\ rows[u.t].status \in {0, 1}
    /\ u.pc = "cache" => u.t \in DOMAIN f /\ f[u.t].d = u.data
    /\ u.pc = "del" => u.t \notin DOMAIN f
    /\ row = NoRow => u.data = last

\* So was a large one that the page cache is told of.
Handed(rows, f, c, caching) ==
  /\ \A k \in DOMAIN c :
       /\ c[k].t \notin Live(rows)
       /\ c[k].t \in DOMAIN f =>
            Right([type |-> c[k].type, base |-> c[k].old], f[c[k].t], c[k].hash)
  /\ caching = "del" => c # <<>> /\ c[1].t \notin DOMAIN f

\* The open file is what was written last.
OpenShows(row, data, o, s, last) ==
  o # NoFile =>
    /\ o.newfile => o.modified
    /\ o.id = 0 => /\ ~o.modified /\ s = "none" /\ o.hash = last
                   /\ o.size = Len(o.hash) /\ o.initial = Len(o.hash)
    /\ o.id # 0 => (o.newfile <=> row.type = "creat") /\ row.base = o.hash
    /\ s # "none" => /\ o.hash = last /\ o.initial = Len(o.hash) /\ row.status = 1
                     /\ o.modified => o.newfile
                     /\ ~o.newfile => o.local = {} /\ o.initial > 0
    /\ o.id # 0 /\ s = "none" =>
         /\ o.modified /\ data # NoData /\ o.size = Len(data.d)
         /\ ~o.newfile => o.local = data.i
Written(row, data, s, last) ==
  row # NoRow /\ data # NoData /\ s = "none" => Right(row, data, last)

\* A release to come has a write id the open file has or had, unless it is one of
\* a row before this; the last one to come leaves the row with the file's.
Fresh(w, n, o, s, made) ==
  /\ w \in Nat /\ n \in Nat /\ n <= made
  /\ n = made => s = "none" /\ o # NoFile /\ w <= o.writeid
Numbered(o, s, pr, r, made) ==
  /\ \A p \in Procs : pr[p].pc = "flushed" => Fresh(pr[p].w, pr[p].n, o, s, made)
  /\ \A k \in DOMAIN r : r[k].pc = "row" => Fresh(r[k].w, r[k].n, o, s, made)
Pending(w, n, pr, r) ==
  \/ \E p \in Procs : pr[p].pc = "flushed" /\ pr[p].w = w /\ pr[p].n = n
  \/ \E k \in DOMAIN r : r[k].pc = "row" /\ r[k].w = w /\ r[k].n = n
Busy(pr) == \E p \in Procs : pr[p].open /\ pr[p].pc \in {"idle", "create", "fill"}
Settles(row, o, pr, r, made) ==
  o # NoFile /\ o.id # 0 =>
    /\ row.int1 <= o.writeid
    /\ \/ row.int1 = o.writeid /\ row.status # 1
       \/ Pending(o.writeid, made, pr, r)
       \/ Busy(pr)

\* What an upload has read so far is what the data file has, unless the file was
\* written meanwhile: then its write id is larger.
Small(e, row, data, o, s, u, now) ==
  Sending(u) =>
    LET same == WriteId(o, row) = u.w
    IN /\ u.t = e /\ row # NoRow /\ row.status \in {0, 1}
       /\ s = "none" /\ WriteId(o, row) >= u.w
       /\ u.pc # "defer" => row.type = "creat"
       /\ u.pc \in {"rest", "check", "answer"} => data # NoData
       /\ u.pc = "rest" /\ same =>
            u.size = Len(data.d) /\ u.data = SubSeq(data.d, 1, Smaller(1, u.size))
       /\ u.pc \in {"check", "answer"} /\ same => u.data = data.d
       /\ u.pc = "answer" => now = u.data
LargeOne(e, row, data, o, s, u, b, now) ==
  SendingLarge(b) =>
    LET same == WriteId(o, row) = b.w
    IN /\ b.t = e /\ b.current = e /\ row # NoRow /\ u.pc = "idle"
       /\ s = "none" /\ WriteId(o, row) >= b.w
       /\ b.type = row.type /\ b.base = row.base
       /\ b.pc \in {"sum", "parts"} => b.type = "creat"
       /\ b.pc \in {"index", "size", "modify", "read"} => b.type = "modify"
       /\ b.pc \in {"parts", "size", "modify", "read", "check", "meta"} => data # NoData
       /\ b.pc = "parts" /\ same => b.sum = data.d
       /\ b.pc \in {"size", "modify", "read"} /\ same => b.ints = data.i
       /\ b.pc \in {"index", "size"} => b.data = <<>>
       /\ b.pc \in {"modify", "read"} /\ same =>
            /\ b.size = Len(data.d)
            /\ b.data = SubSeq(Content(b.type, b.base, data), 1, Len(b.data))
       /\ b.pc \in {"modify", "read"} => Len(b.data) <= b.size
       /\ b.pc = "read" => Len(b.data) + 1 \in b.ints /\ Len(b.data) < b.size
       /\ b.pc \in {"check", "meta"} /\ same => b.data = Content(b.type, b.base, data)
       /\ b.pc = "meta" => now = b.data

\* A cached page is one of the revision whose hash it has.
TruePages(pages) ==
  \A q \in pages : q.h \in Contents /\ q.n \in 1..NumPages(Len(q.h)) /\ q = PageOf(q.h, q.h, q.n)
Versions(g, saved) == g.last \in Contents /\ g.last \in g.versions /\ saved \subseteq g.versions

Typed ==
  /\ RowsTyped(tab.rows) /\ FilesTyped(file) /\ OpenTyped(of) /\ CacheTyped(tab.cache)
  /\ SmallTyped(upl) /\ LargeTyped(big) /\ SrvTyped(srv)
EntryRow == Row(tab.rows, Entry)
EntryData == Data(file, Entry)
CInv ==
  /\ Typed /\ Single(proc) /\ OneName(tab)
  /\ DOMAIN file \subseteq DOMAIN tab.rows
  /\ Naming(Entry, tab.rows, of, upl)
  /\ Filing(EntryRow, EntryData, of, Stage(proc), ghost.last, tab.mir, srv.now)
  /\ Entered(EntryRow, tab.rows, file, upl, ghost.last)
  /\ Handed(tab.rows, file, tab.cache, tab.caching)
  /\ OpenShows(EntryRow, EntryData, of, Stage(proc), ghost.last)
  /\ Written(EntryRow, EntryData, Stage(proc), ghost.last)
  /\ Numbered(of, Stage(proc), proc, rel, ghost.rows)
  /\ Settles(EntryRow, of, proc, rel, ghost.rows)
  /\ Small(Entry, EntryRow, EntryData, of, Stage(proc), upl, srv.now)
  /\ LargeOne(Entry, EntryRow, EntryData, of, Stage(proc), upl, big, srv.now)
  /\ TruePages(tab.pages) /\ Versions(ghost, srv.saved)
ContentsRight == ~Damaged => CInv

----------------------------------------------------------------------------
(* What is uploaded in the end: the inductive invariant behind              *)
(* UploadsLastWritten.                                                      *)

\* A row waits for the one whose answer is being entered, and for no other.
Arrows(e, rows, u) ==
  /\ e \in DOMAIN rows => rows[e].after = Entering(u)
  /\ \A t \in Entering(u) : rows[t].after = {}

\* A released row is going to be looked at: the uploader will run, or it is in
\* its hands, or in those of a large upload, and they give it up only to someone.
Looked(row, o, u, b) ==
  row # NoRow /\ row.status = 0 =>
    \/ u.wake \/ u.pc \in {"send", "rest", "check", "defer", "cache", "del"} \/ SendingLarge(b)
    \/ u.pc = "answer" /\ WriteId(o, row) = u.w
\* An upload is of the last release, or of an earlier state than the file's.
Sent(row, o, u) ==
  Sending(u) => (row.status = 0 /\ u.w <= row.int1) \/ u.w < WriteId(o, row)
Deferred(row, b) == row # NoRow /\ row.status = 2 => b.pc # "off"
Runs(b) == SendingLarge(b) \/ b.pc = "pick" \/ (b.pc = "off" /\ b.current = 0)

\* An open file knows that its row is released, so that the next write takes it
\* back, but for a release that was overtaken by a write; a closed one is.
Knows(row, o) ==
  row # NoRow =>
    /\ o = NoFile => row.status # 1
    /\ o # NoFile /\ row.status = 0 => o.released \/ row.int1 < o.writeid
Asks(w, n, o, made) == n = made /\ o # NoFile /\ o.id # 0 /\ w = o.writeid => o.released
Asked(o, pr, r, made) ==
  /\ \A p \in Procs : pr[p].pc = "flushed" => Asks(pr[p].w, pr[p].n, o, made)
  /\ \A k \in DOMAIN r : r[k].pc = "row" => Asks(r[k].w, r[k].n, o, made)

UInv ==
  /\ Arrows(Entry, tab.rows, upl)
  /\ Looked(EntryRow, of, upl, big)
  /\ Sent(EntryRow, of, upl)
  /\ Deferred(EntryRow, big) /\ Runs(big)
  /\ Knows(EntryRow, of)
  /\ Asked(of, proc, rel, ghost.rows)
Unnoticed == Damaged \/ Known({"forgotten", "skipped"})
UploadsAwake == ~Unnoticed => UInv
=============================================================================
