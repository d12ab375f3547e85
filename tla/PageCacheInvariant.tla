------------------------- MODULE PageCacheInvariant -------------------------
(***************************************************************************)
(* The inductive invariant of the page cache (ppagecache.c): what holds    *)
(* between any two steps of its threads, and which the promises of         *)
(* PageCache rest on.                                                      *)
(***************************************************************************)
EXTENDS PageCache, FiniteSetTheorems, Induction

Threads == Getters \cup Flushers
Maps(S, T) == UNION {[D -> T] : D \in SUBSET S}

\* Readers that go over their pages, and those that have.
Looking == {"file", "memory", "row", "pread", "auth", "mark"}
Passed == {"ahead", "more", "wait"}

----------------------------------------------------------------------------
(* Types. *)

Pages == [key : Nat, type : {"none", "read", "cache"}]
ReaderStates ==
    [pc : {"idle"} \cup Looking \cup Passed, i : Nat \ {0}, ids : Maps(Keys, Nat),
     todo : Seq(Keys), pending : SUBSET Keys, got : Maps(Keys, Nat), err : BOOLEAN]
Requested == [pc : {"off", "page", "hash", "error"}, keys : Seq(Keys), k : Nat \ {0}]
GetStates == {"no", "want", "first", "second", "wait", "woken", "flushing", "flushed", "got"}
FlushStates ==
    [running : Int, run : BOOLEAN, since : BOOLEAN, spawned : SUBSET Threads,
     owes : SUBSET Getters, queue : SUBSET Threads, by : Threads \cup {"none"},
     step : {"off", "counted", "failed", "syncs", "commits"}, free : Nat,
     todo : Maps(Slots, Nat)]

TypeUser ==
    user \in [reads : [Readers -> Seq(Reads)], adds : Seq(Keys), fails : Int, errors : Int,
              shrinks : Int, full : BOOLEAN, timer : BOOLEAN, cached : Seq(Nat),
              stored : Seq(Nat)]
TypeMem ==
    mem \in [page : [Slots -> Pages], free : SUBSET Slots, hash : SUBSET Slots,
             nfree : Int, nhash : Int]
TypeDb == db \in [row : Seq(Nat), file : Seq(Nat), nfree : Int, used : BOOLEAN]
TypeRd == rd \in [Readers -> ReaderStates]
TypeFetch == fetch \in [Fetchers -> Requested]
TypeGet == get \in [Getters -> GetStates]
TypeHeld == held \in [Getters -> {0} \cup Slots]
TypeFl == fl \in FlushStates
TypeClean ==
    clean \in [due : BOOLEAN, pc : {"off", "freeing"}, ids : SUBSET Nat] /\ IsFiniteSet(clean.ids)
TypeShrink ==
    shrink \in [pc : {"off", "exists", "add"}, page : {0} \cup Slots, key : Nat, size : Nat]
TypeGhost ==
    ghost \in [known : SUBSET {"rows", "uncounted", "ignored"}, reused : SUBSET Readers,
               cut : SUBSET Nat]
TypeWaits == waits \in Maps(Keys, SUBSET Readers)
TypeAdd == add \in {"off", "page", "hash"} /\ wlock \in Readers \cup {"none"}
Types ==
    /\ TypeUser /\ TypeMem /\ TypeDb /\ TypeRd /\ TypeFetch /\ TypeGet /\ TypeHeld /\ TypeFl
    /\ TypeClean /\ TypeShrink /\ TypeGhost /\ TypeWaits /\ TypeAdd

----------------------------------------------------------------------------
(* Threads and the pages they hold.                                         *)

\* A thread holds a page from psync_pagecache_get_free_page until it returns or
\* hashes it, and at no other time.
Holds(t) ==
    \/ get[t] = "got"
    \/ t \in Fetchers /\ fetch[t].pc = "hash"
    \/ t = "add" /\ add = "hash"
Hands == \A t \in Getters : held[t] # 0 <=> Holds(t)

\* Who asks for a page has a use for it.
Asking ==
    /\ \A f \in Fetchers : get[f] # "no" => fetch[f].pc = "page"
    /\ get["add"] # "no" => add = "page"
    /\ add # "off" => user.adds # <<>>
    /\ \A f \in Fetchers : IF fetch[f].pc = "off" THEN fetch[f].keys = <<>>
                           ELSE fetch[f].k \in DOMAIN fetch[f].keys

\* A thread is in flush_pages once, and waits for nothing else there.
Flushing ==
    /\ \A t \in Getters :
          t \in fl.spawned \cup fl.queue \cup {fl.by} => get[t] \in {"first", "flushing"}
    /\ fl.spawned \cap fl.queue = {} /\ fl.by \notin fl.spawned \cup fl.queue
Control == Hands /\ Asking /\ Flushing

\* A page of memory is free, in the hash, or in one thread's hands.
Places ==
    /\ mem.free \cap mem.hash = {}
    /\ \A t \in Getters : held[t] # 0 => held[t] \notin mem.free \cup mem.hash
    /\ \A t, u \in Getters : held[t] # 0 /\ held[t] = held[u] => t = u
    /\ shrink.page # 0 => /\ shrink.page \notin mem.free \cup mem.hash
                          /\ \A t \in Getters : held[t] # shrink.page
    /\ \A s \in Slots :
          s \in mem.free \cup mem.hash \/ s = shrink.page \/ \E t \in Getters : s = held[t]

\* What is in the hash has a key.
Hashed == \A s \in mem.hash : mem.page[s].key # 0

PagesCounted ==
    /\ "uncounted" \in ghost.known \/ mem.nfree = Cardinality(mem.free)
    /\ "ignored" \in ghost.known \/ mem.nhash = Cardinality(mem.hash)

----------------------------------------------------------------------------
(* The table and the file, between the steps of those that change them.     *)

\* While the file's last page is given up, its row is the table's last one and no
\* flush runs.
Shrinking ==
    /\ shrink.pc # "off" <=> shrink.page # 0
    /\ shrink.pc # "off" =>
          /\ fl.by = "none" /\ shrink.size = Len(db.row) /\ shrink.size <= Len(db.file)
          /\ shrink.size > 0 /\ shrink.key # 0

\* What a flush has written is still in the hash, each page at a row of its own that
\* is still free.
Picked ==
    /\ fl.by = "none" => fl.todo = <<>>
    /\ DOMAIN fl.todo \subseteq mem.hash
    /\ \A s, z \in DOMAIN fl.todo : fl.todo[s] = fl.todo[z] => s = z
    /\ \A s \in DOMAIN fl.todo : fl.todo[s] \in FreeIds /\ At(fl.todo[s]) = mem.page[s].key

RowsCounted ==
    /\ "rows" \in ghost.known \/ Recounting \/ db.nfree = Cardinality(FreeIds)
    /\ Len(db.row) < Word

\* A used row says what the file has, unless its page was cut off at a start.
Cut(i) == At(i) = 0 /\ i \in ghost.cut
Rowed == \A i \in DOMAIN db.row : db.row[i] # Free => At(i) = db.row[i] \/ Cut(i)

----------------------------------------------------------------------------
(* Readers. *)

\* A reader is at one of its pages, with the row it looked up.
Reading(r) ==
    /\ rd[r].pc = "idle" => rd[r] = NotReading
    /\ rd[r].pc # "idle" => user.reads[r] # <<>>
    /\ rd[r].pc \in Looking => rd[r].i \in DOMAIN Op(r).keys
    /\ rd[r].pc = "file" => rd[r].i = 1
    /\ rd[r].pc = "wait" => rd[r].todo = <<>>
    /\ rd[r].pc \in {"pread", "auth", "mark"} => DOMAIN rd[r].ids = {Key(r)}
    /\ get[r] # "no" => rd[r].pc = "auth"

\* It has, or waits for, each page it went over, unless there was an error.
Got(r, k) == k \in DOMAIN rd[r].got \cup rd[r].pending
Complete(r) ==
    rd[r].pc # "idle" /\ ~rd[r].err =>
       \A j \in DOMAIN Op(r).keys :
          rd[r].pc \in Passed \/ j < rd[r].i => Got(r, Op(r).keys[j])

\* What it has is right, and so is what it is about to read of the file without a
\* lock, unless the row was reused, or has no page in the middle of the file.
Right(r, k) == rd[r].got[k] = k \/ (rd[r].got[k] = 0 /\ ReadsZeros(r))
Finds(i, k) == i \in DOMAIN db.file => At(i) = k \/ Cut(i)
Given(r) ==
    \/ r \in ghost.reused
    \/ /\ \A k \in DOMAIN rd[r].got : Right(r, k)
       /\ rd[r].pc = "pread" => Finds(rd[r].ids[Key(r)], Key(r))
ReadingAll == \A r \in Readers : Reading(r) /\ Complete(r) /\ Given(r)

\* A reader waits for a page exactly when it is registered for it.
Waits ==
    \A r \in Readers, k \in Keys :
        k \in rd[r].pending <=> k \in DOMAIN waits /\ r \in waits[k]

\* A page that is registered will be told of: the request is not past it, or a
\* reader has it in its list.
StillAsks(f, k) ==
    \E j \in DOMAIN fetch[f].keys :
        /\ fetch[f].keys[j] = k
        /\ \/ fetch[f].pc = "page" /\ j >= fetch[f].k
           \/ fetch[f].pc = "hash" /\ j > fetch[f].k
           \/ fetch[f].pc = "error"
Served ==
    \A k \in DOMAIN waits :
        \/ \E f \in Fetchers : StillAsks(f, k)
        \/ \E r \in Readers : k \in Range(rd[r].todo)

----------------------------------------------------------------------------
IInv ==
    /\ Types /\ Control /\ Places /\ Hashed /\ PagesCounted
    /\ Shrinking /\ Picked /\ RowsCounted /\ Rowed
    /\ ReadingAll /\ Waits /\ Served
=============================================================================
