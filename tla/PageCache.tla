----------------------------- MODULE PageCache -----------------------------
(***************************************************************************)
(* The page cache of the virtual drive (ppagecache.c): pages in memory,    *)
(* pages in the cache file and their rows in table pagecache, readers that *)
(* wait for a page, the threads that fetch pages, the flush that moves     *)
(* them from memory to the file and the thread that makes rows free again. *)
(*                                                                         *)
(* A page of a file's revision (hash, pageid) is its key, a number, and    *)
(* its data is the key too; 0 is what a file does not have.                *)
(***************************************************************************)
EXTENDS Integers, FiniteSets, FiniteSetsExt, SequencesExt

CONSTANTS
    Readers,        \* threads that read
    Fetchers,       \* threads of requests, enough for every read
    Flushers,       \* threads that flush in the background: so many at a time, a bound
    CachePages,     \* CACHE_PAGES, more than there are threads that hold one
    DbPages,        \* db_cache_in_pages
    Word,           \* where a uint32_t starts from 0 again
    Workloads

ASSUME PagesAssumption ==
    /\ CachePages \in Nat \ {0} /\ DbPages \in Nat \ {0}
    /\ Word \in Nat /\ Word > 2 * CachePages + DbPages

ASSUME ThreadsAssumption ==
    /\ IsFiniteSet(Readers) /\ IsFiniteSet(Fetchers)
    /\ Readers \cap Fetchers = {} /\ (Readers \cup Fetchers) \cap Flushers = {}
    /\ {"none", "add"} \cap (Readers \cup Fetchers \cup Flushers) = {}

\* What is asked: some pages, whole or a part of one, those of authenticators, and
\* pages to read ahead.  What the last run left: the table, and the cache file from
\* page 0, where row i has its page at i, if at all: a start may have cut it off.
Keys == Nat \ {0}
Reads ==
    {q \in [keys : Seq(Keys) \ {<<>>}, full : BOOLEAN, auth : BOOLEAN, ahead : SUBSET Keys] :
        IsFiniteSet(q.ahead)}

ASSUME WorkloadsAssumption ==
    \A w \in Workloads :
        /\ w \in [reads : [Readers -> Seq(Reads)], adds : Seq(Keys), fails : Nat, errors : Nat,
                  shrinks : Nat, full : BOOLEAN, timer : BOOLEAN, cached : Seq(Nat),
                  stored : Seq(Nat)]
        /\ Len(w.cached) < Word
        /\ \A i \in DOMAIN w.cached : w.cached[i] # 0 /\ i + 1 \in DOMAIN w.stored
                => w.stored[i + 1] \in {0, w.cached[i]}

VARIABLES
    user,   \* [reads, adds, fails, errors, shrinks, full, timer, cached, stored]
    mem,    \* pages in memory: [page, free, hash, nfree, nhash]
    db,     \* [row, file, nfree, used]: table, cache file from page 1, free_db_pages
    waits,  \* wait_page_hash: key -> the readers that wait for it
    wlock,  \* who has wait_page_mutex
    rd,     \* the readers
    fetch,  \* the requests
    add,    \* the thread that puts uploaded files into the cache
    get,    \* where a thread is in psync_pagecache_get_free_page
    held,   \* the page it got there
    fl,     \* flush_pages: [running, run, since, spawned, owes, queue, by, step, free, todo]
    clean,  \* clean_cache: [due, pc, ids]
    shrink, \* psync_pagecache_free_page_from_read_cache: [pc, page, key, size]
    ghost   \* [known, reused, cut]

vars == <<user, mem, db, waits, wlock, rd, fetch, add, get, held, fl, clean, shrink, ghost>>

Slots == 1..CachePages
Getters == Readers \cup Fetchers \cup {"add"}
LowPages == (CachePages * 25) \div 100
Free == 0
FreeRows(rows) == {i \in DOMAIN rows : rows[i] = Free}
IdsOf(k) == {i \in DOMAIN db.row : db.row[i] = k}
FreeIds == IdsOf(Free)
InMemory(k) == {s \in mem.hash : mem.page[s].key = k}
At(i) == IF i \in DOMAIN db.file THEN db.file[i] ELSE 0
Known(why) == [ghost EXCEPT !.known = @ \cup why]

----------------------------------------------------------------------------
(* psync_pagecache_get_free_page: a page for thread t. *)

Wants(t, g) == [g EXCEPT ![t] = "want"]
Background == Flushers \ (fl.spawned \cup fl.queue \cup {fl.by})
Spawns(f) ==
    IF Background = {} THEN f
    ELSE [f EXCEPT !.spawned = @ \cup {CHOOSE x \in Background : TRUE}]
Takes(t, f) ==
    /\ mem' = [mem EXCEPT !.free = @ \ {Min(@)}, !.nfree = (@ - 1) % Word]
    /\ held' = [held EXCEPT ![t] = Min(mem.free)]
    /\ get' = [get EXCEPT ![t] = "got"]
    /\ fl' = IF t \in f.owes THEN Spawns([f EXCEPT !.owes = @ \ {t}]) ELSE f
FlushesItself(t, f, where) ==
    /\ get' = [get EXCEPT ![t] = where]
    /\ fl' = [f EXCEPT !.spawned = @ \cup {t}]
    /\ UNCHANGED <<mem, held>>
TakesOrWaits(t, f) ==
    IF mem.free # {} THEN Takes(t, f)
    ELSE IF f.running > 0
    THEN get' = [get EXCEPT ![t] = "wait"] /\ fl' = f /\ UNCHANGED <<mem, held>>
    ELSE FlushesItself(t, f, "flushing")

\* A low pool wakes a flush: in this thread if it is the one that adds files,
\* else in a thread that this one starts when it has its page.
Low == mem.nfree <= LowPages /\ ~fl.run
psync_pagecache_get_free_page(t) ==
    /\ \/ /\ get[t] = "want"
          /\ IF ~Low THEN TakesOrWaits(t, fl)
             ELSE IF t = "add" THEN FlushesItself(t, [fl EXCEPT !.run = TRUE], "first")
             ELSE TakesOrWaits(t, [fl EXCEPT !.run = TRUE, !.owes = @ \cup {t}])
       \/ get[t] \in {"second", "woken"} /\ TakesOrWaits(t, fl)
       \/ /\ get[t] = "flushed"
          /\ IF mem.free # {} THEN Takes(t, fl) ELSE FlushesItself(t, fl, "flushing")
    /\ UNCHANGED <<user, db, waits, wlock, rd, fetch, add, clean, shrink, ghost>>

\* Mutant: the page is not counted.
psync_pagecache_return_free_page_Uncounted(t) ==
    /\ mem' = [mem EXCEPT !.free = @ \cup {held[t]}]
    /\ held' = [held EXCEPT ![t] = 0]

psync_pagecache_return_free_page(t) ==
    /\ mem' = [mem EXCEPT !.free = @ \cup {held[t]}, !.nfree = (@ + 1) % Word]
    /\ held' = [held EXCEPT ![t] = 0]
IntoHash(t, k, type) ==
    /\ mem' = [mem EXCEPT !.page[held[t]] = [key |-> k, type |-> type],
                          !.hash = @ \cup {held[t]}, !.nhash = @ + 1]
    /\ held' = [held EXCEPT ![t] = 0]

----------------------------------------------------------------------------
(* Reading: ppagecache_read_unmod_locked, and for pages of authenticators    *)
(* request_auth_page.  The whole loop over the pages has wait_page_mutex.    *)

Op(r) == Head(user.reads[r])
Bulk(r) == Op(r).full /\ Len(Op(r).keys) > 1
Key(r) == Op(r).keys[rd[r].i]
NotReading ==
    [pc |-> "idle", i |-> 1, ids |-> <<>>, todo |-> <<>>, pending |-> {}, got |-> <<>>,
     err |-> FALSE]
Rows(K) == [k \in {k \in K : IdsOf(k) # {}} |-> Min(IdsOf(k))]
Put(got, k, d) == [x \in DOMAIN got \cup {k} |-> IF x = k THEN d ELSE got[x]]

Starts(r) == rd[r].pc = "idle" /\ user.reads[r] # <<>> /\ wlock = "none"

\* Aligned reads of several pages look for rows first; the CRC of every page is
\* checked.  Neighbours are read at once: when that fails, or when the file ends in
\* between, the right ones among them are not found either.
CountError(error) == IF error THEN [user EXCEPT !.errors = @ - 1] ELSE user
GoodPages(r, error) ==
    LET ids == rd[r].ids
        good == {k \in DOMAIN ids : At(ids[k]) = k}
    IN IF error \/ \E k \in DOMAIN ids : ids[k] \notin DOMAIN db.file
       THEN SUBSET good ELSE {good}
check_pages_in_database_by_hash(r) ==
    /\ \/ /\ Starts(r) /\ Bulk(r) /\ wlock' = r
          /\ rd' = [rd EXCEPT ![r].pc = "file", ![r].ids = Rows(Range(Op(r).keys))]
          /\ UNCHANGED <<user, db>>
       \/ /\ rd[r].pc = "file"
          /\ \E error \in {FALSE, user.errors > 0 /\ DOMAIN rd[r].ids # {}} :
             \E good \in GoodPages(r, error) :
                /\ rd' = [rd EXCEPT ![r].pc = "memory", ![r].ids = <<>>,
                                    ![r].got = [k \in good |-> k]]
                /\ db' = [db EXCEPT !.used = @ \/ good # {}]
                /\ user' = CountError(error)
          /\ UNCHANGED wlock
    /\ UNCHANGED <<mem, waits, fetch, add, get, held, fl, clean, shrink, ghost>>

\* The reader has page k, or waits for it; after the last page it gives up the
\* mutex.
Advances(r, x) ==
    LET last == rd[r].i = Len(Op(r).keys)
    IN /\ rd' = [rd EXCEPT ![r] = [x EXCEPT !.pc = IF last THEN "ahead" ELSE "memory",
                                            !.i = IF last THEN 1 ELSE @ + 1, !.ids = <<>>]]
       /\ wlock' = IF last THEN "none" ELSE r
Has(r, d) == Advances(r, [rd[r] EXCEPT !.got = Put(@, Key(r), d)]) /\ UNCHANGED waits
WaitedFor(w, ks, S) ==
    [k \in DOMAIN w \cup ks |-> (IF k \in DOMAIN w THEN w[k] ELSE {})
                                \cup (IF k \in ks THEN S ELSE {})]
add_page_waiter(r) ==
    /\ Advances(r, [rd[r] EXCEPT !.pending = @ \cup {Key(r)},
            !.todo = IF Key(r) \in DOMAIN waits THEN @ ELSE Append(@, Key(r))])
    /\ waits' = WaitedFor(waits, {Key(r)}, {r})

check_page_in_memory_by_hash(r) ==
    /\ rd[r].pc = "memory" \/ (Starts(r) /\ ~Bulk(r))
    /\ IF Key(r) \in DOMAIN rd[r].got THEN Has(r, rd[r].got[Key(r)])
       ELSE IF InMemory(Key(r)) # {} THEN Has(r, mem.page[Min(InMemory(Key(r)))].key)
       ELSE IF Bulk(r) THEN add_page_waiter(r)
       ELSE rd' = [rd EXCEPT ![r].pc = "row"] /\ wlock' = r /\ UNCHANGED waits
    /\ UNCHANGED <<user, mem, db, fetch, add, get, held, fl, clean, shrink, ghost>>

check_page_in_database_by_hash(r) ==
    /\ rd[r].pc = "row"
    /\ IF IdsOf(Key(r)) = {} THEN add_page_waiter(r) /\ UNCHANGED get
       ELSE /\ rd' = [rd EXCEPT ![r].pc = IF Op(r).auth THEN "auth" ELSE "pread",
                                ![r].ids = Rows({Key(r)})]
            /\ get' = IF Op(r).auth THEN Wants(r, get) ELSE get
            /\ UNCHANGED <<waits, wlock>>
    /\ UNCHANGED <<user, mem, db, fetch, add, held, fl, clean, shrink, ghost>>

\* The row is no longer locked.  A read behind the end of the file is short.  The CRC
\* is checked of whole pages only: a part of a page the file has no data for is zeros.
ReadFile(r) ==
    /\ rd[r].pc = "pread"
    /\ \E error \in {FALSE, user.errors > 0} :
         LET i == rd[r].ids[Key(r)]
         IN /\ IF error \/ i \notin DOMAIN db.file \/ (Op(r).full /\ At(i) # Key(r))
               THEN rd' = [rd EXCEPT ![r].pc = "mark"] /\ UNCHANGED <<db, waits, wlock>>
               ELSE Has(r, At(i)) /\ db' = [db EXCEPT !.used = TRUE]
            /\ user' = CountError(error)
    /\ UNCHANGED <<mem, fetch, add, get, held, fl, clean, shrink, ghost>>

check_page_in_database_by_hash_and_cache(r) ==
    /\ rd[r].pc = "auth" /\ get[r] = "got"
    /\ IF At(rd[r].ids[Key(r)]) = Key(r)
       THEN IntoHash(r, Key(r), "cache") /\ Has(r, Key(r)) /\ db' = [db EXCEPT !.used = TRUE]
       ELSE /\ psync_pagecache_return_free_page(r)
            /\ rd' = [rd EXCEPT ![r].pc = "mark"] /\ UNCHANGED <<db, waits, wlock>>
    /\ get' = [get EXCEPT ![r] = "no"]
    /\ UNCHANGED <<user, fetch, add, fl, clean, shrink, ghost>>

\* The row becomes free, but is not counted.
mark_page_free(r) ==
    /\ rd[r].pc = "mark"
    /\ LET i == rd[r].ids[Key(r)]
       IN /\ db' = [db EXCEPT !.row = [j \in DOMAIN @ |-> IF j = i THEN Free ELSE @[j]]]
          /\ ghost' = Known(IF i \in DOMAIN db.row \ FreeIds THEN {"rows"} ELSE {})
    /\ add_page_waiter(r)
    /\ UNCHANGED <<user, mem, fetch, add, get, held, fl, clean, shrink>>

\* psync_pagecache_read_unmodified_readahead: rows first, then, with the mutex
\* again, memory and other requests.
Unused == {f \in Fetchers : fetch[f].pc = "off"}
Requests(ks) ==
    IF ks = <<>> THEN UNCHANGED <<fetch, get>>
    ELSE /\ Unused # {}
         /\ LET f == CHOOSE x \in Unused : TRUE
            IN /\ fetch' = [fetch EXCEPT ![f] = [pc |-> "page", keys |-> ks, k |-> 1]]
               /\ get' = Wants(f, get)
ReadAhead(r) ==
    /\ rd[r].pc = "ahead"
    /\ IF Op(r).ahead = {}
       THEN /\ rd' = [rd EXCEPT ![r].pc = "wait", ![r].todo = <<>>]
            /\ Requests(rd[r].todo)
       ELSE /\ rd' = [rd EXCEPT ![r].pc = "more", ![r].ids = Rows(Op(r).ahead)]
            /\ UNCHANGED <<fetch, get>>
    /\ UNCHANGED <<user, mem, db, waits, wlock, add, held, fl, clean, shrink, ghost>>
ReadAheadMore(r) ==
    /\ rd[r].pc = "more" /\ wlock = "none"
    /\ LET more == {k \in Op(r).ahead :
                    k \notin DOMAIN rd[r].ids \cup DOMAIN waits /\ InMemory(k) = {}}
       IN \E ks \in SetToSeqs(more) :
            /\ \A i, j \in DOMAIN ks : i < j => ks[i] < ks[j]
            /\ waits' = WaitedFor(waits, Range(ks), {})
            /\ Requests(rd[r].todo \o ks)
            /\ rd' = [rd EXCEPT ![r].pc = "wait", ![r].todo = <<>>, ![r].ids = <<>>]
    /\ UNCHANGED <<user, mem, db, wlock, add, held, fl, clean, shrink, ghost>>

\* wait_waiter: every page is there, or failed.
wait_waiter(r) ==
    /\ rd[r].pc = "wait" /\ rd[r].pending = {} /\ wlock = "none"
    /\ rd' = [rd EXCEPT ![r] = NotReading]
    /\ user' = [user EXCEPT !.reads[r] = Tail(@)]
    /\ ghost' = [ghost EXCEPT !.reused = @ \ {r}]
    /\ UNCHANGED <<mem, db, waits, wlock, fetch, add, get, held, fl, clean, shrink>>

Read(r) ==
    \/ check_pages_in_database_by_hash(r) \/ check_page_in_memory_by_hash(r)
    \/ check_page_in_database_by_hash(r) \/ ReadFile(r)
    \/ check_page_in_database_by_hash_and_cache(r) \/ mark_page_free(r)
    \/ ReadAhead(r) \/ ReadAheadMore(r) \/ wait_waiter(r)
    \/ psync_pagecache_get_free_page(r)

----------------------------------------------------------------------------
(* A request: psync_pagecache_read_unmodified_thread.  How the data comes,   *)
(* from a content server or through the API, is not told apart.             *)

Fails == user.fails > 0 /\ user' = [user EXCEPT !.fails = @ - 1]
NewRange(f) == LET q == fetch[f] IN q.k > 1 => q.keys[q.k] # q.keys[q.k - 1] + 1
WantsPage(f, k) ==
    /\ fetch' = [fetch EXCEPT ![f] = [@ EXCEPT !.pc = "page", !.k = k]]
    /\ get' = Wants(f, get)
Ends(f) == fetch' = [fetch EXCEPT ![f].pc = "error"] /\ get' = [get EXCEPT ![f] = "no"]

\* Nobody answers, or a range is refused: from the first page again, with other
\* URLs, or not at all.
FetchRefused(f) ==
    /\ Fails /\ get[f] = "want" /\ NewRange(f)
    /\ Ends(f) \/ WantsPage(f, 1)
    /\ UNCHANGED <<mem, db, waits, wlock, rd, add, held, fl, clean, shrink, ghost>>

\* The connection breaks; the content servers are asked when the API gave
\* nothing.
FetchBreaks(f) ==
    /\ Fails /\ fetch[f].pc = "page" /\ get[f] = "got"
    /\ psync_pagecache_return_free_page(f)
    /\ Ends(f) \/ (fetch[f].k = 1 /\ WantsPage(f, 1))
    /\ UNCHANGED <<db, waits, wlock, rd, add, fl, clean, shrink, ghost>>

\* psync_pagecache_send_page_wait_page: those who wait have it before it can be
\* found.
Without(w, K) == [k \in DOMAIN w \ K |-> w[k]]
Waiting(r, K) == {k \in K \cap DOMAIN waits : r \in waits[k]}
FetchArrives(f) ==
    LET k == fetch[f].keys[fetch[f].k]
    IN /\ fetch[f].pc = "page" /\ get[f] = "got" /\ wlock = "none"
       /\ rd' = [r \in Readers |->
                    IF Waiting(r, {k}) = {} THEN rd[r]
                    ELSE [rd[r] EXCEPT !.pending = @ \ {k}, !.got = Put(@, k, k)]]
       /\ waits' = Without(waits, {k})
       /\ fetch' = [fetch EXCEPT ![f].pc = "hash"]
       /\ get' = [get EXCEPT ![f] = "no"]
       /\ UNCHANGED <<user, mem, db, wlock, add, held, fl, clean, shrink, ghost>>
Off == [pc |-> "off", keys |-> <<>>, k |-> 1]
FetchHashes(f) ==
    LET q == fetch[f]
    IN /\ q.pc = "hash"
       /\ IntoHash(f, q.keys[q.k], "read")
       /\ IF q.k < Len(q.keys) THEN WantsPage(f, q.k + 1)
          ELSE fetch' = [fetch EXCEPT ![f] = Off] /\ UNCHANGED get
       /\ UNCHANGED <<user, db, waits, wlock, rd, add, fl, clean, shrink, ghost>>
psync_pagecache_send_error(f) ==
    LET K == Range(fetch[f].keys)
    IN /\ fetch[f].pc = "error" /\ wlock = "none"
       /\ rd' = [r \in Readers |->
                    IF Waiting(r, K) = {} THEN rd[r]
                    ELSE [rd[r] EXCEPT !.pending = @ \ Waiting(r, K), !.err = TRUE]]
       /\ waits' = Without(waits, K)
       /\ fetch' = [fetch EXCEPT ![f] = Off]
       /\ UNCHANGED <<user, mem, db, wlock, add, get, held, fl, clean, shrink, ghost>>

Fetch(f) ==
    \/ FetchRefused(f) \/ FetchBreaks(f) \/ FetchArrives(f)
    \/ FetchHashes(f) \/ psync_pagecache_send_error(f) \/ psync_pagecache_get_free_page(f)

----------------------------------------------------------------------------
(* psync_pagecache_new_upload_to_cache: the pages of a file that was uploaded. *)

AddStarts ==
    /\ add = "off" /\ user.adds # <<>>
    /\ add' = "page"
    /\ get' = Wants("add", get)
    /\ UNCHANGED <<user, mem, db, waits, wlock, rd, fetch, held, fl, clean, shrink, ghost>>

\* psync_pagecache_add_page_if_not_exists: the table, then memory and requests.
Elsewhere(k) ==
    k \in DOMAIN waits \/ \E s \in InMemory(k) : mem.page[s].type = "read"
AddLooks ==
    /\ add = "page" /\ get["add"] = "got"
    /\ IF IdsOf(Head(user.adds)) = {} THEN add' = "hash" /\ UNCHANGED <<user, mem, held>>
       ELSE /\ psync_pagecache_return_free_page("add")
            /\ add' = "off" /\ user' = [user EXCEPT !.adds = Tail(@)]
    /\ get' = [get EXCEPT !["add"] = "no"]
    /\ UNCHANGED <<db, waits, wlock, rd, fetch, fl, clean, shrink, ghost>>
AddHashes ==
    /\ add = "hash" /\ wlock = "none"
    /\ IF Elsewhere(Head(user.adds)) THEN psync_pagecache_return_free_page("add")
       ELSE IntoHash("add", Head(user.adds), "read")
    /\ add' = "off" /\ user' = [user EXCEPT !.adds = Tail(@)]
    /\ UNCHANGED <<db, waits, wlock, rd, fetch, get, fl, clean, shrink, ghost>>

Add == AddStarts \/ AddLooks \/ AddHashes \/ psync_pagecache_get_free_page("add")

----------------------------------------------------------------------------
(* flush_pages.  A thread that calls it is counted, waits for the mutex, picks *)
(* pages and free rows, writes the pages, and tells the table in one           *)
(* transaction, which those who look for a row wait for.                       *)

\* Mutant: nobody is woken.
Broadcasts_Nobody(g) == g

Broadcasts(g) == [t \in Getters |-> IF g[t] = "wait" THEN "woken" ELSE g[t]]
Returns(t, g) ==
    IF t \notin Getters THEN g
    ELSE [g EXCEPT ![t] = IF @ = "first" THEN "second" ELSE "flushed"]
Mutex == fl.by = "none" /\ shrink.pc = "off"

FlushStarts(t) ==
    /\ t \in fl.spawned
    /\ fl' = [fl EXCEPT !.spawned = @ \ {t}, !.queue = @ \cup {t}, !.running = @ + 1,
                        !.run = TRUE, !.since = TRUE]
    /\ UNCHANGED <<user, mem, db, waits, wlock, rd, fetch, add, get, held, clean, shrink, ghost>>

\* check_disk_full: what the file has no place for is dropped, and what is free
\* is counted again.
RowsKept == IF user.full /\ Len(db.row) > Len(db.file) + 1
            THEN SubSeq(db.row, 1, Len(db.file) + 1) ELSE db.row
FlushChecks(t) ==
    /\ t \in fl.queue /\ Mutex
    /\ db' = [db EXCEPT !.row = RowsKept]
    /\ fl' = [fl EXCEPT !.queue = @ \ {t}, !.by = t, !.step = "counted",
                        !.free = Cardinality(FreeRows(RowsKept))]
    /\ UNCHANGED <<user, mem, waits, wlock, rd, fetch, add, get, held, clean, shrink, ghost>>

\* With a full disk and no free row, pages of authenticators and the oldest half
\* of the others are forgotten.
OfType(H, type) == {s \in H : mem.page[s].type = type}
Forgotten ==
    LET reads == OfType(mem.hash, "read")
        n == Min({Cardinality(reads), Max({1, CachePages \div 2})})
    IN IF user.full /\ fl.free = 0
       THEN {S \cup OfType(mem.hash, "cache") : S \in kSubset(n, reads)}
       ELSE {{}}

\* The pages in their order get the free rows in theirs, as far as there are both.
Before(a, b) ==
    mem.page[a].key < mem.page[b].key \/ (mem.page[a].key = mem.page[b].key /\ a < b)
Place(s, S) == Cardinality({z \in S : Before(z, s)})
RowsFor(s, S, rows) ==
    {i \in FreeRows(rows) : Cardinality({j \in FreeRows(rows) : j < i}) = Place(s, S)}

\* Mutant: any row will do.
Assigned_AnyRow(S, rows) ==
    [s \in {s \in S : Place(s, S) < Cardinality(FreeRows(rows))} |-> Place(s, S) + 1]

Assigned(S, rows) ==
    [s \in {s \in S : RowsFor(s, S, rows) # {}} |-> CHOOSE i \in RowsFor(s, S, rows) : TRUE]
Written(todo) ==
    LET ids == {todo[s] : s \in DOMAIN todo}
    IN [i \in 1..Max({Len(db.file)} \cup ids) |->
            IF i \in ids THEN mem.page[CHOOSE s \in DOMAIN todo : todo[s] = i].key ELSE At(i)]

\* A write may fail after the first n pages.
Firsts(todo, S) ==
    {[s \in {s \in DOMAIN todo : Place(s, S) < n} |-> todo[s]] :
        n \in 0..(Cardinality(DOMAIN todo) - 1)}
Outcomes(todo, S) == {todo} \cup (IF user.errors > 0 THEN Firsts(todo, S) ELSE {})

\* The count may be old by now: clean_cache frees rows without flush_cache_mutex.
Stale == user.full /\ fl.free # Cardinality(FreeIds)
FlushWrites(t) ==
    /\ fl.by = t /\ fl.step = "counted"
    /\ \E gone \in Forgotten :
         LET hash == mem.hash \ gone
             nhash == mem.nhash - Cardinality(gone)
             kept == IF nhash > 0 THEN OfType(hash, "read") ELSE hash
             todo == IF nhash > 0 THEN Assigned(kept, db.row) ELSE <<>>
         IN \E wrote \in Outcomes(todo, kept) :
            /\ mem' = [mem EXCEPT !.hash = kept, !.free = @ \cup (mem.hash \ kept),
                          !.nfree = (@ + Cardinality(mem.hash \ kept)) % Word,
                          !.nhash = IF nhash > 0 THEN Cardinality(kept) ELSE nhash]
            /\ db' = [db EXCEPT !.nfree = IF user.full THEN fl.free ELSE @,
                                !.file = Written(wrote)]
            /\ user' = CountError(wrote # todo)
            /\ ghost' = [ghost EXCEPT !.known = @ \cup (IF Stale THEN {"rows"} ELSE {}),
                  !.reused = @ \cup {r \in Readers : rd[r].pc = "pread"
                                     /\ \E s \in DOMAIN wrote : wrote[s] = rd[r].ids[Key(r)]}]
            /\ fl' = [fl EXCEPT !.free = 0, !.todo = wrote,
                  !.step = IF wrote # todo THEN "failed"
                           ELSE IF nhash > 0 /\ kept # {} THEN "syncs" ELSE "commits"]
            /\ get' = IF gone # {} THEN Broadcasts(get) ELSE get
    /\ UNCHANGED <<waits, wlock, rd, fetch, add, held, clean, shrink>>

\* A write has failed, or the fsync does: the thread is counted for ever.
FlushFails(t) ==
    /\ fl.by = t
    /\ \/ fl.step = "failed" /\ user' = user
       \/ fl.step = "syncs" /\ user.errors > 0 /\ user' = CountError(TRUE)
    /\ fl' = [fl EXCEPT !.by = "none", !.step = "off", !.todo = <<>>]
    /\ get' = Returns(t, get)
    /\ UNCHANGED <<mem, db, waits, wlock, rd, fetch, add, held, clean, shrink, ghost>>

\* New free rows while the file may grow; a row for each page that was written,
\* unless the table has that page (UPDATE OR IGNORE); uses of rows, when there
\* are pages or the last time was long ago.
NewRows ==
    IF user.full THEN 0
    ELSE Max({0, Min({DbPages - Len(db.row), CachePages, mem.nhash})})
Gets(s) ==
    LET k == mem.page[s].key
    IN /\ IdsOf(k) = {}
       /\ \A z \in DOMAIN fl.todo : mem.page[z].key = k => fl.todo[s] <= fl.todo[z]
FlushCommits(t) ==
    LET done == {s \in DOMAIN fl.todo : Gets(s)}
        rows == db.row \o [i \in 1..NewRows |-> Free]
        nfree == (db.nfree + NewRows - Cardinality(done)) % Word
    IN /\ fl.by = t /\ fl.step \in {"syncs", "commits"}
       /\ \E late \in (IF db.used THEN {TRUE, mem.nhash > 0} ELSE {FALSE}) :
            LET updates == NewRows > 0 \/ done # {} \/ late
            IN /\ db' = [db EXCEPT !.nfree = nfree, !.used = @ /\ ~late,
                    !.row = [i \in DOMAIN rows |->
                        IF \E s \in done : fl.todo[s] = i
                        THEN mem.page[CHOOSE s \in done : fl.todo[s] = i].key ELSE rows[i]]]
               /\ clean' = [clean EXCEPT !.due = @ \/ IF updates THEN nfree <= 2 * CachePages
                                                      ELSE nfree = 0]
       /\ mem' = [mem EXCEPT !.hash = @ \ DOMAIN fl.todo, !.free = @ \cup DOMAIN fl.todo,
                     !.nfree = (@ + Cardinality(DOMAIN fl.todo)) % Word,
                     !.nhash = @ - Cardinality(done)]
       /\ fl' = [fl EXCEPT !.by = "none", !.step = "off", !.todo = <<>>, !.running = @ - 1,
                           !.run = FALSE]
       /\ get' = Returns(t, Broadcasts(get))
       /\ ghost' = Known(IF done = DOMAIN fl.todo THEN {} ELSE {"ignored"})
    /\ UNCHANGED <<user, waits, wlock, rd, fetch, add, held, shrink>>

\* ppagecache_flush_timer, every PSYNC_FS_DISK_FLUSH_SEC seconds.
FlushTimer ==
    /\ user.timer
    /\ IF ~fl.since /\ (mem.nhash > 0 \/ db.used)
       THEN Background # {} /\ fl' = Spawns(fl)
       ELSE fl.since /\ fl' = [fl EXCEPT !.since = FALSE]
    /\ UNCHANGED <<user, mem, db, waits, wlock, rd, fetch, add, get, held, clean, shrink, ghost>>

Flush == \E t \in Getters \cup Flushers :
            FlushStarts(t) \/ FlushChecks(t) \/ FlushWrites(t) \/ FlushFails(t)
            \/ FlushCommits(t)

----------------------------------------------------------------------------
(* clean_cache: rows that were used long ago become free.  Which, the ages    *)
(* tell; never none.                                                          *)

CleanStarts ==
    /\ clean.due
    /\ LET used == DOMAIN db.row \ FreeIds
       IN IF clean.pc = "off" /\ used # {}
          THEN \E S \in (SUBSET used) \ {{}} :
                 clean' = [due |-> FALSE, pc |-> "freeing", ids |-> S]
          ELSE clean' = [clean EXCEPT !.due = FALSE]
    /\ UNCHANGED <<user, mem, db, waits, wlock, rd, fetch, add, get, held, fl, shrink, ghost>>

\* Each is counted, also when it is free by now or gone.
CleanFrees ==
    /\ clean.pc = "freeing"
    /\ db' = [db EXCEPT !.row = [i \in DOMAIN @ |-> IF i \in clean.ids THEN Free ELSE @[i]],
                        !.nfree = (@ + Cardinality(clean.ids)) % Word]
    /\ clean' = [clean EXCEPT !.pc = "off", !.ids = {}]
    /\ ghost' = Known(IF clean.ids \subseteq DOMAIN db.row \ FreeIds THEN {} ELSE {"rows"})
    /\ UNCHANGED <<user, mem, waits, wlock, rd, fetch, add, get, held, fl, shrink>>

Clean == CleanStarts \/ CleanFrees

----------------------------------------------------------------------------
(* psync_pagecache_free_page_from_read_cache: on a full disk the file gives up *)
(* its last page.  The mutex of flushes is held all the while.                 *)

NotShrinking == [pc |-> "off", page |-> 0, key |-> 0, size |-> 0]
Drops(size) ==
    /\ db' = [db EXCEPT !.row = SubSeq(@, 1, size - 1), !.file = SubSeq(@, 1, size - 1)]
    /\ shrink' = NotShrinking
    /\ user' = [user EXCEPT !.shrinks = @ - 1]

\* Rows behind the end of the file go first; none that goes is counted.
\* get_free_page_if_available does not count the page it takes, but its return
\* is counted.  A read that fails ends it.
ShrinkTakes ==
    LET size == Min({Len(db.file), Len(db.row)})
        k == db.row[size]
        rows == IF size > 0 /\ Len(db.row) > size THEN {"rows"} ELSE {}
        stops == size = 0 \/ mem.free = {}
    IN /\ user.shrinks > 0 /\ Mutex
       /\ fl' = IF Low /\ size > 0 THEN Spawns([fl EXCEPT !.run = TRUE]) ELSE fl
       /\ \/ /\ stops
             /\ user' = [user EXCEPT !.shrinks = @ - 1]
             /\ db' = IF size = 0 THEN db ELSE [db EXCEPT !.row = SubSeq(@, 1, size)]
             /\ ghost' = Known(rows)
             /\ UNCHANGED <<mem, shrink>>
          \/ /\ ~stops /\ user.errors > 0
             /\ user' = [user EXCEPT !.shrinks = @ - 1, !.errors = @ - 1]
             /\ mem' = [mem EXCEPT !.nfree = (@ + 1) % Word]
             /\ db' = [db EXCEPT !.row = SubSeq(@, 1, size)]
             /\ ghost' = Known({"uncounted"} \cup rows)
             /\ UNCHANGED shrink
          \/ /\ ~stops /\ (k = Free \/ db.file[size] # k)
             /\ Drops(size)
             /\ mem' = [mem EXCEPT !.nfree = (@ + 1) % Word]
             /\ ghost' = Known({"uncounted"} \cup rows \cup IF k = Free THEN {"rows"} ELSE {})
          \/ /\ ~stops /\ k # Free /\ db.file[size] = k
             /\ shrink' = [pc |-> "exists", page |-> Min(mem.free), key |-> k, size |-> size]
             /\ mem' = [mem EXCEPT !.free = @ \ {Min(@)}]
             /\ db' = [db EXCEPT !.row = SubSeq(@, 1, size)]
             /\ ghost' = Known({"uncounted"} \cup rows)
             /\ UNCHANGED user
       /\ UNCHANGED <<waits, wlock, rd, fetch, add, get, held, clean>>
PageBack == mem' = [mem EXCEPT !.free = @ \cup {shrink.page}, !.nfree = (@ + 1) % Word]
RowGone == ghost' = Known(IF db.row[shrink.size] = Free THEN {"rows"} ELSE {})
ShrinkLooks ==
    /\ shrink.pc = "exists"
    /\ IF IdsOf(shrink.key) = {}
       THEN shrink' = [shrink EXCEPT !.pc = "add"] /\ UNCHANGED <<user, mem, db, ghost>>
       ELSE PageBack /\ Drops(shrink.size) /\ RowGone
    /\ UNCHANGED <<waits, wlock, rd, fetch, add, get, held, fl, clean>>
ShrinkAdds ==
    /\ shrink.pc = "add" /\ wlock = "none"
    /\ IF Elsewhere(shrink.key) THEN PageBack
       ELSE mem' = [mem EXCEPT !.page[shrink.page] = [key |-> shrink.key, type |-> "read"],
                               !.hash = @ \cup {shrink.page}, !.nhash = @ + 1]
    /\ Drops(shrink.size) /\ RowGone
    /\ UNCHANGED <<waits, wlock, rd, fetch, add, get, held, fl, clean>>

Shrink == ShrinkTakes \/ ShrinkLooks \/ ShrinkAdds

----------------------------------------------------------------------------
(* ppagecache_init: rows that the file is too short for go, free rows come    *)
(* while the table may grow, and the file gets one page for each row, counted *)
(* from page 0.  Row i has its page at i: the last row has none.              *)

TableLeft(w) == SubSeq(w.cached, 1, Min({Len(w.cached), Len(w.stored)}))
RowsMissing(w) ==
    IF Cardinality(FreeRows(TableLeft(w))) >= 2 * CachePages THEN 0
    ELSE Max({0, Min({DbPages - Len(TableLeft(w)), 2 * CachePages})})
TableFilled(w) == TableLeft(w) \o [i \in 1..RowsMissing(w) |-> Free]

\* ppagecache_resize: a table and a file longer than the setting are cut.
PagesAtStart(w) == Min({Len(TableFilled(w)), DbPages})
TableAtStart(w) == SubSeq(TableFilled(w), 1, PagesAtStart(w))
FileAtStart(w) ==
    [i \in 1..(PagesAtStart(w) - 1) |->
        IF i + 1 \in DOMAIN w.stored THEN w.stored[i + 1] ELSE 0]

\* free_db_pages counts what was cut, unless check_disk_full counts again.
CountedAtStart(w) ==
    Cardinality(FreeRows(IF w.full THEN TableAtStart(w) ELSE TableFilled(w)))

Init ==
    /\ user \in Workloads
    /\ mem = [page |-> [s \in Slots |-> [key |-> 0, type |-> "none"]], free |-> Slots,
              hash |-> {}, nfree |-> CachePages, nhash |-> 0]
    /\ db = [row |-> TableAtStart(user), file |-> FileAtStart(user), used |-> FALSE,
             nfree |-> CountedAtStart(user)]
    /\ waits = <<>> /\ wlock = "none"
    /\ rd = [r \in Readers |-> NotReading]
    /\ fetch = [f \in Fetchers |-> Off]
    /\ add = "off"
    /\ get = [t \in Getters |-> "no"]
    /\ held = [t \in Getters |-> 0]
    /\ fl = [running |-> 0, run |-> FALSE, since |-> FALSE, spawned |-> {}, owes |-> {},
             queue |-> {}, by |-> "none", step |-> "off", free |-> 0, todo |-> <<>>]
    /\ clean = [due |-> FALSE, pc |-> "off", ids |-> {}]
    /\ shrink = NotShrinking
    /\ ghost = [known |-> IF db.nfree = Cardinality(FreeIds) THEN {} ELSE {"rows"},
                reused |-> {}, cut |-> {i \in DOMAIN db.row : db.row[i] # Free /\ At(i) = 0}]

Next ==
    \/ \E r \in Readers : Read(r)
    \/ \E f \in Fetchers : Fetch(f)
    \/ Add \/ Flush \/ FlushTimer \/ Clean \/ Shrink

Spec == Init /\ [][Next]_vars

\* Each thread runs on when it can, and the timer is called again and again.
FairSpec ==
    /\ Spec
    /\ \A r \in Readers : WF_vars(Read(r))
    /\ \A f \in Fetchers : WF_vars(Fetch(f))
    /\ \A t \in Getters \cup Flushers :
         WF_vars(FlushStarts(t) \/ FlushChecks(t) \/ FlushWrites(t) \/ FlushFails(t)
                 \/ FlushCommits(t))
    /\ WF_vars(Add) /\ WF_vars(FlushTimer) /\ WF_vars(CleanStarts) /\ WF_vars(CleanFrees)
    /\ WF_vars(ShrinkLooks \/ ShrinkAdds)

----------------------------------------------------------------------------
(* What should hold. *)

\* check_disk_full has deleted rows and not yet counted the rest.
Recounting == user.full /\ fl.step = "counted"

\* Every page of memory is in one place: free, found by readers or in the hands
\* of one thread, and the two counters say how many there are, but for what
\* README lists (cache_pages_free and cache_pages_in_hash).
PagesAccounted ==
    LET hands == {held[t] : t \in {t \in Getters : held[t] # 0}}
                 \cup ({shrink.page} \ {0})
    IN /\ mem.free \cup mem.hash \cup hands = Slots
       /\ Cardinality(mem.free) + Cardinality(mem.hash) + Cardinality(hands) = CachePages
       /\ Cardinality({t \in Getters : held[t] # 0}) + (IF shrink.page = 0 THEN 0 ELSE 1)
            = Cardinality(hands)
       /\ "uncounted" \in ghost.known \/ mem.nfree = Cardinality(mem.free)
       /\ "ignored" \in ghost.known \/ mem.nhash = Cardinality(mem.hash)
       /\ "rows" \in ghost.known \/ Recounting \/ db.nfree = Cardinality(FreeIds)

\* What a reader is given for a page is that page, whoever freed, reused, wrote
\* or dropped it meanwhile, and a read ends without error only with all of it.
\* A part of a page is not checked: its row may be another page's by then, or one
\* whose page a start has cut off, and then what is read are zeros.
ReadsZeros(r) == ~Op(r).full /\ ghost.cut # {}
GivenTrue(r) ==
    /\ r \in ghost.reused
       \/ \A k \in DOMAIN rd[r].got :
             rd[r].got[k] = k \/ (rd[r].got[k] = 0 /\ ReadsZeros(r))
    /\ rd[r].pc = "wait" /\ rd[r].pending = {} /\ ~rd[r].err
         => Range(Op(r).keys) \subseteq DOMAIN rd[r].got

\* A page that some reader waits for is in a request that is under way, or in
\* the list of a reader that is about to start one.
WaitIsServed(k) ==
    \/ \E f \in Fetchers : k \in Range(fetch[f].keys)
    \/ \E r \in Readers : k \in Range(rd[r].todo)

\* Reads of ppagecache_read_unmod_locked are served, and with the right pages: a
\* row that says read stands for the page that is in the file there, unless it is
\* one that had no page any more when the cache was started.
ReadsTrue ==
    /\ \A r \in Readers : GivenTrue(r)
    /\ \A k \in DOMAIN waits : WaitIsServed(k)
    /\ \A i \in DOMAIN db.row : db.row[i] # Free
          => At(i) = db.row[i] \/ (At(i) = 0 /\ i \in ghost.cut)

\* Every read returns: pages are freed, requests end and wake who waits.  A
\* thread that gives up the last page of the file wants wait_page_mutex under
\* the flush's mutex, and a reader may want them in the other order; a wrong
\* free_db_pages may keep the cache from being cleaned.
Deadlocked == shrink.pc = "add" /\ wlock # "none" /\ get[wlock] \in {"flushing", "wait"}
EveryReadReturns ==
    \A r \in Readers :
        rd[r].pc # "idle" ~> rd[r].pc = "idle" \/ Deadlocked \/ "rows" \in ghost.known
=============================================================================
