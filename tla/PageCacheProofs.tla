-------------------------- MODULE PageCacheProofs --------------------------
(***************************************************************************)
(* Proofs about the page cache (ppagecache.c).  First the pages of memory: *)
(* every step moves them in one of a few ways, each keeps a page in one    *)
(* place and counted there, and every step keeps threads where they may    *)
(* hold, ask for and free pages.  Then the rows, the cache file and the    *)
(* readers: rows say what the file has, readers are given the pages they   *)
(* asked for, who waits for a page is told, and the theorems that follow.  *)
(***************************************************************************)
EXTENDS PageCacheInvariant, TLAPS

USE DEF GetStates

----------------------------------------------------------------------------
(* Sets of numbers, and sets of pages.                                    *)

\* The smallest of some numbers, which is what a LIMIT 1 or the head of a list
\* returns, is one of them.
LEMMA MinIn ==
  ASSUME NEW S, S # {}, S \subseteq Nat
  PROVE  Min(S) \in S /\ \A x \in S : Min(S) <= x
<1>1. PICK k \in S : \A j \in S : k <= j
  <2>1. \A k \in S : k \in Int /\ k >= 0
    OBVIOUS
  <2> QED
    BY <2>1, Least, 0 \in Int
<1> QED
  BY <1>1 DEF Min

\* The largest of some numbers up to n is one of them: the end of the cache file
\* after a write.
LEMMA MaxIn ==
  ASSUME NEW n \in Nat, NEW S, S # {}, S \subseteq 0..n
  PROVE  Max(S) \in S /\ \A x \in S : x <= Max(S)
<1>1. PICK m \in S : \A x \in S : x <= m
  BY Greatest
<1>2. \A x, y \in S : x <= y <=> y >= x
  OBVIOUS
<1>3. Max(S) = CHOOSE x \in S : \A y \in S : x >= y
  BY DEF Max
<1>4. Max(S) \in S /\ \A y \in S : Max(S) >= y
  BY <1>1, <1>2, <1>3
<1> QED BY <1>2, <1>4

\* The pages of memory are CachePages many, and so is no set of them more.
LEMMA Finite ==
  /\ IsFiniteSet(Slots) /\ Cardinality(Slots) = CachePages /\ Slots \subseteq Nat \ {0}
  /\ \A S \in SUBSET Slots : IsFiniteSet(S) /\ Cardinality(S) \in 0..CachePages
<1>1. IsFiniteSet(Slots) /\ Cardinality(Slots) = CachePages /\ Slots \subseteq Nat \ {0}
  BY FS_Interval, PagesAssumption DEF Slots
<1>2. ASSUME NEW S \in SUBSET Slots PROVE IsFiniteSet(S) /\ Cardinality(S) \in 0..CachePages
  <2>1. IsFiniteSet(S) /\ Cardinality(S) <= CachePages
    BY <1>1, FS_Subset
  <2> QED
    BY <2>1, FS_CardinalityType, PagesAssumption
<1> QED
  BY <1>1, <1>2

\* A counter of pages does not reach the width of its integer.
LEMMA Small == ASSUME NEW n \in 0..CachePages PROVE n % Word = n
BY PagesAssumption

\* A page that comes to a set is one more in it (cache_pages_free++).
LEMMA OneMore ==
  ASSUME NEW S, NEW x, IsFiniteSet(S), x \notin S
  PROVE  Cardinality(S \cup {x}) = Cardinality(S) + 1
BY FS_AddElement

\* A page that leaves a set is one less in it (cache_pages_free--).
LEMMA OneLess ==
  ASSUME NEW S, NEW x, IsFiniteSet(S), x \in S
  PROVE  Cardinality(S \ {x}) = Cardinality(S) - 1
BY FS_RemoveElement

\* Two sets of pages that have none in common: their sizes add up, as flush_pages
\* adds what it frees to cache_pages_free.
LEMMA Together == ASSUME NEW S, NEW T, IsFiniteSet(S), IsFiniteSet(T), S \cap T = {}
                 PROVE  IsFiniteSet(S \cup T) /\ Cardinality(S
                        \cup T) = Cardinality(S) + Cardinality(T)
<1>1. Cardinality(S \cap T) = 0 /\ Cardinality(S) \in Nat /\ Cardinality(T) \in Nat
  BY FS_EmptySet, FS_CardinalityType
<1>2. IsFiniteSet(S \cup T) /\ Cardinality(S
        \cup T) = Cardinality(S) + Cardinality(T) - Cardinality(S \cap T)
  BY FS_Union
<1> QED BY <1>1, <1>2

\* The threads that may hold a page are finitely many.
LEMMA GettersFinite == IsFiniteSet(Getters)
BY ThreadsAssumption, FS_Union, FS_Singleton DEF Getters

----------------------------------------------------------------------------
(* The moves a page of memory can make.  Every step of the code is one of them. *)

\* psync_pagecache_get_free_page gives a thread the first free page.
Taking(t) ==
    /\ held[t] = 0 /\ mem.free # {}
    /\ mem' = [mem EXCEPT !.free = @ \ {Min(@)}, !.nfree = (@ - 1) % Word]
    /\ held' = [held EXCEPT ![t] = Min(mem.free)]
    /\ UNCHANGED <<shrink, ghost>>

\* What one step of psync_pagecache_get_free_page does for thread t: it gets a
\* page, waits for one, or goes to flush.
GetMove(t) ==
    /\ get[t] \in {"want", "second", "woken", "flushed"}
    /\ fl'.by = fl.by /\ fl'.todo = fl.todo /\ fl'.queue = fl.queue /\ fl'.step = fl.step /\ TypeFl'
    /\ \/ /\ get' = [get EXCEPT ![t] = "got"] /\ fl'.spawned \subseteq fl.spawned \cup Background
          /\ mem.free # {}
          /\ mem' = [mem EXCEPT !.free = @ \ {Min(@)}, !.nfree = (@ - 1) % Word]
          /\ held' = [held EXCEPT ![t] = Min(mem.free)]
       \/ /\ get' = [get EXCEPT ![t] = "wait"] /\ UNCHANGED <<mem, held>>
             /\ fl'.spawned = fl.spawned
       \/ \E w \in {"first", "flushing"} : /\ get' = [get EXCEPT ![t] = w]
                                              /\ UNCHANGED <<mem, held>>
                        /\ fl'.spawned = fl.spawned \cup {t}
    /\ UNCHANGED <<user, db, waits, wlock, rd, fetch, add, clean, shrink, ghost>>

\* run_thread of a flush changes what waits to start and nothing else.
LEMMA SpawnsFacts ==
  ASSUME TypeFl, NEW f, f.spawned = fl.spawned,
         f \in FlushStates
  PROVE /\ Spawns(f) \in FlushStates
        /\ Spawns(f).by = f.by /\ Spawns(f).todo = f.todo /\ Spawns(f).queue = f.queue
        /\ Spawns(f).step = f.step
        /\ Spawns(f).spawned \subseteq f.spawned \cup Background
<1>1. CASE Background = {}
  BY <1>1 DEF Spawns
<1>2. CASE Background # {}
  <2> DEFINE x == CHOOSE x \in Background : TRUE
  <2>1. x \in Background /\ x \in Threads
    BY <1>2 DEF Background, Threads
  <2>2. Spawns(f) = [f EXCEPT !.spawned = @ \cup {x}]
    BY <1>2 DEF Spawns
  <2> HIDE DEF x
  <2> QED BY <2>1, <2>2 DEF FlushStates
<1> QED BY <1>1, <1>2

\* Every way through the body of psync_pagecache_get_free_page is such a move.
LEMMA TakesOrWaitsMoves ==
  ASSUME Types, NEW t \in Getters, NEW f,
         TakesOrWaits(t, f) \/ (mem.free # {} /\ Takes(t, f)) \/ FlushesItself(t, f,
           "first") \/ FlushesItself(t, f, "flushing"),
         f.spawned = fl.spawned, f.by = fl.by, f.todo = fl.todo, f.queue = fl.queue,
         f.step = fl.step, f \in FlushStates,
         get[t] \in {"want", "second", "woken", "flushed"},
         UNCHANGED <<user, db, waits, wlock, rd, fetch, add, clean, shrink, ghost>>
  PROVE GetMove(t)
<1>0. t \in Threads
  BY DEF Threads
<1>1. ASSUME NEW w \in {"first", "flushing"}, FlushesItself(t, f, w) PROVE GetMove(t)
  BY <1>0, <1>1 DEF FlushesItself, GetMove, TypeFl, FlushStates
<1>2. CASE mem.free # {} /\ Takes(t, f)
  <2> DEFINE g == [f EXCEPT !.owes = @ \ {t}]
  <2>1. g.spawned = fl.spawned /\ g.by = fl.by /\ g.todo = fl.todo /\ g.queue = fl.queue /\
         g.step = fl.step /\ g \in FlushStates
    BY DEF FlushStates
  <2>2. fl' = IF t \in f.owes THEN Spawns(g) ELSE f
    BY <1>2 DEF Takes
  <2> HIDE DEF g
  <2>3. /\ fl'.by = fl.by /\ fl'.todo = fl.todo /\ fl'.queue = fl.queue
        /\ fl'.step = fl.step /\ TypeFl'
        /\ fl'.spawned \subseteq fl.spawned \cup Background
    BY <2>1, <2>2, SpawnsFacts DEF TypeFl, Types
  <2> QED
    BY <1>2, <2>3 DEF Takes, GetMove
<1>3. CASE get' = [get EXCEPT ![t] = "wait"] /\ fl' = f /\ UNCHANGED <<mem, held>>
  BY <1>3 DEF GetMove, TypeFl
<1> QED
  BY <1>1, <1>2, <1>3 DEF TakesOrWaits

\* psync_pagecache_get_free_page takes one page, and only from the free ones.
LEMMA GetMoves ==
  ASSUME Types, NEW t \in Getters, psync_pagecache_get_free_page(t) PROVE GetMove(t)
<1> DEFINE Like(f) == f \in FlushStates /\ f.spawned = fl.spawned /\ f.by = fl.by
           /\ f.todo = fl.todo /\ f.queue = fl.queue /\ f.step = fl.step
           runs == [fl EXCEPT !.run = TRUE]
           owes == [fl EXCEPT !.run = TRUE, !.owes = @ \cup {t}]
<1>1. Like(fl) /\ Like(runs) /\ Like(owes)
  BY DEF Types, TypeFl, FlushStates
<1>2. PICK f : Like(f) /\ (TakesOrWaits(t, f) \/ (mem.free # {} /\ Takes(t, f))
           \/ FlushesItself(t, f, "first") \/ FlushesItself(t, f, "flushing"))
  <2> HIDE DEF runs, owes, Like
  <2> USE <1>1
  <2>1. CASE get[t] = "want"
    BY <2>1 DEF psync_pagecache_get_free_page, runs, owes
  <2>2. CASE get[t] # "want"
    BY <2>2 DEF psync_pagecache_get_free_page
  <2> QED
    BY <2>1, <2>2
<1>3. /\ get[t] \in {"want", "second", "woken", "flushed"}
      /\ UNCHANGED <<user, db, waits, wlock, rd, fetch, add, clean, shrink, ghost>>
  BY DEF psync_pagecache_get_free_page
<1> HIDE DEF runs, owes
<1> QED
  BY <1>2, <1>3, TakesOrWaitsMoves

\* What a reader was asked for is a list of pages that is not empty.
LEMMA OpFacts ==
  ASSUME Types, NEW r \in Readers, user.reads[r] # <<>>
  PROVE  Op(r) \in Reads /\ Op(r).keys \in Seq(Keys) /\ Op(r).keys # <<>>
<1>1. user.reads[r] \in Seq(Reads)
  BY DEF Types, TypeUser
<1>2. Head(user.reads[r]) \in Reads
  BY <1>1
<1> QED
  BY <1>2 DEF Op, Reads

\* A reader that goes over its pages is at one of them: the loop of
\* ppagecache_read_unmod_locked stays inside its array.
LEMMA KeyFacts ==
  ASSUME Types, NEW r \in Readers, Reading(r), rd[r].pc \in Looking \/ Starts(r)
  PROVE  /\ Op(r) \in Reads /\ Op(r).keys \in Seq(Keys) /\ Key(r) \in Keys
            /\ rd[r].i \in 1..Len(Op(r).keys)
<1>1. user.reads[r] # <<>>
  BY DEF Starts, Reading, Looking
<1>2. rd[r].i \in DOMAIN Op(r).keys
  <2>1. CASE rd[r].pc \in Looking
    BY <2>1 DEF Reading
  <2>2. CASE Starts(r)
    <3>1. rd[r].i = 1
      BY <2>2 DEF Starts, Reading, NotReading
    <3>2. Op(r).keys \in Seq(Keys) /\ Op(r).keys # <<>>
      BY <1>1, OpFacts
    <3> QED
      BY <3>1, <3>2
  <2> QED
    BY <2>1, <2>2
<1>3. Op(r) \in Reads /\ Op(r).keys \in Seq(Keys)
  BY <1>1, OpFacts
<1> QED
  BY <1>2, <1>3 DEF Key

\* psync_pagecache_return_free_page gives a held page back.
Returning(t) == held[t] # 0 /\ psync_pagecache_return_free_page(t) /\ UNCHANGED shrink

\* A thread makes the page it holds visible in cache_hash.
Hashing(t) ==
    /\ held[t] # 0 /\ \E k \in Keys, type \in {"read", "cache"} : IntoHash(t, k, type)
    /\ UNCHANGED shrink

\* flush_pages takes the pages S out of cache_hash and frees them.  The count of
\* those in the hash follows, unless a write that the table ignored is known.
Emptying(S) ==
    /\ mem' = [mem EXCEPT !.hash = @ \ S, !.free = @ \cup S,
                          !.nfree = (@ + Cardinality(S)) % Word, !.nhash = mem'.nhash]
    /\ mem'.nhash \in Int
    /\ mem.nhash = Cardinality(mem.hash) =>
          "ignored" \in ghost'.known \/ mem'.nhash = Cardinality(mem.hash \ S)
    /\ UNCHANGED <<held, shrink>>

\* get_free_page_if_available: the page is not counted.
ShrinkTaking ==
    /\ mem.free # {} /\ shrink.page = 0 /\ shrink'.page = Min(mem.free)
    /\ mem' = [mem EXCEPT !.free = @ \ {Min(@)}] /\ "uncounted" \in ghost'.known /\ UNCHANGED held

\* The thread that shrinks the cache gives its page back.
ShrinkReturning == shrink.page # 0 /\ PageBack /\ shrink'.page = 0 /\ UNCHANGED held

\* The thread that shrinks the cache puts its page into cache_hash.
ShrinkHashing ==
    /\ shrink.page # 0 /\ shrink'.page = 0 /\ UNCHANGED held
    /\ \E k \in Keys, type \in {"read", "cache"} :
          mem' = [mem EXCEPT !.page[shrink.page] = [key |-> k, type |-> type],
                             !.hash = @ \cup {shrink.page}, !.nhash = @ + 1]

\* A return of the page that get_free_page_if_available did not count is counted.
Miscounting ==
    /\ mem' = [mem EXCEPT !.nfree = (@ + 1) % Word] /\ "uncounted" \in ghost'.known
    /\ shrink'.page = shrink.page /\ UNCHANGED held

\* A step that moves at most one page: none, one that a thread takes, returns or
\* hashes, or the one of the thread that shrinks the cache.
SlotMove ==
    /\ ghost.known \subseteq ghost'.known
    /\ \/ UNCHANGED <<mem, held>> /\ shrink'.page = shrink.page
       \/ \E t \in Getters : Taking(t) \/ Returning(t) \/ Hashing(t)
       \/ ShrinkTaking \/ ShrinkReturning \/ ShrinkHashing \/ Miscounting

\* A step that moves pages at all: one page, or those that a flush frees.
PageMove ==
    \/ SlotMove
    \/ ghost.known \subseteq ghost'.known /\ \E S \in SUBSET mem.hash : Emptying(S)

\* A thread inside psync_pagecache_get_free_page has no page yet.
LEMMA NotHeld ==
  ASSUME Control, NEW t \in Getters, get[t] \notin {"no", "got"}
  PROVE  held[t] = 0
BY DEF Control, Hands, Holds, Asking, Getters

\* What is known to be miscounted stays known.
LEMMA KnownGrows ==
  ASSUME Types, NEW W, ghost' = Known(W)
  PROVE  ghost.known \subseteq ghost'.known /\ W \subseteq ghost'.known
BY DEF Known, Types, TypeGhost

\* A step that leaves memory and hands alone is such a move.
LEMMA SameMemory == ASSUME UNCHANGED <<mem, held, shrink, ghost>> PROVE SlotMove
BY DEF SlotMove

\* No step of ppagecache_read_unmod_locked moves more than the page that
\* request_auth_page holds.
LEMMA ReaderMove ==
  ASSUME IInv, NEW r \in Readers, Read(r) PROVE SlotMove
<1> r \in Getters
  BY DEF Getters
<1>1. CASE \/ check_pages_in_database_by_hash(r) \/ check_page_in_memory_by_hash(r)
    \/ check_page_in_database_by_hash(r) \/ ReadFile(r)
    \/ ReadAhead(r) \/ ReadAheadMore(r)
  <2>1. UNCHANGED <<mem, held, shrink, ghost>>
    BY <1>1 DEF check_pages_in_database_by_hash, check_page_in_memory_by_hash,
       check_page_in_database_by_hash, ReadFile,
        ReadAhead, ReadAheadMore
  <2> QED BY <2>1 DEF SlotMove
<1>2. CASE mark_page_free(r)
  <2>1. UNCHANGED <<mem, held, shrink>> /\ ghost.known \subseteq ghost'.known
    <3>1. PICK W : ghost' = Known(W)
      BY <1>2 DEF mark_page_free
    <3> QED BY <3>1, <1>2, KnownGrows DEF mark_page_free, IInv
  <2> QED BY <2>1 DEF SlotMove
<1>3. CASE wait_waiter(r)
  <2>1. UNCHANGED <<mem, held, shrink>> /\ ghost.known \subseteq ghost'.known
    BY <1>3 DEF wait_waiter, IInv, Types, TypeGhost
  <2> QED BY <2>1 DEF SlotMove
<1>4. CASE psync_pagecache_get_free_page(r)
  <2>1. GetMove(r) /\ held[r] = 0
    <3>1. GetMove(r)
      BY <1>4, GetMoves DEF IInv
    <3> QED BY <3>1, NotHeld DEF IInv, GetMove
  <2> QED BY <2>1 DEF GetMove, SlotMove, Taking
<1>5. CASE check_page_in_database_by_hash_and_cache(r)
  <2>1. held[r] # 0
    BY <1>5 DEF check_page_in_database_by_hash_and_cache, IInv, Control, Hands, Holds
  <2>2. Key(r) \in Keys
    BY <1>5, KeyFacts DEF check_page_in_database_by_hash_and_cache, IInv, ReadingAll,
       Looking
  <2>3. Returning(r) \/ Hashing(r)
    BY <1>5, <2>1, <2>2 DEF check_page_in_database_by_hash_and_cache, Returning, Hashing
  <2> QED BY <1>5, <2>3 DEF SlotMove, check_page_in_database_by_hash_and_cache
<1> QED
  BY <1>1, <1>2, <1>3, <1>4, <1>5 DEF Read

\* No step of psync_pagecache_read_unmodified_thread moves more than the page it
\* holds.
LEMMA FetchMove ==
  ASSUME IInv, NEW f \in Fetchers, Fetch(f) PROVE SlotMove
<1> f \in Getters
  BY DEF Getters
<1>1. CASE FetchRefused(f) \/ FetchArrives(f) \/ psync_pagecache_send_error(f)
  <2>1. UNCHANGED <<mem, held, shrink, ghost>>
    BY <1>1 DEF FetchRefused, FetchArrives, psync_pagecache_send_error
  <2> QED BY <2>1, SameMemory
<1>2. CASE FetchBreaks(f)
  <2>1. held[f] # 0
    BY <1>2 DEF FetchBreaks, IInv, Control, Hands, Holds
  <2>2. Returning(f) /\ UNCHANGED ghost
    BY <1>2, <2>1 DEF FetchBreaks, Returning
  <2> QED BY <2>2 DEF SlotMove
<1>3. CASE FetchHashes(f)
  <2>1. held[f] # 0
    BY <1>3 DEF FetchHashes, IInv, Control, Hands, Holds
  <2>2. fetch[f].keys[fetch[f].k] \in Keys
    <3>1. fetch[f].keys \in Seq(Keys)
      BY DEF IInv, Types, TypeFetch, Requested
    <3> QED BY <3>1, <1>3 DEF FetchHashes, IInv, Control, Asking
  <2>3. Hashing(f) /\ UNCHANGED ghost
    BY <1>3, <2>1, <2>2 DEF FetchHashes, Hashing
  <2> QED BY <2>3 DEF SlotMove
<1>4. CASE psync_pagecache_get_free_page(f)
  <2>1. GetMove(f) /\ held[f] = 0
    <3>1. GetMove(f)
      BY <1>4, GetMoves DEF IInv
    <3> QED BY <3>1, NotHeld DEF IInv, GetMove
  <2> QED BY <2>1 DEF GetMove, SlotMove, Taking
<1> QED
  BY <1>1, <1>2, <1>3, <1>4 DEF Fetch

\* No step of psync_pagecache_add_page_if_not_exists moves more than its page.
LEMMA AddMove ==
  ASSUME IInv, Add PROVE SlotMove
<1> DEFINE f == "add"
<1> f \in Getters
  BY DEF Getters
<1>1. CASE AddStarts
  <2>1. UNCHANGED <<mem, held, shrink, ghost>>
    BY <1>1 DEF AddStarts
  <2> QED BY <2>1, SameMemory
<1>2. CASE AddLooks
  <2>1. held[f] # 0
    BY <1>2 DEF AddLooks, IInv, Control, Hands, Holds
  <2>2. (Returning(f) \/ UNCHANGED <<mem, held, shrink>>) /\ UNCHANGED ghost
    BY <1>2, <2>1 DEF AddLooks, Returning
  <2> QED BY <2>2 DEF SlotMove
<1>3. CASE AddHashes
  <2>1. held[f] # 0
    BY <1>3 DEF AddHashes, IInv, Control, Hands, Holds
  <2>2. Head(user.adds) \in Keys
    <3>1. user.adds \in Seq(Keys) /\ user.adds # <<>>
      BY <1>3 DEF IInv, Types, TypeUser, Control, Asking, AddHashes
    <3> QED BY <3>1
  <2>3. (Returning(f) \/ Hashing(f)) /\ UNCHANGED ghost
    BY <1>3, <2>1, <2>2 DEF AddHashes, Hashing, Returning
  <2> QED BY <2>3 DEF SlotMove
<1>4. CASE psync_pagecache_get_free_page(f)
  <2>1. GetMove(f) /\ held[f] = 0
    <3>1. GetMove(f)
      BY <1>4, GetMoves DEF IInv
    <3> QED BY <3>1, NotHeld DEF IInv, GetMove
  <2> QED BY <2>1 DEF GetMove, SlotMove, Taking
<1> QED
  BY <1>1, <1>2, <1>3, <1>4 DEF Add

----------------------------------------------------------------------------
(* What a flush picks.                                                    *)

\* check_disk_full frees pages of cache_hash only.
LEMMA GoneFromHash == ASSUME NEW gone \in Forgotten, Types PROVE gone \subseteq mem.hash
<1>1. ASSUME NEW n, NEW S \in kSubset(n, OfType(mem.hash, "read")) PROVE S \subseteq mem.hash
  BY <1>1 DEF kSubset, OfType
<1>2. OfType(mem.hash, "cache") \subseteq mem.hash
  BY DEF OfType
<1> QED
  BY <1>1, <1>2 DEF Forgotten

\* A table has finitely many rows, and as many free ones at most.
LEMMA RowsFinite ==
  ASSUME NEW rows \in Seq(Nat)
  PROVE  /\ IsFiniteSet(DOMAIN rows) /\ Cardinality(DOMAIN rows) = Len(rows)
         /\ IsFiniteSet(FreeRows(rows)) /\ Cardinality(FreeRows(rows)) \in 0..Len(rows)
         /\ FreeRows(rows) \subseteq DOMAIN rows
<1>1. DOMAIN rows = 1..Len(rows) /\ Len(rows) \in Nat
  OBVIOUS
<1>2. IsFiniteSet(DOMAIN rows) /\ Cardinality(DOMAIN rows) = Len(rows)
  <2>1. IsFiniteSet(1..Len(rows))
          /\ Cardinality(1..Len(rows)) = IF 1 > Len(rows) THEN 0 ELSE Len(rows) - 1 + 1
    BY <1>1, FS_Interval, 1 \in Int
  <2> QED BY <1>1, <2>1
<1>3. FreeRows(rows) \subseteq DOMAIN rows
  BY DEF FreeRows
<1>4. IsFiniteSet(FreeRows(rows)) /\ Cardinality(FreeRows(rows)) <= Len(rows)
        /\ Cardinality(FreeRows(rows)) \in Nat
  BY <1>2, <1>3, FS_Subset, FS_CardinalityType
<1> QED BY <1>1, <1>2, <1>3, <1>4

\* The rows that check_disk_full leaves are the first ones of the table, as they
\* were: all of them, or those the file has room for and one more.
LEMMA RowsKeptFacts ==
  ASSUME TypeDb
  PROVE  /\ RowsKept \in Seq(Nat) /\ Len(RowsKept) <= Len(db.row)
         /\ DOMAIN RowsKept \subseteq DOMAIN db.row
         /\ \A i \in DOMAIN RowsKept : RowsKept[i] = db.row[i]
         /\ FreeRows(RowsKept) \subseteq FreeIds
         /\ ~user.full => RowsKept = db.row
         /\ Len(RowsKept) = Len(db.row) \/ Len(RowsKept) = Len(db.file) + 1
<1>1. db.row \in Seq(Nat) /\ db.file \in Seq(Nat)
  BY DEF TypeDb
<1>2. CASE user.full /\ Len(db.row) > Len(db.file) + 1
  <2>1. RowsKept = SubSeq(db.row, 1, Len(db.file) + 1)
    BY <1>2 DEF RowsKept
  <2>2. Len(db.file) + 1 \in 1..Len(db.row)
    BY <1>1, <1>2
  <2>3. /\ RowsKept \in Seq(Nat) /\ Len(RowsKept) = Len(db.file) + 1
           /\ \A i \in 1..(Len(db.file) + 1) : RowsKept[i] = db.row[i]
    BY <1>1, <2>1, <2>2
  <2>4. DOMAIN RowsKept = 1..(Len(db.file) + 1) /\ DOMAIN db.row = 1..Len(db.row)
    BY <1>1, <2>3
  <2>5. DOMAIN RowsKept \subseteq DOMAIN db.row
    BY <1>1, <1>2, <2>4
  <2>6. FreeRows(RowsKept) \subseteq FreeIds
    BY <2>3, <2>4, <2>5 DEF FreeIds, IdsOf, FreeRows
  <2> QED BY SMTT(30), <1>1, <1>2, <2>3, <2>4, <2>5, <2>6
<1>3. CASE ~(user.full /\ Len(db.row) > Len(db.file) + 1)
  <2>1. RowsKept = db.row
    BY <1>3 DEF RowsKept
  <2> QED BY <1>1, <1>3, <2>1 DEF FreeIds, IdsOf, FreeRows
<1> QED BY <1>2, <1>3

\* cmp_flush_pages is a total order: two pages never have the same place in it.
LEMMA PlacesDiffer ==
  ASSUME TypeMem, NEW S \in SUBSET Slots, NEW s \in S, NEW z \in S,
         Place(s, S) = Place(z, S)
  PROVE  s = z
<1>0. mem.page \in [Slots -> Pages] /\ \A x \in S : mem.page[x].key \in Nat /\ x \in Nat
  BY Finite DEF TypeMem, Pages
<1>1. ASSUME NEW a \in S, NEW b \in S, Before(a, b) PROVE Place(a, S) < Place(b, S)
  <2> DEFINE A == {x \in S : Before(x, a)} B == {x \in S : Before(x, b)}
  <2>1. A \subseteq B /\ a \in B /\ a \notin A
    BY <1>0, <1>1 DEF Before
  <2>2. IsFiniteSet(B) /\ A \in SUBSET B /\ A # B
    <3>1. B \in SUBSET Slots
      OBVIOUS
    <3> HIDE DEF A, B
    <3> QED BY <2>1, <3>1, Finite
  <2> HIDE DEF A, B
  <2>3. Cardinality(A) <= Cardinality(B) /\ Cardinality(A) # Cardinality(B) /\ IsFiniteSet(A)
    BY <2>2, FS_Subset
  <2>4. Cardinality(A) \in Nat /\ Cardinality(B) \in Nat
    BY <2>2, <2>3, FS_CardinalityType
  <2>5. Cardinality(A) < Cardinality(B)
    BY <2>3, <2>4
  <2> QED BY <2>5 DEF Place, A, B
<1>2. s # z => Before(s, z) \/ Before(z, s)
  BY <1>0 DEF Before
<1>3. Place(s, S) \in Nat
  <2> DEFINE A == {x \in S : Before(x, s)}
  <2>1. A \in SUBSET Slots
    OBVIOUS
  <2> HIDE DEF A
  <2>2. Cardinality(A) \in Nat
    BY <2>1, Finite, FS_CardinalityType
  <2> QED BY <2>2 DEF Place, A
<1> QED BY <1>1, <1>2, <1>3

\* Pages have the places 0, 1, 2 and so on in that order, with none left out.
LEMMA PlacesFill ==
  ASSUME TypeMem, NEW S \in SUBSET Slots, NEW s \in S, NEW n \in Nat, n < Place(s, S)
  PROVE  \E z \in S : Place(z, S) = n
<1> DEFINE c == Cardinality(S) T == 0..(c - 1) f == [x \in S |-> Place(x, S)]
<1>0. IsFiniteSet(S) /\ c \in Nat /\ c > 0
  BY Finite, FS_EmptySet, FS_CardinalityType
<1>1. ASSUME NEW x \in S PROVE Place(x, S) \in T
  <2> DEFINE A == {z \in S : Before(z, x)}
  <2>1. A \in SUBSET (S \ {x})
    <3>1. ~Before(x, x)
      BY Finite DEF Before, TypeMem, Pages
    <3> QED BY <3>1
  <2>2. IsFiniteSet(S \ {x}) /\ Cardinality(S \ {x}) = c - 1
    BY <1>0, FS_RemoveElement
  <2> HIDE DEF A, c
  <2>3. IsFiniteSet(A) /\ Cardinality(A) <= c - 1 /\ Cardinality(A) \in Nat
    BY <2>1, <2>2, FS_Subset, FS_CardinalityType
  <2>4. Cardinality(A) \in T
    BY <1>0, <2>3
  <2> QED BY <2>4 DEF Place, A
<1>2. IsFiniteSet(T) /\ Cardinality(T) = c
  <2> HIDE DEF c
  <2>1. IsFiniteSet(0..(c - 1)) /\ Cardinality(0..(c - 1)) = IF 0 > c - 1 THEN 0 ELSE c - 1 - 0 + 1
    BY <1>0, FS_Interval, 0 \in Int, c - 1 \in Int
  <2> QED BY <1>0, <2>1
<1>3. f \in Injection(S, T)
  <2>1. f \in [S -> T]
    BY <1>1
  <2>2. \A x, z \in S : Place(x, S) = Place(z, S) => x = z
    BY PlacesDiffer
  <2>3. IsInjective(f)
    BY <2>2 DEF IsInjective
  <2> QED BY <2>1, <2>3 DEF Injection
<1> HIDE DEF f
<1>4. f \in Surjection(S, T)
  <2> HIDE DEF c, T
  <2>1. Cardinality(S) = Cardinality(T) <=> f \in Surjection(S, T)
    BY <1>2, <1>3, FS_Injection
  <2> QED BY <1>2, <2>1 DEF c
<1>5. n \in T
  <2> HIDE DEF c
  <2> QED BY <1>0, <1>1
<1>6. \E z \in S : f[z] = n
  BY <1>4, <1>5 DEF Surjection
<1> QED BY <1>6 DEF f

\* A free row that comes later has more free rows before it.
LEMMA RanksDiffer ==
  ASSUME NEW F \in SUBSET Nat, IsFiniteSet(F), NEW i \in F, NEW j \in F, i < j
  PROVE  /\ Cardinality({x \in F : x < i}) < Cardinality({x \in F : x < j})
         /\ Cardinality({x \in F : x < i}) \in Nat /\ Cardinality({x \in F : x < j}) \in Nat
<1> DEFINE A == {x \in F : x < i} B == {x \in F : x < j}
<1>1. A \in SUBSET B /\ A # B /\ B \in SUBSET F
  <2>1. i \in Int /\ j \in Int /\ \A x \in F : x \in Int
    OBVIOUS
  <2>2. \A x \in F : x < i => x < j
    BY <2>1
  <2>3. i \in B /\ i \notin A
    BY <2>1
  <2> QED BY <2>2, <2>3
<1> HIDE DEF A, B
<1>2. IsFiniteSet(B) /\ IsFiniteSet(A) /\ Cardinality(A) <= Cardinality(B)
        /\ Cardinality(A) # Cardinality(B)
  BY <1>1, FS_Subset
<1>3. Cardinality(A) \in Nat /\ Cardinality(B) \in Nat
  BY <1>2, FS_CardinalityType
<1>4. Cardinality(A) < Cardinality(B)
  BY <1>2, <1>3
<1> QED BY <1>3, <1>4 DEF A, B

\* flush_pages gives each page it picks a free row of its own, the lowest ones, in
\* the order of the pages.
LEMMA AssignedFacts ==
  ASSUME TypeMem, NEW S \in SUBSET Slots, NEW rows \in Seq(Nat)
  PROVE  LET todo == Assigned(S, rows)
         IN  /\ DOMAIN todo \subseteq S /\ todo \in [DOMAIN todo -> Nat]
             /\ \A s \in DOMAIN todo : todo[s] \in FreeRows(rows)
             /\ \A s, z \in DOMAIN todo : todo[s] = todo[z] => s = z
             /\ \A s \in DOMAIN todo : Place(s, S) \in Nat
             /\ \A s \in DOMAIN todo : \A i \in FreeRows(rows) : i < todo[s] =>
                   \E z \in DOMAIN todo : todo[z] = i /\ Place(z, S) < Place(s, S)
<1> DEFINE todo == Assigned(S, rows) D == {s \in S : RowsFor(s, S, rows) # {}}
           F == FreeRows(rows) Rank(i) == Cardinality({j \in F : j < i})
<1>1. DOMAIN todo = D
  BY DEF Assigned
<1>2. \A s \in D : todo[s] \in RowsFor(s, S, rows)
  BY DEF Assigned
<1>3. \A s \in D : todo[s] \in F /\ Rank(todo[s]) = Place(s, S)
  <2> HIDE DEF todo
  <2> QED BY <1>2 DEF RowsFor
<1>4. D \subseteq S
  OBVIOUS
<1>5. F \in SUBSET Nat /\ IsFiniteSet(F)
  BY RowsFinite
<1>6. todo = [s \in D |-> todo[s]]
  BY DEF Assigned
<1>s. \A z \in S : \A i \in F : Rank(i) = Place(z, S) => z \in D
  BY DEF RowsFor
<1>r. ASSUME NEW i \in F, NEW j \in F
      PROVE  Rank(i) \in Nat /\ (i < j => Rank(i) < Rank(j))
  <2> HIDE DEF F
  <2>1. IsFiniteSet({x \in F : x < i})
    BY <1>5, FS_Subset
  <2>2. Rank(i) \in Nat
    BY <2>1, FS_CardinalityType
  <2> QED BY <1>5, <2>2, RanksDiffer
<1>q. \A i, j \in F : Rank(i) = Rank(j) => i = j
  <2> HIDE DEF F, Rank
  <2>1. \A i, j \in F : i \in Nat /\ j \in Nat /\ Rank(i) \in Nat /\ Rank(j) \in Nat
    BY <1>5, <1>r
  <2> QED BY <1>r, <2>1
<1> HIDE DEF todo, D, F, Rank
<1>7. ASSUME NEW s \in D, NEW z \in D, todo[s] = todo[z] PROVE s = z
  <2>1. Place(s, S) = Place(z, S) /\ s \in S /\ z \in S
    BY <1>3, <1>4, <1>7
  <2> QED BY ONLY <2>1, TypeMem, S \in SUBSET Slots, PlacesDiffer
<1>8. ASSUME NEW s \in D, NEW i \in F, i < todo[s]
      PROVE  \E z \in D : todo[z] = i /\ Place(z, S) < Place(s, S)
  <2>1. Rank(i) \in Nat /\ Rank(i) < Place(s, S) /\ s \in S
    BY <1>3, <1>4, <1>8, <1>r
  <2>2. PICK z \in S : Place(z, S) = Rank(i)
    BY <2>1, PlacesFill
  <2>3. z \in D /\ Rank(todo[z]) = Rank(i) /\ todo[z] \in F
    BY <1>3, <1>s, <2>2
  <2>4. todo[z] = i
    BY <1>q, <2>3
  <2> QED BY <2>1, <2>2, <2>3, <2>4
<1>9. \A s \in D : Place(s, S) \in Nat
  BY <1>3, <1>r
<1> QED BY <1>1, <1>3, <1>4, <1>5, <1>6, <1>7, <1>8, <1>9 DEF todo, F

\* The rows that are picked.
Ids(todo) == {todo[s] : s \in DOMAIN todo}

\* What flush_pages has chosen to write, and written as far as the disk took it:
\* pages of cache_hash, each at a free row of its own, the lowest ones.
Todo(todo) ==
    /\ DOMAIN todo \subseteq mem.hash /\ todo \in [DOMAIN todo -> Nat]
    /\ \A s \in DOMAIN todo : todo[s] \in FreeIds
    /\ \A s, z \in DOMAIN todo : todo[s] = todo[z] => s = z
    /\ \A s \in DOMAIN todo : \A i \in FreeIds : i < todo[s] => i \in Ids(todo)

\* A flush may have nothing to write.
LEMMA NothingTodo == ASSUME NEW todo, todo = <<>> PROVE Todo(todo)
<1>1. DOMAIN todo = {}
  OBVIOUS
<1>2. todo \in [DOMAIN todo -> Nat]
  BY <1>1
<1> QED BY <1>1, <1>2 DEF Todo

\* Whether all writes go well or one fails, the rows that are written are such.
LEMMA OutcomeTodo ==
  ASSUME Types, NEW S \in SUBSET mem.hash, NEW wrote \in Outcomes(Assigned(S, db.row), S)
  PROVE  Todo(wrote) /\ DOMAIN wrote \subseteq S
<1> DEFINE a == Assigned(S, db.row)
<1>0. TypeMem /\ mem.hash \in SUBSET Slots /\ S \in SUBSET Slots /\ db.row \in Seq(Nat)
        /\ FreeRows(db.row) = FreeIds
  BY DEF Types, TypeMem, TypeDb, FreeIds, IdsOf, FreeRows
<1>1. /\ DOMAIN a \subseteq S /\ a \in [DOMAIN a -> Nat]
      /\ \A s \in DOMAIN a : a[s] \in FreeIds
      /\ \A s, z \in DOMAIN a : a[s] = a[z] => s = z
      /\ \A s \in DOMAIN a : Place(s, S) \in Nat
      /\ \A s \in DOMAIN a : \A i \in FreeIds : i < a[s] =>
            \E z \in DOMAIN a : a[z] = i /\ Place(z, S) < Place(s, S)
  BY <1>0, AssignedFacts
<1> HIDE DEF a
<1>2. CASE wrote = a
  BY <1>1, <1>2 DEF Todo, Ids
<1>3. CASE wrote \in Firsts(a, S)
  <2>1. PICK n \in 0..(Cardinality(DOMAIN a) - 1) :
          wrote = [s \in {s \in DOMAIN a : Place(s, S) < n} |-> a[s]]
    BY <1>3 DEF Firsts
  <2> DEFINE D == {s \in DOMAIN a : Place(s, S) < n}
  <2>2. DOMAIN wrote = D /\ D \subseteq DOMAIN a /\ (\A s \in D : wrote[s] = a[s])
          /\ wrote = [s \in D |-> a[s]]
    BY <2>1
  <2>3. \A s \in D : Place(s, S) < n /\ n \in Int
    BY <2>1
  <2>4. \A z \in DOMAIN a : Place(z, S) < n => z \in D
    OBVIOUS
  <2> HIDE DEF D
  <2>5. wrote \in [DOMAIN wrote -> Nat]
    BY <1>1, <2>2
  <2>6. ASSUME NEW s \in D, NEW i \in FreeIds, i < wrote[s] PROVE \E z \in D : wrote[z] = i
    <3>1. PICK z \in DOMAIN a : a[z] = i /\ Place(z, S) < Place(s, S)
      BY <1>1, <2>2, <2>6
    <3>2. Place(z, S) < n
      BY <1>1, <2>2, <2>3, <3>1
    <3> QED BY <2>2, <2>4, <3>1, <3>2
  <2> QED BY <1>1, <2>2, <2>5, <2>6 DEF Todo, Ids
<1> QED BY <1>2, <1>3 DEF Outcomes, a

\* What flush_pages does while it has cache_mutex, whether the disk is full or
\* not: it picks pages that stay in cache_hash, frees others, writes those it
\* picked and knows of the readers whose row was picked, and of a count that is
\* old.
FlushFile(todo) ==
    /\ db' = [db EXCEPT !.nfree = IF user.full THEN fl.free ELSE @, !.file = Written(todo)]
    /\ ghost' = [ghost EXCEPT !.known = @ \cup (IF Stale THEN {"rows"} ELSE {}),
                  !.reused = @ \cup {r \in Readers : rd[r].pc = "pread"
                                     /\ \E s \in DOMAIN todo : todo[s] = rd[r].ids[Key(r)]}]
LEMMA FlushWritesTodo ==
  ASSUME IInv, NEW t, FlushWrites(t)
  PROVE  \E todo : \E S \in SUBSET mem.hash : \E step \in {"failed", "syncs", "commits"} :
           /\ Todo(todo) /\ DOMAIN todo \subseteq mem.hash \ S
           /\ Emptying(S) /\ mem'.page = mem.page /\ ghost.known \subseteq ghost'.known
           /\ FlushFile(todo)
           /\ fl' = [fl EXCEPT !.free = 0, !.todo = todo, !.step = step]
<1> USE Finite
<1>0. TypeMem /\ TypeDb /\ mem.hash \in SUBSET Slots /\ mem.free \in SUBSET Slots
        /\ mem.nhash \in Int /\ ghost.known \in SUBSET {"rows", "uncounted", "ignored"}
  BY DEF IInv, Types, TypeMem, TypeGhost
<1>1. PICK gone \in Forgotten :
         LET hash == mem.hash \ gone
             nhash == mem.nhash - Cardinality(gone)
             kept == IF nhash > 0 THEN OfType(hash, "read") ELSE hash
             todo == IF nhash > 0 THEN Assigned(kept, db.row) ELSE <<>>
         IN \E wrote \in Outcomes(todo, kept) :
            /\ mem' = [mem EXCEPT !.hash = kept, !.free = @ \cup (mem.hash \ kept),
                          !.nfree = (@ + Cardinality(mem.hash \ kept)) % Word,
                          !.nhash = IF nhash > 0 THEN Cardinality(kept) ELSE nhash]
            /\ FlushFile(wrote)
            /\ fl' = [fl EXCEPT !.free = 0, !.todo = wrote,
                  !.step = IF wrote # todo THEN "failed"
                           ELSE IF nhash > 0 /\ kept # {} THEN "syncs" ELSE "commits"]
  BY ZenonT(60) DEF FlushWrites, FlushFile
<1> DEFINE hash == mem.hash \ gone
           nhash == mem.nhash - Cardinality(gone)
           kept == IF nhash > 0 THEN OfType(hash, "read") ELSE hash
           todo == IF nhash > 0 THEN Assigned(kept, db.row) ELSE <<>>
<1>2. gone \subseteq mem.hash
  BY GoneFromHash DEF IInv
<1>3. kept \subseteq mem.hash /\ mem.hash \ (mem.hash \ kept) = kept /\ kept \in SUBSET Slots
  BY <1>0 DEF OfType
<1>4. Cardinality(hash) = Cardinality(mem.hash) - Cardinality(gone)
  <2>1. IsFiniteSet(mem.hash) /\ mem.hash \cap gone = gone
    BY <1>0, <1>2
  <2> QED BY <2>1, FS_Difference
<1>5. PICK wrote \in Outcomes(todo, kept) :
        /\ mem' = [mem EXCEPT !.hash = kept, !.free = @ \cup (mem.hash \ kept),
                        !.nfree = (@ + Cardinality(mem.hash \ kept)) % Word,
                        !.nhash = IF nhash > 0 THEN Cardinality(kept) ELSE nhash]
        /\ FlushFile(wrote)
        /\ fl' = [fl EXCEPT !.free = 0, !.todo = wrote,
                  !.step = IF wrote # todo THEN "failed"
                           ELSE IF nhash > 0 /\ kept # {} THEN "syncs" ELSE "commits"]
  BY <1>1, ZenonT(60)
<1>6. nhash \in Int /\ Cardinality(kept) \in Int
  <2>1. Cardinality(gone) \in Int
    BY <1>0, <1>2
  <2>2. nhash \in Int
    BY <1>0, <2>1
  <2>3. kept \in SUBSET Slots
    BY <1>3
  <2> HIDE DEF kept, nhash
  <2>4. Cardinality(kept) \in 0..CachePages
    BY ONLY <2>3, Finite
  <2>5. Cardinality(kept) \in Int
    BY ONLY <2>4
  <2> QED BY <2>2, <2>5
<1>7. ~(nhash > 0) => kept = hash
  OBVIOUS
<1>9. Todo(wrote) /\ DOMAIN wrote \subseteq kept
  <2>1. CASE nhash > 0
    <3> HIDE DEF kept
    <3>1. wrote \in Outcomes(Assigned(kept, db.row), kept)
      BY <1>5, <2>1
    <3> QED BY <1>3, <3>1, OutcomeTodo DEF IInv
  <2>2. CASE ~(nhash > 0)
    <3>1. todo = <<>>
      BY <2>2
    <3> HIDE DEF todo, kept
    <3>2. wrote = <<>>
      <4>1. DOMAIN todo = {} /\ Cardinality(DOMAIN todo) = 0
        BY <3>1, FS_EmptySet
      <4>2. wrote # todo => wrote \in Firsts(todo, kept)
        BY <1>5 DEF Outcomes
      <4>3. 0..(0 - 1) = {}
        OBVIOUS
      <4>4. Firsts(todo, kept) = {}
        BY <4>1, <4>3 DEF Firsts
      <4> QED BY <3>1, <4>2, <4>4
    <3>3. DOMAIN wrote = {}
      BY <3>2
    <3> QED BY <3>2, <3>3, NothingTodo
  <2> QED BY <2>1, <2>2
<1>8. UNCHANGED <<held, shrink>> /\ ghost.known \subseteq ghost'.known
  <2>1. UNCHANGED <<held, shrink>>
    BY DEF FlushWrites
  <2>2. ghost'.known = ghost.known \cup (IF Stale THEN {"rows"} ELSE {})
    BY <1>5 DEF FlushFile, IInv, Types, TypeGhost
  <2> QED BY <2>1, <2>2
<1>k. \E step \in {"failed", "syncs", "commits"} :
         fl' = [fl EXCEPT !.free = 0, !.todo = wrote, !.step = step]
  <2> DEFINE step == IF wrote # todo THEN "failed"
                     ELSE IF nhash > 0 /\ kept # {} THEN "syncs" ELSE "commits"
  <2>1. step \in {"failed", "syncs", "commits"}
    OBVIOUS
  <2>2. fl' = [fl EXCEPT !.free = 0, !.todo = wrote, !.step = step]
    BY <1>5
  <2> HIDE DEF step
  <2> QED BY <2>1, <2>2
<1>a. FlushFile(wrote)
  BY <1>5
<1> HIDE DEF kept, hash, todo
<1>b. mem'.nhash = IF nhash > 0 THEN Cardinality(kept) ELSE nhash
  BY <1>5, <1>0 DEF TypeMem
<1>c. mem.nhash = Cardinality(mem.hash) => mem'.nhash = Cardinality(kept)
  BY <1>b, <1>4, <1>7
<1> HIDE DEF nhash
<1>d. mem'.nhash \in Int
  BY <1>b, <1>6
<1>e. mem'.page = mem.page
  BY <1>5, <1>0 DEF TypeMem
<1>f. Emptying(mem.hash \ kept)
  BY <1>3, <1>5, <1>8, <1>b, <1>c, <1>d DEF Emptying
<1> DEFINE S0 == mem.hash \ kept
<1>g. S0 \in SUBSET mem.hash /\ mem.hash \ S0 = kept /\ Emptying(S0)
  BY <1>3, <1>f
<1> HIDE DEF S0
<1>h. Todo(wrote) /\ DOMAIN wrote \subseteq mem.hash \ S0
  BY <1>9, <1>g
<1> QED BY <1>8, <1>a, <1>e, <1>g, <1>h, <1>k

\* A flush moves pages from cache_hash to the free ones only.
LEMMA FlushMove ==
  ASSUME IInv, NEW t, FlushStarts(t) \/ FlushChecks(t) \/ FlushWrites(t) \/ FlushFails(t) \/ FlushCommits(t)
  PROVE  PageMove
<1> USE Finite
<1>0. mem.hash \in SUBSET Slots /\ mem.free \in SUBSET Slots /\ mem.nhash \in Int
        /\ ghost.known \in SUBSET {"rows", "uncounted", "ignored"}
  BY DEF IInv, Types, TypeMem, TypeGhost
<1>1. CASE FlushStarts(t) \/ FlushChecks(t) \/ FlushFails(t)
  <2>1. UNCHANGED <<mem, held, shrink, ghost>>
    BY <1>1 DEF FlushStarts, FlushChecks, FlushFails
  <2> QED BY <2>1, SameMemory DEF PageMove
<1>2. CASE FlushWrites(t)
  <2> QED
    BY <1>2, FlushWritesTodo DEF PageMove
<1>3. CASE FlushCommits(t)
  <2> DEFINE done == {s \in DOMAIN fl.todo : Gets(s)}
             S == DOMAIN fl.todo
  <2>1. mem' = [mem EXCEPT !.hash = @ \ S, !.free = @ \cup S,
                     !.nfree = (@ + Cardinality(S)) % Word,
                     !.nhash = @ - Cardinality(done)]
    BY <1>3 DEF FlushCommits
  <2>2. S \subseteq mem.hash /\ done \subseteq mem.hash
    BY DEF IInv, Picked
  <2>3. UNCHANGED <<held, shrink>> /\ ghost.known \subseteq ghost'.known /\ (done # S
          => "ignored" \in ghost'.known)
    <3>1. ghost' = Known(IF done = S THEN {} ELSE {"ignored"})
      BY <1>3 DEF FlushCommits
    <3>2. UNCHANGED <<held, shrink>>
      BY <1>3 DEF FlushCommits
    <3> HIDE DEF done, S
    <3> QED BY <3>1, <3>2, KnownGrows DEF IInv
  <2>4. Cardinality(mem.hash \ S) = Cardinality(mem.hash) - Cardinality(S)
    <3>1. IsFiniteSet(mem.hash) /\ mem.hash \cap S = S
      BY <1>0, <2>2
    <3> HIDE DEF S
    <3> QED BY <3>1, FS_Difference
  <2> HIDE DEF done, S
  <2>5. mem'.nhash = mem.nhash - Cardinality(done) /\ Cardinality(done) \in Int
    BY <1>0, <2>1, <2>2 DEF IInv, Types, TypeMem
  <2>6. Emptying(S)
    BY <1>0, <2>1, <2>3, <2>4, <2>5 DEF Emptying
  <2> QED BY <2>2, <2>3, <2>6 DEF PageMove
<1> QED
  BY <1>1, <1>2, <1>3

----------------------------------------------------------------------------
(* Shrinking the file, and every step of the page cache.                  *)

\* The last page that psync_pagecache_free_page_from_read_cache can give up has a
\* row and a place in the file.
LEMMA LastRow ==
  ASSUME Types, NEW size, size = Min({Len(db.file), Len(db.row)}), size # 0
  PROVE  size \in Nat \ {0} /\ size <= Len(db.file) /\ size <= Len(db.row)
<1>1. Len(db.file) \in Nat /\ Len(db.row) \in Nat
  BY DEF Types, TypeDb
<1> QED
  BY <1>1, MinIn

\* No step of psync_pagecache_free_page_from_read_cache moves more than the page
\* it holds.
LEMMA ShrinkMove == ASSUME IInv, Shrink PROVE SlotMove
<1>1. CASE ShrinkTakes
  <2> DEFINE size == Min({Len(db.file), Len(db.row)})
             k == db.row[size]
             rows == IF size > 0 /\ Len(db.row) > size THEN {"rows"} ELSE {}
  <2>0. ghost.known \subseteq ghost'.known /\ UNCHANGED held /\ shrink.page = 0
    <3>1. PICK W : ghost' = Known(W)
      BY <1>1 DEF ShrinkTakes
    <3>2. shrink.pc = "off"
      BY <1>1 DEF ShrinkTakes, Mutex
    <3> QED BY <1>1, <3>1, <3>2, KnownGrows DEF ShrinkTakes, IInv, Shrinking
  <2>1. CASE UNCHANGED <<mem, shrink>>
    BY <2>0, <2>1 DEF SlotMove
  <2>2. ASSUME NEW W, ghost' = Known(W), "uncounted" \in W
        PROVE  "uncounted" \in ghost'.known
    BY <2>2, KnownGrows DEF IInv
  <2>3. CASE ~(size = 0 \/ mem.free = {}) /\ ~UNCHANGED <<mem, shrink>>
    <3> DEFINE u == {"uncounted"} \cup rows
               v == {"uncounted"} \cup rows \cup IF k = Free THEN {"rows"} ELSE {}
    <3>1. /\ ghost' = Known(u) \/ ghost' = Known(v)
          /\ \/ mem' = [mem EXCEPT !.nfree = (@ + 1) % Word] /\ shrink' \in {shrink, NotShrinking}
             \/ mem' = [mem EXCEPT !.free = @ \ {Min(@)}] /\ shrink'.page = Min(mem.free)
      BY <1>1, <2>3 DEF ShrinkTakes, Drops
    <3>2. "uncounted" \in u /\ "uncounted" \in v
      OBVIOUS
    <3> HIDE DEF u, v
    <3>3. "uncounted" \in ghost'.known
      BY <2>2, <3>1, <3>2
    <3> QED BY <2>0, <2>3, <3>1, <3>3 DEF SlotMove, Miscounting, NotShrinking, ShrinkTaking
  <2>4. (size = 0 \/ mem.free = {}) => UNCHANGED <<mem, shrink>>
    BY <1>1 DEF ShrinkTakes
  <2> HIDE DEF size, k, rows
  <2> QED BY <2>1, <2>3, <2>4
<1>2. ASSUME ShrinkLooks \/ ShrinkAdds
      PROVE  /\ ghost.known \subseteq ghost'.known /\ UNCHANGED held /\ shrink.page # 0
             /\ \/ UNCHANGED <<mem, ghost>> /\ shrink'.page = shrink.page
                \/ PageBack /\ shrink' = NotShrinking
                \/ shrink' = NotShrinking
                   /\ mem' = [mem EXCEPT !.page[shrink.page] = [key |-> shrink.key,
                      type |-> "read"],
                               !.hash = @ \cup {shrink.page}, !.nhash = @ + 1]
  <2>1. shrink.page # 0 /\ UNCHANGED held
    BY <1>2 DEF ShrinkLooks, ShrinkAdds, IInv, Shrinking
  <2>2. CASE ShrinkLooks /\ IdsOf(shrink.key) = {}
    <3>1. shrink' = [shrink EXCEPT !.pc = "add"] /\ UNCHANGED <<mem, ghost>>
      BY <2>2 DEF ShrinkLooks
    <3> QED BY <2>1, <3>1 DEF IInv, Types, TypeShrink
  <2>3. CASE ~(ShrinkLooks /\ IdsOf(shrink.key) = {})
    <3>1. RowGone /\ Drops(shrink.size)
      BY <1>2, <2>3 DEF ShrinkLooks, ShrinkAdds
    <3>2. ghost.known \subseteq ghost'.known
      BY <3>1, KnownGrows DEF RowGone, IInv
    <3> QED BY <1>2, <2>1, <2>3, <3>1, <3>2 DEF ShrinkLooks, ShrinkAdds, Drops
  <2> QED BY <2>2, <2>3
<1>3. CASE ShrinkLooks \/ ShrinkAdds
  <2>1. shrink.key \in Keys
    <3>1. shrink.pc # "off"
      BY <1>3 DEF ShrinkLooks, ShrinkAdds
    <3> QED BY <3>1 DEF IInv, Shrinking, Types, TypeShrink, Keys
  <2>2. CASE UNCHANGED <<mem, ghost>> /\ shrink'.page = shrink.page
    BY <1>2, <1>3, <2>2 DEF SlotMove
  <2>3. CASE PageBack /\ shrink' = NotShrinking
    BY <1>2, <1>3, <2>3 DEF SlotMove, ShrinkReturning, NotShrinking
  <2>4. CASE shrink' = NotShrinking
             /\ mem' = [mem EXCEPT !.page[shrink.page] = [key |-> shrink.key, type |-> "read"],
                               !.hash = @ \cup {shrink.page}, !.nhash = @ + 1]
    <3>1. ShrinkHashing
      BY <1>2, <1>3, <2>1, <2>4 DEF ShrinkHashing, NotShrinking
    <3> QED BY <1>2, <1>3, <3>1 DEF SlotMove
  <2> QED BY <1>2, <1>3, <2>2, <2>3, <2>4
<1> QED BY <1>1, <1>3 DEF Shrink

\* Whatever is not a flush moves at most one page.
LEMMA OtherMove ==
  ASSUME IInv, [Next]_vars, ~Flush PROVE SlotMove
<1>1. CASE FlushTimer \/ CleanStarts \/ UNCHANGED vars
  BY <1>1, SameMemory DEF FlushTimer, CleanStarts, vars
<1>2. CASE CleanFrees
  <2>1. PICK W : ghost' = Known(W)
    BY <1>2 DEF CleanFrees
  <2> QED BY <1>2, <2>1, KnownGrows DEF CleanFrees, SlotMove, IInv
<1> QED
  BY <1>1, <1>2, ReaderMove, FetchMove, AddMove, ShrinkMove DEF Next, Clean

\* Every step of the page cache moves pages in one of these ways.
LEMMA PageMoves == IInv /\ [Next]_vars => PageMove
BY OtherMove, FlushMove DEF PageMove, Flush

----------------------------------------------------------------------------
(* A page is in one place, and counted there: each move keeps that.       *)

\* What becomes of the fields of mem.
Memory(p, f, h, n, m) ==
    /\ mem'.page = p /\ mem'.free = f /\ mem'.hash = h /\ mem'.nfree = n /\ mem'.nhash = m
    /\ TypeMem'

\* An assignment to the fields of mem gives them these values, and mem its type.
LEMMA MemoryBecomes ==
  ASSUME TypeMem, NEW p \in [Slots -> Pages], NEW f \in SUBSET Slots,
         NEW h \in SUBSET Slots, NEW n \in Int, NEW m \in Int,
         mem' = [mem EXCEPT !.page = p, !.free = f, !.hash = h, !.nfree = n, !.nhash = m]
  PROVE  Memory(p, f, h, n, m)
BY DEF TypeMem, Memory

\* What the moves keep of the pages: their places and their counters.
Kept == TypeMem' /\ TypeHeld' /\ shrink'.page \in {0} \cup Slots /\ Places' /\ Hashed'
  /\ PagesCounted'

\* A page in cache_hash stays there and does not change: flush_pages counts on
\* that between its write and its commit.
HashKept == \A s \in mem.hash : s \in mem'.hash /\ mem'.page[s] = mem.page[s]

\* Facts about the pages that the moves share.
LEMMA Smallest ==
  ASSUME IInv PROVE
     /\ TypeMem /\ TypeHeld /\ shrink.page \in {0} \cup Slots /\ Word \in Nat /\ Word > 0
     /\ mem.page \in [Slots -> Pages] /\ mem.free \in SUBSET Slots /\ mem.hash \in SUBSET Slots
     /\ mem.nfree \in Int /\ mem.nhash \in Int
     /\ \A n \in Int : n % Word \in Int
     /\ mem.free # {} => Min(mem.free) \in mem.free
     /\ 0 \notin Slots
     /\ Cardinality(mem.free) \in 0..CachePages /\ Cardinality(mem.hash) \in 0..CachePages
     /\ IsFiniteSet(mem.free) /\ IsFiniteSet(mem.hash)
<1>1. TypeMem /\ TypeHeld /\ shrink.page \in {0} \cup Slots /\ Word \in Nat /\ Word > 0
  BY PagesAssumption DEF IInv, Types, TypeShrink
<1>2. /\ mem.page \in [Slots -> Pages] /\ mem.free \in SUBSET Slots /\ mem.hash \in SUBSET Slots
     /\ mem.nfree \in Int /\ mem.nhash \in Int
  BY <1>1 DEF TypeMem
<1>3. \A n \in Int : n % Word \in Int
  BY <1>1
<1>4. mem.free # {} => Min(mem.free) \in mem.free
  BY <1>2, Finite, MinIn
<1> QED BY <1>1, <1>2, <1>3, <1>4, Finite

\* psync_pagecache_get_free_page: the page leaves the free ones and is in one
\* thread's hands, and cache_pages_free is one less.
LEMMA KeptTaking ==
  ASSUME IInv, ghost.known \subseteq ghost'.known, NEW t \in Getters, Taking(t)
  PROVE  Kept /\ HashKept
<1> USE Smallest
<1> DEFINE s == Min(mem.free)
<1>1. s \in mem.free /\ s \in Slots /\ s # 0
  BY DEF Taking
<1>2. Memory(mem.page, mem.free \ {s}, mem.hash, (mem.nfree - 1) % Word, mem.nhash)
  <2>1. mem' = [mem EXCEPT !.page = mem.page, !.free = mem.free \ {s}, !.hash = mem.hash,
          !.nfree = (mem.nfree - 1) % Word, !.nhash = mem.nhash]
    <3> HIDE DEF s
    <3>1. mem' = [mem EXCEPT !.free = @ \ {s}, !.nfree = (@ - 1) % Word]
      BY DEF s, Taking
    <3> QED BY <3>1 DEF TypeMem
  <2> DEFINE f == mem.free \ {s} n == (mem.nfree - 1) % Word
  <2>2. f \in SUBSET Slots /\ n \in Int
    BY <1>1
  <2>3. mem' = [mem EXCEPT !.page = mem.page, !.free = f, !.hash = mem.hash, !.nfree = n,
          !.nhash = mem.nhash]
    BY <2>1
  <2> HIDE DEF f, n
  <2>4. Memory(mem.page, f, mem.hash, n, mem.nhash)
    BY <2>2, <2>3, MemoryBecomes
  <2> QED BY <2>4 DEF f, n
<1>3. held' = [held EXCEPT ![t] = s] /\ held[t] = 0 /\ shrink' = shrink /\ ghost' = ghost
  BY DEF Taking
<1>4. (mem.nfree = Cardinality(mem.free)) => mem'.nfree = Cardinality(mem'.free)
  <2>1. Cardinality(mem.free \ {s}) = Cardinality(mem.free) - 1
    <3> HIDE DEF s
    <3> QED BY <1>1, FS_RemoveElement
  <2>2. Cardinality(mem.free \ {s}) \in 0..CachePages
    <3> HIDE DEF s
    <3> QED BY Finite
  <2> HIDE DEF s
  <2> QED BY <1>2, <2>1, <2>2, Small DEF Memory
<1> HIDE DEF s
<1>5. TypeHeld'
  BY <1>1, <1>3 DEF TypeHeld
<1>6. Places'
  <2>1. \A u \in Getters : held'[u] = IF u = t THEN s ELSE held[u]
    BY <1>3 DEF TypeHeld
  <2>2. /\ mem.free \cap mem.hash = {}
        /\ \A u \in Getters : held[u] # 0 => held[u] \notin mem.free \cup mem.hash
        /\ \A u, v \in Getters : held[u] # 0 /\ held[u] = held[v] => u = v
        /\ shrink.page # 0 => /\ shrink.page \notin mem.free \cup mem.hash
                              /\ \A u \in Getters : held[u] # shrink.page
        /\ \A z \in Slots : z \in mem.free \cup mem.hash \/ z = shrink.page
           \/ \E u \in Getters : z = held[u]
    BY DEF IInv, Places
  <2>3. shrink'.page = shrink.page
    BY <1>3
  <2> DEFINE F == mem'.free H == mem'.hash
  <2>4. F = mem.free \ {s} /\ H = mem.hash
    BY <1>2 DEF Memory
  <2> HIDE DEF F, H
  <2>5. F \cap H = {} /\ \A u \in Getters : held'[u] # 0 => held'[u] \notin F \cup H
    BY <1>1, <2>1, <2>2, <2>4
  <2>6. \A u, v \in Getters : held'[u] # 0 /\ held'[u] = held'[v] => u = v
    BY <1>1, <2>1, <2>2
  <2>7. shrink.page # 0 => /\ shrink.page \notin F \cup H
                          /\ \A u \in Getters : held'[u] # shrink.page
    BY <1>1, <2>1, <2>2, <2>4
  <2>8. \A z \in Slots : z \in F \cup H \/ z = shrink.page \/ \E u \in Getters : z = held'[u]
    <3> SUFFICES ASSUME NEW z \in Slots, z \notin F \cup H, z # shrink.page
                        PROVE \E u \in Getters : z = held'[u]
      OBVIOUS
    <3>1. CASE z = s
      BY <1>1, <2>1, <3>1
    <3>2. CASE z # s
      <4>1. PICK u \in Getters : z = held[u]
        BY <2>2, <2>4, <3>2
      <4>2. z # 0
        BY <1>1
      <4>3. u # t
        BY <1>3, <4>1, <4>2
      <4> QED BY <2>1, <4>1, <4>3
    <3> QED BY <3>1, <3>2
  <2> QED
    BY <2>3, <2>5, <2>6, <2>7, <2>8 DEF Places, F, H
<1>7. Hashed'
  BY <1>2 DEF Hashed, Memory, IInv
<1>8. PagesCounted'
  BY <1>2, <1>3, <1>4 DEF PagesCounted, Memory, IInv
<1>9. HashKept
  BY <1>1, <1>2 DEF Memory, HashKept
<1> QED BY <1>9, <1>2, <1>3, <1>5, <1>6, <1>7, <1>8 DEF Kept, Memory

\* psync_pagecache_return_free_page: the page is free again and counted.
LEMMA KeptReturning ==
  ASSUME IInv, ghost.known \subseteq ghost'.known, NEW t \in Getters, Returning(t)
  PROVE  Kept /\ HashKept
<1> USE Smallest
<1> DEFINE s == held[t]
<1>1. s \notin mem.free \cup mem.hash /\ s \in Slots /\ s # 0 /\ s # shrink.page
  BY DEF Returning, IInv, Places, TypeHeld
<1>2. Memory(mem.page, mem.free \cup {s}, mem.hash, (mem.nfree + 1) % Word, mem.nhash)
  <2>1. mem' = [mem EXCEPT !.page = mem.page, !.free = mem.free \cup {s},
          !.hash = mem.hash, !.nfree = (mem.nfree + 1) % Word, !.nhash = mem.nhash]
    BY DEF Returning, psync_pagecache_return_free_page, TypeMem
  <2> DEFINE f == mem.free \cup {s} n == (mem.nfree + 1) % Word
  <2>2. f \in SUBSET Slots /\ n \in Int
    BY <1>1
  <2>3. mem' = [mem EXCEPT !.page = mem.page, !.free = f, !.hash = mem.hash, !.nfree = n,
          !.nhash = mem.nhash]
    BY <2>1
  <2> HIDE DEF f, n
  <2>4. Memory(mem.page, f, mem.hash, n, mem.nhash)
    BY <2>2, <2>3, MemoryBecomes
  <2> QED BY <2>4 DEF f, n
<1>3. held' = [held EXCEPT ![t] = 0] /\ shrink' = shrink
  BY DEF Returning, psync_pagecache_return_free_page
<1>4. (mem.nfree = Cardinality(mem.free)) => mem'.nfree = Cardinality(mem'.free)
  <2> HIDE DEF s
  <2>1. Cardinality(mem.free \cup {s}) = Cardinality(mem.free) + 1
    <3>1. IsFiniteSet(mem.free) /\ s \notin mem.free
      BY <1>1
    <3> DEFINE S == mem.free
    <3>2. IsFiniteSet(S) /\ s \notin S
      BY <3>1
    <3> HIDE DEF S
    <3>3. Cardinality(S \cup {s}) = Cardinality(S) + 1
      BY ONLY <3>2, FS_AddElement
    <3> QED BY <3>3 DEF S
  <2>2. Cardinality(mem.free \cup {s}) \in 0..CachePages
    BY <1>1, Finite
  <2> QED BY <1>2, <2>1, <2>2, Small DEF Memory
<1>5. TypeHeld'
  BY <1>1, <1>3 DEF TypeHeld
<1>6. Places'
  <2>1. \A u \in Getters : held'[u] = IF u = t THEN 0 ELSE held[u]
    BY <1>3 DEF TypeHeld
  <2>2. /\ mem.free \cap mem.hash = {}
        /\ \A u \in Getters : held[u] # 0 => held[u] \notin mem.free \cup mem.hash
        /\ \A u, v \in Getters : held[u] # 0 /\ held[u] = held[v] => u = v
        /\ shrink.page # 0 => /\ shrink.page \notin mem.free \cup mem.hash
                              /\ \A u \in Getters : held[u] # shrink.page
        /\ \A z \in Slots : z \in mem.free \cup mem.hash \/ z = shrink.page
           \/ \E u \in Getters : z = held[u]
    BY DEF IInv, Places
  <2>3. shrink'.page = shrink.page
    BY <1>3
  <2> DEFINE F == mem'.free H == mem'.hash
  <2>4. F = mem.free \cup {s} /\ H = mem.hash
    BY <1>2 DEF Memory
  <2> HIDE DEF F, H
  <2>5. F \cap H = {} /\ \A u \in Getters : held'[u] # 0 => held'[u] \notin F \cup H
    BY <1>1, <2>1, <2>2, <2>4 DEF s
  <2>6. \A u, v \in Getters : held'[u] # 0 /\ held'[u] = held'[v] => u = v
    BY <1>1, <2>1, <2>2
  <2>7. shrink.page # 0 => /\ shrink.page \notin F \cup H
                          /\ \A u \in Getters : held'[u] # shrink.page
    BY <1>1, <2>1, <2>2, <2>4
  <2>8. \A z \in Slots : z \in F \cup H \/ z = shrink.page \/ \E u \in Getters : z = held'[u]
    BY <1>1, <2>1, <2>2, <2>4 DEF s
  <2> QED
    BY <2>3, <2>5, <2>6, <2>7, <2>8 DEF Places, F, H
<1>7. Hashed'
  BY <1>2 DEF Hashed, Memory, IInv
<1>8. PagesCounted'
  BY <1>2, <1>3, <1>4 DEF PagesCounted, Memory, IInv
<1>9. HashKept
  BY <1>1, <1>2 DEF Memory, HashKept
<1> QED BY <1>9, <1>2, <1>3, <1>5, <1>6, <1>7, <1>8 DEF Kept, Memory

\* A page that becomes visible is in nobody's hands any more, and
\* cache_pages_in_hash is one more.
LEMMA KeptHashing ==
  ASSUME IInv, ghost.known \subseteq ghost'.known, NEW t \in Getters, Hashing(t)
  PROVE  Kept /\ HashKept
<1> USE Smallest
<1> DEFINE s == held[t]
<1>0. PICK k \in Keys, type \in {"read", "cache"} : IntoHash(t, k, type)
  BY DEF Hashing
<1> DEFINE e == [key |-> k, type |-> type]
<1>1. s \notin mem.free \cup mem.hash /\ s \in Slots /\ s # 0 /\ s # shrink.page
        /\ e \in Pages /\ e.key # 0
  <2>1. s \notin mem.free \cup mem.hash /\ s \in Slots /\ s # 0 /\ s # shrink.page
    BY DEF Hashing, IInv, Places, TypeHeld
  <2>2. e \in Pages /\ e.key # 0
    BY DEF Pages, Keys
  <2> QED BY <2>1, <2>2
<1>2. Memory([mem.page EXCEPT ![s] = e], mem.free, mem.hash \cup {s}, mem.nfree, mem.nhash + 1)
  <2>1. mem' = [mem EXCEPT !.page = [mem.page EXCEPT ![s] = e], !.free = mem.free,
          !.hash = mem.hash \cup {s}, !.nfree = mem.nfree, !.nhash = mem.nhash + 1]
    BY <1>0 DEF IntoHash, TypeMem
  <2>2. [mem.page EXCEPT ![s] = e] \in [Slots -> Pages]
    BY <1>1
  <2> DEFINE p == [mem.page EXCEPT ![s] = e] h == mem.hash \cup {s} n == mem.nhash + 1
  <2>3. p \in [Slots -> Pages] /\ h \in SUBSET Slots /\ n \in Int
    BY <1>1, <2>2
  <2>4. mem' = [mem EXCEPT !.page = p, !.free = mem.free, !.hash = h, !.nfree = mem.nfree,
          !.nhash = n]
    BY <2>1
  <2> HIDE DEF p, h, n
  <2>5. Memory(p, mem.free, h, mem.nfree, n)
    BY <2>3, <2>4, MemoryBecomes
  <2> QED BY <2>5 DEF p, h, n
<1>3. held' = [held EXCEPT ![t] = 0] /\ shrink' = shrink
  BY <1>0 DEF Hashing, IntoHash
<1> HIDE DEF s, e
<1>4. (mem.nhash = Cardinality(mem.hash)) => mem'.nhash = Cardinality(mem'.hash)
  <2>1. Cardinality(mem.hash \cup {s}) = Cardinality(mem.hash) + 1
    BY <1>1, FS_AddElement
  <2> QED BY <1>2, <2>1 DEF Memory
<1>5. TypeHeld'
  BY <1>1, <1>3 DEF TypeHeld
<1>6. Places'
  <2>1. \A u \in Getters : held'[u] = IF u = t THEN 0 ELSE held[u]
    BY <1>3 DEF TypeHeld
  <2>2. /\ mem.free \cap mem.hash = {}
        /\ \A u \in Getters : held[u] # 0 => held[u] \notin mem.free \cup mem.hash
        /\ \A u, v \in Getters : held[u] # 0 /\ held[u] = held[v] => u = v
        /\ shrink.page # 0 => /\ shrink.page \notin mem.free \cup mem.hash
                              /\ \A u \in Getters : held[u] # shrink.page
        /\ \A z \in Slots : z \in mem.free \cup mem.hash \/ z = shrink.page
           \/ \E u \in Getters : z = held[u]
    BY DEF IInv, Places
  <2>3. shrink'.page = shrink.page
    BY <1>3
  <2> DEFINE F == mem'.free H == mem'.hash
  <2>4. F = mem.free /\ H = mem.hash \cup {s}
    BY <1>2 DEF Memory
  <2> HIDE DEF F, H
  <2>5. F \cap H = {} /\ \A u \in Getters : held'[u] # 0 => held'[u] \notin F \cup H
    BY <1>1, <2>1, <2>2, <2>4 DEF s
  <2>6. \A u, v \in Getters : held'[u] # 0 /\ held'[u] = held'[v] => u = v
    BY <1>1, <2>1, <2>2
  <2>7. shrink.page # 0 => /\ shrink.page \notin F \cup H
                          /\ \A u \in Getters : held'[u] # shrink.page
    BY <1>1, <2>1, <2>2, <2>4
  <2>8. \A z \in Slots : z \in F \cup H \/ z = shrink.page \/ \E u \in Getters : z = held'[u]
    BY <1>1, <2>1, <2>2, <2>4 DEF s
  <2> QED
    BY <2>3, <2>5, <2>6, <2>7, <2>8 DEF Places, F, H
<1>7. Hashed'
  BY <1>1, <1>2 DEF Hashed, Memory, IInv
<1>8. PagesCounted'
  BY <1>2, <1>3, <1>4 DEF PagesCounted, Memory, IInv
<1>9. HashKept
  BY <1>1, <1>2 DEF Memory, HashKept
<1> QED BY <1>9, <1>2, <1>3, <1>5, <1>6, <1>7, <1>8 DEF Kept, Memory

\* The pages a flush frees were nobody's, so they are free once, and counted.
LEMMA KeptEmptying ==
  ASSUME IInv, ghost.known \subseteq ghost'.known, NEW S \in SUBSET mem.hash, Emptying(S)
  PROVE  Kept
<1> USE Smallest
<1>0. S \in SUBSET Slots /\ IsFiniteSet(S) /\ Cardinality(S) \in 0..CachePages
  BY Finite
<1>2. Memory(mem.page, mem.free \cup S, mem.hash \ S, (mem.nfree + Cardinality(S)) % Word,
        mem'.nhash)
  <2> DEFINE f == mem.free
             \cup S h == mem.hash \ S n == (mem.nfree + Cardinality(S)) % Word m == mem'.nhash
  <2>1. mem' = [mem EXCEPT !.page = mem.page, !.free = f, !.hash = h, !.nfree = n, !.nhash = m]
    BY DEF Emptying, TypeMem
  <2>2. f \in SUBSET Slots /\ h \in SUBSET Slots /\ n \in Int /\ m \in Int
    BY <1>0 DEF Emptying
  <2> HIDE DEF f, h, n, m
  <2>3. Memory(mem.page, f, h, n, m)
    BY <2>1, <2>2, MemoryBecomes
  <2> QED BY <2>3 DEF f, h, n, m
<1>3. held' = held /\ shrink' = shrink
  BY DEF Emptying
<1>4. (mem.nfree = Cardinality(mem.free)) => mem'.nfree = Cardinality(mem'.free)
  <2>1. mem.free \cap S = {}
    BY DEF IInv, Places
  <2>2. Cardinality(mem.free \cup S) = Cardinality(mem.free) + Cardinality(S)
    <3>2. IsFiniteSet(mem.free)
      OBVIOUS
    <3> QED BY ONLY <1>0, <2>1, <3>2, Together
  <2>3. Cardinality(mem.free \cup S) \in 0..CachePages
    <3>1. mem.free \cup S \in SUBSET Slots
      BY <1>0
    <3> QED BY <3>1, Finite
  <2> QED BY <1>2, <2>2, <2>3, Small DEF Memory
<1>5. TypeHeld'
  BY <1>3 DEF TypeHeld
<1>6. Places'
  BY <1>0, <1>2, <1>3 DEF Memory, Places, IInv, TypeHeld
<1>7. Hashed'
  BY <1>2 DEF Hashed, Memory, IInv
<1>8. PagesCounted'
  BY <1>2, <1>3, <1>4 DEF PagesCounted, Memory, IInv, Emptying
<1> QED BY <1>2, <1>3, <1>5, <1>6, <1>7, <1>8 DEF Kept, Memory

\* get_free_page_if_available takes a page that nobody else has.
LEMMA KeptShrinkTaking ==
  ASSUME IInv, ghost.known \subseteq ghost'.known, ShrinkTaking
  PROVE  Kept /\ HashKept
<1> USE Smallest
<1> DEFINE s == Min(mem.free)
<1>1. s \in mem.free /\ s \in Slots /\ s # 0
  BY DEF ShrinkTaking
<1>2. Memory(mem.page, mem.free \ {s}, mem.hash, mem.nfree, mem.nhash)
  <2> DEFINE f == mem.free \ {s}
  <2>2. f \in SUBSET Slots
    BY <1>1
  <2>3. mem' = [mem EXCEPT !.page = mem.page, !.free = f, !.hash = mem.hash,
          !.nfree = mem.nfree, !.nhash = mem.nhash]
    BY DEF ShrinkTaking, TypeMem
  <2> HIDE DEF f
  <2>4. Memory(mem.page, f, mem.hash, mem.nfree, mem.nhash)
    BY <2>2, <2>3, MemoryBecomes
  <2> QED BY <2>4 DEF f
<1>3. held' = held /\ shrink'.page = s /\ shrink.page = 0
  BY DEF ShrinkTaking
<1> HIDE DEF s
<1>5. TypeHeld'
  BY <1>3 DEF TypeHeld
<1>6. Places'
  BY <1>1, <1>2, <1>3 DEF Memory, Places, IInv, TypeHeld
<1>7. Hashed'
  BY <1>2 DEF Hashed, Memory, IInv
<1>8. PagesCounted'
  BY <1>2 DEF PagesCounted, Memory, IInv, ShrinkTaking
<1>9. HashKept
  BY <1>1, <1>2 DEF Memory, HashKept
<1> QED BY <1>9, <1>1, <1>2, <1>3, <1>5, <1>6, <1>7, <1>8 DEF Kept, Memory

\* The shrinking thread's page is free again.
LEMMA KeptShrinkReturning ==
  ASSUME IInv, ghost.known \subseteq ghost'.known, ShrinkReturning
  PROVE  Kept /\ HashKept
<1> USE Smallest
<1> DEFINE s == shrink.page
<1>1. s \notin mem.free \cup mem.hash /\ s \in Slots /\ s # 0 /\ \A t \in Getters : held[t] # s
  BY DEF ShrinkReturning, IInv, Places
<1>2. Memory(mem.page, mem.free \cup {s}, mem.hash, (mem.nfree + 1) % Word, mem.nhash)
  <2> DEFINE f == mem.free \cup {s} n == (mem.nfree + 1) % Word
  <2>2. f \in SUBSET Slots /\ n \in Int
    BY <1>1
  <2>3. mem' = [mem EXCEPT !.page = mem.page, !.free = f, !.hash = mem.hash, !.nfree = n,
          !.nhash = mem.nhash]
    BY DEF ShrinkReturning, PageBack, TypeMem
  <2> HIDE DEF f, n
  <2>4. Memory(mem.page, f, mem.hash, n, mem.nhash)
    BY <2>2, <2>3, MemoryBecomes
  <2> QED BY <2>4 DEF f, n
<1>3. held' = held /\ shrink'.page = 0
  BY DEF ShrinkReturning
<1> HIDE DEF s
<1>4. (mem.nfree = Cardinality(mem.free)) => mem'.nfree = Cardinality(mem'.free)
  <2>0. IsFiniteSet(mem.free) /\ s \notin mem.free
    BY <1>1
  <2>1. Cardinality(mem.free \cup {s}) = Cardinality(mem.free) + 1
    BY ONLY <2>0, OneMore
  <2>2. Cardinality(mem.free \cup {s}) \in 0..CachePages
    BY <1>1, Finite
  <2> QED BY <1>2, <2>1, <2>2, Small DEF Memory
<1>5. TypeHeld'
  BY <1>3 DEF TypeHeld
<1>6. Places'
  BY <1>1, <1>2, <1>3 DEF Memory, Places, IInv, TypeHeld, s
<1>7. Hashed'
  BY <1>2 DEF Hashed, Memory, IInv
<1>8. PagesCounted'
  BY <1>2, <1>4 DEF PagesCounted, Memory, IInv
<1>9. HashKept
  BY <1>1, <1>2 DEF Memory, HashKept
<1> QED BY <1>9, <1>1, <1>2, <1>3, <1>5, <1>6, <1>7, <1>8 DEF Kept, Memory

\* The shrinking thread's page becomes visible.
LEMMA KeptShrinkHashing ==
  ASSUME IInv, ghost.known \subseteq ghost'.known, ShrinkHashing
  PROVE  Kept /\ HashKept
<1> USE Smallest
<1> DEFINE s == shrink.page
<1>0. PICK k \in Keys, type \in {"read", "cache"} :
          mem' = [mem EXCEPT !.page[s] = [key |-> k, type |-> type],
                             !.hash = @ \cup {s}, !.nhash = @ + 1]
  BY DEF ShrinkHashing
<1> DEFINE e == [key |-> k, type |-> type]
<1>1. s \notin mem.free \cup mem.hash /\ s \in Slots /\ s # 0 /\ \A t \in Getters : held[t] # s
  BY DEF ShrinkHashing, IInv, Places
<1>10. e \in Pages /\ e.key # 0
  BY DEF Pages, Keys
<1>2. Memory([mem.page EXCEPT ![s] = e], mem.free, mem.hash \cup {s}, mem.nfree, mem.nhash + 1)
  <2> DEFINE p == [mem.page EXCEPT ![s] = e] h == mem.hash \cup {s} m == mem.nhash + 1
  <2>2. p \in [Slots -> Pages] /\ h \in SUBSET Slots /\ m \in Int
    BY <1>1, <1>10
  <2>3. mem' = [mem EXCEPT !.page = p, !.free = mem.free, !.hash = h, !.nfree = mem.nfree,
          !.nhash = m]
    BY <1>0 DEF TypeMem
  <2> HIDE DEF p, h, m
  <2>4. Memory(p, mem.free, h, mem.nfree, m)
    BY <2>2, <2>3, MemoryBecomes
  <2> QED BY <2>4 DEF p, h, m
<1>3. held' = held /\ shrink'.page = 0
  BY DEF ShrinkHashing
<1> HIDE DEF s, e
<1>4. (mem.nhash = Cardinality(mem.hash)) => mem'.nhash = Cardinality(mem'.hash)
  <2>0. IsFiniteSet(mem.hash) /\ s \notin mem.hash
    BY <1>1
  <2>1. Cardinality(mem.hash \cup {s}) = Cardinality(mem.hash) + 1
    BY ONLY <2>0, OneMore
  <2> QED BY <1>2, <2>1 DEF Memory
<1>5. TypeHeld'
  BY <1>3 DEF TypeHeld
<1>6. Places'
  BY <1>1, <1>2, <1>3 DEF Memory, Places, IInv, TypeHeld, s
<1>7. Hashed'
  BY <1>10, <1>1, <1>2 DEF Hashed, Memory, IInv
<1>8. PagesCounted'
  BY <1>2, <1>4 DEF PagesCounted, Memory, IInv
<1>9. HashKept
  BY <1>1, <1>2 DEF Memory, HashKept
<1> QED BY <1>9, <1>1, <1>2, <1>3, <1>5, <1>6, <1>7, <1>8 DEF Kept, Memory

\* A move of one page keeps the pages in their places, and those in cache_hash
\* as they are.
LEMMA SlotsKept == IInv /\ SlotMove => Kept /\ HashKept
<1> SUFFICES ASSUME IInv, SlotMove PROVE Kept /\ HashKept
  OBVIOUS
<1> USE Smallest
<1>1. ghost.known \subseteq ghost'.known
  BY DEF SlotMove
<1>2. CASE UNCHANGED <<mem, held>> /\ shrink'.page = shrink.page
  BY <1>1, <1>2 DEF Kept, HashKept, TypeMem, TypeHeld, Places, Hashed, PagesCounted, IInv
<1>3. CASE Miscounting
  <2>1. Memory(mem.page, mem.free, mem.hash, (mem.nfree + 1) % Word, mem.nhash)
    <3> DEFINE n == (mem.nfree + 1) % Word
    <3>1. n \in Int
      OBVIOUS
    <3>2. mem' = [mem EXCEPT !.page = mem.page, !.free = mem.free, !.hash = mem.hash,
            !.nfree = n, !.nhash = mem.nhash]
      BY <1>3 DEF Miscounting, TypeMem
    <3> HIDE DEF n
    <3>3. Memory(mem.page, mem.free, mem.hash, n, mem.nhash)
      BY <3>1, <3>2, MemoryBecomes
    <3> QED BY <3>3 DEF n
  <2>2. UNCHANGED held /\ shrink'.page = shrink.page /\ "uncounted" \in ghost'.known
    BY <1>3 DEF Miscounting
  <2>3. TypeHeld' /\ Places' /\ Hashed'
    BY <2>1, <2>2 DEF Memory, TypeHeld, Places, Hashed, IInv
  <2>4. PagesCounted'
    BY <1>1, <2>1, <2>2 DEF Memory, PagesCounted, IInv
  <2> QED BY <2>1, <2>2, <2>3, <2>4 DEF Memory, Kept, HashKept
<1> QED
  BY <1>1, <1>2, <1>3, KeptTaking, KeptReturning, KeptHashing, KeptShrinkTaking,
     KeptShrinkReturning, KeptShrinkHashing DEF SlotMove

\* Every step of the page cache keeps each page in one place and counted there.
LEMMA PagesKept == IInv /\ PageMove => Kept
BY SlotsKept, KeptEmptying DEF PageMove

\* The threads that hold a page.
Holders == {t \in Getters : held[t] # 0}

\* No two threads hold the same page, so there are as many held pages as threads
\* that hold one.
LEMMA HandsCounted ==
  ASSUME TypeHeld, Places
  PROVE  LET hands == {held[t] : t \in Holders}
         IN  IsFiniteSet(Holders) /\ IsFiniteSet(hands)
           /\ Cardinality(hands) = Cardinality(Holders) /\ Cardinality(hands) \in Nat
<1> DEFINE hands == {held[t] : t \in Holders}
           f == [t \in Holders |-> held[t]]
<1>1. IsFiniteSet(Holders)
  BY GettersFinite, FS_Subset DEF Holders
<1>2. f \in [Holders -> hands] /\ \A x \in hands : \E t \in Holders : f[t] = x
  OBVIOUS
<1>3. \A t, u \in Holders : f[t] = f[u] => t = u
  BY DEF Holders, Places
<1> HIDE DEF f, hands
<1>4. f \in Injection(Holders, hands) /\ f \in Surjection(Holders, hands)
  BY <1>2, <1>3 DEF Injection, Surjection, IsInjective
<1>5. f \in Bijection(Holders, hands)
  BY <1>4 DEF Bijection
<1>6. ExistsBijection(Holders, hands)
  BY <1>5 DEF ExistsBijection
<1>7. IsFiniteSet(hands) /\ Cardinality(hands) = Cardinality(Holders)
  BY <1>1, <1>6, FS_Bijection
<1> QED BY <1>1, <1>7, FS_CardinalityType DEF hands

\* From the places of the pages follows what psync_pagecache accounts for: free,
\* hashed and held pages make up all of memory and the counters are right.
LEMMA Counted ==
  ASSUME TypeMem, TypeHeld, shrink.page \in {0} \cup Slots, Places, PagesCounted,
         RowsCounted
  PROVE  PagesAccounted
<1> DEFINE held1 == {held[t] : t \in {t \in Getters : held[t] # 0}}
           hands == held1 \cup ({shrink.page} \ {0})
<1>1. mem.free \in SUBSET Slots /\ mem.hash \in SUBSET Slots /\ hands \in SUBSET Slots
        /\ held1 \in SUBSET Slots
  <2>1. held1 \in SUBSET Slots
    BY DEF TypeHeld
  <2>2. {shrink.page} \ {0} \in SUBSET Slots
    OBVIOUS
  <2>3. mem.free \in SUBSET Slots /\ mem.hash \in SUBSET Slots
    BY DEF TypeMem
  <2> HIDE DEF held1
  <2> QED BY <2>1, <2>2, <2>3
<1>2. mem.free \cup mem.hash \cup hands = Slots
  <2>1. ASSUME NEW s \in Slots, s \notin mem.free \cup mem.hash PROVE s \in hands
    <3>1. s # 0
      BY Finite
    <3> QED BY <2>1, <3>1 DEF Places
  <2> HIDE DEF hands
  <2> QED BY <1>1, <2>1
<1>3. held1 \cap ({shrink.page} \ {0}) = {}
  BY DEF Places
<1>4. IsFiniteSet(held1)
        /\ Cardinality(held1) = Cardinality({t \in Getters : held[t] # 0})
           /\ Cardinality(held1) \in Nat
  BY HandsCounted DEF Holders
<1>5. Cardinality({shrink.page} \ {0}) = (IF shrink.page = 0 THEN 0 ELSE 1)
        /\ IsFiniteSet({shrink.page} \ {0})
  <2>1. CASE shrink.page = 0
    <3>1. {shrink.page} \ {0} = {}
      BY <2>1
    <3> QED BY <2>1, <3>1, FS_EmptySet
  <2>2. CASE shrink.page # 0
    <3>1. {shrink.page} \ {0} = {shrink.page}
      BY <2>2
    <3> QED BY <2>2, <3>1, FS_Singleton
  <2> QED BY <2>1, <2>2
<1>6. Cardinality(hands) = Cardinality(held1) + Cardinality({shrink.page} \ {0})
  <2> DEFINE one == {shrink.page} \ {0}
  <2>1. IsFiniteSet(held1) /\ IsFiniteSet(one) /\ held1 \cap one = {}
    BY <1>3, <1>4, <1>5
  <2> HIDE DEF held1, one
  <2>2. Cardinality(held1 \cup one) = Cardinality(held1) + Cardinality(one)
    BY ONLY <2>1, Together
  <2> QED BY <2>2 DEF one
<1>7. Cardinality(mem.free) + Cardinality(mem.hash) + Cardinality(hands) = CachePages
  <2>1. mem.free \cap mem.hash = {} /\ (mem.free \cup mem.hash) \cap hands = {}
    BY DEF Places
  <2>2. IsFiniteSet(mem.free) /\ IsFiniteSet(mem.hash) /\ IsFiniteSet(hands)
    <3> HIDE DEF hands
    <3> QED BY <1>1, Finite
  <2> HIDE DEF hands
  <2>3. IsFiniteSet(mem.free \cup mem.hash) /\ Cardinality(mem.free
          \cup mem.hash) = Cardinality(mem.free) + Cardinality(mem.hash)
    BY ONLY <2>1, <2>2, Together
  <2>4. Cardinality(mem.free \cup mem.hash \cup hands) = Cardinality(mem.free
          \cup mem.hash) + Cardinality(hands)
    BY ONLY <2>1, <2>2, <2>3, Together
  <2> QED BY <1>2, <2>3, <2>4, Finite
<1> HIDE DEF hands, held1
<1>8. /\ "uncounted" \in ghost.known \/ mem.nfree = Cardinality(mem.free)
      /\ "ignored" \in ghost.known \/ mem.nhash = Cardinality(mem.hash)
      /\ "rows" \in ghost.known \/ Recounting \/ db.nfree = Cardinality(FreeIds)
  BY DEF PagesCounted, RowsCounted
<1>9. Cardinality({t \in Getters : held[t] # 0}) + (IF shrink.page = 0 THEN 0 ELSE 1) = Cardinality(hands)
  BY <1>4, <1>5, <1>6
<1> QED
  BY <1>2, <1>7, <1>8, <1>9 DEF PagesAccounted, hands, held1

----------------------------------------------------------------------------
(* Where the threads are: who holds a page, who asks for one, who flushes. *)

\* Readers, requests, the thread that adds files and those that flush are
\* different threads.
LEMMA Apart ==
  /\ \A t \in Getters : t \notin Flushers /\ t # "none"
  /\ \A f \in Fetchers : f \notin Readers /\ f # "add" /\ f \in Getters
  /\ \A r \in Readers : r # "add" /\ r \in Getters
  /\ "add" \in Getters /\ Background \subseteq Flushers /\ Background \cap (fl.spawned
     \cup fl.queue \cup {fl.by}) = {}
  /\ Getters \subseteq Threads /\ Flushers \subseteq Threads
BY ThreadsAssumption DEF Getters, Background, Threads

\* A step that starts at most a flush in the background keeps threads where they
\* are.
LEMMA ControlSame ==
  ASSUME IInv, UNCHANGED <<get, held, fetch, add>>, user'.adds = user.adds,
         fl'.spawned \subseteq fl.spawned \cup Background, fl'.queue = fl.queue, fl'.by = fl.by
  PROVE  Control'
<1>1. Hands' /\ Asking'
  BY DEF IInv, Control, Hands, Asking, Holds
<1>2. Flushing'
  BY Apart DEF IInv, Control, Flushing
<1> QED BY <1>1, <1>2 DEF Control

\* psync_pagecache_get_free_page leaves its thread with a page, asking for one or
\* flushing.
LEMMA ControlGet ==
  ASSUME IInv, NEW t \in Getters, GetMove(t) PROVE Control'
<1> USE Apart
<1>0. /\ get \in [Getters -> {"no", "want", "first", "second", "wait", "woken", "flushing",
                         "flushed", "got"}]
      /\ held \in [Getters -> {0} \cup Slots]
      /\ get[t] \in {"want", "second", "woken", "flushed"} /\ held[t] = 0 /\ ~Holds(t)
      /\ mem.free # {} => Min(mem.free) # 0
  <2>1. Min(mem.free) \in mem.free => Min(mem.free) # 0
    BY Smallest
  <2> QED BY <2>1, NotHeld, Smallest DEF IInv, Types, TypeGet, TypeHeld, GetMove,
             Control, Hands
<1>1. Hands'
  BY <1>0 DEF IInv, Control, Hands, Holds, GetMove
<1>2. Asking'
  BY <1>0 DEF IInv, Control, Asking, GetMove
<1>3. Flushing'
  BY <1>0 DEF IInv, Control, Flushing, GetMove
<1> QED BY <1>1, <1>2, <1>3 DEF Control

\* The types of the state that says where threads are.
LEMMA TypesOfControl ==
  ASSUME IInv
  PROVE  /\ get \in [Getters -> GetStates]
         /\ held \in [Getters -> {0} \cup Slots] /\ fetch \in [Fetchers -> Requested]
         /\ rd \in [Readers -> ReaderStates]
         /\ \A f \in Fetchers : fetch[f].keys \in Seq(Keys) /\ fetch[f].k \in Nat \ {0}
         /\ Control /\ TypeFl /\ TypeUser /\ 0 \notin Slots
         /\ \A r \in Readers : Reading(r)
BY Finite DEF IInv, Types, TypeGet, TypeHeld, TypeFetch, Requested, ReadingAll, TypeRd

\* psync_pagecache_start_requests hands its list to an unused thread, which asks
\* for a page.
LEMMA RequestsGive ==
  ASSUME IInv, NEW ks \in Seq(Keys), Requests(ks),
         UNCHANGED <<held, add, fl, user>>
  PROVE  Control' /\ TypeGet' /\ TypeFetch'
<1> USE Apart, TypesOfControl
<1>1. CASE ks = <<>>
  <2>1. UNCHANGED <<get, fetch>>
    BY <1>1 DEF Requests
  <2> QED BY <2>1, ControlSame DEF TypeGet, TypeFetch, IInv, Types
<1>2. CASE ks # <<>>
  <2> DEFINE f == CHOOSE x \in Unused : TRUE
             q == [pc |-> "page", keys |-> ks, k |-> 1]
  <2>1. f \in Fetchers /\ fetch[f].pc = "off"
    <3>1. f \in Unused
      BY <1>2 DEF Requests
    <3> QED BY <3>1 DEF Unused
  <2>2. fetch' = [fetch EXCEPT ![f] = q] /\ get' = [get EXCEPT ![f] = "want"]
    BY <1>2 DEF Requests, Wants
  <2>3. q \in Requested /\ 1 \in DOMAIN ks
    BY <1>2 DEF Requested
  <2>6. q.pc = "page" /\ q.keys = ks /\ q.k = 1
    OBVIOUS
  <2> HIDE DEF f, q
  <2>4. TypeGet' /\ TypeFetch'
    BY <2>1, <2>2, <2>3 DEF TypeGet, TypeFetch
  <2>5. get[f] = "no" /\ held[f] = 0
    BY <2>1 DEF Control, Asking, Hands, Holds
  <2>7. Hands'
    BY <2>1, <2>2, <2>5, <2>6 DEF Control, Hands, Holds
  <2>8. Asking'
    BY <2>1, <2>2, <2>3, <2>5, <2>6 DEF Control, Asking
  <2>9. Flushing'
    BY <2>1, <2>2, <2>5 DEF Control, Flushing
  <2> QED BY <2>4, <2>7, <2>8, <2>9 DEF Control
<1> QED BY <1>1, <1>2

\* A reader asks for a page only while it looks at one of an authenticator, and
\* has given it away when it goes on.
LEMMA ReaderControl ==
  ASSUME IInv, NEW r \in Readers, Read(r)
  PROVE  Control' /\ TypeGet' /\ TypeFetch'
<1> USE Apart, TypesOfControl
<1>1. CASE \/ check_pages_in_database_by_hash(r) \/ check_page_in_memory_by_hash(r)
    \/ ReadFile(r) \/ mark_page_free(r) \/ wait_waiter(r)
  <2>1. UNCHANGED <<get, held, fetch, add, fl>> /\ user'.adds = user.adds
    BY <1>1 DEF check_pages_in_database_by_hash, check_page_in_memory_by_hash, ReadFile,
       mark_page_free, wait_waiter, CountError, TypeUser
  <2> QED BY <2>1, ControlSame DEF TypeGet, TypeFetch, IInv, Types
<1>2. CASE check_page_in_database_by_hash(r)
  <2>1. rd[r].pc = "row" /\ get[r] = "no"
    BY <1>2 DEF check_page_in_database_by_hash, Reading
  <2>2. UNCHANGED <<held, fetch, add, fl, user>> /\ (get' = get
          \/ get' = [get EXCEPT ![r] = "want"])
    BY <1>2 DEF check_page_in_database_by_hash, Wants
  <2>3. TypeGet' /\ TypeFetch'
    BY <2>2 DEF TypeGet, TypeFetch, IInv, Types
  <2>4. Hands'
    BY <2>1, <2>2 DEF Control, Hands, Holds
  <2>5. Asking'
    BY <2>1, <2>2 DEF Control, Asking
  <2>6. Flushing'
    BY <2>1, <2>2 DEF Control, Flushing
  <2> QED BY <2>3, <2>4, <2>5, <2>6 DEF Control
<1>3. CASE check_page_in_database_by_hash_and_cache(r)
  <2>1. get[r] = "got" /\ get' = [get EXCEPT ![r] = "no"]
    BY <1>3 DEF check_page_in_database_by_hash_and_cache
  <2>2. UNCHANGED <<fetch, add, fl, user>> /\ held' = [held EXCEPT ![r] = 0]
    BY <1>3 DEF check_page_in_database_by_hash_and_cache, IntoHash,
       psync_pagecache_return_free_page
  <2>3. TypeGet' /\ TypeFetch'
    BY <2>1, <2>2 DEF TypeGet, TypeFetch, IInv, Types
  <2>4. Hands'
    BY <2>1, <2>2 DEF Control, Hands, Holds
  <2>5. Asking'
    BY <2>1, <2>2 DEF Control, Asking
  <2>6. Flushing'
    BY <2>1, <2>2 DEF Control, Flushing
  <2> QED BY <2>3, <2>4, <2>5, <2>6 DEF Control
<1>4. CASE ReadAhead(r)
  <2>1. UNCHANGED <<held, add, fl, user>>
    BY <1>4 DEF ReadAhead
  <2>2. rd[r].todo \in Seq(Keys)
    BY DEF ReaderStates
  <2>3. CASE Requests(rd[r].todo)
    BY <2>1, <2>2, <2>3, RequestsGive
  <2>4. CASE UNCHANGED <<fetch, get>>
    BY <2>1, <2>4, ControlSame DEF TypeGet, TypeFetch, IInv, Types
  <2> QED BY <1>4, <2>3, <2>4 DEF ReadAhead
<1>5. CASE ReadAheadMore(r)
  <2> DEFINE more == {k \in Op(r).ahead :
                    k \notin DOMAIN rd[r].ids \cup DOMAIN waits /\ InMemory(k) = {}}
  <2>1. UNCHANGED <<held, add, fl, user>>
    BY <1>5 DEF ReadAheadMore
  <2>2. PICK ks \in SetToSeqs(more) : Requests(rd[r].todo \o ks)
    BY <1>5 DEF ReadAheadMore
  <2>3. ks \in Seq(Keys)
    <3>1. IsFiniteSet(Op(r).ahead) /\ Op(r).ahead \subseteq Keys
      BY <1>5, OpFacts DEF ReadAheadMore, Reading, Reads, IInv
    <3>2. more \subseteq Op(r).ahead
      OBVIOUS
    <3> HIDE DEF more
    <3>3. Cardinality(more) \in Nat
      BY <3>1, <3>2, FS_Subset, FS_CardinalityType
    <3>4. ks \in [1..Cardinality(more) -> Keys]
      BY <3>1, <3>2 DEF SetToSeqs
    <3> QED BY <3>3, <3>4
  <2>4. rd[r].todo \in Seq(Keys)
    BY DEF ReaderStates
  <2>5. rd[r].todo \o ks \in Seq(Keys)
    BY <2>3, <2>4
  <2> QED BY <2>1, <2>2, <2>5, RequestsGive
<1>6. CASE psync_pagecache_get_free_page(r)
  <2>1. GetMove(r)
    BY <1>6, GetMoves DEF IInv
  <2>2. TypeGet' /\ TypeFetch'
    BY <2>1 DEF GetMove, TypeGet, TypeFetch
  <2> QED BY <2>1, <2>2, ControlGet
<1> QED BY <1>1, <1>2, <1>3, <1>4, <1>5, <1>6 DEF Read

\* A request goes from one of its states to the next, with a page or without.
LEMMA FetchStep ==
  ASSUME IInv, NEW f \in Fetchers, NEW g \in {"no", "want"}, NEW q \in Requested,
         get[f] \in {"want", "got", "no"},
         fetch' = [fetch EXCEPT ![f] = q], get' = [get EXCEPT ![f] = g],
         \/ held' = [held EXCEPT ![f] = 0] /\ q.pc # "hash"
         \/ held' = held /\ (held[f] # 0 <=> q.pc = "hash"),
         g # "no" => q.pc = "page",
         IF q.pc = "off" THEN q.keys = <<>> ELSE q.k \in DOMAIN q.keys,
         UNCHANGED <<add, fl>>, user'.adds = user.adds
  PROVE  Control' /\ TypeGet' /\ TypeFetch'
<1> USE Apart, TypesOfControl
<1>0. f \in Getters /\ f # "add" /\ f \notin Readers
  OBVIOUS
<1>1. TypeGet' /\ TypeFetch'
  BY DEF TypeGet, TypeFetch
<1>2. Hands'
  BY <1>0 DEF Control, Hands, Holds
<1>3. Asking'
  BY <1>0 DEF Control, Asking
<1>4. Flushing'
  BY <1>0 DEF Control, Flushing
<1> QED BY <1>1, <1>2, <1>3, <1>4 DEF Control

\* A request holds a page exactly while it waits for its data or makes it visible.
LEMMA FetchControl ==
  ASSUME IInv, NEW f \in Fetchers, Fetch(f)
  PROVE  Control' /\ TypeGet' /\ TypeFetch'
<1> USE Apart, TypesOfControl
<1>0. /\ fetch[f] \in Requested /\ fetch[f].pc \in {"off", "page", "hash", "error"}
      /\ fetch[f] = [pc |-> fetch[f].pc, keys |-> fetch[f].keys, k |-> fetch[f].k]
      /\ get[f] # "no" => fetch[f].pc = "page"
      /\ fetch[f].pc # "off" => fetch[f].k \in DOMAIN fetch[f].keys
  BY DEF Requested, Control, Asking
<1> DEFINE Q(pc, k) == [fetch[f] EXCEPT !.pc = pc, !.k = k]
<1>q. ASSUME NEW pc \in {"off", "page", "hash", "error"}, NEW k \in Nat \ {0}
      PROVE  Q(pc, k) \in Requested /\ Q(pc, k).pc = pc /\ Q(pc, k).k = k /\ Q(pc,
             k).keys = fetch[f].keys
  BY <1>0 DEF Requested
<1>w. ASSUME NEW k \in Nat \ {0}, WantsPage(f, k)
      PROVE  fetch' = [fetch EXCEPT ![f] = Q("page", k)] /\ get' = [get EXCEPT ![f] = "want"]
  BY <1>0, <1>w DEF WantsPage, Wants, Requested
<1>e. ASSUME Ends(f) PROVE fetch' = [fetch EXCEPT ![f] = Q("error", fetch[f].k)]
             /\ get' = [get EXCEPT ![f] = "no"]
  <2>1. Q("error", fetch[f].k) = [fetch[f] EXCEPT !.pc = "error"]
    BY <1>0 DEF Requested
  <2>2. fetch' = [fetch EXCEPT ![f] = [fetch[f] EXCEPT !.pc = "error"]]
          /\ get' = [get EXCEPT ![f] = "no"]
    BY <1>e DEF Ends
  <2> QED BY <2>1, <2>2
<1> HIDE DEF Q
<1>1. CASE FetchRefused(f)
  <2>1. UNCHANGED <<add, fl, held>> /\ user'.adds = user.adds /\ get[f] = "want"
    BY <1>1 DEF FetchRefused, Fails, TypeUser
  <2>2. held[f] = 0 /\ 1 \in DOMAIN fetch[f].keys
    BY <1>0, <2>1 DEF Control, Hands, Holds
  <2>3. CASE Ends(f)
    <3> DEFINE q == Q("error", fetch[f].k)
    <3>1. q \in Requested /\ q.pc = "error" /\ q.k = fetch[f].k /\ q.keys = fetch[f].keys
      BY <1>q
    <3>2. fetch' = [fetch EXCEPT ![f] = q] /\ get' = [get EXCEPT ![f] = "no"]
      BY <1>e, <2>3
    <3> HIDE DEF q
    <3> QED BY <1>0, <2>1, <2>2, <3>1, <3>2, FetchStep
  <2>4. CASE WantsPage(f, 1)
    <3> DEFINE q == Q("page", 1)
    <3>1. q \in Requested /\ q.pc = "page" /\ q.k = 1 /\ q.keys = fetch[f].keys
      BY <1>q
    <3>2. fetch' = [fetch EXCEPT ![f] = q] /\ get' = [get EXCEPT ![f] = "want"]
      BY <1>w, <2>4
    <3> HIDE DEF q
    <3> QED BY <1>0, <2>1, <2>2, <3>1, <3>2, FetchStep
  <2> QED BY <1>1, <2>3, <2>4 DEF FetchRefused
<1>2. CASE FetchBreaks(f)
  <2>1. UNCHANGED <<add, fl>> /\ held' = [held EXCEPT ![f] = 0] /\ user'.adds = user.adds
          /\ get[f] = "got"
    BY <1>2 DEF FetchBreaks, Fails, TypeUser, psync_pagecache_return_free_page
  <2>2. 1 \in DOMAIN fetch[f].keys
    BY <1>0, <2>1
  <2>3. CASE Ends(f)
    <3> DEFINE q == Q("error", fetch[f].k)
    <3>1. q \in Requested /\ q.pc = "error" /\ q.k = fetch[f].k /\ q.keys = fetch[f].keys
      BY <1>q
    <3>2. fetch' = [fetch EXCEPT ![f] = q] /\ get' = [get EXCEPT ![f] = "no"]
      BY <1>e, <2>3
    <3> HIDE DEF q
    <3> QED BY <1>0, <2>1, <2>2, <3>1, <3>2, FetchStep
  <2>4. CASE WantsPage(f, 1)
    <3> DEFINE q == Q("page", 1)
    <3>1. q \in Requested /\ q.pc = "page" /\ q.k = 1 /\ q.keys = fetch[f].keys
      BY <1>q
    <3>2. fetch' = [fetch EXCEPT ![f] = q] /\ get' = [get EXCEPT ![f] = "want"]
      BY <1>w, <2>4
    <3> HIDE DEF q
    <3> QED BY <1>0, <2>1, <2>2, <3>1, <3>2, FetchStep
  <2> QED BY <1>2, <2>3, <2>4 DEF FetchBreaks
<1>3. CASE FetchArrives(f)
  <2>1. UNCHANGED <<add, fl, held>> /\ user'.adds = user.adds /\ get[f] = "got"
          /\ fetch[f].pc = "page"
    BY <1>3 DEF FetchArrives
  <2>2. held[f] # 0
    BY <2>1 DEF Control, Hands, Holds
  <2> DEFINE q == Q("hash", fetch[f].k)
  <2>3. q \in Requested /\ q.pc = "hash" /\ q.k = fetch[f].k /\ q.keys = fetch[f].keys
    BY <1>q
  <2>4. fetch' = [fetch EXCEPT ![f] = q] /\ get' = [get EXCEPT ![f] = "no"]
    BY <1>3, <1>0 DEF FetchArrives, Q, Requested
  <2> HIDE DEF q
  <2> QED BY <1>0, <2>1, <2>2, <2>3, <2>4, FetchStep
<1>4. CASE FetchHashes(f)
  <2>1. UNCHANGED <<add, fl>> /\ held' = [held EXCEPT ![f] = 0] /\ user'.adds = user.adds
          /\ get[f] = "no" /\ fetch[f].pc = "hash"
    BY <1>0, <1>4 DEF FetchHashes, IntoHash
  <2>2. CASE fetch[f].k < Len(fetch[f].keys)
    <3> DEFINE k == fetch[f].k + 1 q == Q("page", k)
    <3>0. k \in Nat \ {0} /\ k \in DOMAIN fetch[f].keys
      BY <1>0, <2>1, <2>2
    <3>1. q \in Requested /\ q.pc = "page" /\ q.k = k /\ q.keys = fetch[f].keys
      <4> HIDE DEF k
      <4> QED BY <3>0, <1>q
    <3>2. fetch' = [fetch EXCEPT ![f] = q] /\ get' = [get EXCEPT ![f] = "want"]
      <4>1. WantsPage(f, k)
        BY <1>4, <2>2 DEF FetchHashes
      <4> HIDE DEF k
      <4> QED BY <1>w, <3>0, <4>1
    <3> HIDE DEF q, k
    <3> QED BY <1>0, <2>1, <3>0, <3>1, <3>2, FetchStep
  <2>3. CASE ~(fetch[f].k < Len(fetch[f].keys))
    <3>1. Off \in Requested /\ Off.pc = "off" /\ Off.keys = <<>>
      <4>1. <<>> \in Seq(Keys)
        OBVIOUS
      <4> HIDE DEF Keys
      <4> QED BY <4>1 DEF Off, Requested
    <3>2. fetch' = [fetch EXCEPT ![f] = Off] /\ get' = [get EXCEPT ![f] = "no"]
      BY <1>4, <2>1, <2>3 DEF FetchHashes
    <3> QED BY <2>1, <3>1, <3>2, FetchStep
  <2> QED BY <2>2, <2>3
<1>5. CASE psync_pagecache_send_error(f)
  <2>1. UNCHANGED <<add, fl, held, get>> /\ user'.adds = user.adds /\ get[f] = "no"
          /\ fetch[f].pc = "error"
    BY <1>0, <1>5 DEF psync_pagecache_send_error
  <2>2. Off \in Requested /\ Off.pc = "off" /\ Off.keys = <<>>
    <3>1. <<>> \in Seq(Keys)
      OBVIOUS
    <3> HIDE DEF Keys
    <3> QED BY <3>1 DEF Off, Requested
  <2>3. fetch' = [fetch EXCEPT ![f] = Off] /\ get' = [get EXCEPT ![f] = "no"]
    BY <1>5, <2>1 DEF psync_pagecache_send_error
  <2>4. held[f] = 0
    BY <2>1 DEF Control, Hands, Holds
  <2> QED BY <2>1, <2>2, <2>3, <2>4, FetchStep
<1>6. CASE psync_pagecache_get_free_page(f)
  <2>1. GetMove(f)
    BY <1>6, GetMoves DEF IInv
  <2>2. TypeGet' /\ TypeFetch'
    BY <2>1 DEF GetMove, TypeGet, TypeFetch
  <2> QED BY <2>1, <2>2, ControlGet
<1> QED BY <1>1, <1>2, <1>3, <1>4, <1>5, <1>6 DEF Fetch

\* The thread that adds files holds a page exactly while it looks for its key.
LEMMA AddControl ==
  ASSUME IInv, Add
  PROVE  Control' /\ TypeGet' /\ TypeFetch'
<1> USE Apart, TypesOfControl
<1>0. get["add"] # "no" => add = "page"
  BY DEF Control, Asking
<1>1. CASE AddStarts
  <2>1. UNCHANGED <<held, fetch, fl, user>> /\ add = "off" /\ add' = "page"
          /\ get' = [get EXCEPT !["add"] = "want"] /\ user.adds # <<>>
    BY <1>1 DEF AddStarts, Wants
  <2>2. TypeGet' /\ TypeFetch'
    BY <2>1 DEF TypeGet, TypeFetch
  <2>3. Hands'
    BY <1>0, <2>1 DEF Control, Hands, Holds
  <2>4. Asking'
    BY <2>1 DEF Control, Asking
  <2>5. Flushing'
    BY <1>0, <2>1 DEF Control, Flushing
  <2> QED BY <2>2, <2>3, <2>4, <2>5 DEF Control
<1>2. CASE AddLooks
  <2>1. UNCHANGED <<fetch, fl>> /\ add = "page" /\ get["add"] = "got"
          /\ get' = [get EXCEPT !["add"] = "no"]
    BY <1>2 DEF AddLooks
  <2>2. \/ add' = "hash" /\ held' = held /\ user'.adds = user.adds
        \/ add' = "off" /\ held' = [held EXCEPT !["add"] = 0]
    BY <1>2 DEF AddLooks, psync_pagecache_return_free_page
  <2>3. TypeGet' /\ TypeFetch'
    BY <2>1 DEF TypeGet, TypeFetch
  <2>4. Hands'
    BY <2>1, <2>2 DEF Control, Hands, Holds
  <2>5. Asking'
    BY <2>1, <2>2 DEF Control, Asking
  <2>6. Flushing'
    BY <2>1 DEF Control, Flushing
  <2> QED BY <2>3, <2>4, <2>5, <2>6 DEF Control
<1>3. CASE AddHashes
  <2>1. UNCHANGED <<fetch, fl, get>> /\ add = "hash" /\ get["add"] = "no" /\ add' = "off"
          /\ held' = [held EXCEPT !["add"] = 0]
    BY <1>0, <1>3 DEF AddHashes, psync_pagecache_return_free_page, IntoHash
  <2>3. TypeGet' /\ TypeFetch'
    BY <2>1 DEF TypeGet, TypeFetch
  <2>4. Hands'
    BY <2>1 DEF Control, Hands, Holds
  <2>5. Asking'
    BY <2>1 DEF Control, Asking
  <2>6. Flushing'
    BY <2>1 DEF Control, Flushing
  <2> QED BY <2>3, <2>4, <2>5, <2>6 DEF Control
<1>4. CASE psync_pagecache_get_free_page("add")
  <2>1. GetMove("add")
    BY <1>4, GetMoves DEF IInv
  <2>2. TypeGet' /\ TypeFetch'
    BY <2>1 DEF GetMove, TypeGet, TypeFetch
  <2> QED BY <2>1, <2>2, ControlGet
<1> QED BY <1>1, <1>2, <1>3, <1>4 DEF Add

\* pthread_cond_broadcast wakes those that wait for a page, and nobody else.
LEMMA BroadcastsKeep ==
  ASSUME TypeGet
  PROVE  /\ Broadcasts(get) \in [Getters -> GetStates]
         /\ \A t \in Getters : /\ get[t] # "wait" => Broadcasts(get)[t] = get[t]
                               /\ get[t] = "wait" => Broadcasts(get)[t] = "woken"
BY DEF TypeGet, Broadcasts

\* flush_pages returns to the thread that called it, and to nobody else.
LEMMA ReturnsKeep ==
  ASSUME NEW g \in [Getters -> GetStates],
         NEW t, t \in Getters => g[t] \in {"first", "flushing"}
  PROVE  /\ Returns(t, g) \in [Getters -> GetStates]
         /\ \A u \in Getters : /\ u # t => Returns(t, g)[u] = g[u]
                               /\ u = t => Returns(t, g)[u] \in {"second", "flushed"}
BY DEF Returns

\* A thread in flush_pages is in one place of it, and when it leaves it goes on
\* where it called from.
LEMMA WokenControl ==
  ASSUME IInv, NEW t, TypeGet', fl.by = "none" \/ fl.by = t,
         UNCHANGED <<held, fetch, add>>, user'.adds = user.adds,
         \A u \in Getters : \/ get'[u] = get[u]
                            \/ get[u] = "wait" /\ get'[u] = "woken"
                            \/ u = t /\ get[u] \in {"first", "flushing"}
                               /\ get'[u] \in {"second", "flushed"}
                               /\ fl'.by = "none" /\ fl'.spawned = fl.spawned,
         \/ fl'.by \in {"none", fl.by} /\ fl'.spawned = fl.spawned /\ fl'.queue = fl.queue
         \/ fl'.by = t /\ t \in fl.queue /\ fl'.spawned = fl.spawned /\ fl'.queue = fl.queue \ {t}
         \/ fl'.by = fl.by /\ t \in fl.spawned /\ fl'.spawned = fl.spawned \ {t}
            /\ fl'.queue = fl.queue \cup {t},
         fl'.by = "none" /\ fl'.spawned = fl.spawned => t \notin fl.spawned \cup fl.queue
  PROVE  Control'
<1> USE Apart, TypesOfControl
<1>0. get' \in [Getters -> GetStates]
  BY DEF TypeGet
<1>1. Hands'
  BY <1>0 DEF Control, Hands, Holds
<1>2. Asking'
  <2>1. \A u \in Getters : get'[u] # "no" => get[u] # "no"
    OBVIOUS
  <2> QED BY ONLY <2>1, Control, Apart, UNCHANGED <<fetch, add>>,
             user'.adds = user.adds DEF Control, Asking
<1>3. "none" \notin fl.spawned \cup fl.queue
  <2>1. "none" \notin Threads
    BY ThreadsAssumption DEF Threads, Getters
  <2>2. fl.spawned \subseteq Threads /\ fl.queue \subseteq Threads
    BY DEF TypeFl, FlushStates
  <2> QED BY ONLY <2>1, <2>2
<1>4. Flushing'
  <2>1. CASE fl'.by = "none" /\ fl'.spawned = fl.spawned /\ fl'.queue = fl.queue
    BY <1>3, <2>1 DEF Control, Flushing
  <2>4. CASE fl'.by = fl.by /\ fl'.spawned = fl.spawned /\ fl'.queue = fl.queue
    BY <1>3, <2>4 DEF Control, Flushing
  <2>2. CASE fl'.by = t /\ t \in fl.queue /\ fl'.spawned = fl.spawned
             /\ fl'.queue = fl.queue \ {t}
    BY <1>3, <2>2 DEF Control, Flushing
  <2>3. CASE fl'.by = fl.by /\ t \in fl.spawned /\ fl'.spawned = fl.spawned \ {t}
             /\ fl'.queue = fl.queue \cup {t}
    BY <1>3, <2>3 DEF Control, Flushing
  <2> QED BY <2>1, <2>2, <2>3, <2>4
<1> QED BY <1>1, <1>2, <1>4 DEF Control

\* The steps of flush_pages keep that.
LEMMA FlushControl ==
  ASSUME IInv, NEW t \in Threads,
         FlushStarts(t) \/ FlushChecks(t) \/ FlushWrites(t) \/ FlushFails(t) \/ FlushCommits(t)
  PROVE  Control' /\ TypeGet' /\ TypeFetch'
<1> USE TypesOfControl
<1>0. /\ \A u \in Getters : u \in fl.spawned \cup fl.queue \cup {fl.by}
         => get[u] \in {"first", "flushing"}
      /\ fl.spawned \cap fl.queue = {} /\ fl.by \notin fl.spawned \cup fl.queue
      /\ t # "none"
  <2>1. t # "none"
    BY Apart, ThreadsAssumption DEF Threads, Getters
  <2> QED BY <2>1 DEF Control, Flushing
<1>f. UNCHANGED <<held, fetch, add>> /\ user'.adds = user.adds /\ TypeFetch'
  <2>1. UNCHANGED <<held, fetch, add>> /\ user'.adds = user.adds
    BY DEF FlushStarts, FlushChecks, FlushWrites, FlushFails, FlushCommits, CountError, TypeUser
  <2> QED BY <2>1 DEF TypeFetch, IInv, Types
<1>b. Broadcasts(get) \in [Getters -> GetStates]
         /\ \A u \in Getters : /\ get[u] # "wait" => Broadcasts(get)[u] = get[u]
                               /\ get[u] = "wait" => Broadcasts(get)[u] = "woken"
  BY BroadcastsKeep DEF TypeGet
<1>1. CASE FlushStarts(t)
  <2>1. t \in fl.spawned /\ get' = get /\ fl'.by = fl.by /\ fl'.spawned = fl.spawned \ {t}
          /\ fl'.queue = fl.queue \cup {t}
    BY <1>1 DEF FlushStarts, TypeFl, FlushStates
  <2>2. TypeGet'
    BY <2>1 DEF TypeGet
  <2>3. Hands' /\ Asking'
    BY <1>f, <2>1 DEF Control, Hands, Asking, Holds
  <2>4. Flushing'
    BY <1>0, <2>1 DEF Flushing
  <2> QED BY <1>f, <2>2, <2>3, <2>4 DEF Control
<1>4. CASE FlushChecks(t)
  <2>1. t \in fl.queue /\ fl.by = "none" /\ fl'.by = t /\ fl'.spawned = fl.spawned
          /\ fl'.queue = fl.queue \ {t} /\ get' = get
    BY <1>4 DEF FlushChecks, Mutex, TypeFl, FlushStates
  <2> QED BY <1>0, <1>f, <2>1, WokenControl DEF TypeGet
<1>2. CASE FlushWrites(t)
  <2>1. fl.by = t /\ fl'.by = fl.by /\ fl'.spawned = fl.spawned
          /\ fl'.queue = fl.queue /\ (get' = get \/ get' = Broadcasts(get))
    <3>1. fl.by = t /\ (get' = get \/ get' = Broadcasts(get))
      BY <1>2 DEF FlushWrites
    <3>2. PICK todo, step : fl' = [fl EXCEPT !.free = 0, !.todo = todo, !.step = step]
      BY <1>2, FlushWritesTodo
    <3> QED BY <3>1, <3>2 DEF TypeFl, FlushStates
  <2>2. TypeGet' /\ \A u \in Getters : get'[u] = get[u] \/ (get[u] = "wait" /\ get'[u] = "woken")
    <3>1. CASE get' = get
      BY <3>1 DEF TypeGet
    <3>2. CASE get' = Broadcasts(get)
      BY <1>b, <3>2 DEF TypeGet
    <3> QED BY <2>1, <3>1, <3>2
  <2> QED BY <1>0, <1>f, <2>1, <2>2, WokenControl
<1>3. CASE FlushFails(t) \/ FlushCommits(t)
  <2>1. fl.by = t /\ fl'.by = "none" /\ fl'.spawned = fl.spawned /\ fl'.queue = fl.queue
    BY <1>3 DEF FlushFails, FlushCommits, TypeFl, FlushStates
  <2>2. PICK g \in {get, Broadcasts(get)} : get' = Returns(t, g)
    BY <1>3 DEF FlushFails, FlushCommits
  <2>3. t \in Getters => get[t] \in {"first", "flushing"} /\ g[t] \in {"first", "flushing"}
    BY <1>0, <1>b, <2>1
  <2>4. TypeGet' /\ \A u \in Getters : /\ u # t => get'[u] = g[u]
                                       /\ u = t => get'[u] \in {"second", "flushed"}
    BY <1>b, <2>2, <2>3, ReturnsKeep DEF TypeGet
  <2>5. \A u \in Getters : \/ get'[u] = get[u]
                           \/ get[u] = "wait" /\ get'[u] = "woken"
                           \/ u = t /\ get[u] \in {"first", "flushing"}
                              /\ get'[u] \in {"second", "flushed"}
    BY <1>b, <2>3, <2>4
  <2> QED BY <1>0, <1>f, <2>1, <2>4, <2>5, WokenControl
<1> QED BY <1>1, <1>2, <1>3, <1>4

\* Every step keeps threads where they belong.
LEMMA ControlKept == IInv /\ [Next]_vars => Control' /\ TypeGet' /\ TypeFetch'
<1> SUFFICES ASSUME IInv, [Next]_vars PROVE Control' /\ TypeGet' /\ TypeFetch'
  OBVIOUS
<1> DEFINE Same == UNCHANGED <<get, held, fetch, add>> /\ user'.adds = user.adds /\
         fl'.spawned \subseteq fl.spawned \cup Background /\ fl'.queue = fl.queue
           /\ fl'.by = fl.by
<1>s. ASSUME Same PROVE Control' /\ TypeGet' /\ TypeFetch'
  BY <1>s, ControlSame DEF TypeGet, TypeFetch, IInv, Types
<1>f. TypeFl /\ fl \in FlushStates /\ TypeUser
  BY DEF IInv, Types, TypeFl
<1>1. CASE Clean \/ UNCHANGED vars
  <2>1. Same
    BY <1>1 DEF Clean, CleanStarts, CleanFrees, vars
  <2> QED BY <1>s, <2>1
<1>2. CASE FlushTimer
  <2>1. fl'.spawned \subseteq fl.spawned \cup Background /\ fl'.queue = fl.queue /\ fl'.by = fl.by
    <3>1. CASE fl' = Spawns(fl)
      BY <1>f, <3>1, SpawnsFacts
    <3>2. CASE fl' = [fl EXCEPT !.since = FALSE]
      BY <1>f, <3>2 DEF FlushStates
    <3> QED BY <1>2, <3>1, <3>2 DEF FlushTimer
  <2> QED BY <1>2, <1>s, <2>1 DEF FlushTimer
<1>3. CASE ShrinkTakes
  <2>1. fl'.spawned \subseteq fl.spawned \cup Background /\ fl'.queue = fl.queue /\ fl'.by = fl.by
    <3> DEFINE f == [fl EXCEPT !.run = TRUE]
    <3>1. f \in FlushStates /\ f.spawned = fl.spawned /\ f.queue = fl.queue /\ f.by = fl.by
      BY <1>f DEF FlushStates
    <3>2. fl' = Spawns(f) \/ fl' = fl
      BY <1>3 DEF ShrinkTakes
    <3> HIDE DEF f
    <3> QED BY <1>f, <3>1, <3>2, SpawnsFacts
  <2>2. UNCHANGED <<get, held, fetch, add>> /\ user'.adds = user.adds
    BY <1>3, <1>f DEF ShrinkTakes, Drops, TypeUser
  <2> QED BY <1>s, <2>1, <2>2
<1>4. CASE ShrinkLooks \/ ShrinkAdds
  <2>1. Same
    BY <1>4, <1>f DEF ShrinkLooks, ShrinkAdds, Drops, TypeUser
  <2> QED BY <1>s, <2>1
<1>5. CASE Flush
  BY <1>5, FlushControl DEF Flush, Threads
<1> QED BY <1>1, <1>2, <1>3, <1>4, <1>5, ReaderControl, FetchControl, AddControl
           DEF Next, Shrink

----------------------------------------------------------------------------
(* The rows of the table and the pages of the cache file.                 *)

\* What flush_pages writes is at the places it picked, and the rest of the file
\* is as it was.
LEMMA WrittenFacts ==
  ASSUME TypeDb, TypeMem, NEW D \in SUBSET Slots, NEW todo \in [D -> Nat],
         \A s \in D : todo[s] \in DOMAIN db.row,
         \A s, z \in D : todo[s] = todo[z] => s = z
  PROVE  LET w == Written(todo)
         IN  /\ w \in Seq(Nat) /\ Len(w) >= Len(db.file)
             /\ \A s \in D : todo[s] \in DOMAIN w /\ w[todo[s]] = mem.page[s].key
             /\ \A i \in DOMAIN w : i \notin {todo[s] : s \in D} => w[i] = At(i)
             /\ \A i \in DOMAIN w : i \in DOMAIN db.file \/ \E s \in D : i <= todo[s]
<1> DEFINE ids == {todo[s] : s \in DOMAIN todo}
           S == {Len(db.file)} \cup ids
           m == Max(S)
           w == Written(todo)
<1>0. DOMAIN todo = D /\ db.file \in Seq(Nat) /\ db.row \in Seq(Nat)
        /\ mem.page \in [Slots -> Pages]
  BY DEF TypeDb, TypeMem
<1>1. m \in S /\ \A x \in S : x <= m
  <2>1. Len(db.file) \in Nat /\ Len(db.row) \in Nat /\ ids \subseteq 1..Len(db.row)
    BY <1>0
  <2> DEFINE n == Len(db.file) + Len(db.row)
  <2>2. n \in Nat /\ S \subseteq 0..n /\ S # {}
    <3> HIDE DEF ids
    <3>1. n \in Nat /\ Len(db.file) \in 0..n /\ 1..Len(db.row) \subseteq 0..n
      <4> DEFINE a == Len(db.file) b == Len(db.row)
      <4>1. a \in Nat /\ b \in Nat
        BY <2>1
      <4> HIDE DEF a, b
      <4>2. a + b \in Nat /\ a \in 0..(a + b) /\ 1..b \subseteq 0..(a + b)
        BY <4>1
      <4> QED BY <4>2 DEF a, b
    <3> HIDE DEF n
    <3> QED BY <2>1, <3>1
  <2> HIDE DEF n, S
  <2> QED BY <2>2, MaxIn
<1>2. m \in Nat /\ Len(db.file) <= m /\ \A i \in ids : i \in 1..m
  <2>1. Len(db.file) \in Nat /\ ids \subseteq Nat \ {0}
    BY <1>0
  <2>2. S \subseteq Nat /\ ids \subseteq S /\ Len(db.file) \in S
    <3> HIDE DEF ids
    <3> QED BY <2>1
  <2> HIDE DEF ids, m, S
  <2>3. m \in Nat /\ Len(db.file) <= m
    BY <1>1, <2>1, <2>2
  <2>4. ASSUME NEW i \in ids PROVE i \in 1..m
    <3>1. i <= m /\ i \in Nat \ {0}
      BY <1>1, <2>1, <2>2
    <3> QED BY <2>3, <3>1
  <2> QED BY <2>3, <2>4
<1>3. w = [i \in 1..m |-> IF i \in ids THEN mem.page[CHOOSE s \in DOMAIN todo : todo[s] = i].key ELSE At(i)]
  BY DEF Written
<1> HIDE DEF m, S, w
<1>4. \A s \in D : (CHOOSE z \in DOMAIN todo : todo[z] = todo[s]) = s
  BY <1>0
<1>5. \A s \in D : mem.page[s].key \in Nat
  BY <1>0 DEF Pages
<1>6. \A i : At(i) \in Nat
  <2>1. \A i \in DOMAIN db.file : db.file[i] \in Nat
    BY <1>0
  <2> QED BY <2>1 DEF At
<1>7. \A s \in D : todo[s] \in 1..m /\ w[todo[s]] = mem.page[s].key
  <2> SUFFICES ASSUME NEW s \in D PROVE todo[s] \in 1..m /\ w[todo[s]] = mem.page[s].key
    OBVIOUS
  <2>1. todo[s] \in ids /\ todo[s] \in 1..m
    BY <1>0, <1>2
  <2> HIDE DEF ids
  <2>2. w[todo[s]] = mem.page[CHOOSE z \in DOMAIN todo : todo[z] = todo[s]].key
    BY <1>3, <2>1
  <2> QED BY <1>4, <2>1, <2>2
<1>8. \A i \in 1..m : i \notin ids => w[i] = At(i)
  <2> HIDE DEF ids
  <2> QED BY <1>3
<1>9. w \in [1..m -> Nat]
  <2>1. ASSUME NEW i \in 1..m PROVE w[i] \in Nat
    <3>1. CASE i \in ids
      <4>1. PICK s \in D : i = todo[s]
        BY <1>0, <3>1
      <4> QED BY <1>5, <1>7, <4>1
    <3>2. CASE i \notin ids
      <4> HIDE DEF ids
      <4> QED BY <1>6, <1>8, <3>2
    <3> QED BY <3>1, <3>2
  <2>2. DOMAIN w = 1..m /\ w = [i \in 1..m |-> w[i]]
    <3> HIDE DEF ids
    <3> QED BY <1>3
  <2> HIDE DEF ids
  <2> QED BY <2>1, <2>2
<1>10. w \in Seq(Nat) /\ Len(w) = m /\ DOMAIN w = 1..m
  BY <1>2, <1>9
<1>11. \A i \in 1..m : i \in DOMAIN db.file \/ \E s \in D : i <= todo[s]
  <2>1. m = Len(db.file) \/ \E s \in D : m = todo[s]
    BY <1>0, <1>1 DEF S
  <2> HIDE DEF ids
  <2>2. DOMAIN db.file = 1..Len(db.file)
    BY <1>0
  <2> QED BY <1>2, <2>1, <2>2
<1> QED BY <1>0, <1>2, <1>7, <1>8, <1>10, <1>11 DEF w

\* No page of the file changes, and none is new, but some may be cut off.
FileKept == \A i \in DOMAIN db'.file : i \in DOMAIN db.file /\ At(i)' = At(i)

\* The disk stays as full as it was, nobody cuts off pages as a start does, and
\* check_disk_full is followed by the writes of the same flush.
Steady ==
    /\ user'.full = user.full /\ ghost'.cut = ghost.cut
    /\ fl.step = "counted" => fl'.step = "counted"

\* Only flush_pages changes who flushes, and what.
LEMMA FlushOnly ==
  ASSUME IInv, [Next]_vars, ~Flush
  PROVE  fl'.by = fl.by /\ fl'.todo = fl.todo /\ fl'.step = fl.step
<1>0. fl \in FlushStates /\ TypeFl
  BY DEF IInv, Types, TypeFl
<1> DEFINE Same == fl'.by = fl.by /\ fl'.todo = fl.todo /\ fl'.step = fl.step
<1>1. ASSUME NEW t \in Getters, psync_pagecache_get_free_page(t) PROVE Same
  BY <1>1, GetMoves DEF IInv, GetMove
<1>2. ASSUME NEW r \in Readers, Read(r) PROVE Same
  BY <1>1, <1>2, Apart DEF Read, check_pages_in_database_by_hash,
     check_page_in_memory_by_hash, check_page_in_database_by_hash, ReadFile,
     check_page_in_database_by_hash_and_cache, mark_page_free, ReadAhead, ReadAheadMore,
       wait_waiter
<1>3. ASSUME NEW f \in Fetchers, Fetch(f) PROVE Same
  BY <1>1, <1>3, Apart DEF Fetch, FetchRefused, FetchBreaks, FetchArrives, FetchHashes,
     psync_pagecache_send_error
<1>4. CASE Add
  BY <1>1, <1>4, Apart DEF Add, AddStarts, AddLooks, AddHashes
<1>5. CASE FlushTimer
  BY <1>0, <1>5, SpawnsFacts DEF FlushTimer, FlushStates, TypeFl
<1>6. CASE ShrinkLooks \/ ShrinkAdds \/ Clean \/ UNCHANGED vars
  BY <1>6 DEF ShrinkLooks, ShrinkAdds, Clean, CleanStarts, CleanFrees, vars
<1>7. CASE ShrinkTakes
  <2> DEFINE f == [fl EXCEPT !.run = TRUE]
  <2>1. f \in FlushStates /\ f.spawned = fl.spawned /\ f.by = fl.by /\ f.todo = fl.todo
          /\ f.step = fl.step
    BY <1>0 DEF FlushStates
  <2>2. fl' = Spawns(f) \/ fl' = fl
    BY <1>7 DEF ShrinkTakes
  <2> HIDE DEF f
  <2> QED BY <1>0, <2>1, <2>2, SpawnsFacts DEF TypeFl
<1> QED BY <1>2, <1>3, <1>4, <1>5, <1>6, <1>7 DEF Next, Shrink

\* A flush writes to the file.
Writes == \E t \in Threads : FlushWrites(t)

\* Only the writes of a flush end the time in which its rows are counted again.
LEMMA StaysSteady ==
  ASSUME IInv, [Next]_vars PROVE ghost'.cut = ghost.cut /\ (Steady \/ Writes)
<1>0. TypeUser /\ TypeGhost /\ TypeFl /\ fl \in FlushStates
  BY DEF IInv, Types, TypeFl
<1>1. user'.full = user.full
  <2>0. /\ user' = user => user'.full = user.full
        /\ \A e : user' = CountError(e) => user'.full = user.full
        /\ Fails => user'.full = user.full
    BY <1>0 DEF CountError, Fails, TypeUser
  <2>1. CASE \E r \in Readers : Read(r)
    BY <1>0, <2>0, <2>1 DEF Read, check_pages_in_database_by_hash,
       check_page_in_memory_by_hash, check_page_in_database_by_hash, ReadFile,
       check_page_in_database_by_hash_and_cache, mark_page_free, ReadAhead, ReadAheadMore,
       wait_waiter, psync_pagecache_get_free_page, TypeUser
  <2>2. CASE \E f \in Fetchers : Fetch(f)
    BY <2>0, <2>2 DEF Fetch, FetchRefused, FetchBreaks, FetchArrives, FetchHashes,
       psync_pagecache_send_error, psync_pagecache_get_free_page
  <2>3. CASE Add
    BY <1>0, <2>0, <2>3 DEF Add, AddStarts, AddLooks, AddHashes,
       psync_pagecache_get_free_page, TypeUser
  <2>4. CASE Flush
    BY <2>0, <2>4 DEF Flush, FlushStarts, FlushChecks, FlushWrites, FlushFails, FlushCommits
  <2>5. CASE Shrink
    BY <1>0, <2>0, <2>5 DEF Shrink, ShrinkTakes, ShrinkLooks, ShrinkAdds, Drops, TypeUser
  <2>6. CASE FlushTimer \/ Clean \/ UNCHANGED vars
    BY <2>0, <2>6 DEF FlushTimer, Clean, CleanStarts, CleanFrees, vars
  <2> QED BY <2>1, <2>2, <2>3, <2>4, <2>5, <2>6 DEF Next
<1>2. ghost'.cut = ghost.cut
  <2>0. (ghost' = ghost \/ \E W : ghost' = Known(W)) => ghost'.cut = ghost.cut
    BY <1>0 DEF Known, TypeGhost
  <2>1. CASE \E r \in Readers : Read(r)
    BY <1>0, <2>0, <2>1 DEF Read, check_pages_in_database_by_hash,
       check_page_in_memory_by_hash, check_page_in_database_by_hash, ReadFile,
       check_page_in_database_by_hash_and_cache, mark_page_free, ReadAhead, ReadAheadMore,
       wait_waiter, psync_pagecache_get_free_page, TypeGhost
  <2>2. CASE (\E f \in Fetchers : Fetch(f)) \/ Add
    BY <2>0, <2>2 DEF Fetch, FetchRefused, FetchBreaks, FetchArrives, FetchHashes,
       psync_pagecache_send_error, psync_pagecache_get_free_page, Add, AddStarts, AddLooks,
       AddHashes
  <2>3. ASSUME NEW t, FlushWrites(t) PROVE ghost'.cut = ghost.cut
    <3>1. PICK todo : FlushFile(todo)
      BY <2>3, FlushWritesTodo
    <3> QED BY <1>0, <3>1 DEF FlushFile, TypeGhost
  <2>4. CASE Flush
    BY <2>0, <2>3, <2>4 DEF Flush, FlushStarts, FlushChecks, FlushFails, FlushCommits
  <2>5. CASE Shrink
    BY <2>0, <2>5 DEF Shrink, ShrinkTakes, ShrinkLooks, ShrinkAdds, RowGone
  <2>6. CASE FlushTimer \/ Clean \/ UNCHANGED vars
    BY <2>0, <2>6 DEF FlushTimer, Clean, CleanStarts, CleanFrees, vars
  <2> QED BY <2>1, <2>2, <2>3, <2>4, <2>5, <2>6 DEF Next
<1>3. fl.step = "counted" => fl'.step = "counted" \/ Writes
  <2>1. CASE ~Flush
    BY <2>1, FlushOnly
  <2>2. ASSUME NEW t \in Threads, FlushStarts(t) \/ FlushChecks(t)
        PROVE  fl.step = "counted" => fl'.step = "counted"
    BY <1>0, <2>2 DEF FlushStarts, FlushChecks, FlushStates
  <2>3. ASSUME NEW t \in Threads, FlushFails(t) \/ FlushCommits(t) PROVE fl.step # "counted"
    BY <2>3 DEF FlushFails, FlushCommits
  <2> QED BY <2>1, <2>2, <2>3 DEF Flush, Threads, Writes
<1> QED BY <1>1, <1>2, <1>3 DEF Steady

\* What every step keeps of the table: its counter, its bound, and rows that say
\* what the file has.
RowsKeep == TypeDb' /\ RowsCounted' /\ Rowed'

\* A step that only marks rows as used.
LEMMA RowsSame ==
  ASSUME IInv, Steady, ghost.known \subseteq ghost'.known,
         db' = db \/ \E b \in BOOLEAN : db' = [db EXCEPT !.used = b]
  PROVE  RowsKeep /\ FileKept /\ db'.row = db.row /\ db'.file = db.file
<1>0. db'.row = db.row /\ db'.file = db.file /\ db'.nfree = db.nfree /\ TypeDb'
  BY DEF IInv, Types, TypeDb
<1>1. RowsCounted'
  BY <1>0 DEF RowsCounted, Recounting, Steady, FreeIds, IdsOf, IInv
<1>2. Rowed' /\ FileKept
  BY <1>0 DEF Rowed, Cut, Steady, FileKept, At, IInv
<1> QED BY <1>0, <1>1, <1>2 DEF RowsKeep

\* The free rows are finitely many, and some of the table's.
LEMMA FreeIdsFinite ==
  ASSUME TypeDb
  PROVE  IsFiniteSet(FreeIds) /\ Cardinality(FreeIds) \in 0..Len(db.row)
         /\ FreeIds = FreeRows(db.row) /\ FreeIds \subseteq DOMAIN db.row /\ Len(db.row) \in Nat
<1>1. FreeIds = FreeRows(db.row) /\ db.row \in Seq(Nat)
  BY DEF FreeIds, IdsOf, FreeRows, TypeDb
<1> QED BY <1>1, RowsFinite

\* A step that makes rows free and counts them, or knows that it does not.
LEMMA RowsFreed ==
  ASSUME IInv, Steady, ghost.known \subseteq ghost'.known, NEW S, NEW n \in Int,
         db'.row = [j \in DOMAIN db.row |-> IF j \in S THEN Free ELSE db.row[j]],
         db'.file = db.file, db'.nfree = n, TypeDb',
         "rows" \in ghost'.known \/ (db.nfree = Cardinality(FreeIds)
           => n = Cardinality(FreeIds \cup (S \cap DOMAIN db.row)))
  PROVE  RowsKeep /\ FileKept
<1>0. TypeDb /\ db.row \in Seq(Nat) /\ DOMAIN db'.row = DOMAIN db.row /\ db'.row \in Seq(Nat)
  BY DEF IInv, Types, TypeDb
<1>1. Len(db'.row) = Len(db.row)
  BY <1>0
<1>2. FreeIds' = FreeIds \cup (S \cap DOMAIN db.row)
  BY <1>0 DEF FreeIds, IdsOf, Free
<1>3. RowsCounted'
  BY <1>1, <1>2 DEF RowsCounted, Recounting, Steady, IInv
<1>4. Rowed' /\ FileKept
  BY DEF Rowed, Cut, Steady, FileKept, At, IInv, Free
<1> QED BY <1>3, <1>4 DEF RowsKeep

\* Making rows free leaves the table with as many rows.
LEMMA FreedTyped ==
  ASSUME TypeDb, NEW S, NEW n \in Int,
         db' = [db EXCEPT !.row = [j \in DOMAIN db.row |-> IF j \in S THEN Free ELSE db.row[j]], !.nfree = n]
  PROVE  /\ TypeDb' /\ db'.file = db.file /\ db'.nfree = n
         /\ db'.row = [j \in DOMAIN db.row |-> IF j \in S THEN Free ELSE db.row[j]]
<1> DEFINE row == [j \in DOMAIN db.row |-> IF j \in S THEN Free ELSE db.row[j]]
<1>1. row \in Seq(Nat)
  <2>1. db.row \in Seq(Nat) /\ Len(db.row) \in Nat /\ DOMAIN db.row = 1..Len(db.row)
    BY DEF TypeDb
  <2>2. row \in [1..Len(db.row) -> Nat]
    BY <2>1 DEF Free
  <2> HIDE DEF row
  <2> QED BY <2>1, <2>2
<1> HIDE DEF row
<1>2. TypeDb' /\ db'.row = row /\ db'.file = db.file /\ db'.nfree = n
  <2>1. db' = [db EXCEPT !.row = row, !.nfree = n]
    BY DEF row
  <2> QED BY <1>1, <2>1 DEF TypeDb
<1> QED BY <1>2 DEF row

\* mark_page_free frees a row without counting it, which is then known.
LEMMA MarkRows ==
  ASSUME IInv, Steady, NEW r \in Readers, mark_page_free(r)
  PROVE  RowsKeep /\ FileKept
<1> DEFINE i == rd[r].ids[Key(r)]
           row == [j \in DOMAIN db.row |-> IF j \in {i} THEN Free ELSE db.row[j]]
           W == IF i \in DOMAIN db.row \ FreeIds THEN {"rows"} ELSE {}
<1>0. TypeDb
  BY DEF IInv, Types
<1>1. ghost.known \subseteq ghost'.known /\ W \subseteq ghost'.known
  <2>1. ghost' = Known(W)
    BY DEF mark_page_free
  <2> HIDE DEF W
  <2> QED BY <2>1, KnownGrows DEF IInv
<1>2. db' = [db EXCEPT !.row = row, !.nfree = db.nfree]
  <2>1. db' = [db EXCEPT !.row = [j \in DOMAIN @ |-> IF j = i THEN Free ELSE @[j]]]
    BY DEF mark_page_free
  <2>2. row = [j \in DOMAIN db.row |-> IF j = i THEN Free ELSE db.row[j]]
    OBVIOUS
  <2> HIDE DEF i, row
  <2> QED BY <1>0, <2>1, <2>2 DEF TypeDb
<1> HIDE DEF i
<1>3. db.nfree \in Int
  BY <1>0 DEF TypeDb
<1>4. TypeDb' /\ db'.row = row /\ db'.file = db.file /\ db'.nfree = db.nfree
  BY <1>0, <1>2, <1>3, FreedTyped
<1>5. "rows" \in ghost'.known \/ FreeIds \cup ({i} \cap DOMAIN db.row) = FreeIds
  BY <1>1
<1> QED BY ZenonT(60), <1>1, <1>3, <1>4, <1>5, RowsFreed

\* clean_cache frees what it picked earlier, and counts them all, which is known
\* to be too many when one is free by then.
LEMMA CleanRows ==
  ASSUME IInv, Steady, CleanFrees
  PROVE  RowsKeep /\ FileKept
<1> DEFINE S == clean.ids
           row == [j \in DOMAIN db.row |-> IF j \in S THEN Free ELSE db.row[j]]
           W == IF S \subseteq DOMAIN db.row \ FreeIds THEN {} ELSE {"rows"}
           n == (db.nfree + Cardinality(S)) % Word
<1>0. TypeDb /\ IsFiniteSet(S) /\ Cardinality(S) \in Nat /\ db.nfree \in Int /\ n \in Int
  <2>1. TypeDb /\ IsFiniteSet(S) /\ db.nfree \in Int
    BY DEF IInv, Types, TypeClean, TypeDb
  <2>2. Cardinality(S) \in Nat
    BY <2>1, FS_CardinalityType
  <2> QED BY <2>1, <2>2, PagesAssumption
<1>1. ghost.known \subseteq ghost'.known /\ W \subseteq ghost'.known
  <2>1. ghost' = Known(W)
    BY DEF CleanFrees
  <2> HIDE DEF W
  <2> QED BY <2>1, KnownGrows DEF IInv
<1>2. db' = [db EXCEPT !.row = row, !.nfree = n]
  <2>1. db' = [db EXCEPT !.row = [j \in DOMAIN @ |-> IF j \in S THEN Free ELSE @[j]],
          !.nfree = (@ + Cardinality(S)) % Word]
    BY DEF CleanFrees
  <2> HIDE DEF S
  <2> QED BY <1>0, <2>1 DEF TypeDb
<1>4. TypeDb' /\ db'.row = row /\ db'.file = db.file /\ db'.nfree = n
  <2> HIDE DEF S, n
  <2> QED BY <1>0, <1>2, FreedTyped
<1>5. "rows" \in ghost'.known \/ (db.nfree = Cardinality(FreeIds)
        => n = Cardinality(FreeIds \cup (S \cap DOMAIN db.row)))
  <2> SUFFICES ASSUME S \subseteq DOMAIN db.row \ FreeIds, db.nfree = Cardinality(FreeIds)
      PROVE n = Cardinality(FreeIds \cup (S \cap DOMAIN db.row))
    BY <1>1
  <2>1. S \cap DOMAIN db.row = S /\ FreeIds \cap S = {}
    OBVIOUS
  <2>2. IsFiniteSet(FreeIds) /\ IsFiniteSet(S)
    BY <1>0, FreeIdsFinite
  <2>3. Cardinality(FreeIds \cup S) = Cardinality(FreeIds) + Cardinality(S)
    <3> HIDE DEF S
    <3> QED BY ONLY <2>1, <2>2, Together
  <2>4. Cardinality(FreeIds \cup S) \in 0..Len(db.row)
    <3>1. IsFiniteSet(DOMAIN db.row) /\ Cardinality(DOMAIN db.row) = Len(db.row)
            /\ Len(db.row) \in Nat
      BY <1>0, RowsFinite DEF TypeDb
    <3>2. FreeIds \cup S \subseteq DOMAIN db.row
      BY <1>0, FreeIdsFinite
    <3> HIDE DEF S
    <3> QED BY <3>1, <3>2, FS_Subset, FS_CardinalityType
  <2>5. Len(db.row) < Word /\ Len(db.row) \in Nat
    BY <1>0, FreeIdsFinite DEF IInv, RowsCounted
  <2>6. ASSUME NEW c \in 0..Len(db.row) PROVE c % Word = c
    BY <2>5, PagesAssumption
  <2>7. n = Cardinality(FreeIds \cup S) % Word
    BY <2>3
  <2> HIDE DEF n
  <2> QED BY <2>1, <2>4, <2>6, <2>7
<1> HIDE DEF S, n
<1> QED BY <1>0, <1>1, <1>4, <1>5, RowsFreed

\* check_disk_full drops rows at the end of the table.  They are not counted any
\* more when it assigns free_db_pages, which is before the flush writes.
LEMMA CheckRows ==
  ASSUME IInv, NEW t, FlushChecks(t)
  PROVE  RowsKeep /\ FileKept
<1>0. TypeDb /\ db.row \in Seq(Nat) /\ TypeFl /\ fl \in FlushStates
  BY DEF IInv, Types, TypeDb, TypeFl
<1>1. /\ RowsKept \in Seq(Nat) /\ Len(RowsKept) <= Len(db.row)
      /\ DOMAIN RowsKept \subseteq DOMAIN db.row
      /\ \A i \in DOMAIN RowsKept : RowsKept[i] = db.row[i]
      /\ ~user.full => RowsKept = db.row
  BY <1>0, RowsKeptFacts
<1>2. /\ TypeDb' /\ db'.row = RowsKept /\ db'.nfree = db.nfree /\ db'.file = db.file
      /\ user' = user /\ ghost' = ghost /\ fl'.step = "counted"
  <2>1. db' = [db EXCEPT !.row = RowsKept] /\ user' = user /\ ghost' = ghost
    BY DEF FlushChecks
  <2>2. fl'.step = "counted"
    BY <1>0 DEF FlushChecks, FlushStates
  <2> QED BY <1>0, <1>1, <2>1, <2>2 DEF TypeDb
<1>3. Rowed' /\ FileKept
  BY <1>1, <1>2 DEF Rowed, Cut, FileKept, At, IInv
<1>4. "rows" \in ghost'.known \/ Recounting' \/ db'.nfree = Cardinality(FreeIds')
  <2>1. CASE user.full
    BY <1>2, <2>1 DEF Recounting
  <2>2. CASE ~user.full
    <3>1. FreeIds' = FreeIds
      BY <1>1, <1>2, <2>2 DEF FreeIds, IdsOf
    <3> QED BY <1>2, <2>2, <3>1 DEF IInv, RowsCounted, Recounting
  <2> QED BY <2>1, <2>2
<1>5. Len(db'.row) < Word
  BY <1>0, <1>1, <1>2, PagesAssumption DEF IInv, RowsCounted
<1> QED BY <1>2, <1>3, <1>4, <1>5 DEF RowsKeep, RowsCounted

\* flush_pages writes over free rows only: no row that a reader can look up loses
\* its page.  It takes the lowest of them, so that a page between the end of the
\* file and what it writes has a used row, one whose page was cut off.
LEMMA WriteRows ==
  ASSUME IInv, NEW todo, Todo(todo), FlushFile(todo), fl'.step # "counted"
  PROVE  /\ RowsKeep /\ Ids(todo) \subseteq FreeIds'
         /\ \A i : i \notin Ids(todo) => At(i)' = At(i)
         /\ \A i \in DOMAIN db'.file : i \in Ids(todo) \/ i \in DOMAIN db.file \/ Cut(i)
         /\ \A s \in DOMAIN todo : At(todo[s])' = mem.page[s].key
<1> DEFINE D == DOMAIN todo w == Written(todo) n == IF user.full THEN fl.free ELSE db.nfree
<1>0. TypeDb /\ TypeMem /\ mem.hash \in SUBSET Slots /\ db.row \in Seq(Nat) /\ fl.free \in Int
        /\ db.nfree \in Int /\ db.file \in Seq(Nat) /\ TypeGhost
  BY DEF IInv, Types, TypeMem, TypeDb, TypeFl, FlushStates
<1>2. /\ D \in SUBSET Slots /\ todo \in [D -> Nat]
      /\ \A s \in D : todo[s] \in FreeIds /\ todo[s] \in DOMAIN db.row
      /\ \A s, z \in D : todo[s] = todo[z] => s = z
  BY <1>0 DEF Todo, FreeIds, IdsOf
<1>3. /\ w \in Seq(Nat) /\ Len(w) >= Len(db.file)
      /\ \A s \in D : todo[s] \in DOMAIN w /\ w[todo[s]] = mem.page[s].key
      /\ \A i \in DOMAIN w : i \notin {todo[s] : s \in D} => w[i] = At(i)
      /\ \A i \in DOMAIN w : i \in DOMAIN db.file \/ \E s \in D : i <= todo[s]
  <2> HIDE DEF D
  <2> QED BY <1>0, <1>2, WrittenFacts
<1>5. TypeDb' /\ db'.row = db.row /\ db'.nfree = n /\ db'.file = w
  <2>1. db' = [db EXCEPT !.nfree = n, !.file = w]
    BY <1>0 DEF FlushFile, TypeDb
  <2>2. n \in Int
    BY <1>0
  <2> HIDE DEF w, n
  <2> QED BY <1>0, <1>3, <2>1, <2>2 DEF TypeDb
<1>6. FreeIds' = FreeIds
  BY <1>5 DEF FreeIds, IdsOf
<1>7. Ids(todo) \subseteq FreeIds' /\ Ids(todo) \subseteq FreeIds
  BY <1>2, <1>6 DEF Ids
<1>8. \A s \in D : At(todo[s])' = mem.page[s].key
  BY <1>3, <1>5 DEF At
<1>9. ASSUME NEW i, i \notin Ids(todo) PROVE At(i)' = At(i)
  <2>1. CASE i \in DOMAIN w
    BY <1>3, <1>5, <1>9, <2>1 DEF At, Ids
  <2>2. CASE i \notin DOMAIN w
    <3>1. i \notin DOMAIN db.file
      BY <1>0, <1>3, <2>2
    <3> QED BY <1>5, <2>2, <3>1 DEF At
  <2> QED BY <2>1, <2>2
<1>10. ghost'.known = ghost.known \cup (IF Stale THEN {"rows"} ELSE {})
         /\ ghost'.cut = ghost.cut
  BY <1>0 DEF FlushFile, TypeGhost
<1>11. RowsCounted'
  <2>1. CASE user.full
    BY <1>5, <1>6, <1>10, <2>1 DEF Stale, RowsCounted, IInv
  <2>2. CASE ~user.full
    BY <1>5, <1>6, <1>10, <2>2 DEF Recounting, RowsCounted, IInv
  <2> QED BY <2>1, <2>2
<1>12. Rowed'
  <2> SUFFICES ASSUME NEW i \in DOMAIN db.row, db.row[i] # Free
               PROVE  At(i)' = db.row[i] \/ Cut(i)'
    BY <1>5 DEF Rowed
  <2>1. i \notin Ids(todo)
    BY <1>7 DEF FreeIds, IdsOf
  <2> QED BY <1>9, <1>10, <2>1 DEF IInv, Rowed, Cut
<1>13. ASSUME NEW i \in DOMAIN w, i \notin Ids(todo), i \notin DOMAIN db.file PROVE Cut(i)
  <2>1. PICK s \in D : i <= todo[s]
    BY <1>3, <1>13
  <2>2. i < todo[s] /\ i \in Nat \ {0}
    BY <1>2, <1>3, <1>13, <2>1 DEF Ids
  <2>3. i \notin FreeIds
    BY <1>13, <2>2 DEF Todo
  <2>4. i \in DOMAIN db.row
    BY <1>0, <1>2, <2>2
  <2>5. db.row[i] # Free /\ At(i) = 0
    BY <1>13, <2>3, <2>4 DEF FreeIds, IdsOf, At
  <2> QED BY <2>4, <2>5 DEF IInv, Rowed, Free
<1> QED BY <1>5, <1>7, <1>8, <1>9, <1>11, <1>12, <1>13 DEF RowsKeep

\* How many rows to add is the least of three numbers.
LEMMA MinOfThree ==
  ASSUME NEW a \in Int, NEW b \in Int, NEW c \in Int
  PROVE  Min({a, b, c}) \in Int /\ Min({a, b, c}) <= a
<1>1. \E x \in {a, b, c} : \A y \in {a, b, c} : x <= y
  OBVIOUS
<1>2. Min({a, b, c}) \in {a, b, c} /\ \A y \in {a, b, c} : Min({a, b, c}) <= y
  BY <1>1 DEF Min
<1> QED BY <1>2

\* And not less than 0.
LEMMA MaxOfTwo ==
  ASSUME NEW a \in Int, NEW b \in Int
  PROVE  Max({a, b}) \in {a, b} /\ Max({a, b}) >= a /\ Max({a, b}) >= b
<1>1. \E x \in {a, b} : \A y \in {a, b} : x >= y
  OBVIOUS
<1> QED BY <1>1 DEF Max

\* flush_pages adds no more rows than db_cache_in_pages leaves room for.
LEMMA NewRowsFacts ==
  ASSUME TypeDb, TypeMem
  PROVE  NewRows \in Nat /\ (NewRows > 0 => NewRows <= DbPages - Len(db.row))
<1>1. DbPages - Len(db.row) \in Int /\ CachePages \in Int /\ mem.nhash \in Int
  BY PagesAssumption DEF TypeDb, TypeMem
<1> DEFINE a == DbPages - Len(db.row) x == Min({a, CachePages, mem.nhash})
<1>2. x \in Int /\ x <= a
  <2> HIDE DEF a
  <2> QED BY <1>1, MinOfThree DEF a
<1>3. Max({0, x}) \in {0, x} /\ Max({0, x}) >= 0
  <2> HIDE DEF x
  <2> QED BY <1>2, MaxOfTwo, 0 \in Int
<1>4. NewRows = IF user.full THEN 0 ELSE Max({0, x})
  BY DEF NewRows
<1> HIDE DEF x
<1> QED BY <1>1, <1>2, <1>3, <1>4

\* Rows that are added come after the others, and are free.
LEMMA Appended ==
  ASSUME NEW a \in Seq(Nat), NEW N \in Nat
  PROVE  LET rows == a \o [i \in 1..N |-> 0]
         IN  /\ rows \in Seq(Nat) /\ Len(rows) = Len(a) + N /\ DOMAIN rows = 1..(Len(a) + N)
             /\ \A i \in 1..Len(a) : rows[i] = a[i]
             /\ \A i \in (Len(a) + 1)..(Len(a) + N) : rows[i] = 0
<1> DEFINE z == [i \in 1..N |-> 0] rows == a \o z L == Len(a)
<1>1. z \in [1..N -> Nat]
  OBVIOUS
<1>2. z \in Seq(Nat) /\ Len(z) = N /\ \A i \in 1..N : z[i] = 0
  BY <1>1
<1> HIDE DEF z
<1>3. L \in Nat /\ rows \in Seq(Nat) /\ Len(rows) = L + N
  BY <1>2
<1>4. DOMAIN rows = 1..(L + N)
  BY <1>3
<1>5. ASSUME NEW i \in 1..L PROVE rows[i] = a[i]
  BY <1>2, <1>3
<1>6. ASSUME NEW i \in (L + 1)..(L + N) PROVE rows[i] = 0
  <2>1. i \in 1..(L + N) /\ i > L /\ i - L \in 1..N
    BY <1>3
  <2>2. rows[i] = z[i - L]
    BY <1>2, <1>3, <2>1
  <2> QED BY <1>2, <2>1, <2>2
<1> QED BY <1>3, <1>4, <1>5, <1>6 DEF z

\* The transaction at the end of flush_pages: each row it updates was free and now
\* says what was written at its place, and free_db_pages counts what was added
\* and used.
LEMMA CommitRows ==
  ASSUME IInv, NEW t, FlushCommits(t)
  PROVE  RowsKeep /\ FileKept
<1> DEFINE N == NewRows
           done == {s \in DOMAIN fl.todo : Gets(s)}
           rows == db.row \o [i \in 1..N |-> Free]
           row == [i \in DOMAIN rows |->
                        IF \E s \in done : fl.todo[s] = i
                        THEN mem.page[CHOOSE s \in done : fl.todo[s] = i].key ELSE rows[i]]
           n == (db.nfree + N - Cardinality(done)) % Word
           L == Len(db.row)
<1>0. TypeDb /\ TypeMem /\ mem.hash \in SUBSET Slots /\ db.row \in Seq(Nat)
        /\ db.nfree \in Int /\ db.file \in Seq(Nat)
      /\ mem.page \in [Slots -> Pages] /\ L \in Nat
  BY DEF IInv, Types, TypeMem, TypeDb
<1>1. N \in Nat /\ (N > 0 => N <= DbPages - L)
  BY <1>0, NewRowsFacts
<1>2. /\ done \in SUBSET Slots /\ done \subseteq mem.hash
      /\ \A s \in done : fl.todo[s] \in FreeIds /\ At(fl.todo[s]) = mem.page[s].key
         /\ mem.page[s].key # 0 /\ mem.page[s].key \in Nat
      /\ \A s, z \in done : fl.todo[s] = fl.todo[z] => s = z
  <2>1. DOMAIN fl.todo \subseteq mem.hash /\ done \subseteq DOMAIN fl.todo
    BY DEF IInv, Picked
  <2> HIDE DEF done
  <2> QED BY <1>0, <2>1 DEF IInv, Picked, Hashed, Pages
<1>3. rows \in Seq(Nat) /\ Len(rows) = L + N /\ DOMAIN rows = 1..(L + N)
        /\ (\A i \in 1..L : rows[i] = db.row[i]) /\ \A i \in (L+1)..(L+N) : rows[i] = 0
  <2>1. rows = db.row \o [i \in 1..N |-> 0]
    BY DEF Free
  <2> HIDE DEF rows, N
  <2> QED BY <1>0, <1>1, <2>1, Appended
<1>4. DOMAIN row = 1..(L + N) /\ \A i \in 1..(L + N) : /\ row[i] \in Nat
            /\ ((\E s \in done : fl.todo[s] = i /\ row[i] = mem.page[s].key)
               \/ ((\A s \in done : fl.todo[s] # i) /\ row[i] = rows[i]))
  <2> HIDE DEF done, rows, N, L
  <2>1. DOMAIN row = 1..(L + N)
    BY <1>3
  <2>2. ASSUME NEW i \in 1..(L + N) PROVE row[i] \in Nat
            /\ ((\E s \in done : fl.todo[s] = i /\ row[i] = mem.page[s].key)
               \/ ((\A s \in done : fl.todo[s] # i) /\ row[i] = rows[i]))
    <3>1. CASE \E s \in done : fl.todo[s] = i
      <4> DEFINE s == CHOOSE s \in done : fl.todo[s] = i
      <4>1. s \in done /\ fl.todo[s] = i
        BY <3>1
      <4>2. row[i] = mem.page[s].key
        BY <1>3, <3>1
      <4> HIDE DEF s, row
      <4> QED BY <1>2, <4>1, <4>2
    <3>2. CASE ~\E s \in done : fl.todo[s] = i
      <4>1. row[i] = rows[i]
        BY <1>3, <3>2
      <4> HIDE DEF row
      <4>2. rows[i] \in Nat
        BY <1>3
      <4> QED BY <3>2, <4>1, <4>2
    <3> QED BY <3>1, <3>2
  <2> HIDE DEF row
  <2> QED BY <2>1, <2>2
<1>5. row \in Seq(Nat) /\ Len(row) = L + N
  <2>1. row = [i \in 1..(L + N) |-> row[i]]
    <3> HIDE DEF rows, L, N, done
    <3> QED BY <1>3
  <2> HIDE DEF row, L, N
  <2>2. row \in [1..(L + N) -> Nat]
    BY <1>4, <2>1
  <2>3. L + N \in Nat
    BY <1>0, <1>1
  <2> QED BY <2>2, <2>3
<1>6. n \in Int
  <2>1. Cardinality(done) \in Nat
    <3> HIDE DEF done
    <3> QED BY <1>2, Finite
  <2> QED BY <1>0, <1>1, <2>1, PagesAssumption
<1>7. TypeDb' /\ db'.row = row /\ db'.nfree = n /\ db'.file = db.file
  <2>1. PICK b \in BOOLEAN : db' = [db EXCEPT !.nfree = n, !.used = b, !.row = row]
    <3>1. PICK late \in BOOLEAN : db' = [db EXCEPT !.nfree = n, !.used = @ /\ ~late, !.row = row]
      BY DEF FlushCommits
    <3> HIDE DEF n, row
    <3>2. db' = [db EXCEPT !.nfree = n, !.used = db.used /\ ~late, !.row = row]
            /\ (db.used /\ ~late) \in BOOLEAN
      BY <1>0, <3>1 DEF TypeDb
    <3> QED BY <3>2
  <2> HIDE DEF n, row
  <2> QED BY <1>0, <1>5, <1>6, <2>1 DEF TypeDb
<1> DEFINE filled == {fl.todo[s] : s \in done} more == (L + 1)..(L + N)
<1>8. FreeIds' = (FreeIds \cup more) \ filled
  <2>1. \A i \in 1..(L + N) : row[i] = 0 <=> i \in (FreeIds \cup more) \ filled
    <3> SUFFICES ASSUME NEW i \in 1..(L + N) PROVE row[i] = 0 <=> i \in (FreeIds
                        \cup more) \ filled
      OBVIOUS
    <3>1. CASE i \in filled
      <4> HIDE DEF row, rows, done
      <4> QED BY <1>2, <1>4, <3>1
    <3>2. CASE i \notin filled
      <4>1. row[i] = rows[i]
        <5> HIDE DEF row, rows, done
        <5> QED BY <1>4, <3>2
      <4> HIDE DEF row, rows, filled, done
      <4>2. CASE i \in 1..L
        <5>1. i \notin more
          BY <1>0, <1>1, <4>2
        <5>2. i \in FreeIds <=> db.row[i] = 0
          BY <1>0, <4>2 DEF FreeIds, IdsOf, Free
        <5> QED BY <1>3, <3>2, <4>1, <4>2, <5>1, <5>2
      <4>3. CASE i \in more
        BY <1>3, <3>2, <4>1, <4>3
      <4>4. i \in 1..L \/ i \in more
        BY <1>0, <1>1
      <4> QED BY <4>2, <4>3, <4>4
    <3> QED BY <3>1, <3>2
  <2>2. FreeIds \cup more \subseteq 1..(L + N)
    <3>1. FreeIds \subseteq 1..L
      BY <1>0 DEF FreeIds, IdsOf
    <3>2. 1..L \subseteq 1..(L + N) /\ more \subseteq 1..(L + N)
      <4> HIDE DEF L, N
      <4> QED BY <1>0, <1>1
    <3> HIDE DEF more, L, N
    <3> QED BY <3>1, <3>2
  <2>3. FreeIds' = {i \in 1..(L + N) : row[i] = 0}
    <3> HIDE DEF row
    <3> QED BY <1>4, <1>7 DEF FreeIds, IdsOf, Free
  <2> HIDE DEF row, filled, more
  <2> QED BY <2>1, <2>2, <2>3
<1>9. Cardinality(filled) = Cardinality(done) /\ IsFiniteSet(filled) /\ filled \subseteq FreeIds
  <2> DEFINE f == [s \in done |-> fl.todo[s]]
  <2>1. f \in [done -> filled] /\ (\A x \in filled : \E s \in done : f[s] = x) /\ \A s,
          z \in done : f[s] = f[z] => s = z
    <3> HIDE DEF done
    <3> QED BY <1>2
  <2>2. IsFiniteSet(done) /\ filled \subseteq FreeIds
    <3> HIDE DEF done
    <3> QED BY <1>2, Finite
  <2> HIDE DEF f, done, filled
  <2>3. f \in Bijection(done, filled)
    BY <2>1 DEF Bijection, Injection, Surjection, IsInjective
  <2>4. ExistsBijection(done, filled)
    BY <2>3 DEF ExistsBijection
  <2> QED BY <2>2, <2>4, FS_Bijection
<1>10. Cardinality(FreeIds') = Cardinality(FreeIds) + N - Cardinality(done)
  <2> HIDE DEF filled
  <2>1. IsFiniteSet(more) /\ Cardinality(more) = N
    <3> HIDE DEF L, N
    <3>1. L + 1 \in Int /\ L + N \in Int
      BY <1>0, <1>1
    <3>2. Cardinality(more) = (IF L + 1 > L + N THEN 0 ELSE (L + N) - (L + 1) + 1)
            /\ IsFiniteSet(more)
      BY <3>1, FS_Interval
    <3> QED BY <1>0, <1>1, <3>2
  <2>2. FreeIds \cap more = {} /\ IsFiniteSet(FreeIds) /\ Cardinality(FreeIds) \in Nat
    <3>1. FreeIds \subseteq 1..L
      BY <1>0 DEF FreeIds, IdsOf
    <3> QED BY <1>0, <3>1, FreeIdsFinite
  <2> DEFINE A == FreeIds \cup more
  <2>3. Cardinality(A) = Cardinality(FreeIds) + N /\ IsFiniteSet(A)
    <3> HIDE DEF more, N
    <3> QED BY ONLY <2>1, <2>2, Together
  <2>4. filled \in SUBSET A /\ A \cap filled = filled
    BY <1>9
  <2> HIDE DEF A, more
  <2>5. Cardinality(A \ filled) = Cardinality(A) - Cardinality(A \cap filled)
    BY <2>3, FS_Difference
  <2> HIDE DEF N, done
  <2>6. FreeIds' = A \ filled
    BY <1>8 DEF A
  <2>7. Cardinality(A \cap filled) = Cardinality(done) /\ Cardinality(done) \in Nat
    <3>1. Cardinality(filled) \in Nat
      BY <1>9, FS_CardinalityType
    <3> QED BY <1>9, <2>4, <3>1
  <2> QED BY <1>1, <2>2, <2>3, <2>5, <2>6, <2>7
<1>11. "rows" \in ghost'.known \/ db'.nfree = Cardinality(FreeIds')
  <2>1. ghost.known \subseteq ghost'.known
    BY KnownGrows DEF FlushCommits, IInv
  <2> SUFFICES ASSUME db.nfree = Cardinality(FreeIds) PROVE n = Cardinality(FreeIds')
    BY <1>7, <2>1 DEF IInv, RowsCounted, Recounting, FlushCommits
  <2>2. n = Cardinality(FreeIds') % Word
    <3>1. db.nfree + N - Cardinality(done) = Cardinality(FreeIds')
      <4> HIDE DEF N, done
      <4> QED BY <1>10
    <3> QED BY <3>1
  <2>3. Cardinality(FreeIds') \in 0..(L + N)
    <3>1. FreeIds' = FreeRows(row)
      <4> HIDE DEF row
      <4> QED BY <1>7 DEF FreeIds, IdsOf, FreeRows
    <3> HIDE DEF L, N, row
    <3> QED BY <1>5, <3>1, RowsFinite
  <2>4. L + N < Word /\ L + N \in Nat
    BY <1>0, <1>1, PagesAssumption DEF IInv, RowsCounted
  <2>5. ASSUME NEW c \in 0..(L + N) PROVE c % Word = c
    BY <2>4, PagesAssumption
  <2> HIDE DEF n, L, N
  <2> QED BY <2>2, <2>3, <2>5
<1>12. RowsCounted'
  <2>1. Len(db'.row) < Word
    BY <1>0, <1>1, <1>5, <1>7, PagesAssumption DEF IInv, RowsCounted
  <2> QED BY <1>11, <2>1 DEF RowsCounted
<1>13. Rowed'
  <2> HIDE DEF row, rows, done, L, N
  <2> SUFFICES ASSUME NEW i \in 1..(L + N), row[i] # Free PROVE At(i)' = row[i] \/ Cut(i)'
    BY <1>4, <1>7 DEF Rowed
  <2>1. At(i)' = At(i) /\ (Cut(i) => Cut(i)')
    <3>1. ghost'.cut = ghost.cut
      BY DEF FlushCommits, Known, IInv, Types, TypeGhost
    <3> QED BY <1>7, <3>1 DEF At, Cut
  <2>2. CASE \E s \in done : fl.todo[s] = i /\ row[i] = mem.page[s].key
    BY <1>2, <2>1, <2>2
  <2>3. CASE row[i] = rows[i]
    <3>1. i \in 1..L
      BY <1>0, <1>1, <1>3, <2>3 DEF Free
    <3>2. rows[i] = db.row[i] /\ i \in DOMAIN db.row
      BY <1>0, <1>3, <3>1 DEF L
    <3> QED BY <2>1, <2>3, <3>2 DEF IInv, Rowed
  <2> QED BY <1>4, <2>2, <2>3
<1>14. FileKept
  BY <1>7 DEF FileKept, At
<1> QED BY <1>7, <1>12, <1>13, <1>14 DEF RowsKeep

\* A prefix of a table or a file has the rows it had.
LEMMA CutOff ==
  ASSUME NEW a \in Seq(Nat), NEW m \in 0..Len(a)
  PROVE  /\ SubSeq(a, 1, m) \in Seq(Nat) /\ Len(SubSeq(a, 1, m)) = m /\ DOMAIN SubSeq(a, 1,
            m) = 1..m
         /\ \A i \in 1..m : i \in DOMAIN a /\ SubSeq(a, 1, m)[i] = a[i]
<1>1. Len(a) \in Nat /\ DOMAIN a = 1..Len(a)
  OBVIOUS
<1>2. SubSeq(a, 1, m) \in Seq(Nat) /\ Len(SubSeq(a, 1, m)) = m
  BY <1>1
<1> QED BY <1>1, <1>2

\* A step that cuts off the end of the table, or of the table and the file.
LEMMA RowsCut ==
  ASSUME IInv, Steady, ghost.known \subseteq ghost'.known, NEW m \in 0..Len(db.row),
         NEW c \in BOOLEAN,
         c => m \in 0..Len(db.file),
         db' = [db EXCEPT !.row = SubSeq(db.row, 1, m), !.file = IF c THEN SubSeq(db.file,
           1, m) ELSE db.file],
         "rows" \in ghost'.known \/ \A i \in DOMAIN db.row : i > m => db.row[i] # Free
  PROVE  /\ RowsKeep /\ FileKept
         /\ db'.row = SubSeq(db.row, 1, m) /\ db'.file = IF c THEN SubSeq(db.file, 1,
            m) ELSE db.file
<1> DEFINE row == SubSeq(db.row, 1, m) file == IF c THEN SubSeq(db.file, 1, m) ELSE db.file
<1>0. TypeDb /\ db.row \in Seq(Nat) /\ db.file \in Seq(Nat) /\ Len(db.row) \in Nat
        /\ DOMAIN db.row = 1..Len(db.row) /\ DOMAIN db.file = 1..Len(db.file)
  BY DEF IInv, Types, TypeDb
<1>1. row \in Seq(Nat) /\ Len(row) = m /\ DOMAIN row = 1..m
        /\ \A i \in 1..m : row[i] = db.row[i] /\ i \in DOMAIN db.row
  BY <1>0, CutOff
<1>2. file \in Seq(Nat) /\ \A i \in DOMAIN file : i \in DOMAIN db.file /\ file[i] = db.file[i]
  <2>1. CASE c
    <3> DEFINE old == db.file
               cut == SubSeq(old, 1, m)
    <3>1. old \in Seq(Nat) /\ m \in 0..Len(old)
      BY <1>0, <2>1
    <3> HIDE DEF old
    <3>2. cut \in Seq(Nat) /\ DOMAIN cut = 1..m /\ \A i \in 1..m : i \in DOMAIN old /\ cut[i] = old[i]
      BY <3>1, CutOff
    <3>3. file = cut
      BY <2>1 DEF old
    <3> HIDE DEF cut, file
    <3> QED BY <3>2, <3>3 DEF old
  <2>2. CASE ~c
    BY <1>0, <2>2
  <2> QED BY <2>1, <2>2
<1>3. \A i \in DOMAIN db.file : i \in 1..m => i \in DOMAIN file
  <2>1. CASE c
    BY <1>0, <2>1, CutOff
  <2>2. CASE ~c
    BY <1>0, <2>2
  <2> QED BY <2>1, <2>2
<1> HIDE DEF row, file
<1>4. TypeDb' /\ db'.row = row /\ db'.file = file /\ db'.nfree = db.nfree
  <2>1. db' = [db EXCEPT !.row = row, !.file = file]
    BY DEF row, file
  <2> QED BY <1>0, <1>1, <1>2, <2>1 DEF TypeDb
<1>5. Len(db'.row) < Word
  BY <1>0, <1>1, <1>4, PagesAssumption DEF IInv, RowsCounted
<1>6. "rows" \in ghost'.known \/ FreeIds' = FreeIds
  <2> SUFFICES ASSUME \A i \in DOMAIN db.row : i > m => db.row[i] # Free PROVE FreeIds' = FreeIds
    OBVIOUS
  <2>1. ASSUME NEW i \in FreeIds PROVE i \in FreeIds'
    <3>1. i \in DOMAIN db.row /\ db.row[i] = Free /\ i \in 1..m
      BY <1>0, <2>1 DEF FreeIds, IdsOf
    <3> QED BY <1>1, <1>4, <3>1 DEF FreeIds, IdsOf
  <2>2. ASSUME NEW i \in FreeIds' PROVE i \in FreeIds
    BY <1>1, <1>4, <2>2 DEF FreeIds, IdsOf
  <2> QED BY <2>1, <2>2
<1>7. RowsCounted'
  BY <1>4, <1>5, <1>6 DEF RowsCounted, Recounting, Steady, IInv
<1>8. FileKept
  BY <1>2, <1>4 DEF FileKept, At
<1>9. Rowed'
  <2> SUFFICES ASSUME NEW i \in 1..m, row[i] # Free PROVE At(i)' = row[i] \/ Cut(i)'
    BY <1>1, <1>4 DEF Rowed
  <2>1. (At(i) = row[i] /\ row[i] # 0) \/ Cut(i)
    BY <1>1 DEF IInv, Rowed, Free
  <2>2. CASE At(i) = row[i] /\ row[i] # 0
    <3>1. i \in DOMAIN db.file
      BY <2>2 DEF At
    <3> QED BY <1>2, <1>3, <1>4, <2>2, <3>1 DEF At
  <2>3. CASE Cut(i)
    <3>1. At(i)' = 0
      BY <1>2, <1>4, <2>3 DEF At, Cut
    <3> QED BY <2>3, <3>1 DEF Cut, Steady
  <2> QED BY <2>1, <2>2, <2>3
<1> QED BY <1>4, <1>7, <1>8, <1>9 DEF RowsKeep, row, file

\* psync_pagecache_free_page_from_read_cache drops rows from the end, and the
\* file's last page only with its row.
LEMMA ShrinkRows ==
  ASSUME IInv, Steady, Shrink
  PROVE  RowsKeep /\ FileKept
<1>0. TypeDb /\ db.row \in Seq(Nat) /\ db.file \in Seq(Nat) /\ Len(db.row) \in Nat
        /\ Len(db.file) \in Nat /\ DOMAIN db.row = 1..Len(db.row)
  BY DEF IInv, Types, TypeDb
<1>c. ASSUME NEW m \in 0..Len(db.row), db' = [db EXCEPT !.row = SubSeq(@, 1, m)]
      PROVE db' = [db EXCEPT !.row = SubSeq(db.row, 1, m),
            !.file = IF FALSE THEN SubSeq(db.file, 1, m) ELSE db.file]
  BY <1>0, <1>c DEF TypeDb
<1>d. ASSUME NEW m \in 0..Len(db.row),
             db' = [db EXCEPT !.row = SubSeq(@, 1, m), !.file = SubSeq(@, 1, m)]
      PROVE db' = [db EXCEPT !.row = SubSeq(db.row, 1, m),
            !.file = IF TRUE THEN SubSeq(db.file, 1, m) ELSE db.file]
  BY <1>0, <1>d DEF TypeDb
<1>1. CASE ShrinkTakes
  <2> DEFINE size == Min({Len(db.file), Len(db.row)})
             k == db.row[size]
             rows == IF size > 0 /\ Len(db.row) > size THEN {"rows"} ELSE {}
  <2>1. CASE size = 0
    <3>1. db' = db /\ ghost' = Known(rows)
      BY <1>1, <2>1 DEF ShrinkTakes
    <3> HIDE DEF rows
    <3> QED BY <3>1, KnownGrows, RowsSame DEF IInv
  <2>2. size # 0 => size \in Nat \ {0} /\ size <= Len(db.file) /\ size <= Len(db.row)
    BY LastRow DEF IInv
  <2>3. CASE size # 0 /\ db' = [db EXCEPT !.row = SubSeq(@, 1, size)]
    <3>1. db' = [db EXCEPT !.row = SubSeq(@, 1, size)] /\ \E W : ghost' = Known(W)
            /\ rows \subseteq W
      <4> DEFINE u == {"uncounted"} \cup rows
                 v == {"uncounted"} \cup rows \cup IF k = Free THEN {"rows"} ELSE {}
      <4>1. ghost' = Known(rows) \/ ghost' = Known(u) \/ ghost' = Known(v)
        BY <1>1 DEF ShrinkTakes
      <4>2. rows \subseteq u /\ rows \subseteq v
        OBVIOUS
      <4> HIDE DEF rows, u, v
      <4> QED BY <2>3, <4>1, <4>2
    <3>2. PICK W : ghost' = Known(W) /\ rows \subseteq W
      BY <3>1
    <3>3. ghost.known \subseteq ghost'.known /\ rows \subseteq ghost'.known
      <4> HIDE DEF rows
      <4> QED BY <3>2, KnownGrows DEF IInv
    <3>4. "rows" \in ghost'.known \/ Len(db.row) = size
      <4> HIDE DEF size
      <4> QED BY <1>0, <2>2, <2>3, <3>3
    <3>5. size \in 0..Len(db.row)
      <4> HIDE DEF size
      <4> QED BY <1>0, <2>2, <2>3
    <3> HIDE DEF size, rows
    <3>6. "rows" \in ghost'.known \/ \A i \in DOMAIN db.row : i > size => db.row[i] # Free
      BY <1>0, <3>4
    <3> QED BY <1>c, <3>1, <3>3, <3>5, <3>6, RowsCut, FALSE \in BOOLEAN
  <2> DEFINE W == {"uncounted"} \cup rows \cup IF k = Free THEN {"rows"} ELSE {}
  <2>4. CASE size # 0 /\ Drops(size) /\ ghost' = Known(W)
    <3>1. db' = [db EXCEPT !.row = SubSeq(@, 1, size - 1), !.file = SubSeq(@, 1,
            size - 1)] /\ ghost' = Known(W)
      BY <2>4 DEF Drops
    <3>3. ghost.known \subseteq ghost'.known /\ W \subseteq ghost'.known
      <4> HIDE DEF W
      <4> QED BY <3>1, KnownGrows DEF IInv
    <3>4. "rows" \in ghost'.known \/ (Len(db.row) = size /\ db.row[size] # Free)
      <4>1. k = Free => "rows" \in W
        OBVIOUS
      <4>2. size > 0 /\ Len(db.row) > size => "rows" \in W
        OBVIOUS
      <4> HIDE DEF W
      <4>3. CASE k = Free \/ (size > 0 /\ Len(db.row) > size)
        BY <3>3, <4>1, <4>2, <4>3
      <4>4. CASE ~(k = Free \/ (size > 0 /\ Len(db.row) > size))
        <5> HIDE DEF size
        <5> QED BY <1>0, <2>2, <2>4, <4>4
      <4> QED BY <4>3, <4>4
    <3> HIDE DEF size
    <3> DEFINE m == size - 1
    <3>5. m \in 0..Len(db.row) /\ m \in 0..Len(db.file) /\ m + 1 = size
      BY <1>0, <2>2, <2>4
    <3>7. db' = [db EXCEPT !.row = SubSeq(@, 1, m), !.file = SubSeq(@, 1, m)]
      BY <3>1
    <3> HIDE DEF rows, W, k, m
    <3>6. "rows" \in ghost'.known \/ \A i \in DOMAIN db.row : i > m => db.row[i] # Free
      BY <1>0, <3>4, <3>5
    <3> QED BY <1>d, <3>7, <3>3, <3>5, <3>6, RowsCut, TRUE \in BOOLEAN
  <2>5. size = 0 \/ db' = [db EXCEPT !.row = SubSeq(@, 1, size)]
          \/ (Drops(size) /\ ghost' = Known(W))
    BY <1>1 DEF ShrinkTakes
  <2> HIDE DEF size, W
  <2> QED BY <2>1, <2>3, <2>4, <2>5
<1>2. CASE ShrinkLooks /\ IdsOf(shrink.key) = {}
  <2>1. db' = db /\ ghost' = ghost
    BY <1>2 DEF ShrinkLooks
  <2> QED BY <2>1, RowsSame
<1>3. CASE (ShrinkLooks /\ IdsOf(shrink.key) # {}) \/ ShrinkAdds
  <2> DEFINE m == shrink.size - 1
  <2>1. Drops(shrink.size) /\ RowGone /\ shrink.pc # "off"
    BY <1>3 DEF ShrinkLooks, ShrinkAdds
  <2>2. shrink.size = Len(db.row) /\ shrink.size <= Len(db.file) /\ shrink.size > 0
    BY <2>1 DEF IInv, Shrinking
  <2>3. ghost.known \subseteq ghost'.known /\ (db.row[shrink.size] = Free
          => "rows" \in ghost'.known)
    BY <2>1, KnownGrows DEF RowGone, IInv
  <2>4. m \in 0..Len(db.row) /\ m \in 0..Len(db.file) /\ m + 1 = Len(db.row)
    BY <1>0, <2>2
  <2>5. db' = [db EXCEPT !.row = SubSeq(@, 1, m), !.file = SubSeq(@, 1, m)]
    BY <2>1 DEF Drops
  <2> HIDE DEF m
  <2>6. "rows" \in ghost'.known \/ \A i \in DOMAIN db.row : i > m => db.row[i] # Free
    BY <1>0, <2>2, <2>3, <2>4
  <2> QED BY <1>d, <2>3, <2>4, <2>5, <2>6, RowsCut, TRUE \in BOOLEAN
<1> QED BY <1>1, <1>2, <1>3 DEF Shrink

\* A reader changes no row but the one it marks free, and no page of the file.
LEMMA ReaderRows ==
  ASSUME IInv, Steady, NEW r \in Readers, Read(r)
  PROVE  RowsKeep /\ FileKept
<1>0. ghost.known \subseteq ghost'.known
  BY ReaderMove DEF SlotMove
<1>1. CASE mark_page_free(r)
  BY <1>1, MarkRows
<1>2. CASE ~mark_page_free(r)
  <2>1. db' = db \/ \E b \in BOOLEAN : db' = [db EXCEPT !.used = b]
    <3>1. CASE check_page_in_memory_by_hash(r) \/ check_page_in_database_by_hash(r)
               \/ ReadAhead(r) \/ ReadAheadMore(r) \/ wait_waiter(r)
                  \/ psync_pagecache_get_free_page(r)
      BY <3>1 DEF check_page_in_memory_by_hash, check_page_in_database_by_hash,
         ReadAhead, ReadAheadMore, wait_waiter, psync_pagecache_get_free_page
    <3>2. CASE ReadFile(r) \/ check_page_in_database_by_hash_and_cache(r)
      <4>1. db' = db \/ db' = [db EXCEPT !.used = TRUE]
        BY <3>2 DEF ReadFile, check_page_in_database_by_hash_and_cache
      <4> QED BY <4>1
    <3>3. CASE check_pages_in_database_by_hash(r)
      <4>1. PICK good : db' = db \/ db' = [db EXCEPT !.used = @ \/ good # {}]
        BY <3>3 DEF check_pages_in_database_by_hash
      <4>2. CASE db' = [db EXCEPT !.used = @ \/ good # {}]
        <5>1. db.used \in BOOLEAN
          BY DEF IInv, Types, TypeDb
        <5>2. db' = [db EXCEPT !.used = (db.used \/ good # {})]
          BY <4>2 DEF IInv, Types, TypeDb
        <5> QED BY <5>1, <5>2
      <4> QED BY <4>1, <4>2
    <3> QED BY <1>2, <3>1, <3>2, <3>3 DEF Read
  <2> QED BY <1>0, <2>1, RowsSame
<1> QED BY <1>1, <1>2

\* Every step keeps rows true, and only flush_pages writes to the file.
LEMMA RowsStep ==
  ASSUME IInv, [Next]_vars
  PROVE  RowsKeep /\ (FileKept \/ Writes)
<1>0. ghost.known \subseteq ghost'.known
  BY PageMoves DEF PageMove, SlotMove
<1>w. ASSUME NEW t \in Threads, FlushWrites(t) PROVE RowsKeep /\ Writes
  <2>1. PICK todo : \E step \in {"failed", "syncs", "commits"} :
          Todo(todo) /\ FlushFile(todo) /\ fl' = [fl EXCEPT !.free = 0, !.todo = todo, !.step = step]
    BY <1>w, FlushWritesTodo
  <2>2. fl'.step # "counted"
    BY <2>1 DEF IInv, Types, TypeFl, FlushStates
  <2> QED BY <1>w, <2>1, <2>2, WriteRows DEF Writes
<1>s. CASE Writes
  BY <1>s, <1>w DEF Writes
<1> SUFFICES ASSUME Steady PROVE RowsKeep /\ (FileKept \/ Writes)
  BY <1>s, StaysSteady
<1>1. CASE \E f \in Fetchers : Fetch(f)
  <2>1. db' = db
    BY <1>1 DEF Fetch, FetchRefused, FetchBreaks, FetchArrives, FetchHashes,
       psync_pagecache_send_error, psync_pagecache_get_free_page
  <2> QED BY <1>0, <2>1, RowsSame
<1>2. CASE Add
  <2>1. db' = db
    BY <1>2 DEF Add, AddStarts, AddLooks, AddHashes, psync_pagecache_get_free_page
  <2> QED BY <1>0, <2>1, RowsSame
<1>3. CASE FlushTimer \/ CleanStarts \/ UNCHANGED vars
  <2>1. db' = db
    BY <1>3 DEF FlushTimer, CleanStarts, vars
  <2> QED BY <1>0, <2>1, RowsSame
<1>4. ASSUME NEW t \in Threads,
             FlushStarts(t) \/ FlushChecks(t) \/ FlushWrites(t) \/ FlushFails(t) \/ FlushCommits(t)
      PROVE  RowsKeep /\ (FileKept \/ Writes)
  <2>1. CASE FlushStarts(t) \/ FlushFails(t)
    <3>1. db' = db
      BY <2>1 DEF FlushStarts, FlushFails
    <3> QED BY <1>0, <3>1, RowsSame
  <2>2. CASE FlushWrites(t)
    BY <1>w, <2>2
  <2>3. CASE FlushCommits(t) \/ FlushChecks(t)
    BY <2>3, CommitRows, CheckRows
  <2> QED BY <1>4, <2>1, <2>2, <2>3
<1>5. CASE Flush
  BY <1>4, <1>5 DEF Flush, Threads
<1> QED BY <1>1, <1>2, <1>3, <1>5, ReaderRows, CleanRows, ShrinkRows DEF Next, Clean

----------------------------------------------------------------------------
(* A flush, a cleaning and a shrinking between their steps.               *)

\* What a flush picked maps pages to rows.
LEMMA TodoMaps == ASSUME NEW todo, Todo(todo), TypeMem PROVE todo \in Maps(Slots, Nat)
<1>1. DOMAIN todo \in SUBSET Slots
  BY DEF Todo, TypeMem
<1> QED BY <1>1 DEF Todo, Maps

\* Every step keeps the types of what flush_pages knows.
LEMMA FlTyped == IInv /\ [Next]_vars => TypeFl'
<1> SUFFICES ASSUME IInv, [Next]_vars PROVE TypeFl'
  OBVIOUS
<1>0. fl \in FlushStates /\ TypeFl /\ <<>> \in Maps(Slots, Nat)
  <2>1. <<>> \in Maps(Slots, Nat)
    <3>1. DOMAIN <<>> = {} /\ <<>> \in [{} -> Nat]
      OBVIOUS
    <3> QED BY <3>1 DEF Maps
  <2> QED BY <2>1 DEF IInv, Types, TypeFl
<1>1. CASE fl' = fl
  BY <1>0, <1>1 DEF TypeFl
<1>2. ASSUME NEW t \in Getters, psync_pagecache_get_free_page(t) PROVE TypeFl'
  BY <1>2, GetMoves DEF IInv, GetMove
<1>3. ASSUME NEW t \in Threads,
             FlushStarts(t) \/ FlushChecks(t) \/ FlushWrites(t) \/ FlushFails(t) \/ FlushCommits(t)
      PROVE  TypeFl'
  <2>1. CASE FlushStarts(t)
    <3>1. fl' = [fl EXCEPT !.spawned = @ \ {t}, !.queue = @ \cup {t}, !.running = @ + 1,
            !.run = TRUE, !.since = TRUE]
      BY <2>1 DEF FlushStarts
    <3>2. fl' = [fl EXCEPT !.spawned = fl.spawned \ {t}, !.queue = fl.queue \cup {t},
            !.running = fl.running + 1, !.run = TRUE, !.since = TRUE]
      BY <1>0, <3>1 DEF FlushStates
    <3>3. fl.spawned \ {t} \in SUBSET Threads /\ fl.queue \cup {t} \in SUBSET Threads
            /\ fl.running + 1 \in Int
      BY <1>0 DEF FlushStates
    <3> QED BY <1>0, <3>2, <3>3 DEF TypeFl, FlushStates
  <2>2. CASE FlushWrites(t)
    <3>1. PICK todo : \E step \in {"failed", "syncs", "commits"} :
            Todo(todo) /\ fl' = [fl EXCEPT !.free = 0, !.todo = todo, !.step = step]
      BY <2>2, FlushWritesTodo
    <3> PICK step \in {"failed", "syncs", "commits"} :
          fl' = [fl EXCEPT !.free = 0, !.todo = todo, !.step = step]
      BY <3>1
    <3>2. todo \in Maps(Slots, Nat)
      BY <3>1, TodoMaps DEF IInv, Types
    <3> QED BY <1>0, <3>1, <3>2 DEF TypeFl, FlushStates
  <2>3. CASE FlushFails(t)
    BY <1>0, <2>3 DEF FlushFails, TypeFl, FlushStates
  <2>4. CASE FlushCommits(t)
    <3>1. fl' = [fl EXCEPT !.by = "none", !.step = "off", !.todo = <<>>, !.running = @ - 1,
            !.run = FALSE]
      BY <2>4 DEF FlushCommits
    <3>2. fl' = [fl EXCEPT !.by = "none", !.step = "off", !.todo = <<>>,
            !.running = fl.running - 1, !.run = FALSE] /\ fl.running - 1 \in Int
      BY <1>0, <3>1 DEF FlushStates
    <3> QED BY <1>0, <3>2 DEF TypeFl, FlushStates
  <2>5. CASE FlushChecks(t)
    <3> DEFINE n == Cardinality(FreeRows(RowsKept))
    <3>1. RowsKept \in Seq(Nat)
      BY RowsKeptFacts DEF IInv, Types
    <3>2. n \in Nat
      BY <3>1, RowsFinite
    <3>3. fl' = [fl EXCEPT !.queue = fl.queue \ {t}, !.by = t, !.step = "counted", !.free = n]
      BY <1>0, <2>5 DEF FlushChecks, FlushStates
    <3>4. fl.queue \ {t} \in SUBSET Threads
      BY <1>0 DEF FlushStates
    <3> HIDE DEF n
    <3> QED BY <1>0, <3>2, <3>3, <3>4 DEF TypeFl, FlushStates
  <2> QED BY <1>3, <2>1, <2>2, <2>3, <2>4, <2>5
<1>4. CASE FlushTimer
  <2>1. CASE fl' = Spawns(fl)
    BY <1>0, <2>1, SpawnsFacts DEF TypeFl
  <2>2. CASE fl' = [fl EXCEPT !.since = FALSE]
    BY <1>0, <2>2 DEF TypeFl, FlushStates
  <2> QED BY <1>4, <2>1, <2>2 DEF FlushTimer
<1>5. CASE ShrinkTakes
  <2> DEFINE f == [fl EXCEPT !.run = TRUE]
  <2>1. f \in FlushStates /\ f.spawned = fl.spawned
    BY <1>0 DEF FlushStates
  <2>2. fl' = Spawns(f) \/ fl' = fl
    BY <1>5 DEF ShrinkTakes
  <2> HIDE DEF f
  <2> QED BY <1>0, <2>1, <2>2, SpawnsFacts DEF TypeFl
<1>6. CASE ShrinkLooks \/ ShrinkAdds \/ Clean \/ UNCHANGED vars
  BY <1>1, <1>6 DEF ShrinkLooks, ShrinkAdds, Clean, CleanStarts, CleanFrees, vars
<1>7. ASSUME NEW r \in Readers, Read(r) PROVE TypeFl'
  BY <1>1, <1>2, <1>7, Apart DEF Read, check_pages_in_database_by_hash,
     check_page_in_memory_by_hash, check_page_in_database_by_hash, ReadFile,
     check_page_in_database_by_hash_and_cache, mark_page_free, ReadAhead, ReadAheadMore,
       wait_waiter
<1>8. ASSUME NEW f \in Fetchers, Fetch(f) PROVE TypeFl'
  BY <1>1, <1>2, <1>8, Apart DEF Fetch, FetchRefused, FetchBreaks, FetchArrives,
     FetchHashes, psync_pagecache_send_error
<1>9. CASE Add
  BY <1>1, <1>2, <1>9, Apart DEF Add, AddStarts, AddLooks, AddHashes
<1>10. CASE Flush
  BY <1>3, <1>10 DEF Flush, Threads
<1> QED BY <1>4, <1>5, <1>6, <1>7, <1>8, <1>9, <1>10 DEF Next, Shrink

\* clean_cache picks finitely many rows.
LEMMA CleanTyped == IInv /\ [Next]_vars => TypeClean'
<1> SUFFICES ASSUME IInv, [Next]_vars PROVE TypeClean'
  OBVIOUS
<1>0. TypeClean /\ TypeDb
  BY DEF IInv, Types
<1>1. CASE clean' = clean
  BY <1>0, <1>1 DEF TypeClean
<1>2. CASE CleanStarts
  <2> DEFINE used == DOMAIN db.row \ FreeIds
  <2>1. CASE clean' = [clean EXCEPT !.due = FALSE]
    BY <1>0, <2>1 DEF TypeClean
  <2>2. ASSUME NEW S \in SUBSET used,
               clean' = [due |-> FALSE, pc |-> "freeing", ids |-> S] PROVE TypeClean'
    <3>1. IsFiniteSet(DOMAIN db.row) /\ DOMAIN db.row \subseteq Nat
      BY <1>0, RowsFinite DEF TypeDb
    <3>2. IsFiniteSet(S) /\ S \in SUBSET Nat
      BY <3>1, FS_Subset
    <3> HIDE DEF used
    <3> QED BY <2>2, <3>2 DEF TypeClean
  <2> QED BY <1>2, <2>1, <2>2 DEF CleanStarts
<1>3. CASE CleanFrees
  BY <1>0, <1>3, FS_EmptySet DEF CleanFrees, TypeClean
<1>4. CASE \E t : FlushCommits(t)
  <2> PICK t : FlushCommits(t)
    BY <1>4
  <2>1. \E b : clean' = [clean EXCEPT !.due = @ \/ b] /\ b \in BOOLEAN
    BY DEF FlushCommits
  <2>2. PICK b \in BOOLEAN : clean' = [clean EXCEPT !.due = @ \/ b]
    BY <2>1
  <2> QED BY <1>0, <2>2 DEF TypeClean
<1>7. ASSUME NEW r \in Readers, Read(r) PROVE TypeClean'
  BY <1>1, <1>7 DEF Read, check_pages_in_database_by_hash, check_page_in_memory_by_hash,
     check_page_in_database_by_hash, ReadFile,
     check_page_in_database_by_hash_and_cache, mark_page_free, ReadAhead, ReadAheadMore,
       wait_waiter, psync_pagecache_get_free_page
<1>8. ASSUME NEW f \in Fetchers, Fetch(f) PROVE TypeClean'
  BY <1>1, <1>8 DEF Fetch, FetchRefused, FetchBreaks, FetchArrives, FetchHashes,
     psync_pagecache_send_error, psync_pagecache_get_free_page
<1>9. CASE Add
  BY <1>1, <1>9 DEF Add, AddStarts, AddLooks, AddHashes, psync_pagecache_get_free_page
<1>10. CASE Flush
  BY <1>1, <1>4, <1>10 DEF Flush, FlushStarts, FlushChecks, FlushWrites, FlushFails
<1>11. CASE Shrink \/ FlushTimer \/ UNCHANGED vars
  BY <1>1, <1>11 DEF Shrink, ShrinkTakes, ShrinkLooks, ShrinkAdds, FlushTimer, vars
<1> QED BY <1>2, <1>3, <1>7, <1>8, <1>9, <1>10, <1>11 DEF Next, Clean

\* Rows may become free, but no row is used, and the file stays as it is.
OnlyFreed ==
  /\ db'.file = db.file /\ Len(db'.row) = Len(db.row) /\ DOMAIN db'.row = DOMAIN db.row
  /\ \A i \in DOMAIN db.row : db'.row[i] \in {db.row[i], Free}

\* While a flush or a shrinking is between two of its steps, the others free rows
\* at most: a row that was free stays free.
LEMMA RowsOnlyFreed ==
  ASSUME IInv, [Next]_vars, ~Flush, ~Shrink PROVE OnlyFreed
<1>0. TypeDb /\ db.row \in Seq(Nat)
  BY DEF IInv, Types, TypeDb
<1>4. ASSUME NEW r \in Readers, Read(r) PROVE OnlyFreed
  <2>1. CASE mark_page_free(r)
    <3> DEFINE i == rd[r].ids[Key(r)] row == [j \in DOMAIN db.row |-> IF j = i THEN Free ELSE db.row[j]]
    <3>1. db' = [db EXCEPT !.row = row]
      BY <1>0, <2>1 DEF mark_page_free, TypeDb
    <3>2. DOMAIN row = DOMAIN db.row /\ \A j \in DOMAIN db.row : row[j] \in {db.row[j], Free}
      OBVIOUS
    <3> HIDE DEF row
    <3>3. db'.row = row /\ db'.file = db.file
      BY <1>0, <3>1 DEF TypeDb
    <3>4. TypeDb'
      BY RowsStep DEF RowsKeep
    <3> QED BY <1>0, <3>2, <3>3, <3>4 DEF TypeDb, OnlyFreed
  <2>2. CASE ~mark_page_free(r)
    <3>1. db'.row = db.row /\ db'.file = db.file
      BY <1>0, <1>4, <2>2 DEF Read, check_pages_in_database_by_hash,
         check_page_in_memory_by_hash, check_page_in_database_by_hash, ReadFile,
         check_page_in_database_by_hash_and_cache, ReadAhead, ReadAheadMore, wait_waiter,
           psync_pagecache_get_free_page, TypeDb
    <3> QED BY <3>1 DEF OnlyFreed
  <2> QED BY <2>1, <2>2
<1>5. CASE CleanFrees
  <2> DEFINE row == [j \in DOMAIN db.row |-> IF j \in clean.ids THEN Free ELSE db.row[j]]
             n == (db.nfree + Cardinality(clean.ids)) % Word
  <2>1. db' = [db EXCEPT !.row = row, !.nfree = n]
    BY <1>0, <1>5 DEF CleanFrees, TypeDb
  <2>2. DOMAIN row = DOMAIN db.row /\ \A j \in DOMAIN db.row : row[j] \in {db.row[j], Free}
    OBVIOUS
  <2> HIDE DEF row, n
  <2>3. db'.row = row /\ db'.file = db.file
    BY <1>0, <2>1 DEF TypeDb
  <2>4. TypeDb'
    BY RowsStep DEF RowsKeep
  <2> QED BY <1>0, <2>2, <2>3, <2>4 DEF TypeDb, OnlyFreed
<1>6. CASE (\E f \in Fetchers : Fetch(f)) \/ Add \/ FlushTimer \/ CleanStarts \/ UNCHANGED vars
  <2>1. db' = db
    BY <1>6 DEF Fetch, FetchRefused, FetchBreaks, FetchArrives, FetchHashes,
       psync_pagecache_send_error, psync_pagecache_get_free_page,
      Add, AddStarts, AddLooks, AddHashes, FlushTimer, CleanStarts, vars
  <2> QED BY <2>1 DEF OnlyFreed
<1> QED BY <1>4, <1>5, <1>6 DEF Next, Clean

\* Only psync_pagecache_free_page_from_read_cache changes what it is doing.
LEMMA ShrinkOnly ==
  ASSUME [Next]_vars, ~Flush, ~Shrink PROVE shrink' = shrink
BY DEF Next, Read, check_pages_in_database_by_hash, check_page_in_memory_by_hash,
   check_page_in_database_by_hash, ReadFile,
     check_page_in_database_by_hash_and_cache, mark_page_free, ReadAhead, ReadAheadMore,
       wait_waiter, psync_pagecache_get_free_page,
     Fetch, FetchRefused, FetchBreaks, FetchArrives, FetchHashes, psync_pagecache_send_error,
     Add, AddStarts, AddLooks, AddHashes, FlushTimer, Clean, CleanStarts, CleanFrees, vars

\* The last page stays the last one while it is given up: no flush runs
\* meanwhile.
LEMMA ShrinkKept == IInv /\ [Next]_vars => TypeShrink' /\ Shrinking'
<1> SUFFICES ASSUME IInv, [Next]_vars PROVE TypeShrink' /\ Shrinking'
  OBVIOUS
<1>0. TypeShrink /\ TypeDb /\ TypeDb' /\ Shrinking /\ db.row \in Seq(Nat)
        /\ db.file \in Seq(Nat) /\ Len(db.row) \in Nat /\ Len(db.file) \in Nat
      /\ db' = db' /\ fl \in FlushStates
  BY RowsStep DEF IInv, Types, RowsKeep, TypeDb, TypeFl
<1>s. ASSUME shrink' = shrink, fl'.by = fl.by \/ shrink.pc = "off",
             Len(db'.row) = Len(db.row) \/ shrink.pc = "off",
             db'.file = db.file \/ shrink.pc = "off"
      PROVE  TypeShrink' /\ Shrinking'
  BY <1>0, <1>s DEF TypeShrink, Shrinking
<1>1. CASE Flush
  <2> PICK t \in Threads : \/ FlushStarts(t) \/ FlushChecks(t) \/ FlushWrites(t)
                          \/ FlushFails(t) \/ FlushCommits(t)
    BY <1>1 DEF Flush, Threads
  <2>1. CASE FlushStarts(t)
    BY <1>0, <1>s, <2>1 DEF FlushStarts, FlushStates
  <2>2. CASE FlushChecks(t)
    BY <1>s, <2>2 DEF FlushChecks, Mutex
  <2>3. CASE FlushWrites(t) \/ FlushFails(t) \/ FlushCommits(t)
    <3>1. t # "none"
      BY ThreadsAssumption DEF Threads, Getters
    <3>2. shrink.pc = "off" /\ shrink' = shrink
      BY <1>0, <2>3, <3>1 DEF FlushWrites, FlushFails, FlushCommits, Shrinking
    <3> QED BY <1>s, <3>2
  <2> QED BY <2>1, <2>2, <2>3
<1>2. CASE ShrinkTakes
  <2> DEFINE size == Min({Len(db.file), Len(db.row)}) k == db.row[size] s == Min(mem.free)
  <2>f. ~Flush \/ (TypeShrink' /\ Shrinking')
    BY <1>1
  <2> SUFFICES ASSUME ~Flush PROVE TypeShrink' /\ Shrinking'
    BY <2>f
  <2>0. fl'.by = "none" /\ shrink.pc = "off"
    <3>1. Mutex
      BY <1>2 DEF ShrinkTakes
    <3>2. fl'.by = fl.by
      BY FlushOnly
    <3> QED BY <3>1, <3>2 DEF Mutex
  <2>1. CASE shrink' = shrink
    BY <1>s, <2>0, <2>1
  <2>2. CASE shrink' = NotShrinking
    BY <2>2 DEF TypeShrink, Shrinking, NotShrinking
  <2>3. CASE /\ ~(size = 0 \/ mem.free = {}) /\ ~(k = Free \/ db.file[size] # k)
             /\ shrink' = [pc |-> "exists", page |-> s, key |-> k, size |-> size]
             /\ db' = [db EXCEPT !.row = SubSeq(@, 1, size)]
    <3>1. shrink' = [pc |-> "exists", page |-> s, key |-> k, size |-> size]
            /\ db' = [db EXCEPT !.row = SubSeq(@, 1, size)]
      BY <2>3
    <3>2. s \in Slots /\ s # 0
      BY <2>3, Smallest
    <3>3. size \in Nat \ {0} /\ size <= Len(db.file) /\ size <= Len(db.row)
      BY <2>3, LastRow DEF IInv
    <3> HIDE DEF size, s
    <3>4. k \in Nat /\ k # 0
      BY <1>0, <2>3, <3>3 DEF Free
    <3>5. db'.row = SubSeq(db.row, 1, size) /\ db'.file = db.file
      BY <1>0, <3>1 DEF TypeDb
    <3>6. Len(db'.row) = size
      BY <1>0, <3>3, <3>5, CutOff
    <3> HIDE DEF k
    <3> QED BY <2>0, <3>1, <3>2, <3>3, <3>4, <3>5, <3>6 DEF TypeShrink, Shrinking
  <2>4. \/ shrink' = shrink \/ shrink' = NotShrinking
        \/ /\ ~(size = 0 \/ mem.free = {}) /\ ~(k = Free \/ db.file[size] # k)
           /\ shrink' = [pc |-> "exists", page |-> s, key |-> k, size |-> size]
           /\ db' = [db EXCEPT !.row = SubSeq(@, 1, size)]
    BY <1>2 DEF ShrinkTakes, Drops
  <2> QED BY <2>1, <2>2, <2>3, <2>4
<1>3. CASE ShrinkLooks \/ ShrinkAdds
  <2>1. CASE shrink' = NotShrinking
    BY <2>1 DEF TypeShrink, Shrinking, NotShrinking
  <2>2. CASE shrink' # NotShrinking
    <3>1. shrink' = [shrink EXCEPT !.pc = "add"] /\ UNCHANGED <<db, fl>> /\ shrink.pc = "exists"
      BY <1>3, <2>2 DEF ShrinkLooks, ShrinkAdds, Drops
    <3> QED BY <1>0, <3>1 DEF TypeShrink, Shrinking
  <2> QED BY <2>1, <2>2
<1>4. CASE ~Flush /\ ~Shrink
  BY <1>s, <1>4, FlushOnly, RowsOnlyFreed, ShrinkOnly DEF OnlyFreed
<1> QED BY <1>1, <1>2, <1>3, <1>4 DEF Shrink

\* What flush_pages picked is in cache_hash, written, and its rows are free, until
\* it commits: it has given up cache_mutex meanwhile.
LEMMA PickedKept == IInv /\ [Next]_vars => Picked'
<1> SUFFICES ASSUME IInv, [Next]_vars PROVE Picked'
  OBVIOUS
<1>0. Picked /\ Shrinking /\ TypeFl /\ fl \in FlushStates /\ TypeDb /\ TypeMem
  BY DEF IInv, Types, TypeFl
<1>n. ASSUME fl'.todo = <<>> PROVE Picked'
  <2>1. DOMAIN fl'.todo = {}
    BY <1>n
  <2> QED BY <1>n, <2>1 DEF Picked
<1>t. \A t \in Threads : t # "none"
  BY ThreadsAssumption DEF Threads, Getters
<1>1. CASE Flush
  <2> PICK t \in Threads : \/ FlushStarts(t) \/ FlushChecks(t) \/ FlushWrites(t)
                          \/ FlushFails(t) \/ FlushCommits(t)
    BY <1>1 DEF Flush, Threads
  <2>1. CASE FlushStarts(t)
    <3>1. fl'.by = fl.by /\ fl'.todo = fl.todo /\ UNCHANGED <<mem, db>>
      BY <1>0, <2>1 DEF FlushStarts, FlushStates
    <3> QED BY <1>0, <3>1 DEF Picked, FreeIds, IdsOf, At
  <2>2. CASE FlushWrites(t)
    <3>1. PICK todo : \E S \in SUBSET mem.hash : \E step \in {"failed", "syncs", "commits"} :
           /\ Todo(todo) /\ DOMAIN todo \subseteq mem.hash \ S
           /\ Emptying(S) /\ mem'.page = mem.page /\ FlushFile(todo)
           /\ fl' = [fl EXCEPT !.free = 0, !.todo = todo, !.step = step]
      BY <2>2, FlushWritesTodo
    <3>2. fl'.by = t /\ fl'.todo = todo /\ fl'.step # "counted"
      BY <1>0, <2>2, <3>1 DEF FlushStates, FlushWrites
    <3>3. DOMAIN todo \subseteq mem'.hash
      <4>1. PICK S \in SUBSET mem.hash : DOMAIN todo \subseteq mem.hash \ S /\ Emptying(S)
        BY <3>1
      <4>2. mem'.hash = mem.hash \ S
        BY <1>0, <4>1 DEF Emptying, TypeMem
      <4> QED BY <4>1, <4>2
    <3>4. /\ Ids(todo) \subseteq FreeIds'
          /\ \A s \in DOMAIN todo : At(todo[s])' = mem.page[s].key
      BY <3>1, <3>2, WriteRows
    <3>5. \A s \in DOMAIN todo : todo[s] \in FreeIds' /\ At(todo[s])' = mem'.page[s].key
      BY <3>1, <3>4 DEF Ids
    <3>6. \A s, z \in DOMAIN todo : todo[s] = todo[z] => s = z
      BY <3>1 DEF Todo
    <3> QED BY <1>t, <3>2, <3>3, <3>5, <3>6 DEF Picked
  <2>3. CASE FlushFails(t) \/ FlushCommits(t)
    BY <1>0, <1>n, <2>3 DEF FlushFails, FlushCommits, FlushStates
  <2>4. CASE FlushChecks(t)
    <3>1. fl'.todo = <<>>
      BY <1>0, <2>4 DEF FlushChecks, Mutex, Picked, FlushStates
    <3> QED BY <1>n, <3>1
  <2> QED BY <2>1, <2>2, <2>3, <2>4
<1>2. CASE ~Flush /\ fl.by = "none"
  BY <1>0, <1>n, <1>2, FlushOnly DEF Picked
<1>3. CASE ~Flush /\ fl.by # "none"
  <2>1. ~Shrink
    BY <1>0, <1>3 DEF Shrink, ShrinkTakes, ShrinkLooks, ShrinkAdds, Mutex, Shrinking
  <2>2. fl'.by = fl.by /\ fl'.todo = fl.todo
    BY <1>3, FlushOnly
  <2>3. HashKept
    BY <1>3, OtherMove, SlotsKept
  <2>4. OnlyFreed
    BY <1>3, <2>1, RowsOnlyFreed
  <2>5. FreeIds \subseteq FreeIds' /\ \A i : At(i)' = At(i)
    BY <2>4 DEF OnlyFreed, FreeIds, IdsOf, At, Free
  <2>6. DOMAIN fl.todo \subseteq mem'.hash /\ \A s \in DOMAIN fl.todo : mem'.page[s] = mem.page[s]
    BY <1>0, <2>3 DEF HashKept, Picked
  <2> QED BY <1>0, <1>3, <2>2, <2>5, <2>6 DEF Picked
<1> QED BY <1>1, <1>2, <1>3

\* What is still asked of the cache keeps its type.
LEMMA UserTyped == IInv /\ [Next]_vars => TypeUser'
<1> SUFFICES ASSUME IInv, [Next]_vars PROVE TypeUser'
  OBVIOUS
<1>0. TypeUser /\ user.reads \in [Readers -> Seq(Reads)] /\ user.adds \in Seq(Keys)
  BY DEF IInv, Types, TypeUser
<1>s. ASSUME user' = user PROVE TypeUser'
  BY <1>0, <1>s DEF TypeUser
<1>e. ASSUME user' = [user EXCEPT !.errors = @ - 1] PROVE TypeUser'
  <2> DEFINE n == user.errors - 1
  <2>1. n \in Int /\ user' = [user EXCEPT !.errors = n]
    BY <1>0, <1>e DEF TypeUser
  <2> HIDE DEF n
  <2> QED BY <1>0, <2>1 DEF TypeUser
<1>c. ASSUME NEW e, user' = CountError(e) PROVE TypeUser'
  BY <1>s, <1>e, <1>c DEF CountError
<1>f. ASSUME user' = [user EXCEPT !.fails = @ - 1] PROVE TypeUser'
  <2> DEFINE n == user.fails - 1
  <2>1. n \in Int /\ user' = [user EXCEPT !.fails = n]
    BY <1>0, <1>f DEF TypeUser
  <2> HIDE DEF n
  <2> QED BY <1>0, <2>1 DEF TypeUser
<1>h. ASSUME user' = [user EXCEPT !.shrinks = @ - 1] PROVE TypeUser'
  <2> DEFINE n == user.shrinks - 1
  <2>1. n \in Int /\ user' = [user EXCEPT !.shrinks = n]
    BY <1>0, <1>h DEF TypeUser
  <2> HIDE DEF n
  <2> QED BY <1>0, <2>1 DEF TypeUser
<1>b. ASSUME user' = [user EXCEPT !.shrinks = @ - 1, !.errors = @ - 1] PROVE TypeUser'
  <2> DEFINE n == user.shrinks - 1 m == user.errors - 1
  <2>1. n \in Int /\ m \in Int /\ user' = [user EXCEPT !.shrinks = n, !.errors = m]
    BY <1>0, <1>b DEF TypeUser
  <2> HIDE DEF n, m
  <2> QED BY <1>0, <2>1 DEF TypeUser
<1>a. ASSUME user' = [user EXCEPT !.adds = Tail(@)], user.adds # <<>> PROVE TypeUser'
  <2>1. Tail(user.adds) \in Seq(Keys)
    BY <1>0, <1>a
  <2> QED BY <1>0, <1>a, <2>1 DEF TypeUser
<1>r. ASSUME NEW r \in Readers, wait_waiter(r) PROVE TypeUser'
  <2>1. user.reads[r] # <<>>
    BY <1>r DEF wait_waiter, IInv, ReadingAll, Reading
  <2>2. user.reads[r] \in Seq(Reads)
    BY <1>0
  <2>3. Tail(user.reads[r]) \in Seq(Reads)
    BY <2>1, <2>2
  <2>4. user' = [user EXCEPT !.reads = [user.reads EXCEPT ![r] = Tail(user.reads[r])]]
    BY <1>0, <1>r DEF wait_waiter, TypeUser
  <2>5. [user.reads EXCEPT ![r] = Tail(user.reads[r])] \in [Readers -> Seq(Reads)]
    BY <1>0, <2>3
  <2> QED BY <1>0, <2>4, <2>5 DEF TypeUser
<1>1. ASSUME NEW r \in Readers, Read(r) PROVE TypeUser'
  <2>1. CASE wait_waiter(r)
    BY <1>r, <2>1
  <2>2. CASE ~wait_waiter(r)
    BY <1>s, <1>c, <1>1, <2>2 DEF Read, check_pages_in_database_by_hash,
       check_page_in_memory_by_hash, check_page_in_database_by_hash, ReadFile,
     check_page_in_database_by_hash_and_cache, mark_page_free, ReadAhead, ReadAheadMore,
       psync_pagecache_get_free_page
  <2> QED BY <2>1, <2>2
<1>2. ASSUME NEW f \in Fetchers, Fetch(f) PROVE TypeUser'
  BY <1>s, <1>f, <1>2 DEF Fetch, FetchRefused, FetchBreaks, FetchArrives, FetchHashes,
     psync_pagecache_send_error, psync_pagecache_get_free_page, Fails
<1>3. CASE Add
  <2>1. add # "off" => user.adds # <<>>
    BY DEF IInv, Control, Asking
  <2> QED BY <1>s, <1>a, <1>3, <2>1 DEF Add, AddStarts, AddLooks, AddHashes,
             psync_pagecache_get_free_page
<1>4. CASE Flush
  BY <1>s, <1>c, <1>4 DEF Flush, FlushStarts, FlushChecks, FlushWrites, FlushFails, FlushCommits
<1>5. CASE Shrink
  BY <1>s, <1>h, <1>b, <1>5 DEF Shrink, ShrinkTakes, ShrinkLooks, ShrinkAdds, Drops
<1>6. CASE FlushTimer \/ Clean \/ UNCHANGED vars
  BY <1>s, <1>6 DEF FlushTimer, Clean, CleanStarts, CleanFrees, vars
<1> QED BY <1>1, <1>2, <1>3, <1>4, <1>5, <1>6 DEF Next

\* The thread that adds files keeps its state's type, and wait_page_mutex belongs
\* to a reader or to nobody.
LEMMA AddTyped == IInv /\ [Next]_vars => TypeAdd'
<1> SUFFICES ASSUME IInv, [Next]_vars PROVE TypeAdd'
  OBVIOUS
<1>0. add \in {"off", "page", "hash"} /\ wlock \in Readers \cup {"none"}
  BY DEF IInv, Types, TypeAdd
<1>1. add' \in {"off", "page", "hash"}
  BY <1>0, ZenonT(60) DEF Next, Read, check_pages_in_database_by_hash, check_page_in_memory_by_hash,
     check_page_in_database_by_hash, ReadFile,
     check_page_in_database_by_hash_and_cache, mark_page_free, ReadAhead, ReadAheadMore,
       wait_waiter, psync_pagecache_get_free_page,
     Fetch, FetchRefused, FetchBreaks, FetchArrives, FetchHashes, psync_pagecache_send_error,
     Add, AddStarts, AddLooks, AddHashes, FlushTimer, Clean, CleanStarts, CleanFrees, vars,
     Flush, FlushStarts, FlushChecks, FlushWrites, FlushFails, FlushCommits, Shrink, ShrinkTakes,
       ShrinkLooks, ShrinkAdds
<1>2. wlock' \in Readers \cup {"none"}
  <2>1. ASSUME NEW r \in Readers, Read(r) PROVE wlock' \in Readers \cup {"none"}
    BY <1>0, <2>1 DEF Read, check_pages_in_database_by_hash,
       check_page_in_memory_by_hash, check_page_in_database_by_hash, ReadFile,
     check_page_in_database_by_hash_and_cache, mark_page_free, ReadAhead, ReadAheadMore,
       wait_waiter, psync_pagecache_get_free_page, add_page_waiter, Has, Advances
  <2>2. (\E r \in Readers : Read(r)) \/ wlock' = wlock
    BY DEF Next, psync_pagecache_get_free_page,
     Fetch, FetchRefused, FetchBreaks, FetchArrives, FetchHashes, psync_pagecache_send_error,
     Add, AddStarts, AddLooks, AddHashes, FlushTimer, Clean, CleanStarts, CleanFrees, vars,
     Flush, FlushStarts, FlushChecks, FlushWrites, FlushFails, FlushCommits, Shrink, ShrinkTakes,
       ShrinkLooks, ShrinkAdds
  <2> QED BY <1>0, <2>1, <2>2
<1> QED BY <1>1, <1>2 DEF TypeAdd

\* What is known of miscounts and reused rows keeps its type.
LEMMA GhostTyped == IInv /\ [Next]_vars => TypeGhost'
<1> SUFFICES ASSUME IInv, [Next]_vars PROVE TypeGhost'
  OBVIOUS
<1>0. TypeGhost
  BY DEF IInv, Types
<1>s. ASSUME ghost' = ghost PROVE TypeGhost'
  BY <1>0, <1>s DEF TypeGhost
<1>k. ASSUME NEW W \in SUBSET {"rows", "uncounted", "ignored"},
             ghost' = Known(W) PROVE TypeGhost'
  BY <1>0, <1>k DEF TypeGhost, Known
<1>1. ASSUME NEW r \in Readers, Read(r) PROVE TypeGhost'
  <2>1. CASE wait_waiter(r)
    BY <1>0, <2>1 DEF wait_waiter, TypeGhost
  <2>2. CASE mark_page_free(r)
    <3>1. \E W \in SUBSET {"rows", "uncounted", "ignored"} : ghost' = Known(W)
      <4>1. ghost' = Known({}) \/ ghost' = Known({"rows"})
        BY <2>2 DEF mark_page_free
      <4> QED BY <4>1
    <3> QED BY <1>k, <3>1
  <2>3. CASE ~wait_waiter(r) /\ ~mark_page_free(r)
    BY <1>s, <1>1, <2>3 DEF Read, check_pages_in_database_by_hash,
       check_page_in_memory_by_hash, check_page_in_database_by_hash, ReadFile,
     check_page_in_database_by_hash_and_cache, ReadAhead, ReadAheadMore,
       psync_pagecache_get_free_page
  <2> QED BY <2>1, <2>2, <2>3
<1>2. CASE (\E f \in Fetchers : Fetch(f)) \/ Add \/ FlushTimer \/ CleanStarts \/ UNCHANGED vars
  BY <1>s, <1>2 DEF psync_pagecache_get_free_page,
     Fetch, FetchRefused, FetchBreaks, FetchArrives, FetchHashes, psync_pagecache_send_error,
     Add, AddStarts, AddLooks, AddHashes, FlushTimer, CleanStarts, vars
<1>3. CASE CleanFrees
  <2>1. ghost' = Known({}) \/ ghost' = Known({"rows"})
    BY <1>3 DEF CleanFrees
  <2> QED BY <1>k, <2>1
<1>4. CASE Flush
  <2> PICK t \in Threads : \/ FlushStarts(t) \/ FlushChecks(t) \/ FlushWrites(t)
                          \/ FlushFails(t) \/ FlushCommits(t)
    BY <1>4 DEF Flush, Threads
  <2>1. CASE FlushStarts(t) \/ FlushChecks(t) \/ FlushFails(t)
    BY <1>s, <2>1 DEF FlushStarts, FlushChecks, FlushFails
  <2>2. CASE FlushWrites(t)
    <3>1. PICK todo : FlushFile(todo)
      BY <2>2, FlushWritesTodo
    <3> QED BY <1>0, <3>1 DEF FlushFile, TypeGhost
  <2>3. CASE FlushCommits(t)
    <3>1. ghost' = Known({}) \/ ghost' = Known({"ignored"})
      BY <2>3 DEF FlushCommits
    <3> QED BY <1>k, <3>1
  <2> QED BY <2>1, <2>2, <2>3
<1>5. CASE Shrink
  <2>1. \E W \in SUBSET {"rows", "uncounted", "ignored"} : ghost' = Known(W) \/ ghost' = ghost
    <3>1. CASE ShrinkTakes
      <4> DEFINE size == Min({Len(db.file), Len(db.row)})
             k == db.row[size]
             rows == IF size > 0 /\ Len(db.row) > size THEN {"rows"} ELSE {}
             u == {"uncounted"} \cup rows \cup IF k = Free THEN {"rows"} ELSE {}
      <4>1. rows \in SUBSET {"rows", "uncounted", "ignored"} /\ u \in SUBSET {"rows",
              "uncounted", "ignored"}
            /\ {"uncounted"} \cup rows \in SUBSET {"rows", "uncounted", "ignored"}
        OBVIOUS
      <4>2. ghost' = Known(rows) \/ ghost' = Known(u) \/ ghost' = Known({"uncounted"} \cup rows)
        BY <3>1 DEF ShrinkTakes
      <4> HIDE DEF rows, u
      <4> QED BY <4>1, <4>2
    <3>2. CASE ShrinkLooks \/ ShrinkAdds
      <4>1. ghost' = Known({}) \/ ghost' = Known({"rows"}) \/ ghost' = ghost
        BY <3>2 DEF ShrinkLooks, ShrinkAdds, RowGone
      <4> QED BY <4>1
    <3> QED BY <1>5, <3>1, <3>2 DEF Shrink
  <2> QED BY <1>s, <1>k, <2>1
<1> QED BY <1>1, <1>2, <1>3, <1>4, <1>5 DEF Next, Clean

----------------------------------------------------------------------------
(* A reader and the steps of others.                                      *)

\* Reader r is left where it is, and given no page.
Unmoved(r) ==
    /\ rd'[r] = rd[r] /\ user'.reads[r] = user.reads[r]
    /\ get'[r] # "no" => get[r] # "no"

\* Reader r is about to read row i of the file, without a lock on it.
Aims(r, i) == rd[r].pc = "pread" /\ rd[r].ids[Key(r)] = i

\* Whatever r is about to read of the file stays there, or is not in the file any
\* more, or is a page between others that a start has cut off; or r is known to
\* read a row that was reused.
Stays(i) == i \in DOMAIN db'.file => At(i)' = At(i) /\ (i \in DOMAIN db.file \/ Cut(i))
Safe(r) ==
    /\ r \in ghost.reused => r \in ghost'.reused
    /\ r \in ghost'.reused \/ \A i : Aims(r, i) => Stays(i)
    /\ ghost'.cut = ghost.cut

\* A reader that is left alone has what it had.
LEMMA UnmovedReads ==
  ASSUME IInv, NEW r \in Readers, Unmoved(r), Safe(r)
  PROVE  Reading(r)' /\ Complete(r)' /\ Given(r)'
<1>0. Reading(r) /\ Complete(r) /\ Given(r)
  BY DEF IInv, ReadingAll
<1>1. Op(r)' = Op(r)
  BY DEF Unmoved, Op
<1>2. Key(r)' = Key(r)
  BY <1>1 DEF Unmoved, Key
<1>3. Reading(r)'
  BY <1>0, <1>1, <1>2 DEF Unmoved, Reading
<1>4. Complete(r)'
  BY <1>0, <1>1 DEF Unmoved, Complete, Got
<1>5. Given(r)'
  <2>1. CASE r \in ghost.reused \/ r \in ghost'.reused
    BY <2>1 DEF Safe, Given
  <2>2. CASE r \notin ghost.reused /\ r \notin ghost'.reused
    <3>1. \A k \in DOMAIN rd'[r].got : Right(r, k)'
      BY <1>0, <1>1, <2>2 DEF Given, Unmoved, Right, ReadsZeros, Safe
    <3>2. ASSUME rd'[r].pc = "pread" PROVE Finds(rd[r].ids[Key(r)], Key(r))'
      <4> DEFINE i == rd[r].ids[Key(r)]
      <4>1. i' = i
        BY <1>2 DEF Unmoved
      <4>2. Finds(i, Key(r)) /\ Aims(r, i)
        BY <1>0, <2>2, <3>2 DEF Given, Aims, Unmoved
      <4> HIDE DEF i
      <4>3. PICK j, k : j = i /\ k = Key(r)
        OBVIOUS
      <4>4. Stays(j) /\ Finds(j, k)
        BY <2>2, <4>2, <4>3 DEF Safe
      <4>5. Finds(j, k)'
        BY <4>4 DEF Stays, Finds, Cut, Safe
      <4>6. Finds(i, Key(r))'
        BY <1>2, <4>1, <4>3, <4>5 DEF Finds, Cut, At
      <4> QED BY <4>6 DEF i
    <3> QED BY <3>1, <3>2 DEF Given
  <2> QED BY <2>1, <2>2
<1> QED BY <1>3, <1>4, <1>5

\* A reader whose row was reused is known until it returns.
LEMMA ReusedStay ==
  ASSUME IInv, [Next]_vars, NEW r \in Readers, ~wait_waiter(r), r \in ghost.reused
  PROVE  r \in ghost'.reused
<1>0. TypeGhost
  BY DEF IInv, Types
<1>k. ASSUME NEW W, ghost' = Known(W) PROVE r \in ghost'.reused
  BY <1>0, <1>k DEF TypeGhost, Known
<1>s. ASSUME ghost' = ghost PROVE r \in ghost'.reused
  BY <1>s
<1>1. ASSUME NEW q \in Readers, Read(q) PROVE r \in ghost'.reused
  <2>1. CASE wait_waiter(q)
    BY <1>0, <2>1 DEF wait_waiter, TypeGhost
  <2>2. CASE mark_page_free(q)
    <3>1. \E W : ghost' = Known(W)
      BY <2>2 DEF mark_page_free
    <3> QED BY <1>k, <3>1
  <2>3. CASE ~wait_waiter(q) /\ ~mark_page_free(q)
    BY <1>s, <1>1, <2>3 DEF Read, check_pages_in_database_by_hash,
       check_page_in_memory_by_hash, check_page_in_database_by_hash, ReadFile,
     check_page_in_database_by_hash_and_cache, ReadAhead, ReadAheadMore,
       psync_pagecache_get_free_page
  <2> QED BY <2>1, <2>2, <2>3
<1>2. CASE (\E f \in Fetchers : Fetch(f)) \/ Add \/ FlushTimer \/ CleanStarts \/ UNCHANGED vars
  BY <1>s, <1>2 DEF psync_pagecache_get_free_page,
     Fetch, FetchRefused, FetchBreaks, FetchArrives, FetchHashes, psync_pagecache_send_error,
     Add, AddStarts, AddLooks, AddHashes, FlushTimer, CleanStarts, vars
<1>3. CASE CleanFrees
  <2>1. \E W : ghost' = Known(W)
    BY <1>3 DEF CleanFrees
  <2> QED BY <1>k, <2>1
<1>4. CASE Flush
  <2> PICK t \in Threads : \/ FlushStarts(t) \/ FlushChecks(t) \/ FlushWrites(t)
                          \/ FlushFails(t) \/ FlushCommits(t)
    BY <1>4 DEF Flush, Threads
  <2>1. CASE FlushStarts(t) \/ FlushChecks(t) \/ FlushFails(t)
    BY <1>s, <2>1 DEF FlushStarts, FlushChecks, FlushFails
  <2>2. CASE FlushWrites(t)
    <3>1. PICK todo : FlushFile(todo)
      BY <2>2, FlushWritesTodo
    <3> QED BY <1>0, <3>1 DEF FlushFile, TypeGhost
  <2>3. CASE FlushCommits(t)
    <3>1. \E W : ghost' = Known(W)
      BY <2>3 DEF FlushCommits
    <3> QED BY <1>k, <3>1
  <2> QED BY <2>1, <2>2, <2>3
<1>5. CASE Shrink
  <2>1. (\E W : ghost' = Known(W)) \/ ghost' = ghost
    BY <1>5 DEF Shrink, ShrinkTakes, ShrinkLooks, ShrinkAdds, RowGone
  <2> QED BY <1>s, <1>k, <2>1
<1> QED BY <1>1, <1>2, <1>3, <1>4, <1>5 DEF Next, Clean

\* Only flush_pages writes over what a reader is about to read, and it is known
\* when it does.
LEMMA ReadsSafe ==
  ASSUME IInv, [Next]_vars, NEW r \in Readers, ~wait_waiter(r) PROVE Safe(r)
<1>0. ghost'.cut = ghost.cut
  BY StaysSteady
<1>1. CASE FileKept
  BY <1>0, <1>1, ReusedStay DEF Safe, Stays, FileKept
<1>2. CASE Writes
  <2> PICK t \in Threads : FlushWrites(t)
    BY <1>2 DEF Writes
  <2> PICK todo : \E step \in {"failed", "syncs", "commits"} :
          /\ Todo(todo) /\ FlushFile(todo)
          /\ fl' = [fl EXCEPT !.free = 0, !.todo = todo, !.step = step]
    BY FlushWritesTodo
  <2>1. fl'.step # "counted"
    BY DEF IInv, Types, TypeFl, FlushStates
  <2>2. \A i : i \notin Ids(todo) => Stays(i)
    BY <2>1, WriteRows DEF Stays
  <2>3. ASSUME NEW i, Aims(r, i), i \in Ids(todo) PROVE r \in ghost'.reused
    BY <2>3 DEF Aims, IInv, Types, TypeGhost, FlushFile, Ids
  <2> QED BY <1>0, <2>2, <2>3, ReusedStay DEF Safe
<1> QED BY <1>1, <1>2, RowsStep

\* A request tells readers that a page came, or that none comes.
Told == \E f \in Fetchers : FetchArrives(f) \/ psync_pagecache_send_error(f)

\* A new request takes no page for a reader.
LEMMA RequestsOfOthers ==
  ASSUME IInv, NEW ks, Requests(ks), NEW q \in Readers
  PROVE  get'[q] # "no" => get[q] # "no"
<1>1. CASE ks = <<>>
  BY <1>1 DEF Requests
<1>2. CASE ks # <<>>
  <2> DEFINE f == CHOOSE x \in Unused : TRUE
  <2>1. f \in Fetchers /\ get' = [get EXCEPT ![f] = "want"]
    BY <1>2 DEF Requests, Unused, Wants
  <2> HIDE DEF f
  <2> QED BY <2>1, Apart, TypesOfControl
<1> QED BY <1>1, <1>2

\* A reader leaves the other readers alone.
LEMMA ReaderAlone ==
  ASSUME IInv, NEW r \in Readers, Read(r), NEW q \in Readers, q # r
  PROVE  Unmoved(q)
<1> USE Apart, TypesOfControl
<1>u. user.reads \in [Readers -> Seq(Reads)]
  BY DEF TypeUser
<1>1. CASE check_pages_in_database_by_hash(r) \/ ReadFile(r) \/ mark_page_free(r)
           \/ check_page_in_memory_by_hash(r)
           \/ check_page_in_database_by_hash(r) \/ check_page_in_database_by_hash_and_cache(r)
  <2>1. get'[q] # "no" => get[q] # "no"
    BY <1>1 DEF check_pages_in_database_by_hash, ReadFile, mark_page_free,
       check_page_in_memory_by_hash, check_page_in_database_by_hash,
       check_page_in_database_by_hash_and_cache, Wants
  <2>2. user'.reads = user.reads
    BY <1>1 DEF check_pages_in_database_by_hash, ReadFile, mark_page_free,
       check_page_in_memory_by_hash, check_page_in_database_by_hash,
       check_page_in_database_by_hash_and_cache, CountError, TypeUser
  <2>3. rd'[q] = rd[q]
    BY <1>1 DEF check_pages_in_database_by_hash, ReadFile, mark_page_free,
       check_page_in_memory_by_hash, check_page_in_database_by_hash,
       check_page_in_database_by_hash_and_cache, Has, Advances, add_page_waiter
  <2> QED BY <2>1, <2>2, <2>3 DEF Unmoved
<1>2. CASE ReadAhead(r) \/ ReadAheadMore(r)
  <2>1. get'[q] # "no" => get[q] # "no"
    BY <1>2, RequestsOfOthers DEF ReadAhead, ReadAheadMore
  <2>2. user' = user /\ rd'[q] = rd[q]
    BY <1>2 DEF ReadAhead, ReadAheadMore
  <2> QED BY <2>1, <2>2 DEF Unmoved
<1>3. CASE wait_waiter(r)
  BY <1>3, <1>u DEF wait_waiter, Unmoved, TypeUser
<1>4. CASE psync_pagecache_get_free_page(r)
  <2>1. GetMove(r)
    BY <1>4, GetMoves DEF IInv
  <2> QED BY <2>1 DEF GetMove, Unmoved
<1> QED BY <1>1, <1>2, <1>3, <1>4 DEF Read

\* So does every step that is not a reader's and tells nobody.
LEMMA OthersUnmoved ==
  ASSUME IInv, [Next]_vars, NEW q \in Readers, ~Read(q), ~Told
  PROVE  Unmoved(q)
<1> USE Apart, TypesOfControl
<1>1. ASSUME NEW r \in Readers, Read(r) PROVE Unmoved(q)
  BY <1>1, ReaderAlone
<1>2. ASSUME NEW t \in Getters, GetMove(t) PROVE Unmoved(q)
  BY <1>2 DEF GetMove, Unmoved
<1>3. ASSUME NEW f \in Fetchers, Fetch(f) PROVE Unmoved(q)
  <2>1. CASE psync_pagecache_get_free_page(f)
    BY <2>1, <1>2, GetMoves DEF IInv
  <2>2. CASE FetchRefused(f) \/ FetchBreaks(f) \/ FetchHashes(f)
    BY <2>2 DEF FetchRefused, FetchBreaks, FetchHashes, Unmoved, Ends, WantsPage, Wants,
       Fails, TypeUser
  <2>3. CASE FetchArrives(f) \/ psync_pagecache_send_error(f)
    BY <2>3 DEF Told
  <2> QED BY <1>3, <2>1, <2>2, <2>3 DEF Fetch
<1>4. CASE Add
  <2>1. CASE psync_pagecache_get_free_page("add")
    BY <2>1, <1>2, GetMoves DEF IInv
  <2>2. CASE AddStarts \/ AddLooks \/ AddHashes
    BY <2>2 DEF AddStarts, AddLooks, AddHashes, Unmoved, TypeUser, Wants
  <2> QED BY <1>4, <2>1, <2>2 DEF Add
<1>5. CASE Flush
  <2> PICK t \in Threads : \/ FlushStarts(t) \/ FlushChecks(t) \/ FlushWrites(t)
                          \/ FlushFails(t) \/ FlushCommits(t)
    BY <1>5 DEF Flush, Threads
  <2>1. user'.reads[q] = user.reads[q] /\ rd'[q] = rd[q]
    BY DEF FlushStarts, FlushChecks, FlushWrites, FlushFails, FlushCommits, CountError, TypeUser
  <2>2. get' = get \/ get' = Broadcasts(get) \/ (fl.by = t /\ (get' = Returns(t, get)
          \/ get' = Returns(t, Broadcasts(get))))
    BY DEF FlushStarts, FlushChecks, FlushWrites, FlushFails, FlushCommits
  <2>3. TypeGet /\ \A u \in Getters : u = fl.by => get[u] \in {"first", "flushing"}
    BY DEF Control, Flushing, IInv, Types
  <2>4. Broadcasts(get) \in [Getters -> GetStates]
     /\ (Broadcasts(get)[q] # "no" => get[q] # "no")
     /\ (\A u \in Getters : u = fl.by => Broadcasts(get)[u] \in {"first", "flushing"})
    BY <2>3, BroadcastsKeep
  <2>5. get'[q] # "no" => get[q] # "no"
    <3>1. CASE get' = get \/ get' = Broadcasts(get)
      BY <3>1, <2>4
    <3>2. CASE fl.by = t /\ get' = Returns(t, get)
      BY <3>2, <2>3, ReturnsKeep
    <3>3. CASE fl.by = t /\ get' = Returns(t, Broadcasts(get))
      <4> DEFINE g == Broadcasts(get)
      <4> HIDE DEF g
      <4>1. g \in [Getters -> GetStates]
            /\ (t \in Getters => g[t] \in {"first", "flushing"}) /\ get' = Returns(t, g)
        BY <2>4, <3>3 DEF g
      <4>2. (q # t => get'[q] = g[q]) /\ (q = t => get[q] # "no")
        <5>1. \A u \in Getters : u # t => Returns(t, g)[u] = g[u]
          BY <4>1, ReturnsKeep
        <5>2. t \in Getters => get[t] # "no"
          BY <2>3, <3>3
        <5> QED BY <4>1, <5>1, <5>2
      <4> QED BY <4>2, <2>4 DEF g
    <3> QED BY <2>2, <3>1, <3>2, <3>3
  <2> QED BY <2>1, <2>5 DEF Unmoved
<1>6. CASE Shrink
  BY <1>6 DEF Shrink, ShrinkTakes, ShrinkLooks, ShrinkAdds, Unmoved, Drops, TypeUser
<1>7. CASE FlushTimer \/ Clean \/ UNCHANGED vars
  BY <1>7 DEF FlushTimer, Clean, CleanStarts, CleanFrees, vars, Unmoved
<1> QED BY <1>1, <1>3, <1>4, <1>5, <1>6, <1>7 DEF Next

----------------------------------------------------------------------------
(* A reader's own steps.                                                  *)

\* Reader r goes on in state x.
ReaderBecomes(r, x) == x \in ReaderStates /\ rd' = [rd EXCEPT ![r] = x]

\* What holds of a reader by itself.
ReadsWell(r) == Reading(r) /\ Complete(r) /\ Given(r)

\* What reader r may be given for page k: the page, or zeros as for a part of one that
\* a start has cut off.
RightData(r, k, d) == d = k \/ (d = 0 /\ ReadsZeros(r))

\* What a reader's next state must be like for it to read well.
LEMMA MovedReads ==
  ASSUME IInv, NEW r \in Readers, NEW x, ReaderBecomes(r, x),
         user'.reads[r] = user.reads[r], user.reads[r] # <<>>,
         r \in ghost.reused => r \in ghost'.reused,
         x.pc # "idle",
         x.pc \in Looking => x.i \in DOMAIN Op(r).keys,
         x.pc = "file" => x.i = 1,
         x.pc = "wait" => x.todo = <<>>,
         x.pc \in {"pread", "auth", "mark"} => DOMAIN x.ids = {Op(r).keys[x.i]},
         get'[r] # "no" => x.pc = "auth",
         \/ x.err
         \/ \A j \in DOMAIN Op(r).keys :
               x.pc \in Passed \/ j < x.i => Op(r).keys[j] \in DOMAIN x.got \cup x.pending,
         ghost'.cut = ghost.cut,
         \/ r \in ghost.reused
         \/ /\ \A k \in DOMAIN x.got : RightData(r, k, x.got[k])
            /\ x.pc = "pread" => db' = db /\ Finds(x.ids[Op(r).keys[x.i]], Op(r).keys[x.i])
  PROVE  TypeRd' /\ rd'[r] = x /\ ReadsWell(r)'
<1>0. rd \in [Readers -> ReaderStates]
  BY DEF IInv, Types, TypeRd
<1>1. TypeRd' /\ rd'[r] = x
  BY <1>0 DEF ReaderBecomes, TypeRd
<1>2. Op(r)' = Op(r) /\ Key(r)' = Op(r).keys[x.i]
  BY <1>1 DEF Op, Key
<1>3. Reading(r)'
  BY <1>1, <1>2 DEF Reading
<1>4. Complete(r)'
  BY <1>1, <1>2 DEF Complete, Got
<1>5. Given(r)'
  <2>1. CASE r \in ghost.reused
    BY <2>1 DEF Given
  <2>2. CASE r \notin ghost.reused
    <3>1. \A k \in DOMAIN x.got : Right(r, k)'
      BY <1>1, <1>2, <2>2 DEF Right, RightData, ReadsZeros
    <3>2. x.pc = "pread" => \A i, k : Finds(i, k) => Finds(i, k)'
      BY <2>2 DEF Finds, Cut, At
    <3> QED BY <1>1, <1>2, <2>2, <3>1, <3>2 DEF Given
  <2> QED BY <2>1, <2>2
<1> QED BY <1>1, <1>3, <1>4, <1>5 DEF ReadsWell

\* A page that a reader gets is added to those it has.
LEMMA PutFacts ==
  ASSUME NEW got \in Maps(Keys, Nat), NEW k \in Keys, NEW d \in Nat
  PROVE  /\ Put(got, k, d) \in Maps(Keys, Nat) /\ DOMAIN Put(got, k, d) = DOMAIN got \cup {k}
         /\ Put(got, k, d)[k] = d /\ \A x \in DOMAIN got : x # k => Put(got, k, d)[x] = got[x]
<1> DEFINE D == DOMAIN got \cup {k}  p == Put(got, k, d)
<1>1. PICK E \in SUBSET Keys : got \in [E -> Nat]
  BY DEF Maps
<1>2. D \in SUBSET Keys /\ p \in [D -> Nat]
  BY <1>1 DEF Put
<1>3. p \in Maps(Keys, Nat)
  <2> HIDE DEF p, D
  <2> QED BY <1>2 DEF Maps
<1> QED BY <1>3 DEF Put

\* The rows looked up for some pages are rows of these pages.
LEMMA RowsFacts ==
  ASSUME TypeDb, NEW K \in SUBSET Keys
  PROVE  /\ Rows(K) \in Maps(Keys, Nat) /\ DOMAIN Rows(K) \subseteq K
         /\ \A k \in K : IdsOf(k) # {} => k \in DOMAIN Rows(K)
         /\ \A k \in DOMAIN Rows(K) : Rows(K)[k] \in DOMAIN db.row /\ db.row[Rows(K)[k]] = k
<1> DEFINE D == {k \in K : IdsOf(k) # {}} f == Rows(K)
<1>1. ASSUME NEW k \in D PROVE Min(IdsOf(k)) \in IdsOf(k) /\ Min(IdsOf(k)) \in Nat
  <2>1. IdsOf(k) # {} /\ IdsOf(k) \subseteq Nat
    BY DEF IdsOf, TypeDb
  <2> QED BY <2>1, MinIn
<1>2. f = [k \in D |-> Min(IdsOf(k))]
  BY DEF Rows
<1>3. D \in SUBSET Keys /\ f \in [D -> Nat]
  BY <1>1, <1>2
<1>4. f \in Maps(Keys, Nat)
  <2> HIDE DEF f, D
  <2> QED BY <1>3 DEF Maps
<1>5. \A k \in DOMAIN f : f[k] \in DOMAIN db.row /\ db.row[f[k]] = k
  BY <1>1, <1>2 DEF IdsOf
<1> QED BY <1>2, <1>4, <1>5

\* A reader starts with no page and no row.
LEMMA EmptyMap == ASSUME NEW S, NEW T PROVE <<>> \in Maps(S, T)
<1> DEFINE f == <<>>
<1>1. DOMAIN f = {}
  OBVIOUS
<1>2. f \in [{} -> T]
  BY <1>1
<1>3. {} \in SUBSET S
  OBVIOUS
<1> HIDE DEF f
<1>4. f \in Maps(S, T)
  BY <1>2, <1>3 DEF Maps
<1> QED BY <1>4 DEF f

\* A reader's state, by its parts.
LEMMA StateFacts ==
  ASSUME IInv, NEW r \in Readers
  PROVE  /\ rd[r] \in ReaderStates /\ Reading(r) /\ Complete(r) /\ Given(r) /\ TypeDb
         /\ rd[r].ids \in Maps(Keys, Nat) /\ rd[r].got \in Maps(Keys, Nat)
         /\ rd[r].todo \in Seq(Keys) /\ rd[r].pending \in SUBSET Keys /\ rd[r].i \in Nat \ {0}
         /\ rd[r].err \in BOOLEAN
BY TypesOfControl DEF IInv, Types, ReadingAll, ReaderStates

\* A reader that has its page, or waits for it, goes on to the next one, and after
\* the last one it has or awaits them all.
LEMMA AdvancesFacts ==
  ASSUME IInv, NEW r \in Readers, rd[r].pc \in Looking \/ Starts(r), NEW x \in ReaderStates,
         x.i = rd[r].i, Advances(r, x), user'.reads = user.reads,
         ghost.reused = ghost'.reused, ghost'.cut = ghost.cut, get'[r] = "no",
         DOMAIN rd[r].got \cup rd[r].pending \cup {Key(r)} \subseteq DOMAIN x.got \cup x.pending,
         x.err = rd[r].err,
         r \in ghost.reused \/ \A k \in DOMAIN x.got : RightData(r, k, x.got[k])
  PROVE  /\ TypeRd' /\ ReadsWell(r)'
         /\ rd'[r].pending = x.pending /\ rd'[r].todo = x.todo
         /\ \A q \in Readers \ {r} : rd'[q] = rd[q]
<1> DEFINE last == rd[r].i = Len(Op(r).keys)
           pc == IF last THEN "ahead" ELSE "memory"
           i == IF last THEN 1 ELSE rd[r].i + 1
           y == [x EXCEPT !.pc = pc, !.i = i, !.ids = <<>>]
<1>0. /\ Op(r).keys \in Seq(Keys) /\ Key(r) \in Keys /\ rd[r].i \in 1..Len(Op(r).keys)
      /\ user.reads[r] # <<>> /\ Key(r) = Op(r).keys[rd[r].i]
  <2>1. Types /\ Reading(r)
    BY StateFacts DEF IInv
  <2>2. user.reads[r] # <<>>
    BY <2>1 DEF Reading, Looking, Starts
  <2> QED BY <2>1, <2>2, KeyFacts DEF Key
<1>1. rd' = [rd EXCEPT ![r] = y]
  BY DEF Advances
<1>2. <<>> \in Maps(Keys, Nat)
  BY EmptyMap
<1>3. i \in Nat \ {0} /\ pc \in Looking \cup Passed /\ (pc \in Looking
        => i \in DOMAIN Op(r).keys /\ i = rd[r].i + 1 /\ pc = "memory")
      /\ (pc \notin Looking => pc = "ahead" /\ rd[r].i = Len(Op(r).keys))
  BY <1>0 DEF Looking, Passed
<1> HIDE DEF pc, i
<1>4. y \in ReaderStates /\ y.pc = pc /\ y.i = i /\ y.pending = x.pending
        /\ y.todo = x.todo /\ y.got = x.got /\ y.err = x.err
  <2> DEFINE e == <<>> M == Maps(Keys, Nat) P == SUBSET Keys Q == Seq(Keys) PC == {"idle"}
             \cup Looking \cup Passed
  <2>1. y = [x EXCEPT !.pc = pc, !.i = i, !.ids = e] /\ e \in M /\ pc \in PC
    BY <1>2, <1>3
  <2>2. x \in [pc : PC, i : Nat \ {0}, ids : M, todo : Q, pending : P, got : M, err : BOOLEAN]
    BY DEF ReaderStates
  <2> HIDE DEF e, M, P, Q, y, PC
  <2>3. y \in [pc : PC, i : Nat \ {0}, ids : M, todo : Q, pending : P, got : M, err : BOOLEAN]
    BY <1>3, <2>1, <2>2
  <2>4. y.pc = pc /\ y.i = i /\ y.pending = x.pending /\ y.todo = x.todo /\ y.got = x.got
          /\ y.err = x.err
    BY <2>1, <2>2
  <2> QED BY <2>3, <2>4 DEF ReaderStates, M, P, Q, PC
<1> HIDE DEF y
<1>5. \/ y.err
      \/ \A j \in DOMAIN Op(r).keys :
               y.pc \in Passed \/ j < y.i => Op(r).keys[j] \in DOMAIN y.got \cup y.pending
  <2> SUFFICES ASSUME ~y.err, NEW j \in DOMAIN Op(r).keys, y.pc \in Passed \/ j < y.i
               PROVE  Op(r).keys[j] \in DOMAIN x.got \cup x.pending
    BY <1>4
  <2>1. j = rd[r].i \/ j < rd[r].i
    BY <1>0, <1>3, <1>4 DEF Looking, Passed
  <2>2. CASE j = rd[r].i
    BY <1>0, <2>2
  <2>3. CASE j < rd[r].i
    <3>1. rd[r].pc # "idle"
      BY <1>0, <2>3, StateFacts DEF Reading, NotReading
    <3>2. Op(r).keys[j] \in DOMAIN rd[r].got \cup rd[r].pending
      BY <1>4, <2>3, <3>1, StateFacts DEF Complete, Got
    <3> QED BY <3>2
  <2> QED BY <2>1, <2>2, <2>3
<1>6. ReaderBecomes(r, y)
  BY <1>1, <1>4 DEF ReaderBecomes
<1>7. TypeRd' /\ rd'[r] = y /\ ReadsWell(r)'
  <2>1. y.pc # "idle" /\ y.pc \notin {"file", "wait", "pread", "auth", "mark"}
    BY <1>3, <1>4 DEF Looking, Passed
  <2> QED BY <1>0, <1>3, <1>4, <1>5, <1>6, <2>1, MovedReads
<1> QED BY <1>1, <1>4, <1>7

\* Reader r neither asks nor waits for a page.
Quiet(r) ==
    /\ UNCHANGED <<waits, fetch>>
    /\ rd'[r].pending = rd[r].pending /\ rd'[r].todo = rd[r].todo

\* add_page_waiter: reader r waits for its page, and notes it unless somebody
\* asked for it already.
Awaits(r) ==
    /\ UNCHANGED fetch /\ Key(r) \in Keys
    /\ waits' = WaitedFor(waits, {Key(r)}, {r})
    /\ rd'[r].pending = rd[r].pending \cup {Key(r)}
    /\ rd'[r].todo = IF Key(r) \in DOMAIN waits THEN rd[r].todo ELSE Append(rd[r].todo, Key(r))

\* psync_pagecache_start_requests: reader r has what it noted asked for.
Sends(r) ==
    /\ \E ks \in Seq(Keys) : /\ Requests(ks)
                             /\ Range(rd[r].todo)
                                \cup (DOMAIN waits' \ DOMAIN waits) \subseteq Range(ks)
    /\ TypeWaits'
    /\ \A k \in DOMAIN waits : k \in DOMAIN waits' /\ waits'[k] = waits[k]
    /\ \A k \in DOMAIN waits' \ DOMAIN waits : waits'[k] = {}
    /\ rd'[r].pending = rd[r].pending /\ rd'[r].todo = <<>>

\* What every step of a reader does.
OwnRead(r) ==
    /\ TypeRd' /\ ReadsWell(r)'
    /\ Quiet(r) \/ Awaits(r) \/ Sends(r)

\* A reader that has found its page has that page.
LEMMA HasReads ==
  ASSUME IInv, NEW r \in Readers, rd[r].pc \in Looking \/ Starts(r), NEW d \in Nat,
         Has(r, d), user'.reads = user.reads, UNCHANGED fetch,
         ghost.reused = ghost'.reused, ghost'.cut = ghost.cut, get'[r] = "no",
         r \in ghost.reused \/ RightData(r, Key(r), d)
  PROVE  OwnRead(r)
<1> DEFINE got == Put(rd[r].got, Key(r), d)
           x == [rd[r] EXCEPT !.got = got]
<1>0. Advances(r, x) /\ waits' = waits
  BY DEF Has
<1>1. Key(r) \in Keys
  BY KeyFacts, StateFacts DEF IInv
<1>2. /\ got \in Maps(Keys, Nat) /\ DOMAIN got = DOMAIN rd[r].got \cup {Key(r)}
      /\ got[Key(r)] = d /\ \A k \in DOMAIN rd[r].got : k # Key(r) => got[k] = rd[r].got[k]
  <2> DEFINE g == rd[r].got
  <2>1. g \in Maps(Keys, Nat)
    BY StateFacts
  <2> HIDE DEF g
  <2>2. LET p == Put(g, Key(r), d)
        IN /\ p \in Maps(Keys, Nat) /\ DOMAIN p = DOMAIN g \cup {Key(r)}
           /\ p[Key(r)] = d /\ \A k \in DOMAIN g : k # Key(r) => p[k] = g[k]
    BY <1>1, <2>1, PutFacts
  <2> QED BY <2>2 DEF g
<1> HIDE DEF got
<1>3. /\ x \in ReaderStates /\ x.i = rd[r].i /\ x.pending = rd[r].pending /\ x.todo = rd[r].todo
      /\ x.err = rd[r].err /\ x.got = got
  <2> DEFINE M == Maps(Keys, Nat)
  <2> HIDE DEF M
  <2>1. rd[r] \in [pc : {"idle"} \cup Looking \cup Passed, i : Nat \ {0}, ids : M,
                   todo : Seq(Keys), pending : SUBSET Keys, got : M, err : BOOLEAN] /\ got \in M
    BY <1>2, StateFacts DEF M, ReaderStates
  <2>2. x \in [pc : {"idle"} \cup Looking \cup Passed, i : Nat \ {0}, ids : M,
                   todo : Seq(Keys), pending : SUBSET Keys, got : M, err : BOOLEAN]
    BY <2>1
  <2> QED BY <2>1, <2>2 DEF M, ReaderStates
<1> HIDE DEF x
<1>4. r \in ghost.reused \/ \A k \in DOMAIN rd[r].got : RightData(r, k, rd[r].got[k])
  BY StateFacts DEF Given, Right, RightData
<1>5. r \in ghost.reused \/ \A k \in DOMAIN x.got : RightData(r, k, x.got[k])
  BY <1>2, <1>3, <1>4
<1>6. DOMAIN rd[r].got \cup rd[r].pending \cup {Key(r)} \subseteq DOMAIN x.got \cup x.pending
  BY <1>2, <1>3
<1>7. TypeRd' /\ ReadsWell(r)' /\ rd'[r].pending = x.pending /\ rd'[r].todo = x.todo
  BY <1>0, <1>3, <1>5, <1>6, AdvancesFacts
<1> QED BY <1>0, <1>3, <1>7 DEF OwnRead, Quiet

\* A reader that found its page nowhere waits for it.
LEMMA AwaitsReads ==
  ASSUME IInv, NEW r \in Readers, rd[r].pc \in Looking, add_page_waiter(r),
         UNCHANGED <<user, fetch>>, ghost.reused = ghost'.reused, ghost'.cut = ghost.cut,
         get'[r] = "no"
  PROVE  OwnRead(r)
<1> DEFINE pending == rd[r].pending \cup {Key(r)}
           todo == IF Key(r) \in DOMAIN waits THEN rd[r].todo ELSE Append(rd[r].todo, Key(r))
           x == [rd[r] EXCEPT !.pending = pending, !.todo = todo]
<1>0. Advances(r, x) /\ waits' = WaitedFor(waits, {Key(r)}, {r})
  BY DEF add_page_waiter
<1>1. Key(r) \in Keys
  BY KeyFacts, StateFacts DEF IInv
<1>2. pending \in SUBSET Keys
  BY <1>1, StateFacts
<1>t. todo \in Seq(Keys)
  <2> DEFINE K == Keys
  <2>1. Key(r) \in K /\ rd[r].todo \in Seq(K)
    BY <1>1, StateFacts
  <2> HIDE DEF K
  <2>2. Append(rd[r].todo, Key(r)) \in Seq(K)
    BY <2>1
  <2> QED BY <2>1, <2>2 DEF K
<1>h. /\ todo = IF Key(r) \in DOMAIN waits THEN rd[r].todo ELSE Append(rd[r].todo, Key(r))
      /\ pending = rd[r].pending \cup {Key(r)}
  OBVIOUS
<1> HIDE DEF pending, todo
<1>3. /\ x \in ReaderStates /\ x.i = rd[r].i /\ x.pending = pending /\ x.todo = todo
      /\ x.err = rd[r].err /\ x.got = rd[r].got
  <2> DEFINE M == Maps(Keys, Nat) P == SUBSET Keys Q == Seq(Keys)
  <2> HIDE DEF M, P, Q
  <2>1. rd[r] \in [pc : {"idle"} \cup Looking \cup Passed, i : Nat \ {0}, ids : M,
                   todo : Q, pending : P, got : M, err : BOOLEAN] /\ pending \in P /\ todo \in Q
    BY <1>2, <1>t, StateFacts DEF M, P, Q, ReaderStates
  <2>2. x \in [pc : {"idle"} \cup Looking \cup Passed, i : Nat \ {0}, ids : M,
                   todo : Q, pending : P, got : M, err : BOOLEAN]
    BY <2>1
  <2> QED BY <2>1, <2>2 DEF M, P, Q, ReaderStates
<1> HIDE DEF x
<1>5. r \in ghost.reused \/ \A k \in DOMAIN x.got : RightData(r, k, x.got[k])
  BY <1>3, StateFacts DEF Given, Right, RightData
<1>6. DOMAIN rd[r].got \cup rd[r].pending \cup {Key(r)} \subseteq DOMAIN x.got \cup x.pending
  BY <1>3, <1>h
<1>7. TypeRd' /\ ReadsWell(r)' /\ rd'[r].pending = x.pending /\ rd'[r].todo = x.todo
  BY <1>0, <1>3, <1>5, <1>6, AdvancesFacts
<1> QED BY <1>0, <1>1, <1>3, <1>7, <1>h DEF OwnRead, Awaits

\* Reader r goes on at pc.
MovesTo(r, pc, ids, got, todo) ==
    rd' = [rd EXCEPT ![r] = [rd[r] EXCEPT !.pc = pc, !.ids = ids, !.got = got, !.todo = todo]]

\* MovedReads for a reader that goes on at pc.
LEMMA MovedTo ==
  ASSUME IInv, NEW r \in Readers, NEW pc \in Looking \cup Passed,
         NEW ids \in Maps(Keys, Nat), NEW got \in Maps(Keys, Nat),
         NEW todo \in Seq(Keys), MovesTo(r, pc, ids, got, todo),
         user'.reads[r] = user.reads[r], user.reads[r] # <<>>, ghost'.reused = ghost.reused,
         ghost'.cut = ghost.cut,
         pc \in Looking => rd[r].i \in DOMAIN Op(r).keys,
         pc = "file" => rd[r].i = 1,
         pc = "wait" => todo = <<>>,
         pc \in {"pread", "auth", "mark"} => DOMAIN ids = {Key(r)},
         get'[r] # "no" => pc = "auth",
         \/ rd[r].err
         \/ \A j \in DOMAIN Op(r).keys :
               pc \in Passed \/ j < rd[r].i => Op(r).keys[j] \in DOMAIN got \cup rd[r].pending,
         \/ r \in ghost.reused
         \/ /\ \A k \in DOMAIN got : RightData(r, k, got[k])
            /\ pc = "pread" => db' = db /\ Finds(ids[Key(r)], Key(r))
  PROVE  TypeRd' /\ ReadsWell(r)' /\ rd'[r].pending = rd[r].pending
<1> DEFINE x == [rd[r] EXCEPT !.pc = pc, !.ids = ids, !.got = got, !.todo = todo]
<1>1. /\ x \in ReaderStates /\ x.i = rd[r].i /\ x.pending = rd[r].pending /\ x.todo = todo
      /\ x.err = rd[r].err /\ x.got = got /\ x.pc = pc /\ x.ids = ids
  <2> DEFINE M == Maps(Keys, Nat) P == SUBSET Keys Q == Seq(Keys) PC == {"idle"}
             \cup Looking \cup Passed
  <2>0. ids \in M /\ got \in M /\ todo \in Q /\ pc \in PC
    OBVIOUS
  <2> HIDE DEF M, P, Q, PC
  <2>1. rd[r] \in [pc : PC, i : Nat \ {0}, ids : M, todo : Q, pending : P, got : M, err : BOOLEAN]
    BY StateFacts DEF M, P, Q, PC, ReaderStates
  <2>2. x \in [pc : PC, i : Nat \ {0}, ids : M, todo : Q, pending : P, got : M, err : BOOLEAN]
    BY <2>0, <2>1
  <2>3. /\ x.i = rd[r].i /\ x.pending = rd[r].pending /\ x.todo = todo
        /\ x.err = rd[r].err /\ x.got = got /\ x.pc = pc /\ x.ids = ids
    BY <2>1
  <2> QED BY <2>2, <2>3 DEF M, P, Q, PC, ReaderStates
<1>2. rd' = [rd EXCEPT ![r] = x]
  BY DEF MovesTo
<1> HIDE DEF x
<1>3. ReaderBecomes(r, x) /\ x.pc # "idle"
  BY <1>1, <1>2 DEF ReaderBecomes, Looking, Passed
<1>4. Key(r) = Op(r).keys[x.i]
  BY <1>1 DEF Key
<1>5. TypeRd' /\ rd'[r] = x /\ ReadsWell(r)'
  BY <1>1, <1>3, <1>4, MovedReads
<1> QED BY <1>1, <1>5

\* Its list is then the one it was given.
LEMMA MovedTodo ==
  ASSUME IInv, NEW r \in Readers, NEW pc, NEW ids, NEW got, NEW todo,
         MovesTo(r, pc, ids, got, todo)
  PROVE  rd'[r].todo = todo
BY StateFacts, TypesOfControl DEF MovesTo, ReaderStates

\* check_pages_in_database_by_hash takes only pages whose checksum is right.
LEMMA BulkReads ==
  ASSUME IInv, NEW r \in Readers, check_pages_in_database_by_hash(r)
  PROVE  OwnRead(r)
<1> USE StateFacts
<1>0. UNCHANGED <<waits, fetch, get, ghost>> /\ user'.reads = user.reads
  BY DEF check_pages_in_database_by_hash, CountError, IInv, Types, TypeUser
<1>1. CASE rd[r].pc # "file"
  <2>1. Starts(r) /\ rd' = [rd EXCEPT ![r].pc = "file", ![r].ids = Rows(Range(Op(r).keys))]
    BY <1>1 DEF check_pages_in_database_by_hash
  <2>2. rd[r] = NotReading /\ user.reads[r] # <<>> /\ rd[r].i = 1 /\ ~rd[r].err
          /\ DOMAIN rd[r].got = {} /\ get[r] = "no"
    BY <2>1 DEF Starts, Reading, NotReading
  <2>3. Op(r).keys \in Seq(Keys) /\ Op(r).keys # <<>>
    BY <2>2, OpFacts DEF IInv
  <2>4. Range(Op(r).keys) \in SUBSET Keys
    <3> DEFINE K == Keys
    <3>1. Op(r).keys \in Seq(K)
      BY <2>3
    <3> HIDE DEF K
    <3>2. Range(Op(r).keys) \in SUBSET K
      BY <3>1 DEF Range
    <3> QED BY <3>2 DEF K
  <2> DEFINE ids == Rows(Range(Op(r).keys))
  <2>5. ids \in Maps(Keys, Nat)
    BY <2>4, RowsFacts
  <2> HIDE DEF ids
  <2>6. MovesTo(r, "file", ids, rd[r].got, rd[r].todo)
    BY <2>1 DEF ids, MovesTo, ReaderStates
  <2>7. \A j \in DOMAIN Op(r).keys : ~(j < rd[r].i)
    BY <2>2, <2>3
  <2>8. TypeRd' /\ ReadsWell(r)' /\ rd'[r].pending = rd[r].pending /\ rd'[r].todo = rd[r].todo
    <3>1. 1 \in DOMAIN Op(r).keys
      BY <2>3
    <3>2. "file" \in Looking \cup Passed /\ "file" \notin Passed
      BY DEF Looking, Passed
    <3> DEFINE pc == "file" todo == rd[r].todo got == rd[r].got
    <3>3. /\ pc \in Looking \cup Passed /\ pc \notin Passed /\ pc = "file"
             /\ pc \notin {"wait", "pread", "auth", "mark"}
          /\ todo \in Seq(Keys) /\ got \in Maps(Keys, Nat) /\ MovesTo(r, pc, ids, got, todo)
      BY <2>6, <3>2
    <3>4. user'.reads[r] = user.reads[r] /\ ghost'.reused = ghost.reused /\ get'[r] = "no"
      BY <1>0, <2>2
    <3>5. rd[r].i \in DOMAIN Op(r).keys /\ rd[r].i = 1 /\ user.reads[r] # <<>>
      BY <2>2, <3>1
    <3>6. \A k \in DOMAIN got : got[k] = k
      BY <2>2
    <3> HIDE DEF pc, todo, got
    <3>7. TypeRd' /\ ReadsWell(r)' /\ rd'[r].pending = rd[r].pending
      BY <1>0, <2>5, <2>7, <3>3, <3>4, <3>5, <3>6, MovedTo DEF RightData
    <3>8. rd'[r].todo = todo
      BY <3>3, MovedTodo
    <3> QED BY <3>7, <3>8 DEF todo
  <2> QED BY <1>0, <2>8 DEF OwnRead, Quiet
<1>2. CASE rd[r].pc = "file"
  <2>g. PICK good \in SUBSET DOMAIN rd[r].ids :
          rd' = [rd EXCEPT ![r].pc = "memory", ![r].ids = <<>>, ![r].got = [k \in good |-> k]]
    <3>1. PICK error : \E good \in GoodPages(r, error) :
            rd' = [rd EXCEPT ![r].pc = "memory", ![r].ids = <<>>, ![r].got = [k \in good |-> k]]
      BY <1>2, ZenonT(60) DEF check_pages_in_database_by_hash, Starts
    <3>2. PICK good \in GoodPages(r, error) :
            rd' = [rd EXCEPT ![r].pc = "memory", ![r].ids = <<>>, ![r].got = [k \in good |-> k]]
      BY <3>1
    <3>3. good \subseteq {k \in DOMAIN rd[r].ids : At(rd[r].ids[k]) = k}
      BY DEF GoodPages
    <3>4. good \in SUBSET DOMAIN rd[r].ids
      BY <3>3
    <3> QED BY <3>2, <3>4
  <2> DEFINE got == [k \in good |-> k]
             e == <<>>
  <2>1. rd' = [rd EXCEPT ![r].pc = "memory", ![r].ids = e, ![r].got = got]
    BY <2>g
  <2>2. rd[r].i = 1 /\ user.reads[r] # <<>> /\ rd[r].i \in DOMAIN Op(r).keys /\ get[r] = "no"
    BY <1>2 DEF Reading, Looking
  <2>3. got \in Maps(Keys, Nat) /\ e \in Maps(Keys, Nat)
    <3>1. good \in SUBSET Keys
      BY DEF Maps
    <3>2. got \in [good -> Nat]
      BY <3>1 DEF Keys
    <3> HIDE DEF got
    <3>3. got \in Maps(Keys, Nat)
      BY <3>1, <3>2 DEF Maps
    <3> QED BY <3>3, EmptyMap
  <2>4. \A k \in DOMAIN got : got[k] = k
    OBVIOUS
  <2> HIDE DEF got, e
  <2>5. MovesTo(r, "memory", e, got, rd[r].todo)
    BY <2>1 DEF MovesTo, ReaderStates
  <2>6. Op(r).keys \in Seq(Keys) /\ \A j \in DOMAIN Op(r).keys : ~(j < rd[r].i)
    <3>1. Op(r).keys \in Seq(Keys)
      BY <2>2, OpFacts DEF IInv
    <3> QED BY <2>2, <3>1
  <2>7. TypeRd' /\ ReadsWell(r)' /\ rd'[r].pending = rd[r].pending /\ rd'[r].todo = rd[r].todo
    <3>2. "memory" \in Looking \cup Passed /\ "memory" \notin Passed
      BY DEF Looking, Passed
    <3> DEFINE pc == "memory" todo == rd[r].todo
    <3>3. /\ pc \in Looking \cup Passed /\ pc \notin Passed /\ pc \notin {"file", "wait",
             "pread", "auth", "mark"}
          /\ todo \in Seq(Keys) /\ MovesTo(r, pc, e, got, todo)
      BY <2>5, <3>2
    <3>4. user'.reads[r] = user.reads[r] /\ ghost'.reused = ghost.reused /\ get'[r] = "no"
      BY <1>0, <2>2
    <3> HIDE DEF pc, todo
    <3>7. TypeRd' /\ ReadsWell(r)' /\ rd'[r].pending = rd[r].pending
      BY <1>0, <2>2, <2>3, <2>4, <2>6, <3>3, <3>4, MovedTo DEF RightData
    <3>8. rd'[r].todo = todo
      BY <3>3, MovedTodo
    <3> QED BY <3>7, <3>8 DEF todo
  <2> QED BY <1>0, <2>7 DEF OwnRead, Quiet
<1> QED BY <1>1, <1>2

\* A reader goes on with another step of its search for a page.
LEMMA LooksOn ==
  ASSUME IInv, NEW r \in Readers, rd[r].pc \in Looking \/ Starts(r),
         NEW pc \in Looking \ {"file"}, NEW ids \in Maps(Keys, Nat),
         MovesTo(r, pc, ids, rd[r].got, rd[r].todo),
         user'.reads[r] = user.reads[r], ghost'.reused = ghost.reused, ghost'.cut = ghost.cut,
         UNCHANGED <<waits, fetch>>,
         pc \in {"pread", "auth", "mark"} => DOMAIN ids = {Key(r)},
         get'[r] # "no" => pc = "auth",
         pc = "pread" => db' = db /\ Finds(ids[Key(r)], Key(r))
  PROVE  OwnRead(r)
<1> DEFINE got == rd[r].got todo == rd[r].todo
<1>0. /\ Op(r).keys \in Seq(Keys) /\ rd[r].i \in 1..Len(Op(r).keys) /\ user.reads[r] # <<>>
  <2>1. Types /\ Reading(r)
    BY StateFacts DEF IInv
  <2> QED BY <2>1, KeyFacts DEF Reading, Looking, Starts
<1>1. pc \in Looking \cup Passed /\ pc \notin Passed /\ pc \notin {"file", "wait"}
        /\ rd[r].i \in DOMAIN Op(r).keys
  BY <1>0 DEF Looking, Passed
<1>2. \/ rd[r].err
      \/ \A j \in DOMAIN Op(r).keys :
            pc \in Passed \/ j < rd[r].i => Op(r).keys[j] \in DOMAIN got \cup rd[r].pending
  <2> SUFFICES ASSUME ~rd[r].err, NEW j \in DOMAIN Op(r).keys, j < rd[r].i
               PROVE  Op(r).keys[j] \in DOMAIN got \cup rd[r].pending
    BY <1>1
  <2>1. rd[r].pc # "idle"
    BY <1>0, StateFacts DEF Reading, NotReading
  <2> QED BY <2>1, StateFacts DEF Complete, Got
<1>3. \/ r \in ghost.reused
      \/ /\ \A k \in DOMAIN got : RightData(r, k, got[k])
         /\ pc = "pread" => db' = db /\ Finds(ids[Key(r)], Key(r))
  BY StateFacts DEF Given, Right, RightData
<1>4. got \in Maps(Keys, Nat) /\ todo \in Seq(Keys) /\ MovesTo(r, pc, ids, got, todo)
  BY StateFacts
<1> HIDE DEF got, todo
<1>5. TypeRd' /\ ReadsWell(r)' /\ rd'[r].pending = rd[r].pending
  BY <1>0, <1>1, <1>2, <1>3, <1>4, MovedTo
<1>6. rd'[r].todo = todo
  BY <1>4, MovedTodo
<1> QED BY <1>5, <1>6 DEF todo, OwnRead, Quiet

\* check_page_in_memory_by_hash: a page in cache_hash is the one it says.
LEMMA MemoryReads ==
  ASSUME IInv, NEW r \in Readers, check_page_in_memory_by_hash(r)
  PROVE  OwnRead(r)
<1>0. /\ UNCHANGED <<user, fetch, get, ghost, db>> /\ (rd[r].pc \in Looking \/ Starts(r))
      /\ get[r] = "no" /\ (rd[r].pc = "memory" \/ (Starts(r) /\ ~Bulk(r)))
  BY StateFacts DEF check_page_in_memory_by_hash, Looking, Reading, Starts
<1>k. Key(r) \in Keys
  BY <1>0, KeyFacts, StateFacts DEF IInv
<1>1. CASE Key(r) \in DOMAIN rd[r].got
  <2>1. Has(r, rd[r].got[Key(r)])
    BY <1>1 DEF check_page_in_memory_by_hash
  <2>2. /\ rd[r].got[Key(r)] \in Nat
        /\ r \in ghost.reused \/ RightData(r, Key(r), rd[r].got[Key(r)])
    BY <1>1, StateFacts DEF Given, Maps, Right, RightData
  <2> QED BY <1>0, <2>1, <2>2, HasReads
<1>2. CASE Key(r) \notin DOMAIN rd[r].got /\ InMemory(Key(r)) # {}
  <2> DEFINE d == mem.page[Min(InMemory(Key(r)))].key
  <2>1. Has(r, d)
    BY <1>2 DEF check_page_in_memory_by_hash
  <2>2. InMemory(Key(r)) \subseteq Nat
    BY Finite DEF InMemory, IInv, Types, TypeMem
  <2>3. Min(InMemory(Key(r))) \in InMemory(Key(r))
    BY <1>2, <2>2, MinIn
  <2>4. d = Key(r)
    BY <2>3 DEF InMemory
  <2> HIDE DEF d
  <2>5. d \in Nat
    BY <1>k, <2>4 DEF Keys
  <2> QED BY <1>0, <2>1, <2>4, <2>5, HasReads DEF RightData
<1>3. CASE Key(r) \notin DOMAIN rd[r].got /\ InMemory(Key(r)) = {} /\ Bulk(r)
  <2>1. add_page_waiter(r) /\ rd[r].pc \in Looking
    BY <1>0, <1>3 DEF check_page_in_memory_by_hash, Looking
  <2> QED BY <1>0, <2>1, AwaitsReads
<1>4. CASE Key(r) \notin DOMAIN rd[r].got /\ InMemory(Key(r)) = {} /\ ~Bulk(r)
  <2>1. rd' = [rd EXCEPT ![r].pc = "row"] /\ UNCHANGED waits
    BY <1>4 DEF check_page_in_memory_by_hash
  <2> DEFINE pc == "row" ids == rd[r].ids
  <2>2. MovesTo(r, pc, ids, rd[r].got, rd[r].todo)
    BY <2>1, StateFacts DEF MovesTo, ReaderStates
  <2>3. pc \in Looking \ {"file"} /\ pc \notin {"pread", "auth", "mark"}
          /\ ids \in Maps(Keys, Nat)
    BY StateFacts DEF Looking
  <2> HIDE DEF pc, ids
  <2> QED BY <1>0, <2>1, <2>2, <2>3, LooksOn
<1> QED BY <1>1, <1>2, <1>3, <1>4

\* check_page_in_database_by_hash finds a row that says what the file has, before
\* it gives up the lock.
LEMMA RowReads ==
  ASSUME IInv, NEW r \in Readers, check_page_in_database_by_hash(r)
  PROVE  OwnRead(r)
<1>0. UNCHANGED <<user, fetch, ghost, db>> /\ rd[r].pc = "row" /\ rd[r].pc \in Looking
        /\ get[r] = "no"
  BY StateFacts DEF check_page_in_database_by_hash, Looking, Reading
<1>k. Key(r) \in Keys
  BY <1>0, KeyFacts, StateFacts DEF IInv
<1>1. CASE IdsOf(Key(r)) = {}
  <2>1. add_page_waiter(r) /\ get' = get
    BY <1>1 DEF check_page_in_database_by_hash
  <2> QED BY <1>0, <2>1, AwaitsReads
<1>2. CASE IdsOf(Key(r)) # {}
  <2> DEFINE pc == IF Op(r).auth THEN "auth" ELSE "pread"
             ids == Rows({Key(r)})
  <2>1. /\ rd' = [rd EXCEPT ![r].pc = pc, ![r].ids = ids] /\ UNCHANGED waits
        /\ get' = IF Op(r).auth THEN Wants(r, get) ELSE get
    BY <1>2 DEF check_page_in_database_by_hash
  <2>2. /\ ids \in Maps(Keys, Nat) /\ DOMAIN ids = {Key(r)}
        /\ ids[Key(r)] \in DOMAIN db.row /\ db.row[ids[Key(r)]] = Key(r)
    <3> DEFINE K == {Key(r)}
    <3>1. K \in SUBSET Keys /\ Key(r) \in K /\ \A k \in K : k = Key(r)
      BY <1>k
    <3> HIDE DEF K
    <3>2. /\ Rows(K) \in Maps(Keys, Nat) /\ DOMAIN Rows(K) \subseteq K
          /\ \A k \in K : IdsOf(k) # {} => k \in DOMAIN Rows(K)
          /\ \A k \in DOMAIN Rows(K) : Rows(K)[k] \in DOMAIN db.row /\ db.row[Rows(K)[k]] = k
      BY <3>1, StateFacts, RowsFacts
    <3>3. DOMAIN Rows(K) = {Key(r)}
      BY <1>2, <3>1, <3>2
    <3> QED BY <3>2, <3>3 DEF K
  <2>3. Finds(ids[Key(r)], Key(r))
    BY <1>k, <2>2 DEF IInv, Rowed, Finds, Free, Keys
  <2>4. get'[r] # "no" => pc = "auth"
    BY <1>0, <2>1
  <2>5. pc \in Looking \ {"file"}
    BY DEF Looking
  <2> HIDE DEF pc, ids
  <2>6. MovesTo(r, pc, ids, rd[r].got, rd[r].todo)
    BY <2>1, StateFacts DEF MovesTo, ReaderStates
  <2>7. /\ user'.reads[r] = user.reads[r] /\ ghost'.reused = ghost.reused
           /\ UNCHANGED <<waits, fetch>>
        /\ (rd[r].pc \in Looking \/ Starts(r)) /\ ids \in Maps(Keys, Nat) /\ DOMAIN ids = {Key(r)}
        /\ ghost'.cut = ghost.cut
        /\ pc = "pread" => db' = db /\ Finds(ids[Key(r)], Key(r))
    BY <1>0, <2>1, <2>2, <2>3
  <2> QED BY <2>4, <2>5, <2>6, <2>7, LooksOn
<1> QED BY <1>1, <1>2

\* A reader whose page is not in the file goes on to mark the row free.
LEMMA MarksOn ==
  ASSUME IInv, NEW r \in Readers, rd[r].pc \in {"pread", "auth"},
         rd' = [rd EXCEPT ![r].pc = "mark"],
         user'.reads[r] = user.reads[r], ghost'.reused = ghost.reused, ghost'.cut = ghost.cut,
         UNCHANGED <<waits, fetch>>, get'[r] = "no"
  PROVE  OwnRead(r)
<1> DEFINE pc == "mark" ids == rd[r].ids
<1>1. MovesTo(r, pc, ids, rd[r].got, rd[r].todo)
  BY StateFacts DEF MovesTo, ReaderStates
<1>2. /\ pc \in Looking \ {"file"} /\ pc \notin {"pread", "auth"} /\ ids \in Maps(Keys, Nat)
      /\ DOMAIN ids = {Key(r)} /\ rd[r].pc \in Looking
  BY StateFacts DEF Looking, Reading
<1> HIDE DEF pc, ids
<1> QED BY <1>1, <1>2, LooksOn

\* The pread of check_page_in_database_by_hash: the file has the page, or nothing,
\* or the row was reused, which a checksum tells of whole pages.
LEMMA FileReads ==
  ASSUME IInv, NEW r \in Readers, ReadFile(r)
  PROVE  OwnRead(r)
<1>0. UNCHANGED <<fetch, ghost, get>> /\ rd[r].pc = "pread" /\ rd[r].pc \in Looking
        /\ get[r] = "no" /\ user'.reads = user.reads
  BY StateFacts DEF ReadFile, CountError, Looking, Reading, IInv, Types, TypeUser
<1>k. Key(r) \in Keys
  BY <1>0, KeyFacts, StateFacts DEF IInv
<1>1. CASE rd' = [rd EXCEPT ![r].pc = "mark"] /\ UNCHANGED waits
  BY <1>0, <1>1, MarksOn
<1> DEFINE i == rd[r].ids[Key(r)]
<1>2. CASE Has(r, At(i)) /\ i \in DOMAIN db.file /\ ~(Op(r).full /\ At(i) # Key(r))
  <2>1. r \in ghost.reused \/ At(i) = Key(r) \/ Cut(i)
    BY <1>0, <1>2, StateFacts DEF Given, Finds
  <2>2. At(i) \in Nat
    BY <1>2, StateFacts DEF At, TypeDb
  <2>3. r \in ghost.reused \/ RightData(r, Key(r), At(i))
    BY <1>2, <2>1 DEF RightData, ReadsZeros, Cut
  <2> QED BY <1>0, <1>2, <2>2, <2>3, HasReads
<1>3. \/ rd' = [rd EXCEPT ![r].pc = "mark"] /\ UNCHANGED waits
      \/ Has(r, At(i)) /\ i \in DOMAIN db.file /\ ~(Op(r).full /\ At(i) # Key(r))
  BY DEF ReadFile
<1> QED BY <1>1, <1>2, <1>3

\* check_page_in_database_by_hash_and_cache has the page of the row it locked.
LEMMA AuthReads ==
  ASSUME IInv, NEW r \in Readers, check_page_in_database_by_hash_and_cache(r)
  PROVE  OwnRead(r)
<1>0. UNCHANGED <<user, fetch>> /\ ghost'.reused = ghost.reused /\ ghost'.cut = ghost.cut
        /\ rd[r].pc = "auth" /\ rd[r].pc \in Looking /\ get'[r] = "no"
  <2>1. r \in Getters /\ get \in [Getters -> GetStates]
    BY Apart, TypesOfControl
  <2> QED BY <2>1 DEF check_page_in_database_by_hash_and_cache, Looking, IntoHash,
             psync_pagecache_return_free_page
<1>k. Key(r) \in Keys
  BY <1>0, KeyFacts, StateFacts DEF IInv
<1>1. CASE rd' = [rd EXCEPT ![r].pc = "mark"] /\ UNCHANGED waits
  BY <1>0, <1>1, MarksOn
<1>2. CASE Has(r, Key(r))
  <2>1. PICK d \in Nat : d = Key(r)
    BY <1>k DEF Keys
  <2> QED BY <1>0, <1>2, <2>1, HasReads DEF RightData
<1> QED BY <1>0, <1>1, <1>2 DEF check_page_in_database_by_hash_and_cache

\* mark_page_free: the reader waits for the page like one that found no row.
LEMMA MarkReads ==
  ASSUME IInv, NEW r \in Readers, mark_page_free(r)
  PROVE  OwnRead(r)
<1>1. UNCHANGED <<user, fetch, get>> /\ rd[r].pc = "mark" /\ rd[r].pc \in Looking
        /\ get[r] = "no" /\ add_page_waiter(r)
  BY StateFacts DEF mark_page_free, Looking, Reading
<1>2. ghost'.reused = ghost.reused /\ ghost'.cut = ghost.cut
  <2>1. PICK W : ghost' = Known(W)
    BY DEF mark_page_free
  <2> QED BY <2>1 DEF Known, IInv, Types, TypeGhost
<1> QED BY <1>1, <1>2, AwaitsReads

\* A reader that has gone over its pages keeps what it has.
LEMMA PassesOn ==
  ASSUME IInv, NEW r \in Readers, rd[r].pc \in Passed, NEW pc \in Passed,
         NEW ids \in Maps(Keys, Nat), NEW todo \in Seq(Keys),
         MovesTo(r, pc, ids, rd[r].got, todo), UNCHANGED <<user, ghost>>, get'[r] = "no",
         pc = "wait" => todo = <<>>
  PROVE  TypeRd' /\ ReadsWell(r)' /\ rd'[r].pending = rd[r].pending
<1> DEFINE got == rd[r].got
<1>1. pc \in Looking \cup Passed /\ pc \notin Looking /\ pc \notin {"file", "pread",
        "auth", "mark"} /\ rd[r].pc # "idle"
  BY DEF Looking, Passed
<1>2. \/ rd[r].err
      \/ \A j \in DOMAIN Op(r).keys :
            pc \in Passed \/ j < rd[r].i => Op(r).keys[j] \in DOMAIN got \cup rd[r].pending
  BY <1>1, StateFacts DEF Complete, Got
<1>3. r \in ghost.reused \/ \A k \in DOMAIN got : RightData(r, k, got[k])
  BY StateFacts DEF Given, Right, RightData
<1>4. got \in Maps(Keys, Nat) /\ MovesTo(r, pc, ids, got, todo) /\ user.reads[r] # <<>>
  BY <1>1, StateFacts DEF Reading
<1> HIDE DEF got
<1> QED BY <1>1, <1>2, <1>3, <1>4, MovedTo

\* psync_pagecache_read_unmodified_readahead without pages to read ahead has what
\* the reader noted asked for.
LEMMA AheadReads ==
  ASSUME IInv, NEW r \in Readers, ReadAhead(r)
  PROVE  OwnRead(r)
<1>0. UNCHANGED <<user, ghost, waits>> /\ rd[r].pc = "ahead" /\ rd[r].pc \in Passed
        /\ get[r] = "no" /\ user.reads[r] # <<>>
  BY StateFacts DEF ReadAhead, Passed, Reading
<1>1. CASE Op(r).ahead = {}
  <2> DEFINE pc == "wait" ids == rd[r].ids todo == <<>> ks == rd[r].todo
  <2>1. rd' = [rd EXCEPT ![r].pc = pc, ![r].todo = todo] /\ Requests(ks)
    BY <1>1 DEF ReadAhead
  <2>2. MovesTo(r, pc, ids, rd[r].got, todo)
    BY <2>1, StateFacts DEF MovesTo, ReaderStates
  <2>3. pc \in Passed /\ ids \in Maps(Keys, Nat) /\ ks \in Seq(Keys)
    BY StateFacts DEF Passed
  <2>t. todo \in Seq(Keys) /\ (pc = "wait" => todo = <<>>)
    <3> DEFINE K == Keys
    <3> HIDE DEF K
    <3>1. <<>> \in Seq(K)
      OBVIOUS
    <3> QED BY <3>1 DEF K
  <2>k. ks = rd[r].todo /\ todo = <<>>
    OBVIOUS
  <2> HIDE DEF pc, ids, todo, ks
  <2>4. get'[r] = "no"
    BY <1>0, <2>1, RequestsOfOthers
  <2>5. TypeRd' /\ ReadsWell(r)' /\ rd'[r].pending = rd[r].pending
    BY <1>0, <2>2, <2>3, <2>4, <2>t, PassesOn
  <2>6. rd'[r].todo = todo
    BY <2>2, MovedTodo
  <2>7. TypeWaits'
    BY <1>0 DEF TypeWaits, IInv, Types
  <2>8. Range(rd[r].todo) \cup (DOMAIN waits' \ DOMAIN waits) \subseteq Range(ks)
    BY <1>0, <2>k
  <2>9. Sends(r)
    BY <1>0, <2>1, <2>3, <2>5, <2>6, <2>7, <2>8, <2>k DEF Sends
  <2> QED BY <2>5, <2>9 DEF OwnRead
<1>2. CASE Op(r).ahead # {}
  <2> DEFINE pc == "more" ids == Rows(Op(r).ahead) todo == rd[r].todo
  <2>1. rd' = [rd EXCEPT ![r].pc = pc, ![r].ids = ids] /\ UNCHANGED <<fetch, get>>
    BY <1>2 DEF ReadAhead
  <2>2. MovesTo(r, pc, ids, rd[r].got, todo)
    BY <2>1, StateFacts DEF MovesTo, ReaderStates
  <2>3. Op(r).ahead \in SUBSET Keys
    BY <1>0, OpFacts DEF Reads, IInv
  <2>4. pc \in Passed /\ ids \in Maps(Keys, Nat) /\ todo \in Seq(Keys) /\ pc # "wait"
    BY <2>3, StateFacts, RowsFacts DEF Passed
  <2> HIDE DEF pc, ids, todo
  <2>5. TypeRd' /\ ReadsWell(r)' /\ rd'[r].pending = rd[r].pending
    BY <1>0, <2>1, <2>2, <2>4, PassesOn
  <2>6. rd'[r].todo = todo
    BY <2>2, MovedTodo
  <2> QED BY <1>0, <2>1, <2>5, <2>6 DEF OwnRead, Quiet, todo
<1> QED BY <1>1, <1>2

\* Pages to read ahead are waited for by nobody.
LEMMA WaitedForNobody ==
  ASSUME TypeWaits, NEW S \in SUBSET Keys
  PROVE  LET w == WaitedFor(waits, S, {})
         IN  /\ w \in Maps(Keys, SUBSET Readers) /\ DOMAIN w = DOMAIN waits \cup S
             /\ \A k \in DOMAIN waits : w[k] = waits[k]
             /\ \A k \in DOMAIN w \ DOMAIN waits : w[k] = {}
<1> DEFINE w == WaitedFor(waits, S, {})
<1>1. PICK D \in SUBSET Keys : waits \in [D -> SUBSET Readers]
  BY DEF TypeWaits, Maps
<1>2. DOMAIN w = DOMAIN waits \cup S
        /\ \A k \in DOMAIN w : w[k] = IF k \in DOMAIN waits THEN waits[k] ELSE {}
  BY DEF WaitedFor
<1>3. w \in [D \cup S -> SUBSET Readers]
  BY <1>1, <1>2 DEF WaitedFor
<1>4. D \cup S \in SUBSET Keys
  OBVIOUS
<1> HIDE DEF w
<1>5. w \in Maps(Keys, SUBSET Readers)
  BY <1>3, <1>4 DEF Maps
<1> QED BY <1>2, <1>5 DEF w

\* psync_pagecache_read_unmodified_readahead asks for what was noted and for the
\* pages ahead that nobody asked for.
LEMMA MoreReads ==
  ASSUME IInv, NEW r \in Readers, ReadAheadMore(r)
  PROVE  OwnRead(r)
<1>0. UNCHANGED <<user, ghost>> /\ rd[r].pc = "more" /\ rd[r].pc \in Passed
        /\ get[r] = "no" /\ user.reads[r] # <<>>
  BY StateFacts DEF ReadAheadMore, Passed, Reading
<1> DEFINE more == {k \in Op(r).ahead :
                    k \notin DOMAIN rd[r].ids \cup DOMAIN waits /\ InMemory(k) = {}}
<1>1. PICK new \in SetToSeqs(more) :
            /\ waits' = WaitedFor(waits, Range(new), {})
            /\ Requests(rd[r].todo \o new)
            /\ rd' = [rd EXCEPT ![r].pc = "wait", ![r].todo = <<>>, ![r].ids = <<>>]
  BY DEF ReadAheadMore
<1>2. new \in Seq(Keys)
  <2>1. IsFiniteSet(Op(r).ahead) /\ Op(r).ahead \subseteq Keys
    BY <1>0, OpFacts DEF Reads, IInv
  <2>2. more \subseteq Op(r).ahead
    OBVIOUS
  <2> HIDE DEF more
  <2>3. Cardinality(more) \in Nat
    BY <2>1, <2>2, FS_Subset, FS_CardinalityType
  <2>4. new \in [1..Cardinality(more) -> Keys]
    BY <2>1, <2>2 DEF SetToSeqs
  <2> QED BY <2>3, <2>4
<1> HIDE DEF more
<1> DEFINE pc == "wait" ids == <<>> todo == <<>> ks == rd[r].todo \o new
<1>3. rd' = [rd EXCEPT ![r].pc = pc, ![r].todo = todo, ![r].ids = ids] /\ Requests(ks)
  BY <1>1
<1>4. MovesTo(r, pc, ids, rd[r].got, todo)
  BY <1>3, StateFacts DEF MovesTo, ReaderStates
<1>5. pc \in Passed /\ (pc = "wait" => todo = <<>>)
  BY DEF Passed
<1>6. /\ ks \in Seq(Keys) /\ todo \in Seq(Keys) /\ Range(rd[r].todo)
         \cup Range(new) \subseteq Range(ks)
      /\ Range(new) \in SUBSET Keys
  <2> DEFINE K == Keys old == rd[r].todo
  <2>1. old \in Seq(K) /\ new \in Seq(K)
    BY <1>2, StateFacts
  <2> HIDE DEF K, old
  <2>2. old \o new \in Seq(K) /\ <<>> \in Seq(K) /\ Range(new) \in SUBSET K
    BY <2>1 DEF Range
  <2>3. ASSUME NEW k \in Range(old) PROVE k \in Range(old \o new)
    <3>1. PICK j \in DOMAIN old : k = old[j]
      BY DEF Range
    <3>2. j \in DOMAIN (old \o new) /\ (old \o new)[j] = k
      BY <2>1, <3>1
    <3> QED BY <3>2 DEF Range
  <2>4. ASSUME NEW k \in Range(new) PROVE k \in Range(old \o new)
    <3>1. PICK j \in DOMAIN new : k = new[j]
      BY DEF Range
    <3>2. Len(old) + j \in DOMAIN (old \o new) /\ (old \o new)[Len(old) + j] = k
      BY <2>1, <3>1
    <3> QED BY <3>2 DEF Range
  <2> QED BY <2>2, <2>3, <2>4 DEF K, old
<1>7. ids \in Maps(Keys, Nat)
  BY EmptyMap
<1>t. todo = <<>>
  OBVIOUS
<1> HIDE DEF pc, ids, todo, ks
<1>8. get'[r] = "no"
  BY <1>0, <1>3, RequestsOfOthers
<1>9. TypeRd' /\ ReadsWell(r)' /\ rd'[r].pending = rd[r].pending
  BY <1>0, <1>4, <1>5, <1>6, <1>7, <1>8, PassesOn
<1>10. rd'[r].todo = todo
  BY <1>4, MovedTodo
<1> DEFINE S == Range(new)
<1>11. S \in SUBSET Keys /\ waits' = WaitedFor(waits, S, {})
  BY <1>1, <1>6
<1>12. Range(rd[r].todo) \cup S \subseteq Range(ks)
  BY <1>6
<1> HIDE DEF S
<1>13. /\ waits' \in Maps(Keys, SUBSET Readers) /\ DOMAIN waits' = DOMAIN waits \cup S
       /\ \A k \in DOMAIN waits : waits'[k] = waits[k]
       /\ \A k \in DOMAIN waits' \ DOMAIN waits : waits'[k] = {}
  BY <1>11, WaitedForNobody DEF IInv, Types
<1>14. Sends(r)
  BY <1>3, <1>6, <1>9, <1>10, <1>12, <1>13, <1>t DEF Sends, TypeWaits
<1> QED BY <1>9, <1>14 DEF OwnRead

\* wait_waiter returns, and the reader is as before.
LEMMA WaiterEnds ==
  ASSUME IInv, NEW r \in Readers, wait_waiter(r)
  PROVE  OwnRead(r)
<1>0. /\ UNCHANGED <<waits, fetch, get>> /\ rd[r].pc = "wait" /\ rd[r].pending = {}
         /\ rd[r].todo = <<>>
      /\ get[r] = "no" /\ rd' = [rd EXCEPT ![r] = NotReading]
  BY StateFacts DEF wait_waiter, Reading
<1> DEFINE e == <<>> x == NotReading
<1>1. e \in Maps(Keys, Nat)
  BY EmptyMap
<1>2. e \in Seq(Keys)
  <2> DEFINE K == Keys
  <2> HIDE DEF K
  <2>1. <<>> \in Seq(K)
    OBVIOUS
  <2> QED BY <2>1 DEF K
<1>3. DOMAIN e = {} /\ e = <<>>
  OBVIOUS
<1>4. x = [pc |-> "idle", i |-> 1, ids |-> e, todo |-> e, pending |-> {}, got |-> e,
        err |-> FALSE]
  BY DEF NotReading
<1> HIDE DEF e, x
<1>5. x \in ReaderStates
  BY <1>1, <1>2, <1>4 DEF ReaderStates
<1>6. rd' = [rd EXCEPT ![r] = x] /\ rd \in [Readers -> ReaderStates]
  BY <1>0, TypesOfControl DEF x
<1>7. TypeRd' /\ rd'[r] = x
  BY <1>5, <1>6 DEF TypeRd
<1>8. Reading(r)'
  BY <1>0, <1>4, <1>7 DEF Reading, Looking, x
<1>9. Complete(r)'
  BY <1>4, <1>7 DEF Complete
<1>10. Given(r)'
  BY <1>3, <1>4, <1>7 DEF Given
<1>11. Quiet(r)
  BY <1>0, <1>3, <1>4, <1>7 DEF Quiet
<1> QED BY <1>7, <1>8, <1>9, <1>10, <1>11 DEF OwnRead, ReadsWell

\* A page of memory for an authenticator changes nothing of what was read.
LEMMA GetsPage ==
  ASSUME IInv, NEW r \in Readers, psync_pagecache_get_free_page(r), [Next]_vars
  PROVE  OwnRead(r)
<1>1. GetMove(r)
  BY GetMoves, Apart DEF IInv
<1>2. UNCHANGED <<user, rd, waits, fetch>> /\ get[r] # "no"
  BY <1>1 DEF GetMove
<1>3. Unmoved(r) /\ ~wait_waiter(r)
  BY <1>2, StateFacts DEF Unmoved, Reading, wait_waiter
<1>4. TypeRd'
  BY <1>2 DEF TypeRd, IInv, Types
<1>5. Safe(r)
  BY <1>3, ReadsSafe
<1>6. ReadsWell(r)'
  BY <1>3, <1>5, UnmovedReads DEF ReadsWell
<1>7. Quiet(r)
  BY <1>2 DEF Quiet
<1> QED BY <1>4, <1>6, <1>7 DEF OwnRead

\* Every step of ppagecache_read_unmod_locked reads well, and either is quiet,
\* waits for a page or has its list asked for.
LEMMA OwnReads ==
  ASSUME IInv, NEW r \in Readers, Read(r), [Next]_vars PROVE OwnRead(r)
BY BulkReads, MemoryReads, RowReads, FileReads, AuthReads, MarkReads, AheadReads,
   MoreReads, WaiterEnds, GetsPage DEF Read

----------------------------------------------------------------------------
(* Who waits for a page, and who asks for it.                             *)

\* What holds of those that wait: each is told, and each page they wait for is
\* asked for.
Waiters == TypeWaits /\ Waits /\ Served

\* A step that changes neither who waits nor who asks.
LEMMA QuietWaits ==
  ASSUME IInv, UNCHANGED waits, \A q \in Readers : rd'[q].pending = rd[q].pending
         /\ Range(rd[q].todo) \subseteq Range(rd'[q].todo),
         \A f \in Fetchers, k \in DOMAIN waits : StillAsks(f, k) => StillAsks(f, k)'
  PROVE  Waiters'
<1>1. TypeWaits' /\ Waits'
  BY DEF IInv, Types, TypeWaits, Waits
<1>2. Served'
  BY DEF IInv, Served
<1> QED BY <1>1, <1>2 DEF Waiters

\* add_page_waiter: a page that is waited for is in the list of the reader who was
\* first.
LEMMA AwaitsWaits ==
  ASSUME IInv, NEW r \in Readers, Awaits(r), \A q \in Readers \ {r} : rd'[q] = rd[q]
  PROVE  Waiters'
<1> DEFINE k == Key(r)
<1>0. PICK D \in SUBSET Keys : waits \in [D -> SUBSET Readers]
  BY DEF IInv, Types, TypeWaits, Maps
<1>1. DOMAIN waits' = DOMAIN waits \cup {k}
      /\ \A x \in DOMAIN waits' :
            waits'[x] = (IF x \in DOMAIN waits THEN waits[x] ELSE {})
                        \cup (IF x = k THEN {r} ELSE {})
  BY DEF Awaits, WaitedFor
<1>2. TypeWaits'
  <2>1. D \cup {k} \in SUBSET Keys
    BY DEF Awaits
  <2>2. waits' \in [D \cup {k} -> SUBSET Readers]
    BY <1>0, <1>1 DEF Awaits, WaitedFor
  <2> QED BY <2>1, <2>2 DEF TypeWaits, Maps
<1>3. Waits'
  <2> SUFFICES ASSUME NEW q \in Readers, NEW x \in Keys
               PROVE  x \in rd'[q].pending <=> x \in DOMAIN waits' /\ q \in waits'[x]
    BY DEF Waits
  <2>1. x \in rd[q].pending <=> x \in DOMAIN waits /\ q \in waits[x]
    BY DEF IInv, Waits
  <2>2. CASE q = r
    BY <1>1, <2>1, <2>2 DEF Awaits
  <2>3. CASE q # r
    BY <1>1, <2>1, <2>3
  <2> QED BY <2>2, <2>3
<1>4. Served'
  <2> SUFFICES ASSUME NEW x \in DOMAIN waits'
               PROVE  (\E f \in Fetchers : StillAsks(f, x)')
                      \/ \E q \in Readers : x \in Range(rd'[q].todo)
    BY DEF Served
  <2>t. Range(rd[r].todo) \subseteq Range(rd'[r].todo) /\ (k \notin DOMAIN waits
          => k \in Range(rd'[r].todo))
    <3>1. CASE k \in DOMAIN waits
      BY <3>1 DEF Awaits
    <3>2. CASE k \notin DOMAIN waits
      <4> DEFINE K == Keys old == rd[r].todo new == Append(old, k)
      <4>1. old \in Seq(K) /\ k \in K /\ rd'[r].todo = new
        BY <3>2, StateFacts DEF Awaits
      <4> HIDE DEF K, old, k
      <4>2. Len(new) = Len(old) + 1 /\ DOMAIN new = 1..Len(new) /\ new[Len(new)] = k
              /\ \A j \in DOMAIN old : j \in DOMAIN new /\ new[j] = old[j]
        BY <4>1
      <4>3. Len(new) \in DOMAIN new
        BY <4>1, <4>2
      <4> HIDE DEF new
      <4>4. k \in Range(new) /\ Range(old) \subseteq Range(new)
        BY <4>2, <4>3 DEF Range
      <4> QED BY <4>1, <4>4 DEF old
    <3> QED BY <3>1, <3>2
  <2>1. CASE x \in DOMAIN waits
    <3>1. (\E f \in Fetchers : StillAsks(f, x)) \/ \E q \in Readers : x \in Range(rd[q].todo)
      BY <2>1 DEF IInv, Served
    <3>2. ASSUME NEW f \in Fetchers, StillAsks(f, x) PROVE StillAsks(f, x)'
      BY <3>2 DEF StillAsks, Awaits
    <3>3. ASSUME NEW q \in Readers, x \in Range(rd[q].todo) PROVE x \in Range(rd'[q].todo)
      BY <2>t, <3>3
    <3> QED BY <3>1, <3>2, <3>3
  <2>2. CASE x \notin DOMAIN waits
    <3>1. x = k
      BY <1>1, <2>2
    <3> QED BY <2>2, <2>t, <3>1
  <2> QED BY <2>1, <2>2
<1> QED BY <1>2, <1>3, <1>4 DEF Waiters

\* psync_pagecache_start_requests asks for all of its list, and takes nothing from
\* another request.
LEMMA RequestsAsk ==
  ASSUME IInv, NEW ks \in Seq(Keys), Requests(ks)
  PROVE  /\ \A f \in Fetchers : \A k : StillAsks(f, k) => StillAsks(f, k)'
         /\ \A k \in Range(ks) : \E f \in Fetchers : StillAsks(f, k)'
<1>1. CASE ks = <<>>
  <2>1. UNCHANGED fetch
    BY <1>1 DEF Requests
  <2>2. Range(ks) = {}
    BY <1>1 DEF Range
  <2> QED BY <2>1, <2>2 DEF StillAsks
<1>2. CASE ks # <<>>
  <2> DEFINE q == [pc |-> "page", keys |-> ks, k |-> 1]
  <2>1. PICK f \in Fetchers : fetch[f].pc = "off" /\ fetch' = [fetch EXCEPT ![f] = q]
    <3> DEFINE f == CHOOSE x \in Unused : TRUE
    <3>1. f \in Unused /\ fetch' = [fetch EXCEPT ![f] = q]
      BY <1>2 DEF Requests
    <3> HIDE DEF f
    <3> QED BY <3>1 DEF Unused
  <2>2. q.pc = "page" /\ q.keys = ks /\ q.k = 1
    OBVIOUS
  <2> HIDE DEF q
  <2>3. fetch'[f] = q /\ \A g \in Fetchers \ {f} : fetch'[g] = fetch[g]
    BY <2>1, TypesOfControl
  <2>4. ASSUME NEW g \in Fetchers, NEW k, StillAsks(g, k) PROVE StillAsks(g, k)'
    <3>1. g # f
      BY <2>1, <2>4 DEF StillAsks
    <3> QED BY <2>3, <2>4, <3>1 DEF StillAsks
  <2>5. ASSUME NEW k \in Range(ks) PROVE StillAsks(f, k)'
    <3>1. PICK j \in DOMAIN ks : ks[j] = k
      BY DEF Range
    <3>2. j >= 1
      OBVIOUS
    <3>3. fetch'[f].keys = ks /\ fetch'[f].pc = "page" /\ fetch'[f].k = 1
      BY <2>2, <2>3
    <3> QED BY <3>1, <3>2, <3>3 DEF StillAsks
  <2> QED BY <2>1, <2>4, <2>5
<1> QED BY <1>1, <1>2

\* What leaves a reader's list is in a request.
LEMMA SendsWaits ==
  ASSUME IInv, NEW r \in Readers, Sends(r), \A q \in Readers \ {r} : rd'[q] = rd[q]
  PROVE  Waiters'
<1>1. PICK ks \in Seq(Keys) : Requests(ks) /\ Range(rd[r].todo)
           \cup (DOMAIN waits' \ DOMAIN waits) \subseteq Range(ks)
  BY DEF Sends
<1>2. Waits'
  <2> SUFFICES ASSUME NEW q \in Readers, NEW x \in Keys
               PROVE  x \in rd'[q].pending <=> x \in DOMAIN waits' /\ q \in waits'[x]
    BY DEF Waits
  <2>1. x \in rd[q].pending <=> x \in DOMAIN waits /\ q \in waits[x]
    BY DEF IInv, Waits
  <2>2. rd'[q].pending = rd[q].pending
    BY DEF Sends
  <2> QED BY <2>1, <2>2 DEF Sends
<1>3. Served'
  <2> SUFFICES ASSUME NEW x \in DOMAIN waits'
               PROVE  (\E f \in Fetchers : StillAsks(f, x)')
                      \/ \E q \in Readers : x \in Range(rd'[q].todo)
    BY DEF Served
  <2>1. CASE x \in Range(ks)
    BY <1>1, <2>1, RequestsAsk
  <2>2. CASE x \notin Range(ks)
    <3>1. (\E f \in Fetchers : StillAsks(f, x)) \/ \E q \in Readers : x \in Range(rd[q].todo)
      BY <1>1, <2>2 DEF IInv, Served
    <3>2. ASSUME NEW q \in Readers, x \in Range(rd[q].todo) PROVE x \in Range(rd'[q].todo)
      BY <1>1, <2>2, <3>2
    <3> QED BY <1>1, <3>1, <3>2, RequestsAsk
  <2> QED BY <2>1, <2>2
<1> QED BY <1>2, <1>3 DEF Waiters, Sends

\* What holds of all readers together.
ReadersKept == TypeRd' /\ ReadingAll' /\ Waiters'

\* A reader that is left alone reads well.
LEMMA UnmovedWell ==
  ASSUME IInv, [Next]_vars, NEW q \in Readers, Unmoved(q)
  PROVE  ReadsWell(q)'
<1>1. ~wait_waiter(q)
  <2>1. ASSUME wait_waiter(q) PROVE FALSE
    <3>1. rd[q].pc = "wait" /\ rd'[q].pc = "idle"
      BY <2>1, TypesOfControl DEF wait_waiter, NotReading
    <3> QED BY <3>1 DEF Unmoved
  <2> QED BY <2>1
<1>2. Safe(q)
  BY <1>1, ReadsSafe
<1> QED BY <1>2, UnmovedReads DEF ReadsWell

\* A step of one reader keeps them all.
LEMMA ReadsKept ==
  ASSUME IInv, [Next]_vars, NEW r \in Readers, Read(r)
  PROVE  ReadersKept
<1>0. OwnRead(r)
  BY OwnReads
<1>1. ASSUME NEW q \in Readers, q # r PROVE ReadsWell(q)' /\ rd'[q] = rd[q]
  <2>1. Unmoved(q)
    BY <1>1, ReaderAlone
  <2> QED BY <2>1, UnmovedWell DEF Unmoved
<1>2. TypeRd' /\ ReadingAll'
  BY <1>0, <1>1 DEF OwnRead, ReadingAll, ReadsWell
<1>3. CASE Quiet(r)
  <2>1. \A q \in Readers : rd'[q].pending = rd[q].pending
          /\ Range(rd[q].todo) \subseteq Range(rd'[q].todo)
    BY <1>1, <1>3 DEF Quiet
  <2>2. UNCHANGED waits /\ \A f \in Fetchers, k \in DOMAIN waits : StillAsks(f, k)
          => StillAsks(f, k)'
    BY <1>3 DEF Quiet, StillAsks
  <2> QED BY <1>2, <2>1, <2>2, QuietWaits DEF ReadersKept
<1>4. CASE Awaits(r)
  BY <1>1, <1>2, <1>4, AwaitsWaits DEF ReadersKept
<1>5. CASE Sends(r)
  BY <1>1, <1>2, <1>5, SendsWaits DEF ReadersKept
<1> QED BY <1>0, <1>3, <1>4, <1>5 DEF OwnRead

\* A step that tells nobody leaves every page asked for: a request that starts
\* again, or fails, forgets none.
LEMMA StillAsked ==
  ASSUME IInv, [Next]_vars, ~Told, ~\E r \in Readers : Read(r)
  PROVE  /\ UNCHANGED <<rd, waits>>
         /\ \A f \in Fetchers : \A k : StillAsks(f, k) => StillAsks(f, k)'
<1>r. UNCHANGED <<rd, waits>>
  BY DEF Next, psync_pagecache_get_free_page,
     Fetch, FetchRefused, FetchBreaks, FetchHashes, Told,
     Add, AddStarts, AddLooks, AddHashes, FlushTimer, Clean, CleanStarts, CleanFrees, vars,
     Flush, FlushStarts, FlushChecks, FlushWrites, FlushFails, FlushCommits, Shrink, ShrinkTakes,
       ShrinkLooks, ShrinkAdds
<1>s. ASSUME UNCHANGED fetch, NEW f \in Fetchers, NEW k,
             StillAsks(f, k) PROVE StillAsks(f, k)'
  BY <1>s DEF StillAsks
<1>1. ASSUME NEW g \in Fetchers, FetchRefused(g) \/ FetchBreaks(g) \/ FetchHashes(g),
             NEW f \in Fetchers, NEW k, StillAsks(f, k)
      PROVE  StillAsks(f, k)'
  <2> DEFINE q == fetch[g]
  <2>0. q \in Requested /\ q.keys \in Seq(Keys) /\ q.k \in Nat \ {0} /\ (q.pc # "off"
          => q.k \in DOMAIN q.keys)
    BY TypesOfControl DEF Requested, Control, Asking
  <2>1. CASE f # g
    <3>1. fetch'[f] = fetch[f]
      BY <1>1, <2>1, TypesOfControl DEF FetchRefused, FetchBreaks, FetchHashes, Ends,
         WantsPage
    <3> QED BY <1>1, <3>1 DEF StillAsks
  <2>2. CASE f = g
    <3>1. PICK j \in DOMAIN q.keys :
             /\ q.keys[j] = k
             /\ \/ q.pc = "page" /\ j >= q.k
                \/ q.pc = "hash" /\ j > q.k
                \/ q.pc = "error"
      BY <1>1, <2>2 DEF StillAsks
    <3>2. CASE Ends(g)
      <4>1. fetch'[g].keys = q.keys /\ fetch'[g].pc = "error"
        BY <3>2, TypesOfControl DEF Ends, Requested
      <4> QED BY <2>2, <3>1, <4>1 DEF StillAsks
    <3>3. CASE WantsPage(g, 1)
      <4>1. fetch'[g].keys = q.keys /\ fetch'[g].pc = "page" /\ fetch'[g].k = 1 /\ j >= 1
        BY <2>0, <3>3, TypesOfControl DEF WantsPage, Requested
      <4> QED BY <2>2, <3>1, <4>1 DEF StillAsks
    <3>4. CASE FetchHashes(g)
      <4>1. q.pc = "hash" /\ j > q.k /\ j <= Len(q.keys)
        BY <2>0, <3>1, <3>4 DEF FetchHashes
      <4>2. WantsPage(g, q.k + 1)
        BY <2>0, <3>4, <4>1 DEF FetchHashes
      <4>3. fetch'[g].keys = q.keys /\ fetch'[g].pc = "page" /\ fetch'[g].k = q.k + 1
              /\ j >= q.k + 1
        BY <2>0, <4>1, <4>2, TypesOfControl DEF WantsPage, Requested
      <4> QED BY <2>2, <3>1, <4>3 DEF StillAsks
    <3> QED BY <1>1, <3>2, <3>3, <3>4 DEF FetchRefused, FetchBreaks
  <2> QED BY <2>1, <2>2
<1>2. (\E g \in Fetchers : FetchRefused(g) \/ FetchBreaks(g) \/ FetchHashes(g)) \/ UNCHANGED fetch
  BY DEF Next, psync_pagecache_get_free_page,
     Fetch, Told,
     Add, AddStarts, AddLooks, AddHashes, FlushTimer, Clean, CleanStarts, CleanFrees, vars,
     Flush, FlushStarts, FlushChecks, FlushWrites, FlushFails, FlushCommits, Shrink, ShrinkTakes,
       ShrinkLooks, ShrinkAdds
<1> QED BY <1>r, <1>s, <1>1, <1>2

\* A step of neither a reader nor a request that tells them keeps them.
LEMMA OthersKept ==
  ASSUME IInv, [Next]_vars, ~Told, ~\E r \in Readers : Read(r)
  PROVE  ReadersKept
<1>1. TypeRd'
  BY StillAsked DEF TypeRd, IInv, Types
<1>2. ReadingAll'
  BY OthersUnmoved, UnmovedWell DEF ReadingAll, ReadsWell
<1>3. Waiters'
  BY StillAsked, QuietWaits
<1> QED BY <1>1, <1>2, <1>3 DEF ReadersKept

\* A reader that is told has the page, or the error, and reads well.
LEMMA Hears ==
  ASSUME IInv, [Next]_vars, NEW r \in Readers, NEW x \in ReaderStates, rd'[r] = x,
         user'.reads[r] = user.reads[r], ghost' = ghost, db' = db, get'[r] = get[r],
         x.pc = rd[r].pc, x.i = rd[r].i, x.ids = rd[r].ids, x.todo = rd[r].todo,
         rd[r].pc # "idle",
         \/ x.err
         \/ x.err = rd[r].err /\ DOMAIN rd[r].got
            \cup rd[r].pending \subseteq DOMAIN x.got \cup x.pending,
         \A k \in DOMAIN x.got : x.got[k] = k \/ (k \in DOMAIN rd[r].got
           /\ x.got[k] = rd[r].got[k])
  PROVE  ReadsWell(r)'
<1> USE StateFacts
<1>1. Op(r)' = Op(r) /\ Key(r)' = Key(r)
  BY DEF Op, Key
<1>2. Reading(r)'
  BY <1>1 DEF Reading
<1>3. Complete(r)'
  BY <1>1 DEF Complete, Got
<1>4. Given(r)'
  <2>1. \A k \in DOMAIN rd[r].got : Right(r, k) => rd[r].got[k] = k \/ (rd[r].got[k] = 0 /\ ReadsZeros(r))
    BY DEF Right
  <2>2. ReadsZeros(r)' = ReadsZeros(r)
    BY <1>1 DEF ReadsZeros
  <2>3. (\A k \in DOMAIN rd[r].got : Right(r, k)) => \A k \in DOMAIN x.got : Right(r, k)'
    BY <2>1, <2>2 DEF Right
  <2>4. \A i, k : Finds(i, k)' = Finds(i, k)
    BY DEF Finds, Cut, At
  <2> QED BY <1>1, <2>3, <2>4 DEF Given
<1> QED BY <1>2, <1>3, <1>4 DEF ReadsWell

\* Who is told does not wait for these pages any more, and the others are asked
\* for as before.
LEMMA ToldWaits ==
  ASSUME IInv, NEW K, waits' = Without(waits, K),
         \A q \in Readers : rd'[q].pending = rd[q].pending \ K /\ rd'[q].todo = rd[q].todo,
         \A g \in Fetchers, k \in DOMAIN waits \ K : StillAsks(g, k) => StillAsks(g, k)'
  PROVE  Waiters'
<1>0. PICK D \in SUBSET Keys : waits \in [D -> SUBSET Readers]
  BY DEF IInv, Types, TypeWaits, Maps
<1>1. DOMAIN waits' = DOMAIN waits \ K /\ \A k \in DOMAIN waits' : waits'[k] = waits[k]
  BY DEF Without
<1>2. TypeWaits'
  <2>1. D \ K \in SUBSET Keys /\ waits' \in [D \ K -> SUBSET Readers]
    BY <1>0 DEF Without
  <2> QED BY <2>1 DEF TypeWaits, Maps
<1>3. Waits'
  BY <1>1 DEF IInv, Waits
<1>4. Served'
  BY <1>1 DEF IInv, Served
<1> QED BY <1>2, <1>3, <1>4 DEF Waiters

\* The pages of K that r waits for are those it is registered for.
LEMMA WaitingFor ==
  ASSUME IInv, NEW r \in Readers, NEW K \in SUBSET Keys
  PROVE  /\ Waiting(r, K) = K \cap rd[r].pending
         /\ Waiting(r, K) # {} => rd[r].pc # "idle"
<1>1. \A k \in Keys : k \in rd[r].pending <=> k \in DOMAIN waits /\ r \in waits[k]
  BY DEF IInv, Waits
<1>2. Waiting(r, K) = K \cap rd[r].pending
  BY <1>1 DEF Waiting
<1>3. rd[r].pc = "idle" => rd[r].pending = {}
  BY StateFacts DEF Reading, NotReading
<1> QED BY <1>2, <1>3

\* psync_pagecache_send_page_wait_page: all that wait for the page have it, and
\* the request goes on to the pages after it.
LEMMA ArrivesKept ==
  ASSUME IInv, [Next]_vars, NEW f \in Fetchers, FetchArrives(f)
  PROVE  ReadersKept
<1> DEFINE k == fetch[f].keys[fetch[f].k]
           x(r) == IF Waiting(r, {k}) = {} THEN rd[r]
                   ELSE [rd[r] EXCEPT !.pending = @ \ {k}, !.got = Put(@, k, k)]
<1>0. /\ fetch[f].pc = "page" /\ rd' = [r \in Readers |-> x(r)] /\ waits' = Without(waits, {k})
      /\ fetch' = [fetch EXCEPT ![f].pc = "hash"] /\ get' = [get EXCEPT ![f] = "no"]
      /\ UNCHANGED <<user, db, ghost>>
  BY DEF FetchArrives
<1>1. PICK p \in Keys : p = k
  <2> DEFINE L == Keys q == fetch[f]
  <2>1. q.keys \in Seq(L) /\ q.k \in DOMAIN q.keys
    BY <1>0, TypesOfControl DEF Control, Asking
  <2> HIDE DEF L, q
  <2>2. q.keys[q.k] \in L
    BY <2>1
  <2> QED BY <2>2 DEF L, q
<1>2. p \in Nat /\ {p} \in SUBSET Keys
  BY DEF Keys
<1>3. ASSUME NEW r \in Readers
      PROVE  /\ rd'[r] \in ReaderStates /\ ReadsWell(r)'
             /\ rd'[r].pending = rd[r].pending \ {p} /\ rd'[r].todo = rd[r].todo
  <2>0. get'[r] = get[r]
    BY <1>0, Apart, TypesOfControl
  <2>w. Waiting(r, {p}) = {p} \cap rd[r].pending /\ (Waiting(r, {p}) # {} => rd[r].pc # "idle")
    BY <1>2, WaitingFor
  <2>1. CASE Waiting(r, {p}) = {}
    <3>1. rd'[r] = rd[r]
      BY <1>0, <1>1, <2>1
    <3>2. ReadsWell(r)'
      BY <1>0, <2>0, <3>1, UnmovedWell DEF Unmoved
    <3> QED BY <2>1, <2>w, <3>1, <3>2, StateFacts
  <2>2. CASE Waiting(r, {p}) # {}
    <3> DEFINE got == Put(rd[r].got, p, p) pending == rd[r].pending \ {p} s == rd[r]
               y == [s EXCEPT !.pending = pending, !.got = got]
    <3>1. rd'[r] = y
      BY <1>0, <1>1, <2>2
    <3>2. /\ got \in Maps(Keys, Nat) /\ DOMAIN got = DOMAIN s.got \cup {p} /\ got[p] = p
          /\ \A z \in DOMAIN s.got : z # p => got[z] = s.got[z]
      <4> DEFINE g == rd[r].got
      <4>1. g \in Maps(Keys, Nat)
        BY StateFacts
      <4> HIDE DEF g
      <4>2. LET h == Put(g, p, p)
            IN /\ h \in Maps(Keys, Nat) /\ DOMAIN h = DOMAIN g \cup {p}
               /\ h[p] = p /\ \A z \in DOMAIN g : z # p => h[z] = g[z]
        BY <1>2, <4>1, PutFacts
      <4> QED BY <4>2 DEF g
    <3>3. pending \in SUBSET Keys /\ pending = s.pending \ {p} /\ s \in ReaderStates /\ s = rd[r]
      BY StateFacts
    <3> HIDE DEF got, pending, s
    <3>4. /\ y \in ReaderStates /\ y.pc = s.pc /\ y.i = s.i /\ y.ids = s.ids /\ y.todo = s.todo
          /\ y.err = s.err /\ y.got = got /\ y.pending = pending
      <4> DEFINE M == Maps(Keys, Nat) P == SUBSET Keys Q == Seq(Keys) PC == {"idle"}
                 \cup Looking \cup Passed
      <4>0. pending \in P /\ got \in M
        BY <3>2, <3>3
      <4> HIDE DEF M, P, Q, PC
      <4>1. s \in [pc : PC, i : Nat \ {0}, ids : M, todo : Q, pending : P, got : M, err : BOOLEAN]
        BY <3>3 DEF M, P, Q, PC, ReaderStates
      <4>2. y \in [pc : PC, i : Nat \ {0}, ids : M, todo : Q, pending : P, got : M, err : BOOLEAN]
        BY <4>0, <4>1
      <4>3. /\ y.pc = s.pc /\ y.i = s.i /\ y.ids = s.ids /\ y.todo = s.todo
            /\ y.err = s.err /\ y.got = got /\ y.pending = pending
        BY <4>1
      <4> QED BY <4>2, <4>3 DEF M, P, Q, PC, ReaderStates
    <3> HIDE DEF y
    <3>5. DOMAIN rd[r].got \cup rd[r].pending \subseteq DOMAIN y.got \cup y.pending
      BY <3>2, <3>3, <3>4
    <3>6. \A z \in DOMAIN y.got : y.got[z] = z \/ (z \in DOMAIN rd[r].got
            /\ y.got[z] = rd[r].got[z])
      BY <3>2, <3>3, <3>4
    <3>7. ReadsWell(r)'
      <4>1. /\ y \in ReaderStates /\ rd'[r] = y /\ y.pc = rd[r].pc /\ y.i = rd[r].i
               /\ y.ids = rd[r].ids
            /\ y.todo = rd[r].todo /\ y.err = rd[r].err /\ rd[r].pc # "idle"
        BY <2>2, <2>w, <3>1, <3>3, <3>4
      <4>2. user'.reads[r] = user.reads[r] /\ ghost' = ghost /\ db' = db
        BY <1>0
      <4> QED BY <2>0, <3>5, <3>6, <4>1, <4>2, Hears
    <3> QED BY <3>1, <3>3, <3>4, <3>7
  <2> QED BY <2>1, <2>2
<1>4. TypeRd' /\ ReadingAll'
  <2>1. rd' \in [Readers -> ReaderStates]
    BY <1>0, <1>3
  <2> QED BY <1>3, <2>1 DEF TypeRd, ReadingAll, ReadsWell
<1>5. ASSUME NEW g \in Fetchers, NEW z \in DOMAIN waits \ {p},
             StillAsks(g, z) PROVE StillAsks(g, z)'
  <2>1. CASE g # f
    <3>1. fetch'[g] = fetch[g]
      BY <1>0, <2>1, TypesOfControl
    <3> QED BY <1>5, <3>1 DEF StillAsks
  <2>2. CASE g = f
    <3>1. PICK j \in DOMAIN fetch[f].keys : fetch[f].keys[j] = z /\ j >= fetch[f].k
      BY <1>0, <1>5, <2>2 DEF StillAsks
    <3>2. j # fetch[f].k
      BY <1>1, <3>1
    <3>3. j > fetch[f].k
      BY <3>1, <3>2, TypesOfControl
    <3>4. fetch'[f].pc = "hash" /\ fetch'[f].keys = fetch[f].keys /\ fetch'[f].k = fetch[f].k
      BY <1>0, TypesOfControl DEF Requested
    <3> QED BY <2>2, <3>1, <3>3, <3>4 DEF StillAsks
  <2> QED BY <2>1, <2>2
<1>6. Waiters'
  <2>1. waits' = Without(waits, {p})
    BY <1>0, <1>1
  <2>2. \A q \in Readers : rd'[q].pending = rd[q].pending \ {p} /\ rd'[q].todo = rd[q].todo
    BY <1>3
  <2> QED BY <1>5, <2>1, <2>2, ToldWaits
<1> QED BY <1>4, <1>6 DEF ReadersKept

\* psync_pagecache_send_error: all that wait for a page of the request have the
\* error, so nobody waits for a page that nobody asks for.
LEMMA ErrorKept ==
  ASSUME IInv, [Next]_vars, NEW f \in Fetchers, psync_pagecache_send_error(f)
  PROVE  ReadersKept
<1>1. PICK K : K = Range(fetch[f].keys)
  OBVIOUS
<1>0. /\ fetch[f].pc = "error" /\ waits' = Without(waits, K)
      /\ rd' = [r \in Readers |-> IF Waiting(r, K) = {} THEN rd[r]
                    ELSE [rd[r] EXCEPT !.pending = @ \ Waiting(r, K), !.err = TRUE]]
      /\ fetch' = [fetch EXCEPT ![f] = Off] /\ UNCHANGED <<user, db, ghost, get>>
  BY <1>1 DEF psync_pagecache_send_error
<1>2. K \in SUBSET Keys
  <2> DEFINE L == Keys
  <2>1. fetch[f].keys \in Seq(L)
    BY TypesOfControl
  <2> HIDE DEF L
  <2>2. K \in SUBSET L
    BY <1>1, <2>1 DEF Range
  <2> QED BY <2>2 DEF L
<1>3. ASSUME NEW r \in Readers
      PROVE  /\ rd'[r] \in ReaderStates /\ ReadsWell(r)'
             /\ rd'[r].pending = rd[r].pending \ K /\ rd'[r].todo = rd[r].todo
  <2>0. get'[r] = get[r]
    BY <1>0
  <2>w. Waiting(r, K) = K \cap rd[r].pending /\ (Waiting(r, K) # {} => rd[r].pc # "idle")
    BY <1>2, WaitingFor
  <2>1. CASE Waiting(r, K) = {}
    <3>1. rd'[r] = rd[r]
      BY <1>0, <2>1
    <3>2. ReadsWell(r)'
      BY <1>0, <2>0, <3>1, UnmovedWell DEF Unmoved
    <3> QED BY <2>1, <2>w, <3>1, <3>2, StateFacts
  <2>2. CASE Waiting(r, K) # {}
    <3> DEFINE pending == rd[r].pending \ K s == rd[r]
               y == [s EXCEPT !.pending = pending, !.err = TRUE]
    <3>0. rd[r].pending \ Waiting(r, K) = rd[r].pending \ K
      BY <2>w
    <3>1. rd'[r] = y
      BY <1>0, <2>2, <3>0
    <3>3. pending \in SUBSET Keys /\ pending = s.pending \ K /\ s \in ReaderStates /\ s = rd[r]
      BY StateFacts
    <3> HIDE DEF pending, s
    <3>4. /\ y \in ReaderStates /\ y.pc = s.pc /\ y.i = s.i /\ y.ids = s.ids /\ y.todo = s.todo
          /\ y.err = TRUE /\ y.got = s.got /\ y.pending = pending
      <4> DEFINE M == Maps(Keys, Nat) P == SUBSET Keys Q == Seq(Keys) PC == {"idle"}
                 \cup Looking \cup Passed
      <4>0. pending \in P
        BY <3>3
      <4> HIDE DEF M, P, Q, PC
      <4>1. s \in [pc : PC, i : Nat \ {0}, ids : M, todo : Q, pending : P, got : M, err : BOOLEAN]
        BY <3>3 DEF M, P, Q, PC, ReaderStates
      <4>2. y \in [pc : PC, i : Nat \ {0}, ids : M, todo : Q, pending : P, got : M, err : BOOLEAN]
        BY <4>0, <4>1
      <4>3. /\ y.pc = s.pc /\ y.i = s.i /\ y.ids = s.ids /\ y.todo = s.todo
            /\ y.err = TRUE /\ y.got = s.got /\ y.pending = pending
        BY <4>1
      <4> QED BY <4>2, <4>3 DEF M, P, Q, PC, ReaderStates
    <3> HIDE DEF y
    <3>6. \A z \in DOMAIN y.got : y.got[z] = z \/ (z \in DOMAIN rd[r].got
            /\ y.got[z] = rd[r].got[z])
      BY <3>3, <3>4
    <3>7. ReadsWell(r)'
      BY ZenonT(60), <1>0, <2>0, <2>2, <2>w, <3>1, <3>3, <3>4, <3>6, Hears
    <3> QED BY <3>1, <3>3, <3>4, <3>7
  <2> QED BY <2>1, <2>2
<1>4. TypeRd' /\ ReadingAll'
  <2>1. rd' \in [Readers -> ReaderStates]
    BY <1>0, <1>3
  <2> QED BY <1>3, <2>1 DEF TypeRd, ReadingAll, ReadsWell
<1>5. ASSUME NEW g \in Fetchers, NEW z \in DOMAIN waits \ K,
             StillAsks(g, z) PROVE StillAsks(g, z)'
  <2>1. CASE g # f
    <3>1. fetch'[g] = fetch[g]
      BY <1>0, <2>1, TypesOfControl
    <3> QED BY <1>5, <3>1 DEF StillAsks
  <2>2. CASE g = f
    <3>1. z \in K
      BY <1>1, <1>5, <2>2 DEF StillAsks, Range
    <3> QED BY <3>1
  <2> QED BY <2>1, <2>2
<1>6. Waiters'
  <2>2. \A q \in Readers : rd'[q].pending = rd[q].pending \ K /\ rd'[q].todo = rd[q].todo
    BY <1>3
  <2> QED BY <1>0, <1>5, <2>2, ToldWaits
<1> QED BY <1>4, <1>6 DEF ReadersKept

\* Every step keeps readers, waiters and requests together.
LEMMA ReadersStep == IInv /\ [Next]_vars => ReadersKept
BY ReadsKept, OthersKept, ArrivesKept, ErrorKept DEF Told

----------------------------------------------------------------------------
(* The invariant and what follows from it.                                *)

\* A cache starts without requests.
LEMMA EmptySeq == ASSUME NEW S PROVE <<>> \in Seq(S)
OBVIOUS

\* The least of two numbers is one of them.
LEMMA MinOfTwo ==
  ASSUME NEW a \in Int, NEW b \in Int
  PROVE  Min({a, b}) \in {a, b} /\ Min({a, b}) <= a /\ Min({a, b}) <= b
<1>1. \E x \in {a, b} : \A y \in {a, b} : x <= y
  OBVIOUS
<1> QED BY <1>1 DEF Min

\* What ppagecache_init makes of the table: rows that the last run left, then
\* free ones.
LEMMA TableFilledFacts ==
  ASSUME NEW w, w.cached \in Seq(Nat), w.stored \in Seq(Nat)
  PROVE  /\ TableFilled(w) \in Seq(Nat)
         /\ \A i \in DOMAIN TableFilled(w) : TableFilled(w)[i] # 0
               => i \in DOMAIN w.cached /\ TableFilled(w)[i] = w.cached[i]
<1> DEFINE m == Min({Len(w.cached), Len(w.stored)}) a == TableLeft(w) n == RowsMissing(w)
<1>1. m \in 0..Len(w.cached)
  <2> DEFINE x == Len(w.cached) y == Len(w.stored)
  <2>1. x \in Nat /\ y \in Nat
    OBVIOUS
  <2> HIDE DEF x, y
  <2>2. x \in Int /\ y \in Int
    BY <2>1
  <2>3. Min({x, y}) \in {x, y} /\ Min({x, y}) <= x
    BY <2>2, MinOfTwo
  <2>4. Min({x, y}) \in 0..x
    BY <2>1, <2>3
  <2> QED BY <2>4 DEF x, y
<1>2. a = SubSeq(w.cached, 1, m)
  BY DEF TableLeft
<1> HIDE DEF m, a
<1>3. /\ a \in Seq(Nat) /\ Len(a) = m /\ DOMAIN a = 1..m
      /\ \A i \in 1..m : i \in DOMAIN w.cached /\ a[i] = w.cached[i]
  BY <1>1, <1>2, CutOff
<1>4. n \in Nat
  <2> DEFINE x == Min({DbPages - Len(a), 2 * CachePages})
  <2>1. x \in Int
    <3>1. DbPages - Len(a) \in Int /\ 2 * CachePages \in Int
      BY <1>1, <1>3, PagesAssumption
    <3> QED BY <3>1, MinOfTwo
  <2>2. n = IF Cardinality(FreeRows(a)) >= 2 * CachePages THEN 0 ELSE Max({0, x})
    BY DEF RowsMissing, a
  <2> HIDE DEF x, n
  <2>3. Max({0, x}) \in {0, x} /\ Max({0, x}) >= 0
    BY <2>1, MaxOfTwo, 0 \in Int
  <2> QED BY <2>1, <2>2, <2>3
<1>5. TableFilled(w) = a \o [i \in 1..n |-> 0]
  BY DEF TableFilled, Free, a
<1> HIDE DEF n
<1>6. LET rows == a \o [i \in 1..n |-> 0]
      IN  /\ rows \in Seq(Nat) /\ DOMAIN rows = 1..(Len(a) + n)
          /\ \A i \in 1..Len(a) : rows[i] = a[i]
          /\ \A i \in (Len(a) + 1)..(Len(a) + n) : rows[i] = 0
  BY <1>3, <1>4, Appended
<1>7. ASSUME NEW i \in DOMAIN TableFilled(w), TableFilled(w)[i] # 0
      PROVE  i \in DOMAIN w.cached /\ TableFilled(w)[i] = w.cached[i]
  <2>1. i \in 1..(Len(a) + n) /\ i \notin (Len(a) + 1)..(Len(a) + n)
    BY <1>5, <1>6, <1>7
  <2>2. i \in 1..m
    BY <1>1, <1>3, <1>4, <2>1
  <2> QED BY <1>3, <1>5, <1>6, <2>2
<1> QED BY <1>5, <1>6, <1>7

\* What ppagecache_init makes of the file: a page less than the table has rows,
\* each the one its row says or none.
LEMMA StartFacts ==
  ASSUME NEW w \in Workloads
  PROVE  /\ TableAtStart(w) \in Seq(Nat) /\ Len(TableAtStart(w)) < Word
         /\ FileAtStart(w) \in Seq(Nat) /\ CountedAtStart(w) \in Nat
         /\ \A i \in DOMAIN TableAtStart(w) : TableAtStart(w)[i] # 0
               => (IF i \in DOMAIN FileAtStart(w) THEN FileAtStart(w)[i] ELSE 0)
                     \in {0, TableAtStart(w)[i]}
<1>1. /\ w.cached \in Seq(Nat) /\ w.stored \in Seq(Nat)
      /\ \A i \in DOMAIN w.cached : w.cached[i] # 0 /\ i + 1 \in DOMAIN w.stored
            => w.stored[i + 1] \in {0, w.cached[i]}
  BY WorkloadsAssumption
<1> DEFINE f == TableFilled(w) n == PagesAtStart(w) a == TableAtStart(w) s == w.stored
           p == FileAtStart(w)
<1>2. /\ f \in Seq(Nat)
      /\ \A i \in DOMAIN f : f[i] # 0 => i \in DOMAIN w.cached /\ f[i] = w.cached[i]
  BY <1>1, TableFilledFacts
<1>3. /\ a = SubSeq(f, 1, n) /\ n = Min({Len(f), DbPages})
      /\ p = [i \in 1..(n - 1) |-> IF i + 1 \in DOMAIN s THEN s[i + 1] ELSE 0]
      /\ CountedAtStart(w) \in {Cardinality(FreeRows(a)), Cardinality(FreeRows(f))}
  BY DEF TableAtStart, PagesAtStart, FileAtStart, CountedAtStart
<1>s. s \in Seq(Nat)
  BY <1>1
<1>t. \A i \in DOMAIN w.cached : w.cached[i] # 0 /\ i + 1 \in DOMAIN s
            => s[i + 1] \in {0, w.cached[i]}
  BY <1>1
<1> HIDE DEF f, n, a, p, s
<1>4. n \in 0..Len(f) /\ n < Word
  <2> DEFINE x == Len(f)
  <2>1. x \in Nat
    BY <1>2
  <2>2. n = Min({x, DbPages})
    BY <1>3
  <2> HIDE DEF x
  <2>3. DbPages \in Nat /\ Word \in Nat /\ DbPages < Word
    BY PagesAssumption
  <2>4. x \in Int /\ DbPages \in Int
    BY <2>1, <2>3
  <2>5. n \in {x, DbPages} /\ n <= x /\ n <= DbPages
    BY <2>2, <2>4, MinOfTwo
  <2>6. n \in 0..x /\ n < Word
    BY <2>1, <2>3, <2>5
  <2> QED BY <2>6 DEF x
<1>5. /\ a \in Seq(Nat) /\ Len(a) = n /\ DOMAIN a = 1..n
      /\ \A i \in 1..n : i \in DOMAIN f /\ a[i] = f[i]
  BY <1>2, <1>3, <1>4, CutOff
<1>6. p \in Seq(Nat) /\ DOMAIN p = 1..(n - 1)
  <2>1. \A i \in 1..(n - 1) : p[i] \in Nat
    BY <1>3, <1>s
  <2>2. p \in [1..(n - 1) -> Nat]
    BY <1>3, <2>1
  <2>3. CASE n > 0
    <3>1. n - 1 \in Nat
      BY <1>4, <2>3
    <3> QED BY <2>2, <3>1
  <2>4. CASE n = 0
    <3>1. 1..(n - 1) = 1..0
      BY <2>4
    <3>2. p \in [1..0 -> Nat] /\ DOMAIN p = 1..0 /\ 0 \in Nat
      BY <2>2, <3>1
    <3>3. p \in Seq(Nat)
      BY <3>2
    <3> QED BY <3>1, <3>2, <3>3
  <2> QED BY <1>4, <2>3, <2>4
<1>7. CountedAtStart(w) \in Nat
  <2>1. Cardinality(FreeRows(a)) \in Nat /\ Cardinality(FreeRows(f)) \in Nat
    BY <1>2, <1>5, RowsFinite
  <2> QED BY <1>3, <2>1
<1>8. ASSUME NEW i \in DOMAIN a, a[i] # 0
      PROVE  (IF i \in DOMAIN p THEN p[i] ELSE 0) \in {0, a[i]}
  <2>1. i \in DOMAIN w.cached /\ a[i] = w.cached[i]
    BY <1>2, <1>5, <1>8
  <2>2. i \in DOMAIN p => p[i] = IF i + 1 \in DOMAIN s THEN s[i + 1] ELSE 0
    BY <1>3, <1>6
  <2>3. i + 1 \in DOMAIN s => s[i + 1] \in {0, a[i]}
    BY <1>t, <1>8, <2>1
  <2> QED BY <2>2, <2>3
<1>9. Len(a) < Word
  BY <1>4, <1>5
<1> QED BY <1>5, <1>6, <1>7, <1>8, <1>9 DEF a, p

\* ppagecache_init sets up what the types say.
LEMMA InitTypes == Init => Types
<1> SUFFICES ASSUME Init PROVE Types
  OBVIOUS
<1> USE Finite
<1>u. /\ user \in [reads : [Readers -> Seq(Reads)], adds : Seq(Keys), fails : Nat, errors : Nat,
                  shrinks : Nat, full : BOOLEAN, timer : BOOLEAN, cached : Seq(Nat),
                  stored : Seq(Nat)]
  BY WorkloadsAssumption DEF Init
<1>1. TypeUser
  BY <1>u DEF TypeUser
<1>2. TypeMem
  BY PagesAssumption DEF TypeMem, Init, Pages
<1>3. TypeDb
  <2>1. user \in Workloads
    BY DEF Init
  <2>2. /\ TableAtStart(user) \in Seq(Nat) /\ FileAtStart(user) \in Seq(Nat)
        /\ CountedAtStart(user) \in Int
    BY <2>1, StartFacts
  <2> QED BY <2>2 DEF Init, TypeDb
<1>4. TypeRd /\ TypeFetch /\ TypeWaits /\ TypeFl
  <2> DEFINE e == <<>>
  <2>1. e \in Maps(Keys, Nat) /\ e \in Maps(Slots, Nat) /\ e \in Maps(Keys, SUBSET Readers)
    BY EmptyMap
  <2>2. e \in Seq(Keys)
    BY EmptySeq
  <2>3. NotReading = [pc |-> "idle", i |-> 1, ids |-> e, todo |-> e, pending |-> {},
          got |-> e, err |-> FALSE]
        /\ Off = [pc |-> "off", keys |-> e, k |-> 1] /\ waits = e
        /\ fl = [running |-> 0, run |-> FALSE, since |-> FALSE, spawned |-> {},
           owes |-> {}, queue |-> {}, by |-> "none", step |-> "off", free |-> 0, todo |-> e]
    BY DEF NotReading, Off, Init
  <2> HIDE DEF e
  <2>4. NotReading \in ReaderStates
    BY <2>1, <2>2, <2>3 DEF ReaderStates
  <2>5. Off \in Requested
    BY <2>2, <2>3 DEF Requested
  <2>6. fl \in FlushStates
    BY <2>1, <2>3 DEF FlushStates
  <2> QED BY <2>1, <2>3, <2>4, <2>5, <2>6 DEF Init, TypeRd, TypeFetch, TypeWaits, TypeFl
<1>5. TypeGet /\ TypeHeld /\ TypeShrink /\ TypeGhost /\ TypeAdd
  <2>1. TypeGet /\ TypeHeld /\ TypeShrink /\ TypeAdd
    BY DEF Init, TypeGet, TypeHeld, TypeShrink, TypeAdd, NotShrinking
  <2>2. PICK known, cut : /\ ghost = [known |-> known, reused |-> {}, cut |-> cut]
                          /\ known \in {{}, {"rows"}} /\ cut \subseteq DOMAIN db.row
    BY DEF Init
  <2>3. cut \subseteq Nat
    BY <1>3, <2>2 DEF TypeDb
  <2> QED BY <2>1, <2>2, <2>3 DEF TypeGhost
<1>6. TypeClean
  BY FS_EmptySet DEF Init, TypeClean
<1> QED BY <1>1, <1>2, <1>3, <1>4, <1>5, <1>6 DEF Types

\* ppagecache_init establishes the invariant.
LEMMA InitInv == Init => IInv
<1> SUFFICES ASSUME Init PROVE IInv
  OBVIOUS
<1>0. Types
  BY InitTypes
<1>u. user \in Workloads
  BY DEF Init
<1>1. Control
  <2>1. \A t \in Getters : get[t] = "no" /\ held[t] = 0
    BY DEF Init
  <2>2. \A f \in Fetchers : fetch[f].pc = "off" /\ fetch[f].keys = <<>>
    BY DEF Init, Off
  <2>3. Hands /\ Asking
    <3>1. add = "off" /\ "add" \in Getters /\ Fetchers \subseteq Getters
      BY Apart DEF Init
    <3> QED BY <2>1, <2>2, <3>1 DEF Hands, Holds, Asking
  <2>4. Flushing
    BY Apart DEF Init, Flushing
  <2> QED BY <2>3, <2>4 DEF Control
<1>2. Places /\ Shrinking /\ Hashed
  BY DEF Init, Places, Shrinking, Hashed, NotShrinking
<1>3. Picked
  <2>1. fl.todo = <<>> /\ DOMAIN fl.todo = {}
    <3>1. DOMAIN <<>> = {}
      OBVIOUS
    <3>2. fl.todo = <<>>
      BY DEF Init
    <3> QED BY <3>1, <3>2
  <2> QED BY <2>1 DEF Picked
<1>4. PagesCounted
  BY Finite, FS_EmptySet DEF Init, PagesCounted
<1>5. RowsCounted /\ Rowed
  <2>1. db.row = TableAtStart(user) /\ db.file = FileAtStart(user)
    BY DEF Init
  <2>2. Len(db.row) < Word /\ \A i \in DOMAIN db.row : db.row[i] # 0 => At(i) \in {0, db.row[i]}
    BY <1>u, <2>1, StartFacts DEF At
  <2>3. "rows" \in ghost.known \/ db.nfree = Cardinality(FreeIds)
    BY DEF Init
  <2>4. \A i \in DOMAIN db.row : db.row[i] # 0 /\ At(i) = 0 => i \in ghost.cut
    BY DEF Init, Free
  <2> QED BY <2>2, <2>3, <2>4 DEF RowsCounted, Rowed, Cut, Free
<1>6. ReadingAll /\ Waits /\ Served
  <2>1. \A r \in Readers : /\ rd[r] = NotReading /\ rd[r].pc = "idle"
                              /\ rd[r].pending = {} /\ DOMAIN rd[r].got = {}
                           /\ get[r] = "no"
    BY DEF Init, NotReading, Getters
  <2>2. DOMAIN waits = {}
    BY DEF Init
  <2>3. \A r \in Readers : Reading(r)
    BY <2>1 DEF Reading, Looking
  <2>4. \A r \in Readers : Complete(r) /\ Given(r)
    BY <2>1 DEF Complete, Given
  <2> QED BY <2>1, <2>2, <2>3, <2>4 DEF ReadingAll, Waits, Served
<1> QED BY <1>0, <1>1, <1>2, <1>3, <1>4, <1>5, <1>6 DEF IInv

\* Every step of the page cache keeps it.
LEMMA StepInv == IInv /\ [Next]_vars => IInv'
<1> SUFFICES ASSUME IInv, [Next]_vars PROVE IInv'
  OBVIOUS
<1>1. TypeMem' /\ TypeHeld' /\ Places' /\ Hashed' /\ PagesCounted'
  BY PageMoves, PagesKept DEF Kept
<1>2. Control' /\ TypeGet' /\ TypeFetch'
  BY ControlKept
<1>3. TypeDb' /\ RowsCounted' /\ Rowed'
  BY RowsStep DEF RowsKeep
<1>4. TypeFl' /\ TypeClean' /\ TypeUser' /\ TypeAdd' /\ TypeGhost'
  BY FlTyped, CleanTyped, UserTyped, AddTyped, GhostTyped
<1>5. TypeShrink' /\ Shrinking' /\ Picked'
  BY ShrinkKept, PickedKept
<1>6. TypeRd' /\ TypeWaits' /\ ReadingAll' /\ Waits' /\ Served'
  BY ReadersStep DEF ReadersKept, Waiters
<1> QED BY <1>1, <1>2, <1>3, <1>4, <1>5, <1>6 DEF IInv, Types

\* The page cache keeps its invariant, whatever its sizes, its threads and what
\* they are asked: pages, rows, readers and those they wait for stay together
\* over every interleaving of reads, requests, flushes, cleanings, shrinkings and
\* failures.
THEOREM PageInvariant == Spec => []IInv
<1>1. Init => IInv
  BY InitInv
<1>2. IInv /\ [Next]_vars => IInv'
  BY StepInv
<1> QED BY <1>1, <1>2, PTL DEF Spec

\* The invariant says of readers what they are promised.
LEMMA ReadsTold == IInv => ReadsTrue
<1> SUFFICES ASSUME IInv PROVE ReadsTrue
  OBVIOUS
<1>1. ASSUME NEW r \in Readers PROVE GivenTrue(r)
  <2>1. \/ r \in ghost.reused
        \/ \A k \in DOMAIN rd[r].got :
              rd[r].got[k] = k \/ (rd[r].got[k] = 0 /\ ReadsZeros(r))
    BY StateFacts DEF Given, Right
  <2>2. ASSUME rd[r].pc = "wait", rd[r].pending = {},
               ~rd[r].err PROVE Range(Op(r).keys) \subseteq DOMAIN rd[r].got
    <3>1. \A j \in DOMAIN Op(r).keys : Op(r).keys[j] \in DOMAIN rd[r].got
      BY <2>2, StateFacts DEF Complete, Got, Passed
    <3> QED BY <3>1 DEF Range
  <2> QED BY <2>1, <2>2 DEF GivenTrue
<1>2. ASSUME NEW k \in DOMAIN waits PROVE WaitIsServed(k)
  <2>1. \A f \in Fetchers : StillAsks(f, k) => k \in Range(fetch[f].keys)
    BY DEF StillAsks, Range
  <2> QED BY <2>1 DEF WaitIsServed, IInv, Served
<1>3. \A i \in DOMAIN db.row : db.row[i] # Free
        => At(i) = db.row[i] \/ (At(i) = 0 /\ i \in ghost.cut)
  BY DEF IInv, Rowed, Cut
<1> QED BY <1>1, <1>2, <1>3 DEF ReadsTrue

\* No page of memory is ever lost or in two hands, and cache_pages_free,
\* cache_pages_in_hash and free_db_pages are right, but for the miscounts of
\* get_free_page_if_available, mark_page_free, clean_cache and UPDATE OR IGNORE:
\* no thread's page is taken from it by a flush or a full disk.
THEOREM PagesStayAccounted == Spec => []PagesAccounted
<1>1. IInv => PagesAccounted
  BY Counted DEF IInv, Types, TypeShrink
<1> QED BY <1>1, PageInvariant, PTL

\* Reads are served, and with the right pages: psync_pagecache_send_page_wait_page,
\* the look-ups and the pread give a reader the page it asked for, unless a part
\* of a page was read from a row that a flush reused meanwhile or, as zeros, from
\* one whose page ppagecache_init cut off; a read ends without error only with all
\* of its pages, every page that is waited for is asked for, and a used row says
\* what the file has, or its page was cut off at the start.
THEOREM ReadsStayTrue == Spec => []ReadsTrue
BY ReadsTold, PageInvariant, PTL

=============================================================================
