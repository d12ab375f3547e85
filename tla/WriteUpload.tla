---------------------------- MODULE WriteUpload ----------------------------
(***************************************************************************)
(* The threads that upload what WriteFile left in the data file: small new *)
(* files in one request, large and modified files in parts, and the thread *)
(* that moves uploaded data files into the page cache (pfsupload.c,        *)
(* ppagecache.c).  The server's side of a request is external.             *)
(***************************************************************************)
EXTENDS WriteFile

NoBatch == [pc |-> "idle", wake |-> TRUE, t |-> 0, w |-> 0, size |-> 0, data |-> <<>>]
NoUpload == [pc |-> "off", current |-> 0, stop |-> FALSE, t |-> 0, w |-> 0,
             type |-> "creat", base |-> <<>>, sum |-> <<>>, ints |-> {}, size |-> 0,
             data |-> <<>>]

\* Mutant: the row's write id, that of its last release.
get_file_writeid_Row(t) == IF t \in DOMAIN tab.rows THEN tab.rows[t].int1 ELSE -1
\* The answer's hash and size replace the open file's if it was not written
\* meanwhile; when it is not open the row's write id tells.
get_file_writeid(t) ==
    IF of # NoFile /\ of.id = t THEN of.writeid
    ELSE IF t \in DOMAIN tab.rows THEN tab.rows[t].int1 ELSE -1
psync_fs_update_openfile(t, hash) ==
    of' = IF of = NoFile \/ of.id # t THEN of
          ELSE [of EXCEPT !.id = 0, !.hash = hash, !.modified = FALSE, !.newfile = FALSE,
                          !.size = Len(hash), !.initial = Len(hash), !.released = FALSE]

\* The row is given up; the overlay keeps the name and the cache its data file.
perm_fail_upload_task(t) ==
    tab' = [tab EXCEPT !.rows = WithoutRow(@, t)]
Saved(c) == srv' = [srv EXCEPT !.now = c, !.saved = @ \cup {c}]
Woken(b) == [upl EXCEPT !.wake = @ \/ b]

----------------------------------------------------------------------------
(* psync_fsupload_thread: small uploads. *)

clean_stuck_tasks ==
    /\ upl.pc = "start"
    /\ LET stuck == DOMAIN tab.rows \ Live(tab.rows)
           rows == Without(tab.rows, stuck)
       IN /\ tab' = [tab EXCEPT !.rows = [i \in DOMAIN rows |->
                        [rows[i] EXCEPT !.after = @ \ stuck]]]
          /\ file' = Without(file, stuck)
    /\ upl' = NoBatch
    /\ UNCHANGED <<user, proc, of, srv, rel, big, ghost>>

Waiting == {t \in DOMAIN tab.rows : tab.rows[t].status = 0 /\ tab.rows[t].after = {}}
Ready == Waiting \ {big.current}
\* At most one row is ready: the later ones wait for it by name.  A new row with
\* the id of the last one the large thread dealt with is passed over, for good.
psync_fsupload_check_tasks ==
    /\ upl.pc = "idle" /\ upl.wake
    /\ upl' = IF Ready = {} THEN [NoBatch EXCEPT !.wake = FALSE]
              ELSE LET t == Min(Ready)
                   IN [NoBatch EXCEPT
                        !.wake = FALSE, !.t = t, !.w = tab.rows[t].int1,
                        !.pc = IF tab.rows[t].type = "creat" THEN "send" ELSE "defer"]
    /\ ghost' = IF big.pc = "pick" /\ big.current \in Waiting
                THEN Noting(ghost, {"skipped"}) ELSE ghost
    /\ UNCHANGED <<user, proc, of, file, tab, srv, rel, big>>

\* fstat, and the first part of the data.
psync_send_task_creat ==
    /\ upl.pc = "send"
    /\ IF upl.t \notin DOMAIN file
       THEN perm_fail_upload_task(upl.t) /\ upl' = NoBatch
       ELSE LET d == file[upl.t].d
            IN /\ upl' = IF Len(d) > DirectLimit THEN [upl EXCEPT !.pc = "defer"]
                         ELSE [upl EXCEPT !.pc = "rest", !.size = Len(d),
                                          !.data = SubSeq(d, 1, Smaller(1, Len(d)))]
               /\ UNCHANGED tab
    /\ UNCHANGED <<user, proc, of, file, srv, rel, big, ghost>>

\* The rest; then the write id tells whether it is of one piece.
psync_send_task_creat_upload_small ==
    /\ upl.pc = "rest"
    /\ LET d == file[upl.t].d
       IN upl' = IF Len(d) < upl.size THEN NoBatch
                 ELSE [upl EXCEPT !.pc = "check", !.data = @ \o SubSeq(d, 2, upl.size)]
    /\ UNCHANGED <<user, proc, of, file, tab, srv, rel, big, ghost>>

\* The request goes out, and the server saves the file.
SendSmall ==
    /\ upl.pc = "check" /\ ~Locked
    /\ IF get_file_writeid(upl.t) # upl.w THEN upl' = NoBatch /\ UNCHANGED srv
       ELSE Saved(upl.data) /\ upl' = [upl EXCEPT !.pc = "answer"]
    /\ UNCHANGED <<user, proc, of, file, tab, rel, big, ghost>>

\* The connection breaks before the request arrives, or before the answer.
LostSmall ==
    /\ upl.pc \in {"check", "answer"} /\ user.faults > 0
    /\ user' = [user EXCEPT !.faults = @ - 1]
    /\ upl' = NoBatch
    /\ UNCHANGED <<proc, of, file, tab, srv, rel, big, ghost>>

\* A row whose file was written again stays, and nobody is woken.
psync_process_task_creat ==
    /\ upl.pc = "answer" /\ ~Locked
    /\ IF get_file_writeid(upl.t) # upl.w
       THEN upl' = [NoBatch EXCEPT !.wake = upl.wake] /\ UNCHANGED <<of, tab>>
       ELSE /\ psync_fs_update_openfile(upl.t, upl.data)
            /\ tab' = [tab EXCEPT !.mir = upl.data, !.entries = WithoutEntry(upl.t)]
            /\ upl' = [upl EXCEPT !.pc = "cache"]
    /\ UNCHANGED <<user, proc, file, srv, rel, big, ghost>>

\* psync_pagecache_new_upload_to_cache: by the uploader, or by the thread.
Cached(t, hash) ==
    IF t \in DOMAIN file
    THEN AddPages(tab.pages, {PageOf(hash, file[t].d, n) : n \in 1..NumPages(Len(file[t].d))})
    ELSE tab.pages
CacheSmall ==
    /\ upl.pc = "cache"
    /\ tab' = [tab EXCEPT !.pages = Cached(upl.t, upl.data)]
    /\ file' = Without(file, {upl.t})
    /\ upl' = [upl EXCEPT !.pc = "del"]
    /\ UNCHANGED <<user, proc, of, srv, rel, big, ghost>>

pr_del_task ==
    /\ upl.pc = "del"
    /\ tab' = [tab EXCEPT !.rows = WithoutRow(@, upl.t)]
    /\ upl' = [NoBatch EXCEPT !.wake = upl.wake \/ HasArrows(tab.rows, upl.t)]
    /\ UNCHANGED <<user, proc, of, file, srv, rel, big, ghost>>

psync_sent_task_creat_upload_large ==
    /\ upl.pc = "defer"
    /\ tab' = IF upl.t \in DOMAIN tab.rows /\ tab.rows[upl.t].status = 0
              THEN [tab EXCEPT !.rows = WithStatus(@, upl.t, 2)] ELSE tab
    /\ big' = IF big.pc = "off" THEN [big EXCEPT !.pc = "pick"] ELSE big
    /\ upl' = [NoBatch EXCEPT !.wake = upl.wake]
    /\ UNCHANGED <<user, proc, of, file, srv, rel, ghost>>

----------------------------------------------------------------------------
(* large_upload. *)

Large == {t \in DOMAIN tab.rows : tab.rows[t].status = 2}
Step(pc) == [big EXCEPT !.pc = pc]

Pick ==
    /\ big.pc = "pick"
    /\ big' = IF Large = {} THEN NoUpload
              ELSE LET t == Min(Large)
                   IN [NoUpload EXCEPT
                        !.pc = IF tab.rows[t].type = "creat" THEN "sum" ELSE "index",
                        !.current = t, !.t = t, !.w = tab.rows[t].int1,
                        !.type = tab.rows[t].type, !.base = tab.rows[t].base]
    /\ UNCHANGED <<user, proc, of, file, tab, srv, rel, upl, ghost>>

\* Mutant: nobody looks at it.
Fails_Quietly == big' = [Step("pick") EXCEPT !.current = 0] /\ UNCHANGED upl
\* The upload failed: the row is in nobody's hand, the main thread looks at it.
Fails == big' = [Step("pick") EXCEPT !.current = 0] /\ upl' = Woken(TRUE)
Gives ==
    /\ perm_fail_upload_task(big.t)
    /\ upl' = Woken(HasArrows(tab.rows, big.t))
    /\ big' = Step("pick")

\* large_upload_creat begins with the file's checksum.
psync_get_local_file_checksum ==
    /\ big.pc = "sum"
    /\ IF big.t \notin DOMAIN file THEN Gives
       ELSE /\ big' = [Step("parts") EXCEPT !.sum = file[big.t].d]
            /\ UNCHANGED <<tab, upl>>
    /\ UNCHANGED <<user, proc, of, file, srv, rel, ghost>>

\* A part; the server's checksum of all of them must be the file's.
large_upload_creat ==
    /\ big.pc = "parts"
    /\ LET k == Len(big.data) + 1
           sent == k > Len(big.sum)
       IN IF big.stop \/ (sent /\ big.data # big.sum) \/ (~sent /\ Len(file[big.t].d) < k)
          THEN Fails
          ELSE /\ big' = IF sent THEN Step("check")
                         ELSE [big EXCEPT !.data = Append(@, file[big.t].d[k])]
               /\ UNCHANGED upl
    /\ UNCHANGED <<user, proc, of, file, tab, srv, rel, ghost>>

\* upload_modify reads the index, then the size of the data file.
LoadIndex ==
    /\ big.pc = "index"
    /\ IF big.t \notin DOMAIN file THEN Gives
       ELSE /\ big' = [Step("size") EXCEPT !.ints = file[big.t].i]
            /\ UNCHANGED <<tab, upl>>
    /\ UNCHANGED <<user, proc, of, file, srv, rel, ghost>>
LoadSize ==
    /\ big.pc = "size"
    /\ IF big.t \notin DOMAIN file THEN Gives
       ELSE /\ big' = [Step("modify") EXCEPT !.size = Len(file[big.t].d)]
            /\ UNCHANGED <<tab, upl>>
    /\ UNCHANGED <<user, proc, of, file, srv, rel, ghost>>

\* A part the index has is read after a look at stop, another one is copied at
\* the server from the revision that was opened.
upload_modify ==
    /\ big.pc = "modify"
    /\ IF Len(big.data) = big.size THEN big' = Step("check") /\ UNCHANGED upl
       ELSE IF big.stop THEN Fails
       ELSE LET k == Len(big.data) + 1
            IN /\ big' = IF k \in big.ints THEN Step("read")
                         ELSE [big EXCEPT !.data =
                                  Append(@, IF k <= Len(big.base) THEN big.base[k] ELSE 0)]
               /\ UNCHANGED upl
    /\ UNCHANGED <<user, proc, of, file, tab, srv, rel, ghost>>

\* A data file that ends too early is taken for one that is damaged.
upload_modify_send_local ==
    /\ big.pc = "read"
    /\ LET k == Len(big.data) + 1
           short == big.t \notin DOMAIN file \/ Len(file[big.t].d) < k
       IN /\ IF short THEN Gives
             ELSE /\ big' = [Step("modify") EXCEPT !.data = Append(@, file[big.t].d[k])]
                  /\ UNCHANGED <<tab, upl>>
          /\ ghost' = IF short THEN Noting(ghost, {"shrunk"}) ELSE ghost
    /\ UNCHANGED <<user, proc, of, file, srv, rel>>

\* upload_save, when the write id is still that of the row.
large_upload_save ==
    /\ big.pc = "check" /\ ~Locked
    /\ IF big.stop /\ big.type = "creat" THEN Fails /\ UNCHANGED srv
       ELSE IF get_file_writeid(big.t) # big.w THEN Fails /\ UNCHANGED srv
       ELSE Saved(big.data) /\ big' = Step("meta") /\ UNCHANGED upl
    /\ UNCHANGED <<user, proc, of, file, tab, rel, ghost>>

LostLarge ==
    /\ big.pc \in {"check", "meta"} /\ user.faults > 0
    /\ user' = [user EXCEPT !.faults = @ - 1]
    /\ Fails
    /\ UNCHANGED <<proc, of, file, tab, srv, rel, ghost>>

\* All in one transaction; update_openfile is asked first.  That the row's write
\* id is right when the open file's is makes the UPDATE at the end find it.
save_meta ==
    /\ big.pc = "meta" /\ ~Locked
    /\ IF get_file_writeid(big.t) # big.w THEN Fails /\ UNCHANGED <<of, tab>>
       ELSE LET task == [t |-> big.t, type |-> big.type, hash |-> big.data, old |-> big.base]
            IN /\ psync_fs_update_openfile(big.t, big.data)
               /\ tab' = [tab EXCEPT
                            !.mir = big.data, !.entries = WithoutEntry(big.t),
                            !.cache = Append(@, task),
                            !.rows = WithStatus(WithoutArrows(@, big.t), big.t, 3)]
               /\ upl' = Woken(HasArrows(tab.rows, big.t))
               /\ big' = Step("pick")
    /\ UNCHANGED <<user, proc, file, srv, rel, ghost>>

----------------------------------------------------------------------------
(* psync_pagecache_upload_to_cache. *)

\* The pages of a modified file: moved from the old revision, read, or both.
Untouched(f, n) == ((n - 1) * PageUnits + 1)..(n * PageUnits) \cap f.i = {}
Moved(f, n) == Untouched(f, n) /\ n * PageUnits <= Len(f.d)
\* Mutant: all of it is read from the data file.
MixedPage_FromFile(f, hash, old, n) == PageOf(hash, f.d, n)
MixedPage(f, hash, old, n) ==
    [h |-> hash, n |-> n,
     data |-> [k \in Units(Len(f.d), n) |->
                IF k \in f.i THEN f.d[k]
                ELSE (CHOOSE q \in CachedPage(tab.pages, old, n) : TRUE).data[k]]]
psync_pagecache_modify_to_cache(f, hash, old) ==
    LET all == 1..NumPages(Len(f.d))
        known == {n \in all : CachedPage(tab.pages, old, n) # {}}
        taken == {n \in all : Units(Len(f.d), n) \subseteq f.i} \cup known
        moved == UNION {CachedPage(tab.pages, old, n) : n \in {m \in known : Moved(f, m)}}
    IN AddPages(tab.pages \ moved, {MixedPage(f, hash, old, n) : n \in taken})

CacheUploaded ==
    /\ tab.cache # <<>> /\ tab.caching = "idle"
    /\ LET c == Head(tab.cache)
           pages == IF c.type = "creat" THEN Cached(c.t, c.hash)
                    ELSE IF c.t \in DOMAIN file
                    THEN psync_pagecache_modify_to_cache(file[c.t], c.hash, c.old)
                    ELSE tab.pages
       IN /\ tab' = [tab EXCEPT !.pages = pages, !.caching = "del"]
          /\ file' = Without(file, {c.t})
    /\ UNCHANGED <<user, proc, of, srv, rel, upl, big, ghost>>

CacheEnds ==
    /\ tab.caching = "del"
    /\ LET t == Head(tab.cache).t
       IN /\ tab' = [tab EXCEPT !.rows = WithoutRow(@, t), !.cache = Tail(@), !.caching = "idle"]
          /\ upl' = Woken(HasArrows(tab.rows, t))
    /\ UNCHANGED <<user, proc, of, file, srv, rel, big, ghost>>
=============================================================================
