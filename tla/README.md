# Verification of pcloudcc

`pcloudcc` is a console client for pCloud: a daemon that mounts the account as
a drive (FUSE), synchronises folders, and talks to the server over an API. The
core is the C library in `src/pclsync`. The modules here model its core logic;
this text says what is modelled, what the runs and the proofs show, what they
rest on, and what is left.

All source paths below are relative to `src/pclsync`.

## 1. The system

Some twenty threads share one SQLite database under one reader/writer lock, and
wake one another with condition variables and counters of wakes.

| Part | State | Operations | Interacts with |
|---|---|---|---|
| lock `plocks.c` | `rcount wcount rwait wwait opts`, and two counters per thread | `rdlock wrlock rslock towrlock unlock`, try and timed variants | everything, through `psql_lock` |
| timers `ptimer.c` | a wheel of lists, `psync_current_time` | register, stop, exception handlers | pcache, prunthrottled, downloads, diff |
| database `psql.c` | connection, `in_transaction`, `transaction_failed`, commit callbacks | lock, start, commit, rollback, statements, checkpoint | plocks, pcache |
| drive `pfs.c`, `pfsfolder.c` | open files, per-file write state | FUSE callbacks | pfstasks, ppagecache, pfscrypto |
| task queue `pfstasks.c` | tables `fstask fstaskdepend`, overlay tree `folders` | mkdir, rmdir, creat, unlink, rename, set mtime; answers of the server; rebuild at start | pfs, pfsupload |
| uploader `pfsupload.c` | current batch, `upload_wakes` | load, send, process, cancel; large uploads | server, pfstasks, ppagecache, pdiff |
| tables `pfileops.c`, `pdiff.c` | tables `file folder`, diff id | create, update, delete; the thread that follows the server | uploader, sync engine |
| page cache `ppagecache.c` | pages, waiters, page tables | read, flush, hand over uploaded files | pfs, uploader |
| encrypted files `pfscrypto.c`, keys `pcryptofolder.c` | log file, sector tree; key caches | read, write, truncate, finalise and replay the log | pfs |
| sync engine `psyncer.c pfolder.c plocalscan.c plocalnotify.c` | tables `syncfolder syncedfolder localfile localfolder`, the scanner's lists | scan, rename detection, folders that come and go | diff thread, transfers |
| transfers `ptask.c pupload.c pdownload.c` | table `task`, lists `uploads downloads`, file locks, counters in `psync_status` | queue, start, stop, retry; conflicts; rename and delete at either end | server, disk, scanner, pstatus |
| status and events `pstatus.c pqevent.c` | vector of statuses, event list | set, wait for a combination, callbacks | all threads |
| timed cache, throttle `pcache.c prunthrottled.c` | hash of entries with timers; tree of scheduled calls | add, get, delete, clean; run at most every n seconds | ptimer |
| path states `ppathstatus.c` | two caches with LRU lists | state of a path, invalidation | drive, sync engine |
| network `papi.c psock.c pssl.c pnetlibs.c pp2p.c` | connection pool, file locks, speeds | requests, downloads, peer to peer | server |
| the rest | see `components` in `PROJECT.json` | | |

What is hard:

* **The drive answers before the server does.** A request is granted from
  memory, leaves a row in `fstask`, arrows in `fstaskdepend` to the rows it must
  wait for, and entries in an overlay that `readdir` lays over the tables. The
  uploader empties the queue in its own order, the server's answers change ids
  in rows, overlay and open handles, the diff thread enters the same changes
  again, and a crash leaves only the rows. It has to look to the user as if
  none of this happened. The repository has no test of any of it.
* **The lock** is recursive, may be upgraded, reserved, timed, and prefers
  writers or readers by an option; everything rests on it.
* **Two ends of a sync.** The scanner, the diff thread, the upload and the
  download thread, and a thread for every transfer, each look at a disk, at a
  server and at tables that the others change meanwhile. What one of them did
  comes back to another as news: an upload as a change of the server, a download
  as a change of the disk. Every row of table `task` was right when it was
  written and may be done, much later, to something else.
* **Timers** run without the mutex that protects the wheel, while others stop
  and register them; entries of the cache are freed by the timer thread unless a
  lookup stops their timer first.
* Elsewhere: crash recovery of the log of encrypted files, admission and stop of
  transfers, commits that fail after memory was changed, lists whose entries are
  freed by another thread.

`hazards` in `PROJECT.json` lists these at their lines, with the properties that
cover them or the reason why none does yet.

## 2. Modules

```
LockContract <--implements-- RWLock <-- RWLockProofs   (proofs)
                                 ^----- MCRWLockCalls
DriveView <--implements-- FsDrive --extends--> FsUpload --extends--> FsTasks
                             ^-- MCFsDrive
FsWrite -> WriteUpload -> WriteFile                      (extends)
    ^-- MCFsWrite
    ^-- FsWriteProofs (over Induction) <-- FsWriteContents   (proofs)
    ^-- FsWriteInvariant <-----------------------'
PageCache <-- MCPageCache
    ^-- PageCacheInvariant (over Induction) <-- PageCacheProofs   (proofs)
Timer <-- TimerUsers <-- MCTimer
              ^-- TimerProofs (over Induction)   (proofs)
DurableFile <--implements-- CryptoLog --extends--> CryptoLayout
                             ^-- MCCryptoLog
SyncEngine -> SyncDown -> SyncUp -> SyncDiff -> SyncScan -> SyncTables   (extends)
    ^-- MCSyncEngine
    ^-- SyncInvariant <-- SyncProofs (over Induction, and Fold for each loop)   (proofs)
```

### RWLock (plocks.c)

One variable per field of `psync_rwlock_t` (`rcount wcount rwait wwait` and the
two options), the per-thread counters `cnt`, and what each thread is blocked in
(`call`). A critical section under `rw->mutex` is one action; a wait on a
condition variable ends it, so a blocked call is two or more actions.
Sleepers are marked asleep, woken, or expired: a timed waiter may time out after
it consumed a signal, as glibc allows. Spurious wake-ups are actions.
`plocks_towrlock` is its two halves. The assertions of the code (`pdbg_assert`)
are part of the type invariant and of `CountersAgree`.

`LockContract` is what callers use: who holds the lock, for reading, writing or
reserved; an upgrade is one step there.

### FsTasks, FsUpload, FsDrive (pfs.c, pfstasks.c, pfsupload.c, pfsfolder.c, pfileops.c, pdiff.c)

`FsTasks` is the side of the user. `fstask` and `fstaskdepend` are the tables,
`db` the tables `file` and `folder`, `folders` the overlay with `taskscnt` of
each folder, `openfiles` the handles, `history` the remembered old places
(`HLOC` records). Every operation runs under `psql_lock` and is one action:
`Mkdir Rmdir RmdirRefused Creat Flush Close UnlinkFile RenameFile RenameFolder`,
each with the checks its FUSE callback makes first. `View` is what `readdir` and
the lookups show, written after `psync_fs_readdir` and not after the wish.
Ids keep their signs: `-t` names what task `t` is going to make.

`FsUpload` adds the thread: `Wake Load Send Answered`, one action per answer and
kind of task (`MkdirDone MkdirRefused ... CancelCreat CancelUnlink ...`), the
commit in the middle of an upload (`CreatDone`, `CreatCached`), the end of the
transaction and, in another critical section, of the batch. `Break` is a
connection lost after any request, with the requests before it done by the
server or not; `Restart` is a crash and `psync_fstask_init`; `Diff` enters what
the server reports. The server (`Serve`) is external, reduced to the answers
the code tells apart.

`FsDrive` states the properties. `DriveView` is the abstract specification: a
tree that only granted requests change, each in one step. The mapping is
`tree <- View`, `asked <- made`, so every other step of the system, of any
thread, must leave the view alone, and every granted request must have its full
effect at once.

### WriteFile, WriteUpload, FsWrite (pfs.c, pfsupload.c, pfstasks.c, ppagecache.c)

One file of the drive, which the server has from the start, and its contents.

| Variable | In the code |
|---|---|
| `proc`, `user` | two programs, where each is inside its FUSE call, and what they will still do |
| `of` | the `psync_openfile_t`: file id and hash, sizes, `newfile`, `modified`, `releasedforupload`, `writeid`, `writeintervals`, timer, references |
| `file` | the data file and the index of each task in the cache folder |
| `tab` | the rows of `fstask` and their entries in the overlay, table `file` (`mir`), the cached pages, and `pagecachetask` |
| `srv` | the server's file, what it ever was, and an answer to diff not entered yet |
| `rel` | the threads that the write timer starts to release the file |
| `upl`, `big` | the uploader's thread, and the one of large uploads |
| `ghost` | what was written last, every state a flush or the timer released, defects met |

`WriteFile` is the side of the programs. `Open` chooses as `psync_fs_open` does
(the file is open already; a row that makes it, with O_TRUNC or not; the
server's file; a row whose data file has to be made again). The first write to a
file of the server makes row, data file and index in the steps `Change`,
`CreateFiles` and `Fill` (`psync_fs_reopen_file_for_writing`), with the mutex of the
open file held (section 5 says when the code gives it up before them): a file of at most `ConvertLimit` units
whose pages are all cached is copied and becomes new; if a page is gone by then,
the call fails and leaves what it had copied. `Flush` and `Flushed` are the
two halves of `psync_fs_flush`, before and after the lock of the database;
`TimerDue`, `psync_fs_write_timer`, `psync_fs_upload_release_timer` and
`ReleaseEnds` are the write timer. `WriteUpload` has the thread of small uploads
from the choice of rows (`psync_fsupload_check_tasks`) over one request to the
entry of the answer (`psync_fs_update_openfile`, `pr_del_task`), and the thread
of large ones, one action for every look at the file or the database: row,
checksum, the request itself, index, sizes, the ranges of a modified file, save,
and the answer, each followed by the check of the write id where the code has
one. `CacheUploaded` and `CacheEnds` hand the pages on (`pagecachetask`).
`FsWrite` adds the diff thread, a restart from any state, and the properties.

A content is a sequence of units and its own hash, so a mixture of two states is
seen wherever it arises.

### PageCache (ppagecache.c)

What is under the drive: 4096-byte pages of a file's revision, in memory, in one
cache file, or on the way from the server. A page's key stands for `(hash,
pageid)`, and its data is the key, so a wrong page is seen wherever it is given.

| Variable | In the code |
|---|---|
| `mem` | `cache_hash`, `free_pages` and the counters `cache_pages_free`, `cache_pages_in_hash` |
| `db` | table `pagecache`, the cache file, `free_db_pages`, and whether uses of rows are to be saved (`cachepages_to_update`) |
| `waits`, `wlock` | `wait_page_hash` and its mutex |
| `rd`, `fetch`, `add` | the readers, the threads of requests, the thread that adds uploaded files |
| `get`, `held` | where each of these is in `psync_pagecache_get_free_page`, and its page |
| `fl` | `flush_page_running`, `flushcacherun`, `flushedbetweentimers`, who flushes, or waits for `flush_cache_mutex`, and the pages it writes |
| `clean` | `clean_cache`: wanted, and the rows it is about to free |
| `shrink` | the thread in which a full disk takes the last page of the cache file |
| `user` | what will still be read and added, and what may still fail |

A read is the whole of `ppagecache_read_unmod_locked`, step by step as it takes
and gives up locks: the look at the rows of an aligned range, the loop over the
pages with `wait_page_mutex` (memory, then row, then file, then a waiter), the
read-ahead, the requests, the wait. A request may be refused, may break after any
page, begin again or end with an error for all its pages. `flush_pages` is four
actions: it is counted and waits for the mutex (`FlushStarts`), drops the rows that a
full disk has no place for and counts the free ones (`FlushChecks`), stores that
count, by now perhaps old, chooses pages and rows and writes (`FlushWrites`), and
tells table and memory (`FlushCommits`); it fails at any of its writes or at its
sync (`FlushFails`). Reads of the cache file fail as well, in all three places that
read it. Servers and API are external.

Row `i` has its page at `i` pages from the beginning of the file. A workload gives
the table and the file that the last run left, and `Init` what `ppagecache_init` makes
of them: rows too far behind the end of the file are dropped (`TableLeft`), free ones
added (`TableFilled`), table and file cut to the setting (`TableAtStart`), and the file
made `MAX(id)` pages long, counted from page 0 (`FileAtStart`), which is one page
less than the last row needs. A used row whose page that cut is in `ghost.cut`
until its row is given up. `PageCacheInvariant` states the invariant of section 4.

### Timer, TimerUsers (ptimer.c, pcache.c, prunthrottled.c)

The wheel with `Size` slots per ring and `Levels` rings, the thread's look at
the clock, the lock, the cascade (`Cascaded`), the calls outside the mutex, and
re-arming. `Register` and `Stop` are the calls of other threads and of the
callbacks. `Span` is the number of seconds a slot of a ring stands for, a shift
by multiples of `TIMER_ARRAY_SIZE_SHIFT` in the code. The clock may jump ahead
by up to `MaxJump`.

`TimerUsers` composes it with two of its users and with everybody else:

| Variable | In the code |
|---|---|
| `fun` | `timer->call` |
| `bucket` | one list of `cache_hash`, an entry going by its timer |
| `scan` | the lock of the bucket, held by `pcache_get`, `pcache_del` or `pcache_clean`, and what of the list they have not seen |
| `node` | the function's node in `tasks`: `scheduled`, and whether it is to be run first, to be registered, or has its timer |
| `ending` | the timer whose callback is between its work and `ptimer_stop` |
| `asked`, `last` | ghosts: a request no run has answered, and when the last run began |

A scan calls `ptimer_stop` entry by entry (`Visit`) while the timer thread goes
on, so an entry may begin to run between two visits; the callback (`CacheTimer`)
waits for the lock. `pcache_del` is a scan that frees what it takes, begun again
by the caller's loop. `prun_throttled` is three steps: the node under the mutex
(`RunThrottled`), the first run (`RunFirst`) and the registration
(`RegisterNode`), with requests and nothing else in between.

### CryptoLayout, CryptoLog (pfscrypto.c)

An encrypted file is stored as its sectors, with sectors of authenticators, of
authenticators of these, and so on, in between, and one master authenticator at
the end. `CryptoLayout` has the four functions that say where things are:
`pfscrypto_offset_by_size`, `psync_fs_crypto_offsets_by_cryptosize`,
`pfscrypto_sector_id` and `pfscrypto_get_auth_off`. The unit is the size of one
authenticator (32 bytes), so a sector has `HashSectors` units, 128 in the code.

`CryptoLog` is one open file and what it is stored in:

| Variable | In the code |
|---|---|
| `disk.data`, `disk.index` | the files `...d` and `...i` in the cache folder |
| `logs.l`, `logs.f` | the files `...l` (being written) and `...f` (renamed for a flush) |
| `synced` | what `fsync` has put on the disk of the first two; `synced` of a log for the others |
| `of` | `currentsize`, `sectorsinlog`, `writeintervals` and the records of the log |
| `todo`, `fetch` | what is left of a write or truncation, and the ranges `ppagecache_readv_locked` is fetching for it, with the file unlocked |
| `pc` | the step of `psync_fs_crypto_do_finalize_log`, or of the recovery |

A write goes to the log (`WriteUnits`), after the parts of the server's file it
needs are fetched to the data file (`Needed`, `StartFetch`, `Fetched`). A flush
completes the log with the tree of authenticators (`WithTree`, which follows
`psync_fs_crypto_switch_sectors` level by level) and with the intervals that are
local, and then renames, syncs, replays and deletes it, one action for each
operation on a file and each record. `Crash` is the end of the process or, in
the workloads made with `Power`, of the machine: then every unit written since
the last sync may or may not be there, and a log that was not synced may be
torn. `Check` and `Open` are the start of the program.

A unit is an abstract value; an authenticator is what it authenticates, so one
that does not fit its sector is seen, as in the code, and what does not verify
reads as nothing (`-EIO` in the code).

`DurableFile` is what the user may rely on: contents, the contents saved, and
the contents that survive a loss of power. A save takes all or nothing, and a
crash brings back one of these. The mapping is `contents <- View` (what can be
read now), `saved <- Recovered(disk, logs)` (what the recovery would make of
data file, index and logs, merged with the server's file as an upload does), and
the same of the synced files.

### SyncTables, SyncScan, SyncDiff, SyncUp, SyncDown, SyncEngine (plocalscan.c, pdiff.c, psyncer.c, ptask.c, pupload.c, pdownload.c)

One folder, synced both ways.

| Variable | In the code |
|---|---|
| `disk` | the folder on the disk: inodes with kind, folder, name and content |
| `db` | the tables `localfile`, `localfolder`, `syncedfolder`, `task`, and `file` with `folder` (`mir`, the mirror of the server) |
| `srv`, `diff` | the server (external) and the changes it has reported that are not entered yet |
| `scan` | `scanner_scan`: the lists of what is new, gone and modified, `restart_scan`, `scan_stoppers` |
| `up`, `dn` | the row at which the upload and the download thread are, and the lists `uploads` and `downloads` with the step of each transfer |
| `user` | what two users, at the disk and at the server, are still going to do; broken connections and restarts still allowed |
| `ghost` | history: versions seen at either end, versions lost, known defects met |

`SyncTables` has the functions that put rows into the tables, the paths, and the
server. Ids of `task` come back as they do in SQLite: one more than the highest
there is. `SyncScan` reads folder by folder and compares (`ScanFolder`), pairs
what is new with what is gone by inode (`FolderRenames`, `FileRenames`), and
enters it in transactions (`ScanFolders`, `ScanFiles`, `ScanGone`); between any
two of these steps the others run. `SyncDiff` is one action, `Diff`: the diff
thread enters one change of the server, with everything `process_createfolder`
to `process_deletefile` do to rows and running downloads. `SyncUp` is the upload
thread (`UpMkdir UpMove UpMvdir UpDelete`, each followed by the answer, which
may get lost: `UpAgain`) and one upload: admission, lock, checksum, the
comparison with the mirror, sending with `ifhash`, the answer under the lock of
the diff thread, the new name of a conflict. `SyncDown` is the download thread
(`DnMkdir DnRmdir DnRmtree DnDelete DnMove DnMvdir`) and one download: its
stages are the transfer, the check for a local change, setting aside, the
rename into place, and the row. The thread reads a row, and for most kinds waits
with it (`DnWaits`) until no download is left: what such a download queues again
meanwhile comes after that row. A change of the disk and that of the rows are
separate actions wherever the code commits after it. `Restart` kills the program
at any point. `SyncEngine` puts the users beside them and states the properties.

## 3. What the runs show

Lock:

* `rwlock`: four threads, every call in every order. `MutualExclusion`,
  `CountersAgree` (the shared counters are what the threads' own counts add up
  to), `NoLostWakeup`, `ImplementsContract`, and `EveryCallReturns`, without the
  help of time-outs or spurious wake-ups. Four threads are one upgrading reader,
  another holder and one waiter of each kind; recursion depth 2 distinguishes
  first from nested calls. Two threads make two requests and two make one
  (`FewCalls`): a waiter is overtaken by a call made after it was woken.

Drive (each behaviour starts from one of the workloads of `MCFsDrive`):

* `fs_quiet`: the user and the uploader alone, the diff thread beside them, and
  two broken connections or crashes while things are made and moved. `DriveSpec`,
  `NoneRefused` (every request reaches the server in an order in which it is
  possible), `Converged` (an empty queue means tables and server agree and the
  overlay is empty), `WaitsForIds`, `EntriesHaveTasks`, `CountsEntries`.
* `fs_faults`: a crash or a broken connection anywhere, late diffs, and what the
  handlers of refused requests do (`MkdirRefused`, `CreatRefused`), with
  cancelled revisions. `RestartKeepsView` says the overlay built at the start
  shows what the old one did. With a late diff the view may go back for a while,
  and after a lost answer the replaced row of a rename stays until diff removes
  it, so `DriveSpec` is not claimed here; `ConvergedAfterFaults` is, which
  includes that `taskscnt` counts the entries of its folder.
  `DrainsAfterFaults`: however often a task is refused or its answer lost, the
  queue is empty again and again, except after a refused mkdir (section 6).
* `fs_write`: two programs write, cut, truncate, flush and close a file of two or
  four units while its earlier states are uploaded in one request
  (`DirectLimit` 3 and below) or in parts. `ReadsLastWritten`: whatever the
  uploader does meanwhile, a read returns what was written. `UploadsLastWritten`:
  when all is closed and at rest the server has what was written last, so no row
  is left unreleased and no wake is missing. `ServerHasVersions`: what the server
  gets was the content at some release, never a mixture. `PagesAreTrue`: a page
  cached under a hash belongs to that content.
* `fs_rmdir_full` (a violation): see section 6.
* `page_cache`: two readers, two threads of requests, one flush in the background
  beside those that threads do themselves, four pages of memory, two rows.
  `PagesAccounted`: no page of memory is lost or in two hands and the counters of
  pages and rows agree with what they count, but for the defects of section 6.
  `ReadsTrue`: a reader gets the pages it asked for whoever freed, reused or cut
  off their place meanwhile, each page that is waited for is in a request, and a
  row stands for the page the file has there, except one whose page the start cut
  off (section 6). `EveryReadReturns`.

Of `page_cache`: `CachePages` 4 is one page more than the threads hold at once,
so that one or two are left to run out of, and makes one page the mark at which a
flush starts; two rows are fewer than the pages read, so that rows are cleaned
and used again; `Word` 16 lets `free_db_pages` go below zero and never round. The
twelve workloads of `MCPageCache` are chosen by what meets: a reader of a part
of a page and a flush that reuses its row, more pages than memory has,
authenticators, added files that are being read, a full disk, a read, write or sync of
the cache file that fails, failing and repeated requests, overlapping read-ahead, a last
row whose page is cut off by this start or was by an earlier one, a table longer than
the setting.

`PageUnits` 2 makes pages that are written in part, `ConvertLimit` 3 files that
are converted (two and three units) and files that are not (four), `DirectLimit` 3
both ways of uploading; one of the scripts grows a file across each limit, and one
(`Converted`) makes a page go between the look for it and the copy. A script has at most two writes
between opening and closing, because a third only repeats a state of row, data
file and answer that two can reach; at most one fault, restart, early timer and
late diff each happen in a behaviour, in every combination of `Scripts` in
`MCFsWrite`.

Three requests over two names are enough for every pair of tasks that an arrow
relates and a third that disturbs them; four are run where that is affordable.
Every row, arrow and entry is about at most two names in two folders, so more
objects add none of a new kind. `MaxTask` is never reached by the runs without
faults; with them it only keeps reused ids apart.

Timer:

* `timer_wheel`: `Size` 2, `Levels` 3, time-outs up to one more than the wheel
  holds, times up to 9, once round the outer ring; the proofs cover the rest.
  The two timers are plain ones, or belong to the cache and a throttled
  function (`Uses`). `CallsOnTime`
  (no timer late, and none early apart from the window of section 6),
  `NoneFreedWhileRunning`, `StopsForGood` (a stopped timer is never called again and is freed),
  `OwnersAgree` (the list of the cache holds just the entries whose timer was not
  called yet: what a lookup finds is allocated, and the callback finds its entry),
  `Throttles` (a request is followed by a run, and runs keep their distance).
  Two entries, or an entry and a node, are enough for a scan that meets one entry
  that runs and one that does not.

Encrypted files:

* `crypto_log`: sectors of two authenticators, so that nine units make a tree of
  three levels and files of one to nine units pass every boundary of the first
  two (part of a sector, a full one, a full sector of authenticators, one more).
  Up to three requests, two flushes and a crash at any step; in one workload two
  crashes, so that the recovery is interrupted as well; two workloads with loss
  of power. A log of three records is full, so writes flush as well.
  `ReadsBack` (every sector reads as written last, from log, data file or server,
  and verifies), `DurableSpec` (all or nothing, whatever the crash),
  `FetchesInside` (no fetch writes behind the end of the data file) and, for
  every size up to 24 units, which is four levels, `LayoutFits` (the layout can
  be read back from the stored size, and fills it without gap or overlap).
* `crypto_regrow` (a violation): see section 6.

Sync engine:

* `sync_engine`: every change of nine at the disk against every change of ten at
  the server; each of these alone with a broken connection, a killed program or
  both, with small and with large downloads; and some longer scripts, chosen for
  uploads that wait for one another, downloads that are overtaken, and a folder
  that arrives where there is one. `Converged` (when all is at rest the two trees
  are equal, unless a defect of section 6 was met), `OneChangeArrives` (a single
  change arrives whatever breaks, with one exception), `DownloadsKeepEdits` and
  `UploadsKeepEdits` (neither direction ever overwrites what the other end has
  not seen), `RowsKnowTheirFiles` (each row names its file and version at the
  server, on which the next upload is based).
* `sync_live`: `Settles` for every single change with a fault, a restart or
  both: the engine comes to rest and stays there; no two threads undo each other
  for ever.
* `sync_lost_task` (a violation): see section 6.

Two users with a change each are the least that can conflict; one file beside a
folder with one file gives each request a target at both levels and each name a
rival. `MaxUploads = 1` makes an upload wait for another, as the thirty-third does
in the code.

The loss of power also confirms a comment of the code (`pfscrypto.c:1660`): what
was fetched needs no sync, since no index names it before the flush that syncs
the data file.

### Fairness

`rwlock`: a woken thread gets the mutex, and a holder unlocks; every caller
in `psql.c` does. `fs_faults`: the uploader thread and the diff thread go on
(both are endless loops whose waits the model has as guards), and whoever holds
a file open closes it. `sync_live`: the scanner, the diff thread, the upload and
the download thread go on, each as a whole (four weak fairness conditions; the
transfers they start are counted with them, and each transfer ends because
nothing in it waits for ever except `DnStopped`, section 6). `page_cache`: every
thread that can go on does, a flush that was started runs, and the timer is
called again and again (`ppagecache_init` registers it with
`ptimer_register`, and `ptimer.c` calls it every `PSYNC_FS_DISK_FLUSH_SEC`
seconds); nobody is assumed to ask the file to give up a page. Nothing is assumed
about the users, or that a connection breaks or not. The other runs check safety
and assume no fairness.

Deadlock is checked for the sync engine; at rest, or in one of the states `Hung`,
`Refused`, `InTheWay` of section 6, it is allowed to stay. The behaviours of the
others end when their requests are used up, so their configurations switch it
off; that nobody waits for ever there is what `EveryCallReturns`,
`DrainsAfterFaults` and `EveryReadReturns` say.

## 4. What is proved

### The lock

TLAPS proves, for any finite set of threads and any bound on
recursion: in `RWLockProofs`, `TypeCorrect`, `Exclusive` (mutual exclusion),
`Accounted` (`CountersAgree`) and `OneReservation`, and `WakesUp`
(`NoLostWakeup`), and `Implements` (`ImplementsContract`).
Assumptions: `IsFiniteSet(Threads)`,
`MaxDepth \in Nat \ {0}`.

Mutual exclusion is not inductive by itself: the code decides on `rcount` and
`wcount`, while exclusion is about threads. The invariant is

```
IInv == TypeOK /\ Shape /\ CountersAgree /\ ReservedHasOneOwner /\ Exclusion
```

`Shape` relates a thread's two counters to the call it is in (a thread asleep in
the second half of an upgrade still counts one read it no longer has in
`rcount`). `CountersAgree` equates the shared counters with cardinalities of
sets of threads, so `wcount > 0` yields the thread that holds it, and a guard
`rcount = 0` that nobody reads. `Initially`, `Inductive` (one step per action,
over lemmas on the cardinality of a set that gains or loses one thread) and a
temporal step give `Invariant`; the rest follows from it.

`NoLostWakeup` needs more than `IInv`, because a signal goes to one sleeper and
that sleeper may find that it has to sleep again. `WInv` says, on top of `IInv`:

- readers sleep only while a writer holds the lock or waits (`ReadersRest`);
- the thread that upgrades is awake as soon as no other holds the lock
  (`UpgraderAwake`);
- while writers sleep at a free lock, a thread is awake that will take it, and
  it is not a reader that would go back to sleep for those writers
  (`TakerAwake`);
- `PSYNC_RW_OPT_PREFER_READ` is set only while the reader it is for waits
  (`PreferredWaits`): a reader that finds it set is not held up by writers;
- only timed calls expire (`TimedExpire`): a signal consumed by a call that times
  out is passed on by the code after its time-out.

`WakingInductive` has one lemma per kind of step; the long ones are the unlocks
and the time-outs, where the code chooses whom to signal.

`Implements` maps the threads' own counts to the holders of the contract. Under
`IInv` the guards the code has on `rcount` and `wcount` are guards on the other
threads, so each of the lock, try, upgrade, resume and unlock steps is the step of
`LockContract` of the same name; requests that block, wake-ups and time-outs
change none of its variables, and the second half of an upgrade is its one step.

### Timers and their users

`TimerProofs` proves every property that
`timer_wheel` checks, for any finite or infinite set of timers, any wheel with at
least two slots and two rings, any time-outs and any jumps of the clock
(`WheelAssumption`), and any keys, `maxkeys` and interval the wheel holds
(`UsersAssumption`).

`NeverAgain` (`StopsForGood`) rests on `StopInv`: the thread has a list only
while it calls, and a timer that is marked is in it. `ListStaysAllocated`
(`NoneFreedWhileRunning`) adds that a timer is in no slot exactly when it is in
the list (`FreeInv`); it needs to know that turning rings and taking out a slot
(`Turned`, `Cascaded`, `After`) moves timers and makes none.

`WheelOnTime` (`CallsOnTime`) is the functional correctness of the wheel. Its
invariant, `WheelInv`, says that a timer that waits is in the slot of some ring
`m` for its second and *ahead* of it: ring `m` comes to that slot later than the
second up to which the wheel was turned (`TurnedTo`), and less than a turn later,
so that slot means that second. `AheadStays` and `AheadFalls` show what one
second does: the timer stays ahead, or its ring gives it up to the next inner
one, where it is ahead again, or it is due. `TurnedRings` goes from the outermost
ring inwards, `SecondOnTime` over a second, `AfterOnTime` over the seconds of a
look. The registration window appears as `late`, the one exception.

The loops of the code are recursive functions over an interval. The induction
theorems of the library take operators, which the provers cannot instantiate, so
`Induction` states induction with a set (`Climb`) and existence of such a function
with a function of steps (`Iterate`), both from the well-foundedness of `<` on the
naturals. Where the code is modelled with a fold, `Fold` has the rule for loops as
a module: it takes what one round does and what is kept as constants with parameters,
and a proof instantiates it once for each loop (`FoldKeeps`).

`UsersImplement` shows that a step of `TimerUsers` is one of `Timer` or leaves it
alone, so the three theorems hold for timers of the cache and of throttled
functions (`UsersOnTime`). `OneOwner` (`OwnersAgree`) is inductive with two
additions: a scan has only entries still listed (`Listed`), since the callback
waits for the lock; and a cache timer that was called is marked, or its callback
is about to mark it (`Ended`), so re-arming never leaves a timer without its
entry. `AskedAndSpaced` (`Throttles`) needs that the timers of the function are
its node's, or end (`Held`, `Holds`), and that the next run is due `Interval` after
the last (`Spaced`), for which `WheelOnTime` gives that it is not early.

### The page cache

`PageCacheProofs` proves both safety properties of `page_cache`,
`PagesStayAccounted` (`PagesAccounted`) and `ReadsStayTrue`
(`ReadsTrue`). The run has two readers, four pages and twelve workloads; the theorems
hold for any sizes of memory and table below the width of the counters
(`PagesAssumption`: `uint32_t` counts them), any finite sets of readers and of
threads of requests, any set of threads that flush (`ThreadsAssumption`: these
are different threads), and any lists of reads, whole or in part, of authenticators
or not, with any finite read-ahead, any uploaded files and failures, and any table
and cache file that the last run left, of which `WorkloadsAssumption` says what the
invariant kept then: the file has the page of a used row, or zeros, or ends before it.

Neither is inductive. The code takes a page, a row or a place in the file in one
critical section and uses it in a later one, so the invariant (`IInv` in
`PageCacheInvariant`; TLC was run on it over the workloads of `page_cache` before
it was proved) says what may not happen to it in between:

- `Hands`, `Asking`, `Flushing`: a thread holds a page exactly from
  `psync_pagecache_get_free_page` to its return or its hash, asks for one only when
  it has a use for it, and is in `flush_pages` once. Without these a page that comes
  out of the pool might not have anybody who puts it back.
- `Places` and `PagesCounted`: each page of memory is free, in the hash, or in one
  hand, and counted there, but for `uncounted` and `ignored` of section 6.
- `Picked`: from `FlushWrites` to `FlushCommits`, with `cache_mutex` given up, what
  is written stays in the hash, each page at a row of its own that is still free
  and where the file has it. This is what makes the rows of the transaction true.
- `Shrinking`: the last page of the file stays the last one while it is given up,
  as `flush_cache_mutex` keeps flushes out.
- `Rowed` and `RowsCounted`: a used row says what the file has, or is one of
  `ghost.cut` and the file has nothing there, and `free_db_pages` counts the free ones,
  but for `rows`, and but for the time in which a flush has counted and not stored it.
- `Reading`, `Complete`, `Given`: a reader is at one of its pages; it has, or waits
  for, all it went over; and what it is about to read of the file without a lock is
  its page or cut off, unless a flush picked that row, which is `reused`; zeros it can
  be given for a part of a page only, and only when a start has cut one off.
- `Waits` and `Served`: readers and `wait_page_hash` agree who waits, and a page
  that is waited for is in a request that has not passed it, which is stronger than
  what `ReadsTrue` promises: the request has it still to come.

The proof goes by concern rather than by action. First every action
is shown to be one of seven moves of a page (`PageMoves`), and each move keeps
`Places` and the counters (`PagesKept`); `ControlKept` has a lemma per thread. Then
`RowsStep` shows that only `flush_pages` writes to the file, and
only at free rows; `OwnReads` that each step of a reader keeps what it says of that
reader and is quiet, starts to wait, or hands its list to a request; and
`ArrivesKept` and `ErrorKept` that a request that wakes readers gives them the page
or the error. `FlushWritesTodo` says what `flush_pages` picks: that pages and free
rows in their order are matched one to one rests on `PlacesDiffer` and
`AssignedFacts`.

### The open file of the drive

`FsWriteProofs` proves `ReferencesAreRight` (`TypeOK` of `FsWrite`): whatever the
two programs, the write timer, the threads it starts, the uploaders, the diff
thread and restarts do in whatever order, `of->refcnt` counts exactly those that
will give a reference up, so `psync_fs_dec_of_refcnt` frees an open file under
nobody and leaves none behind. It holds for programs of any length that open and
close the file as the kernel lets them (`WorkloadsAssumption`), any content of the
server, any limits on sizes (`SizesAssumption`), and any number of expiries, lost
connections, late diffs and restarts; `fs_write` checks nine pairs of programs of up to
six calls.

The references alone are not inductive. The timer takes its reference in a write
and gives it up in `psync_fs_flush`, in `psync_fs_write_timer`, or in the thread that
the latter starts, so each of them has to find it there; and the first write
to a file that was only opened goes on, with the mutex held, over two more steps
(`CreateFiles`, `Fill`), which rely on the row it made. `IInv`, which TLC was run on over the workloads of
`fs_write` before it was proved, adds what makes each of these steps possible:

- `CallFits`: a call is the one its program is at, a program has a handle from its
  opening to its close and in every call between, and a call that holds the mutex
  has a file with a row (`of.id # 0`);
- `Referenced`: the reference count is that of handles, timer and threads, and
  without an open file there are none of these;
- `TabFits`, `RowsFit`: the ids of rows are at most as many as were made, so a new
  one is a new row's (`NewIdFits`); status and write id keep their types through
  every way in which the uploaders and `psync_fs_flush` write to a row.

The proof has one lemma per handler. Those of the uploads, the page cache's task
and the diff go by what they leave alone (`Apart`, `Answered`: only the name of the
open file changes when an upload is answered). Those of the calls go by what a
write does to the open file: `Leaves` says that the sizes, intervals and contents
may change and identity and references do not, `WriteIdLeaves` that the timer takes
a reference if it had none, `ReferenceGiven` and `ReferenceTaken` that a close and an
opening move the count by one, and `ReferencesKept` that nothing else does.

### What is read, uploaded and cached

`FsWriteContents` proves three properties of `fs_write` from the same
assumptions, so for any programs, contents, sizes, restarts, expiries, lost
connections and late diffs: `ReadsAreRight` (`ReadsLastWritten`), `ServerIsRight`
(`ServerHasVersions`), and `PagesAreRight`. All three are about behaviours in which
none of the ways to damage a file in `Damaged` (section 6) has been taken;
`ReadsLastWritten` and `ServerHasVersions` say so themselves, while the run checks
`PagesAreTrue` without that exception. As long as files are not cut or opened with O_TRUNC, and without
kills and late diffs, the only such ways are `otherrow`, `stalelocal` and `uncopied`.

None of the three is inductive: what a program reads is put together from a data
file, an index and a revision, and changes hands from open file to row to server
to table file to pages, in steps between which every other thread may run.
`ContentsRight` (`FsWriteInvariant`; every conjunct was checked by TLC over the
workloads of `fs_write` before it was proved) says what holds in between:

- `OneName`, `Naming`: the overlay has one entry at most; a row that is to be
  uploaded is the entry's or the one whose answer is being entered, and the open
  file is the entry's. So no step has to be compared with a second row.
- `Filing`, `Written`: without a data file the server and table file have what was
  written last; with one, the data file, its index and the row's base show it
  (`Right`), and everything the index lacks is in the base (`Sound`).
- `OpenShows`: the open file's sizes, intervals and flags are those of row and data
  file, except in the two steps (`Stage`) in which a call with the mutex makes them.
- `Numbered`, `Settles`: write ids. A release that is still to come is of an earlier
  state, or of this row, and then the row's write id does not pass the file's;
  unless one is to come or a program is in a call that will ask for one, the row
  has the open file's. This is what makes the look at the write id in
  `psync_process_task_creat`, `large_upload_save` and `save_meta` decide rightly.
- `Small`, `LargeOne`: what an upload has read so far is the beginning of what is in
  the data file, *if its write id is still the file's*. A write between two reads
  raises the write id first, so a mixture is never saved as the last content; and
  the checksum of the whole file, which is taken and compared under the same
  condition, keeps it from being saved at all.
- `Entered`, `Handed`: from the answer to the deletion of row and data file, and
  while `pagecachetask` has a file, what was uploaded is still there.
- `TruePages`, `Versions`: the pages, and what the server ever saved.

The proof has a lemma per handler, over lemmas on contents (`PutThere`,
`LargerFile`, `ShorterFile`, `UnitWritten`: what a write of one unit, or a change of
size, does to a data file that shows a content), on pages (`PagesMade`,
`PagesMixed`), on rows and files that come and go behind the open file
(`BehindTheEntry`, `RowsLess`), on an upload that moves on or is woken (`SmallMoves`,
`LargeMoves`, `FailsRight`), and on the open file (`FileMovesRight`, `ReleaseRight`,
`ChangeRight`). `DamageStays` shows that flags are never taken back, so the invariant
may be assumed before every step that ends without one.

### What is uploaded in the end

The last part of `FsWriteContents` proves the last property of `fs_write`, `UploadsAreRight`
(`UploadsLastWritten`), with the same exceptions as the run checks it: the damages,
and the two ways in which a release is lost without one, `forgotten` and `skipped`.
It is a safety property: when all files are closed and every thread waits, the
server has what was written last; whether it comes to that is liveness. What may
not happen is that a row is left which nobody is going to look at, and `UInv`
(`UploadsAwake` with the exceptions, also checked by TLC over `fs_write`) says who is:

- `Looked`: a released row (`status` 0) has a wake that the uploader has not heard
  yet, is in the hands of the uploader or of a large upload, or its answer is being
  compared with a write id that is still the file's. A thread that gives a row up
  wakes the uploader, or finds that the row is not released.
- `Deferred`, `Runs`: a row in status 2 has a thread of large uploads, which picks it
  or, before it stops, is told of it.
- `Knows`: no closed file has a row in status 1; an open file with a released row
  knows it (`released`), so that the next write takes it back, or has been written
  since, so that the answer will not count. `Asked`: a release that is to come for
  the file's present write id finds it so marked.
- `Sent`: what an upload sends is of the last release, or of a state before the
  file's, so `Looked` holds when its answer comes.
- `Arrows`: a row waits for the one whose answer is being entered, and for no
  other, so nothing holds it back once that one is deleted.

`ContentsRight` is what it rests on (that there is one row, and that without one the
server has what was written last), and `ClosedLooks` is the step where the two meet:
the last close leaves a released row because of `Settles` and `Referenced`, since a
release to come has a reference. `RestHasNoRow` concludes.

### What a download may destroy

`SyncProofs` proves `DownloadsKeep` (`DownloadsKeepEdits`): no download destroys a
version that was written here and that the server does not have, but for the two
defects that section 6 lists as `window` (the user writes between the comparison and
the rename) and `unsure` (the file is gone at the server when it is asked for its
revisions). It holds for any
two scripts of the users, any faults they allow, any number of uploads at once, with
small downloads and with large ones, and wherever the program is killed.
`WorkloadsAssumption` says what a script is: two sequences of operations, and what an
edit or a new file contains is not version 0, which stands for no content.

A download destroys something at the step `DnPlace`, where what it got is renamed
onto a path. The property speaks of that step only, and is inductive with
(`SyncInvariant`; TLC checks it over all scripts of `sync_engine`):

- `DnFits`: before that step a download has seen no file there, or one with a version
  that was kept at the server, or could not know (`ghost.unsure`). `DnLook` and
  `DnAside` establish it. Between them and `DnPlace` the file of the server may be
  changed, moved or deleted, the tables may change and the download may be told to
  stop; the version that was seen remains in `ghost.kept`, which only grows.
- `SrvFits`: every revision of a file at the server is one that was kept there, so
  what `DnLook` compares a checksum with has been kept. Every operation of the server
  has to keep this: `SrvCreateFits SrvSaveFits SrvMoveFits SrvDeleteFits`.
- `DiskFits`: a path has one file, so the file that `DnPlace` looks at is the one it
  destroys; inode numbers are not used again (`NewInodeIs`), so a new file is none
  that was seen; and every file has a version that has been here. Moving a folder
  with all in it (`FitsMoved`), merging one into another (`FitsMerged`), and
  giving a conflicting file a free name (`AsideIsFree`) keep it.
- `UserFits`, `GhostFits`: what the users are still going to do, and what is written
  down of what they did.

The threads that touch neither disk nor server, scans and the queue of the uploads, are
one lemma each (`ScanStill`, `UpStill`); the diff, which only tells downloads to stop,
is `DiffStep`. Each other action has one of its own, and `NextFits` puts them
together. That the rows of the database say anything about the disk is not needed: a
download trusts only what it finds.

### Locks and counts of the transfers

`TransfersApart` is about three conjuncts of `TypeOK`, for any number of transfers and
every `MaxUploads` (of which `MaxUploadsAssumption` says only that it is a natural number):

- `PathsExclusive`: `psync_lock_file` does what it is for. A download has the lock of
  its path as long as it is in the list, an upload only while it is sent, so a rename in the
  tables between the two is where it could fail: both keep the path they began with.
- `StoppersCounted`: the scanner is stopped as often as there are threads that stopped
  it. `rename_and_create_local` has several ways out of the section that it stops the
  scanner for, and `task_rename_file` one of its own; the scanner would never
  run again after one that forgot it, and run too soon after one that let it on twice.
- `UploadsBounded`: no more than `MaxUploads` files have their turn, also when
  uploads are told to stop and started again meanwhile.

The invariant `CInv` says of each download that has stopped the scanner at which
steps it can be (`DownloadHolds`), and of each list that it is finite; each step then adds one
to a list, takes one out or changes one, and the proof counts.

### What an upload may replace

An upload does trust a row. `task_uploadfile` sends `ifhash`, the hash in the row of
the file, and the server replaces its file only when that has this hash; otherwise it
makes a second one. `UploadsKeep` (`UploadsKeepEdits`) says that nothing is lost by
that: what is replaced at the server is a version that has been on this disk, whatever
the users do and whenever the hash was written. The upload may have been queued by a
scan, have waited for others, have been told to stop and started again, and the row
may meanwhile have been renamed, filled in by a download or an answer, or be another
row altogether that has got the same id. The invariant `BInv` is about every row, not
only those with an upload (TLC checks it over all scripts of `sync_engine`):

- `DbFits`: hash and checksum of each row of `localfile` are those of a version that
  was here, or of none (`Based`). A row gets its hash in four places: from an answer
  (`UpAnswer`, `UpConflict`: what was sent), from a file the server has already (`UpRead`: the
  checksum that was just read), from a download (`DnRow`: what was put here), and from a
  large file that is compared instead of fetched (`DnGet`: the row's own checksum). All
  other functions that write rows, move them or drop them keep it.
- `UpFits`: what an upload has sent was read here; `PlacedFits`: a download that comes
  to its row has put here what it got, or has found it here.
- `ScanFits`: what a scan has read is finite, and so are the tables, so their loops end.

The transactions of the scanner are loops over what a scan found, one for each kind
of change (`ScanFiles`), `delete_local_folder_rec` has one over the files below a folder,
and `psyncer_dl_folder_add` one that calls itself: it is modelled as a loop over what
is still to be added (`dl_add`), with the folder's parts put in front. `Fold`
is instantiated for each of the eight, after a lemma about one round (`ScanUploadFile`,
`DlAdd` and so on).

### Only model-checked

- All liveness, since the prover has no fairness reasoning (of the page cache,
  `EveryReadReturns`).
- Of the sync engine, the rest of `TypeOK` (that both trees are trees, for every script)
  and what holds at rest (`Converged`, `OneChangeArrives`,
  `RowsKnowTheirFiles`): that needs an account of everything that is still to
  be done, in tables, lists and threads, for each difference between the two trees, and
  the exceptions are found by TLC and not in the state.
- Of `FsWrite`, that pages stay true after a file was damaged; all of `FsDrive`.
- Encrypted files: `CryptoLog` computes sectors with recursive functions and folds whose
  values, not only what they keep, would be needed.

## 5. Not modelled

Of timers: the handlers of exceptions and of a sleep that was detected
(`timer_sleep_detected`, whose call of `pcache_clean` is a scan at any time),
`ptimer_wait_next_sec`, and a clock that steps back. Of the cache: free functions
that call it again, which its recursive locks allow.

In the drive: permissions, encryption, times, quotas, symbolic links, the bound on
the size of a batch, and a connection that cannot be made at all (as opposed to
one that breaks). Memory is not modelled: a value read from a structure just
released is taken to be the old one. Names are atoms; `name(1)` is the one
conversion that matters and is modelled as an appended suffix.

Of writing (`FsWrite`): the first write to a file of the server gives up the mutex of the
open file when another thread has the lock of the database (`pfs.c:2118`), and if the
file was re-opened for writing by then it goes on without raising the write id again.
The model raises it and looks in one step, `Change`. Only another write or truncation
of the same file could come between, and the kernel is taken to send these one at a
time, as FUSE does by default: `ReadsLastWritten` and `UploadsLastWritten` rest on
this. Without it a write could be lost, whose write id is raised before that of the
one whose upload is under way. An answer of the server that refuses an upload
altogether (`pfsupload.c:773`, `1027`, `handle_upload_api_error`) is left out; `FsDrive`
has what a refused creation does. Also left out: several open files at once, and so the second
`psync_openfile_t` that an O_TRUNC open of an open, unwritten file makes
(`pfs.c:209` updates only one of them); renaming or removing the file meanwhile
(`FsDrive` has that, without contents); upload sessions resumed after a restart
(`fstaskupload`), copying a file the account has elsewhere, throttled writes,
static and encrypted files, full disks, and an id of a row that is used again
while the page cache still has to take the old one's file (`clean_stuck_tasks`
means to keep such files, but the join at `pfsupload.c:2021` lacks its condition).
The check at `pfsupload.c:1213` looks at `type` where it means `status`, and so
always wakes the uploader; the model has what that does.

Of the page cache: `psync_pagecache_modify_to_cache`, the order in which reads of
encrypted files take their pages, ages (what `clean_cache` frees is any set of
used rows, never none), the cache of URLs, moving the cache file and resizing it while
it is in use, commits that fail, and the long flush that splits its transaction. A
content server and the API are not told apart. `clean_cache_stoppers`
(`ppagecache.c:1343`) is not either: it only puts off the cleaning, which may start at any
later time in the model, while `ppagecache_lock_pages` looks for pages of a file that
is converted, and the conversion is a part of `FsWrite`. A flush on a full disk gives up
pages in two critical sections (line 1612), which are one step here: in between, threads may take the
pages already given up, as they may after both. A truncation of the cache file
that fails (line 4060) leaves the file a page longer than the table: the next
attempt looks at the same end of the table again (line 4014).

Of encrypted files: the thread that extends a file by much at once, failing I/O
and failing downloads, and the conversion of a small file of the server into a
new one. The rename, creation and deletion of files, and the size a data file
gets when it is opened for writing, are taken to be durable at once. The kernel
is taken to send the writes and truncations of one file one at a time, as FUSE
does by default; flushes, fsyncs and the write timer run beside them. What a loss
of power may leave is only kept in the workloads that have one.

Of the sync engine: copying a file at the server instead of uploading it
(`copy_file_if_exists`, the checks by checksum before a large upload), ranges of
large uploads and downloads, peer to peer transfers, free space, names to be
ignored, several folders to sync or one that is synced one way, the 1024 slots
of asynchronous downloads, the bound in bytes on uploads, pausing, and the
notification of changes by the kernel: the scanner looks whenever there is
something to be seen. A version of a file stands for its size, time of
modification and checksums at once, so two versions with the same size and time
are not distinguished from one. A scan of a folder reads the disk and then the tables
(`plocalscan.c:500`), here in one step: a download that ends in between has stopped
the scanner, which begins again.  Failing operations on the local disk are only
those that another user or thread causes.

Sets replace lists and trees where no code depends on the order. `taskscnt` is
kept apart from the set of entries because the code keeps it apart.

## 6. Where the code and the properties part

Three disagreements have a run of their own:

* `fs_rmdir_full`: `rmdir` of a folder not uploaded yet that holds something
  returns `ENOTEMPTY` after `folder->taskscnt--` (`pfstasks.c:588`); a debug check
  compares that count with the trees. At zero, the next release frees the
  overlay of the parent with entries in it.
* `crypto_regrow`: the comment at `pfscrypto.c:1556` expects the authenticators
  above the data to be local once a file has grown. A file of the server that is
  cut, flushed, and grown again without a flush has them cut off
  (`pfscrypto.c:1796`), and the next write to a sector that is not local fetches
  the server's old ones, behind the end of the data file. Its size then fits no
  layout. In the run: five units are cut to three and flushed, a write brings
  them back to five, and a write at 0 fetches units up to 10 into a data file of
  6. In the workloads of `crypto_log` a file of the server that was saved shorter
  takes at most one more request, which is too few for this.

* `sync_lost_task`: ids of table `task` are used again. A file is edited and then
  deleted at the server; `process_deletefile` deletes the row of the running
  download and inserts one that deletes the local file, which gets the same id;
  the end of the download (`pdownload.c:1139`) deletes it. The file stays here
  for ever, with nothing left to do.

The others were met while the properties above were being checked. Nothing in
the repository states the contrary in words, so they have no run; the workloads
of the passing runs stay clear of them, by the kinds of request (`ops`) they
name:

| Where | What happens | Kept out by |
|---|---|---|
| `pfs.c:2907`, `pfsfolder.c:461` | `psync_get_folderid` is -1 for any folder not uploaded yet, so a rename replaces a folder that is not empty | no workload has `rename_onto_full` |
| `pfstasks.c:1248` | the rmdir of a replaced folder does not wait for tasks about what was in it: the server refuses it, and the rename becomes `name(1)` | `rename_onto` only without files |
| `pfstasks.c:1378` | the arrows for the new name of a moved folder are looked up under the folder's own id, so a rename to a name just given up goes too early and becomes `name(1)`; its entry under the old name then stays | `rename_to_used` only in `fs_faults`, in a workload of `Refused` |
| `pfstasks.c:1409` | renaming a folder takes the entry with its *old* name out of the folder it moves to, not the one it replaces: another folder there with that name, not uploaded yet, disappears from the drive until it is uploaded, and a replaced one keeps its entry beside the new one | no workload has `rename_twin` |
| `pfsupload.c:1741` | a new file renamed over one of the server, then unlinked before the upload: both tasks are cancelled and the replaced file comes back | no workload has `rename_over` |
| `pfsupload.c:1767` | a cancelled `UN_SET_REV` of a file that was never modified forgets to delete the file it was about | four requests with remembered places only in `fs_faults` |
| `pfsupload.c:353` | a refused upload moves to the root, its entry does not | `EntriesHaveTasks` not claimed in `fs_faults` |
| `pfsupload.c:126` | a refused mkdir moves to the root and wakes nobody | `DrainsAfterFaults` excepts that workload |
| `ptimer.c:152` | a timer registered between the thread's look at the clock and its taking the mutex may land in a slot about to be processed and is then called at once: one of exactly a ring, one of the maximum that the comment at line 39 gives, and, when the clock jumped, most | `NoneEarly`, a part of `CallsOnTime`, excepts that window |
| `pfstasks.c:1056` | two unlink entries of one name, which `insert_into_tree` (line 269) warns about | allowed: entries form a set, and finding takes any of them |

Writing while uploading: here, and in the sync engine, the model notes such a
defect in `ghost.known` when its step is taken, and the properties are claimed
for all behaviours without one; each of these flags is needed.

| Name | Where | What happens |
|---|---|---|
| `truncated` | `pfs.c:1141` | O_TRUNC of a closed file empties its data file without raising the write id: an upload in flight sends part of the old content, and its answer ends the task |
| `shrunk` | `pfsupload.c:902` | a data file cut while its ranges are sent is shorter than the interval, which counts as damaged: the row is deleted with the last write |
| `otherrow` | `pfs.c:1903`, `1806` | flush and the release timer read `of->fileid` after the mutex was given up; a release that comes late puts another row, not filled yet, up for upload: its files are missing and it is deleted |
| `stalelocal` | `pfs.c:193` | after an upload the open file gets the new hash but keeps `writeintervals`; the next write makes a new row and index from them, and units of the old data file that the new one lacks count as written |
| `uncopied` | `pfs.c:2175` | all pages of a file were cached, and one is moved to a newer revision before it is copied: the write fails, but row and entry of a new file stay, with the part of the content that was copied |
| `halfcopied` | `pfs.c:2160` | killed while pages are copied into a converted file: the row says it is a new file, and what is missing is uploaded as zeros |
| `again` | `pfsupload.c:1362` | killed after the answer of an upload is committed and before the row is deleted: the row is done again, after newer ones or with its file gone |
| `noname` | `pfstasks.c:2047` | after a restart a modified file's entry is looked for under a task id that was not set yet: it cannot be opened until it is uploaded |
| `regressed` | `pdiff.c:1425` | a diff answer older than an upload's puts the old revision back into table `file` until the next one |
| `forgotten` | `pfs.c:1337`, `1390` | an open sets `releasedforupload` of the file, which a flush that has given up the mutex overwrites: the next write does not take the row back |
| `skipped` | `pfsupload.c:1155`, `2077` | `current_upload_taskid` keeps the id of the last large upload; a new row with that id (`pdatabase.h:120`) is passed over, and nobody wakes the uploader afterwards |

Page cache (`ghost.known`, `ghost.cut`, `ghost.reused`, and the state `Deadlocked`):

| Name | Where | What happens |
|---|---|---|
| `rows` | `ppagecache.c:1947`, `1480`, `4056`, `1567`, `3970` | a row is freed because its page could not be read, freed when it was free already, deleted with the end of the file or by a start with a smaller setting, or freed by `clean_cache` between the count of `check_disk_full` and its assignment: `free_db_pages` is then wrong, and may start from 2^32 again. `clean_cache` is started when it is low, so with every row used the cache may stay full, no page be flushed, and a thread wait for a page for ever |
| `uncounted` | `ppagecache.c:227` | `get_free_page_if_available` does not count the page it takes; its return is counted |
| `ignored` | `ppagecache.c:1760` | a page that is in the table already, or twice in memory, is freed, but `cache_pages_in_hash` is not lowered for it |
| `reused` | `ppagecache.c:1985` | the row is looked up, then the file is read with no lock, and the CRC is checked of whole pages only: a reader of a part of a page gets what a flush wrote there meanwhile |
| `cut` | `ppagecache.c:4148`, `1985` | row `i` has its page at `i`, but a start leaves the file `MAX(id)` pages counted from 0: the last row has lost its page, unless it is a free one (new rows, put behind the others at line 4126, are). A read of it is short, and the row is freed, uncounted. When a later page was written first there is a hole: a whole page of zeros fails its CRC, a part of one is given to the reader |
| `Deadlocked` | `ppagecache.c:3479`, `2107` | the thread that gives up the last page holds `flush_cache_mutex` and wants `wait_page_mutex`; a reader of authenticators holds that and has to flush for a page |

Also: a flush whose write fails (`ppagecache.c:1675`) leaves `flush_page_running`
raised and wakes nobody, so threads without a page wait until a later flush; and
an error of one request reaches every waiter of its pages, those included that
came after another request had been started for the same page.

In the sync engine the model notes such a defect in `ghost.known` (or names the
state), and `Converged` and `RowsKnowTheirFiles` are claimed for all behaviours
without one. What follows is therefore what these runs found:

| Name | Where | What happens |
|---|---|---|
| `reused` | `pdatabase.h:104` | a transfer that ends deletes, or frees, a row that has got its id since |
| `orphaned` | `pupload.c:1300` | the row of a file that vanished before its upload is dropped, the file at the server stays; likewise a file edited and moved is uploaded as a new one |
| `twin` | `pupload.c:549`, `pdownload.c:447` | one file of the server in two rows, after a copy was found there or came down under an old name |
| `refused` | `pupload.c:289` | a move of a file that the server refuses is dropped, and the places differ |
| `misplaced` | `pupload.c:1404` | a folder that could not be made keeps no id, which reads as 0: what is in it is uploaded to the root of the account |
| `Refused` | `pupload.c:322` | a rename of a folder that is refused is asked again for ever, and every later row waits |
| `stale` | `pupload.c:410` | the answer to a rename of a folder is entered outside the lock of the diff thread, after a newer change |
| `crossed` | `pdownload.c:931` | a file renamed at the server while its edit is on the wire under the old name |
| `conflicted` | `pupload.c:480` | the conflict's new name came down as a file of its own meanwhile: the transaction fails, the row keeps neither id nor name |
| `clean` | `pdownload.c:471`, `985` | a file written between the rename into place and the row gets a row that says it is unchanged |
| `taken` | `pdownload.c:447` | the row of another file renamed here to that name becomes the row of the file that came down |
| `unsure` | `pdownload.c:429` | a permanent error counts as "yes, a revision": a local edit of a file deleted at the server is overwritten |
| `window` | `pdownload.c:418` | written between the look and the rename |
| `killed` | `pdownload.c:985` | killed between the rename of a file and of its row: the scan takes it for deleted, or moved, here |
| `homeless` | `pdownload.c:931`, `314` | a move into a folder deleted here is dropped, what moved stays |
| `clash` | `pdownload.c:314` | a folder renamed at the server to the name of a row here keeps its old name |
| `rebound` | `pdiff.c:949` | a folder made at the server with the name a folder was renamed to here takes over that folder's row |
| `doomed` | `pdiff.c:850` | a folder moved out and back while its removal is queued is removed |
| `Hung` | `pdownload.c:1087` | a small download told to be dropped stays in the list with its lock; the next task that waits for downloads waits for ever |
| `InTheWay` | `pdownload.c:931` | a file cannot get its new name because a folder here has it, and is tried for ever |

One user with one change can meet `reused`, `orphaned`, `twin`, `refused` and
`killed`; `OneChangeArrives` shows that only the last keeps the change from
arriving. `ghost.gone` notes edits destroyed by anything else than a download
(`move`, `delete`, `rmtree`, `merge`, `unwanted`): those tasks remove whatever
has the name, by design or not, so nothing is claimed of them.

Seen in reading, not modelled, about the states of paths (`ppathstatus.c`):
`ppathstatus_syncfldr_moved` looks into the tree of the drive; the loops of
`ppathstatus_fldr_deleted` and `ppathstatus_syncfldr_deleted` reuse `folderid` and
then drop the wrong entry of the cache; `delete_local_folder_rec`
(`plocalscan.c:900`) tests `row` after the loop has left it NULL, so the state of a
deleted folder is never dropped; `delete_local_folder_from_db` (`pdownload.c:282`)
deletes the row before it asks for its parent; and three deletions of overlay
entries (`pfstasks.c:624`, `1391`, `1413`) tell nobody.

Also: `psyncer_folder_dec_tasks` raises `taskcnt`
(`psyncer.c:159`); `psyncer_db_folder_create` binds two parameters in the wrong
order (`psyncer.c:232`; the model has its effect, which is none); `bytesuploaded`
is guarded by two different mutexes (`pupload.c:84`, `116`).

## 7. Plan

Done: 1. `RWLock`, `LockContract` and the proofs. 2. `FsTasks`, `FsUpload`,
`FsDrive`, `DriveView`. 3. `Timer`. 4. `CryptoLayout`, `CryptoLog`, `DurableFile`.
5. `SyncTables` to `SyncEngine`. 6. `WriteFile`, `WriteUpload`, `FsWrite`.
7. `PageCache` and the proofs about it. 8. `TimerUsers`, and the proofs about
timers.

Next, in this order:

9. `SqlTransaction`: `psql.c`, with statements and commits that fail, callbacks,
   and the order of `cpmutex` and `dblock`. Over `LockContract`.
10. `TaskManager` (`ptask.c`) and `Status`.
11. `Intervals` (`pintervaltree.c`) as a pure algorithm; `PageCache` with
   `psync_pagecache_modify_to_cache` and the conversion of rows when it resizes.
12. `CryptoLog` with the extender thread and failing I/O.
13. The sync engine with several folders and delayed syncs (`psyncer.c`), and the
   states of paths (`ppathstatus.c`).

Proofs worth having, in this order: `CountsEntries` and the
part of `WaitsForIds` about rows for `FsTasks` (their operators are written with
functions rather than RECURSIVE for this); `SyncLog` before any write to the data file, the write-ahead
rule, of `CryptoLog`.

A run may hold several workloads, so new questions about the drive or a file need
a workload in `MCFsDrive` or `MCCryptoLog` before they need a run.
