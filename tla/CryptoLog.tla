----------------------------- MODULE CryptoLog ------------------------------
(***************************************************************************)
(* One encrypted file that is written through the drive (pfscrypto.c).     *)
(* Sectors that are written are appended to a log.  A flush completes the  *)
(* log with the tree of authenticators, finalises it, renames it, syncs    *)
(* it, copies its records to the data file and deletes it.  At start, logs *)
(* that were finalised are copied again and the others are deleted.        *)
(*                                                                         *)
(* A new file is all in its data file.  A modified file of the server has  *)
(* in its data file only what is local: what was written, and the parts of *)
(* the server's file that were fetched because a write needed them.  The   *)
(* index file keeps which parts these are.                                 *)
(*                                                                         *)
(* The kernel sends the writes and truncations of one file one at a time;  *)
(* flushes, fsyncs and the write timer run beside them, under the lock of  *)
(* the file, which a write gives up while it fetches.                      *)
(***************************************************************************)
EXTENDS CryptoLayout, Sequences, FiniteSets, SequencesExt, TLC

CONSTANTS Workloads,   \* what may be asked, see Init
          MaxLog       \* records before a write flushes, PSYNC_CRYPTO_MAX_LOG_SIZE

VARIABLES
  workload,  \* the element of Workloads of this behaviour
  disk,      \* data file (d) and index file (i) as the program reads them
  synced,    \* the same files as a loss of power leaves them at worst
  logs,      \* the log file (l) and the renamed one (f)
  of,        \* psync_openfile_t: size, inlog, local, records in the log
  todo,      \* what is left of the write or truncation that runs
  fetch,     \* what the write downloads, with the file unlocked
  pc,        \* where the flush or the recovery is
  plain,     \* the contents as the user wrote them
  count      \* requests, flushes and crashes so far

vars == <<workload, disk, synced, logs, of, todo, fetch, pc, plain, count>>
asked == <<workload, plain, count>>

-----------------------------------------------------------------------------
(* Files are sequences of units: a plain unit is <<v>>, an authenticator   *)
(* is what it authenticates, and an unwritten unit is Hole.                *)

\* F(x), with x evaluated once.
With(x, F(_)) == CHOOSE y \in {F(v) : v \in {x}} : TRUE

Hole == <<>>
Zeros(n) == [i \in 1..n |-> <<0>>]
Units(offset, length) == offset..(offset + length - 1)
Part(file, offset, length) ==
  [i \in 1..length |-> IF offset + i <= Len(file) THEN file[offset + i] ELSE Hole]
Resized(file, length) == Part(file, 0, length)
Patched(file, offset, us) ==
  [i \in 1..(IF Len(file) > offset + Len(us) THEN Len(file) ELSE offset + Len(us)) |->
     IF i - 1 \in Units(offset, Len(us)) THEN us[i - offset]
     ELSE IF i <= Len(file) THEN file[i] ELSE Hole]

\* pcrypto_encode_sec binds a sector to its number; pcrypto_sign_sec.
Tag(sector, us) == <<"sector", sector, us>>
Sign(us) == <<"sign", us>>

Sector(contents, s) ==
  SubSeq(contents, s * SectorSize + 1,
         IF Len(contents) < (s + 1) * SectorSize THEN Len(contents) ELSE (s + 1) * SectorSize)

\* What a unit of the stored file is: <<0, n>> is the n-th plain unit, and
\* <<l + 1, n>> the authenticator of the sector n of level l.
Unit(place) == place.offset + place.entry
Occupants(size, offsets) ==
  LET levels  == 0..(offsets.treelevels - (IF offsets.needmasterauth THEN 0 ELSE 1))
      above[l \in Nat, s \in Nat] == IF l = 0 THEN s ELSE above[l - 1, s] \div HashSectors
      places  == {<<DataOffset((i - 1) \div SectorSize) + ((i - 1) % SectorSize), 0, i>> :
                    i \in 1..size}
                   \cup {<<Unit(AuthPlace(s, l, offsets)), l + 1, above[l, s]>> :
                           s \in 0..LastSector(size), l \in levels}
  IN [u \in 0..(StoredSize(offsets) - 1) |->
        CHOOSE is \in {<<x[2], x[3]>> : x \in {y \in places : y[1] = u}} : TRUE]
Occupant == [size \in 0..MaxSize |-> Occupants(size, OffsetsBySize[size])]

\* The stored form of a plain file, as the server keeps it.
Stored(contents) ==
  LET last[l \in Nat] == IF l = 0 THEN LastSector(Len(contents))
                                  ELSE last[l - 1] \div HashSectors
      entries(l, first) == IF last[l] < first + HashSectors
                           THEN last[l] - first + 1 ELSE HashSectors
      unit[l \in Nat, n \in Nat] ==
        IF l = 0 THEN contents[n]
        ELSE IF l = 1 THEN Tag(n, Sector(contents, n))
        ELSE Sign([i \in 1..entries(l - 2, n * HashSectors) |->
                     unit[l - 1, n * HashSectors + i - 1]])
      occupant == Occupant[Len(contents)]
  IN [u \in 1..Cardinality(DOMAIN occupant) |-> unit[occupant[u - 1]]]

Damaged == <<Hole>>

\* What a stored file contains; every authenticator of it is verified.
Contents(file) ==
  With([i \in 1..PlainSize(Len(file)) |->
          LET s == (i - 1) \div SectorSize
          IN file[DataOffset(s) + i - s * SectorSize]],
       LAMBDA contents : IF file = Stored(contents) THEN contents ELSE Damaged)

Modified == workload.initial # <<>>        \* of->modified && !of->newfile
InitialSize == Len(workload.initial)       \* of->initialsize
Remote == Stored(workload.initial)

\* The file that an upload of the data and the index file makes.
Merged(files) ==
  IF ~Modified THEN files.data
  ELSE [i \in 1..Len(files.data) |->
          IF i - 1 \in files.index THEN files.data[i]
          ELSE Part(Remote, i - 1, 1)[1]]

-----------------------------------------------------------------------------
(* Logs *)

NoLog == [state |-> "absent", synced |-> FALSE, filesize |-> 0, recs |-> <<>>]
NewLog == [NoLog EXCEPT !.state = "open"]      \* pfscrypto_init_log
DataRec(offset, us) == [type |-> "data", offset |-> offset, units |-> us, length |-> Len(us)]
IntRec(offset, length) ==
  [type |-> "int", offset |-> offset, units |-> <<>>, length |-> length]

\* psync_fs_crypto_process_log, before the records and for one record
Replayable(files, log) == [data |-> Resized(files.data, log.filesize), index |-> {}]
Replayed(files, rec, filesize) ==
  IF rec.type = "int"
  THEN [files EXCEPT !.index = @ \cup Units(rec.offset, rec.length)]
  ELSE IF rec.offset + rec.length > filesize THEN files
       ELSE [files EXCEPT !.data = Patched(@, rec.offset, rec.units)]

\* All of the records: the last one that has a unit wins.
Processed(files, log) ==
  LET start == Replayable(files, log)
      has(r, u) == /\ log.recs[r].type = "data" /\ u \in Units(log.recs[r].offset, log.recs[r].length)
                   /\ log.recs[r].offset + log.recs[r].length <= log.filesize
      unit(u) == LET rs == {r \in DOMAIN log.recs : has(r, u)}
                     last == CHOOSE r \in rs : \A q \in rs : q <= r
                 IN IF rs = {} THEN start.data[u + 1]
                    ELSE log.recs[last].units[u + 1 - log.recs[last].offset]
  IN IF log.state # "final" THEN files
     ELSE [data  |-> [i \in 1..log.filesize |-> unit(i - 1)],
           index |-> UNION {Units(log.recs[r].offset, log.recs[r].length) :
                              r \in {q \in DOMAIN log.recs : log.recs[q].type = "int"}}]

\* What the recovery makes of the files.
Recovered(files, ls) ==
  With(Processed(files, ls.f),
       LAMBDA fs : With(Processed(fs, ls.l), LAMBDA f : With(Merged(f), Contents)))

-----------------------------------------------------------------------------
(* Sectors of the open file *)

\* psync_fs_crypto_read_newfile_full_sector; a sector that does not verify
\* reads as nothing (the code returns -EIO)
FromData(data, s, offsets) ==
  LET rest == offsets.plainsize - s * SectorSize
      us   == Part(data, DataOffset(s), IF rest > SectorSize THEN SectorSize ELSE rest)
  IN IF rest > 0 /\ Part(data, Unit(AuthPlace(s, 0, offsets)), 1)[1] = Tag(s, us)
     THEN us ELSE <<>>
ReadSector(o, data, s) ==
  IF s \in DOMAIN o.inlog THEN o.recs[o.inlog[s]].units
  ELSE FromData(data, s, OffsetsByCryptoSize[Len(data)])

\* psync_fs_crypto_write_newfile_full_sector
WriteSector(o, s, us) ==
  [o EXCEPT !.recs = Append(@, DataRec(DataOffset(s), us)),
            !.inlog = (s :> Len(o.recs) + 1) @@ @,
            !.local = IF Modified THEN @ \cup Units(DataOffset(s), Len(us)) ELSE @]

\* Mutant: a write that starts a sector is taken to fill it.
WritePiece_Whole(o, data, s, low, us) ==
  LET end == s * SectorSize + low + Len(us)
  IN [WriteSector(o, s, Patched(IF low = 0 THEN <<>> ELSE ReadSector(o, data, s), low, us))
        EXCEPT !.size = IF end > @ THEN end ELSE @]

\* One sector of a write: the old sector is read unless it is replaced whole
\* or starts at the end of the file.
WritePiece(o, data, s, low, us) ==
  LET whole == low = 0 /\ (Len(us) = SectorSize \/ s * SectorSize = o.size)
      end   == s * SectorSize + low + Len(us)
  IN [WriteSector(o, s, Patched(IF whole THEN <<>> ELSE ReadSector(o, data, s), low, us))
        EXCEPT !.size = IF end > @ THEN end ELSE @]

\* A write over several sectors, in order.
WriteUnits(o, data, offset, us) ==
  LET first == offset \div SectorSize
      last  == (offset + Len(us) - 1) \div SectorSize
      low(s)  == IF s = first THEN offset % SectorSize ELSE 0
      from(s) == s * SectorSize + low(s) - offset + 1
      to(s)   == IF s = last THEN Len(us) ELSE (s + 1) * SectorSize - offset
  IN IF us = <<>> THEN o
     ELSE FoldLeft(LAMBDA x, s : WritePiece(x, data, s, low(s), SubSeq(us, from(s), to(s))),
                   o, [i \in 1..(last - first + 1) |-> first + i - 1])

\* psync_fs_newfile_fillzero
FillZero(o, data, upto) ==
  IF upto <= o.size THEN o ELSE WriteUnits(o, data, o.size, Zeros(upto - o.size))

-----------------------------------------------------------------------------
(* What a write to a modified file has to fetch first:                     *)
(* pfscrypto_write_mod_nu                                                   *)

\* The units from offset on, up to the first local one.
Missing(local, offset, length) ==
  {u \in Units(offset, length) : \A v \in offset..u : v \notin local}

\* Mutant: the limit is the end of the file as it is now.
FetchLimit_Now(o) == CryptoSize(o.size)

\* What is behind this was never uploaded.
FetchLimit(o) == CryptoSize(IF o.size < InitialSize THEN o.size ELSE InitialSize)

Needed(o, offset, length, offsets) ==
  LET atEnd == offset = InitialSize /\ offset >= SectorSize /\ offset % SectorSize = 0
      first == (offset \div SectorSize) - (IF atEnd THEN 1 ELSE 0)
      last  == IF atEnd THEN first ELSE (offset + length - 1) \div SectorSize
      sectors == {s \in first..last : /\ s * SectorSize < InitialSize
                                      /\ s * SectorSize < o.size
                                      /\ DataOffset(s) \notin o.local}
      partial == {s \in sectors : \/ s = first /\ offset % SectorSize # 0
                                  \/ s = last /\ (offset + length) % SectorSize # 0}
      ofTree  == {s \in sectors : s = first \/ s % HashSectors = 0}
      auth(s, l) == LET place == AuthPlace(s, l, offsets)
                    IN Missing(o.local, place.offset, place.length)
  IN {u \in UNION {Missing(o.local, DataOffset(s), SectorSize) : s \in partial}
            \cup UNION {auth(s, l) : s \in ofTree, l \in 0..offsets.treelevels} :
        u < FetchLimit(o)}

\* A range that became local meanwhile makes the write start again; the
\* ranges before it are kept.
Kept(fetched, local) ==
  {u \in fetched : \A v \in fetched \cap local : \E gap \in u..v : gap \notin fetched}

-----------------------------------------------------------------------------
(* The tree of authenticators: psync_fs_write_auth_tree_to_log walks the   *)
(* sectors of the log in order, with one sector of authenticators of each  *)
(* level in memory: t.arr.                                                 *)

Above(sector, level) ==     \* the sector of authenticators of a level
  LET up[l \in Nat] == IF l = 0 THEN sector \div HashSectors ELSE up[l - 1] \div HashSectors
  IN up[level]

\* The levels on which t.last and s are in different sectors, from below; all
\* of them when there is no other sector (PSYNC_CRYPTO_INVALID_SECTORID).
NoSector == -1
Parting(t, s, levels) ==
  {l \in 0..(levels - 1) :
     l = 0 \/ NoSector \in {t.last, s} \/ Above(t.last, l) # Above(s, l)}

AppendAuth(t, offset, us) ==
  [t EXCEPT !.recs = Append(@, DataRec(offset, us)),
            !.local = IF Modified THEN @ \cup Units(offset, Len(us)) ELSE @]

\* psync_fs_crypto_switch_sectors, first half: log what is complete.
LogLevel(t, l, offsets) ==
  LET place == AuthPlace(t.last, l, offsets)
      us    == SubSeq(t.arr[l], 1, place.length)
      entry == Above(t.last, l) % HashSectors
  IN [AppendAuth(t, place.offset, us) EXCEPT !.arr[l + 1][entry + 1] = Sign(us)]

\* Second half: load what the data file has for the next sector.  The data
\* file has the size it got from the last flush.
LoadLevel(t, l, s, data, stored) ==
  LET place == AuthPlace(s, l, stored)
  IN IF Above(s, l) > Above(LastSector(stored.plainsize), l) THEN t
     ELSE [t EXCEPT !.arr[l] = [i \in 1..HashSectors |->
              IF i <= place.length THEN data[place.offset + i] ELSE @[i]]]

InOrder(levels) == SetToSortSeq(levels, <)
LogLevels(t, s, offsets) ==
  IF t.last = NoSector THEN t
  ELSE FoldLeft(LAMBDA x, l : LogLevel(x, l, offsets), t,
                InOrder(Parting(t, s, offsets.treelevels)))
LoadLevels(t, s, data, offsets, stored) ==
  IF s = NoSector \/ Len(data) <= 1 THEN t
  ELSE FoldLeft(LAMBDA x, l : LoadLevel(x, l, s, data, stored), t,
                InOrder({l \in Parting(t, s, offsets.treelevels) :
                           \/ l < stored.treelevels
                           \/ l = 0
                           \/ l = stored.treelevels /\ stored.needmasterauth}))

AddSector(t, s, tag, data, offsets, stored) ==
  LET switched == IF t.last # NoSector /\ Above(t.last, 0) = Above(s, 0) THEN t
                  ELSE LoadLevels(LogLevels(t, s, offsets), s, data, offsets, stored)
  IN [switched EXCEPT !.arr[0][(s % HashSectors) + 1] = tag, !.last = s]

\* psync_fs_crypto_write_master_auth
AppendMaster(t, offsets) ==
  LET top == offsets.treelevels - 1
  IN IF offsets.needmasterauth
     THEN AppendAuth(t, offsets.masterauthoff,
                     <<Sign(SubSeq(t.arr[top], 1, offsets.lastauthsectorlen[top]))>>)
     ELSE t

TreeOf(o, data, offsets, stored) ==
  LET start == [arr |-> [l \in 0..offsets.treelevels |-> Part(<<>>, 0, HashSectors)],
                last |-> NoSector, recs |-> o.recs, local |-> o.local]
      add(t, s) == AddSector(t, s, Tag(s, o.recs[o.inlog[s]].units), data, offsets, stored)
  IN AppendMaster(
       LogLevels(FoldLeft(add, start, InOrder(DOMAIN o.inlog)), NoSector, offsets), offsets)

WithTree(o, data) ==
  With(TreeOf(o, data, OffsetsBySize[o.size], OffsetsByCryptoSize[Len(data)]),
       LAMBDA tree : [o EXCEPT !.recs = tree.recs, !.local = tree.local])

-----------------------------------------------------------------------------
(* Flush: psync_fs_crypto_do_finalize_log and                              *)
(* psync_fs_crypto_log_flush_and_process, with the file locked.            *)

Idle == [at |-> "idle"]
Down == [at |-> "down"]
Closed == [size |-> 0, inlog |-> <<>>, local |-> {}, recs |-> <<>>]

\* psync_fs_write_interval_tree_to_log
IntRecs(local) ==
  LET starts == {u \in local : u - 1 \notin local}
      length(u) == Cardinality({v \in local : u <= v /\ u..v \subseteq local})
  IN [i \in 1..Cardinality(starts) |->
        LET u == SetToSortSeq(starts, <)[i] IN IntRec(u, length(u))]

Clean(o, data) == o.recs = <<>> /\ CryptoSize(o.size) = Len(data)

Finalizing == [at |-> "finalize"]
Renaming == [at |-> "rename", log |-> "f", recovering |-> FALSE, next |-> 1]

\* The log with the master record, which counts from when it is written.
FinalLog(tree) ==
  [NewLog EXCEPT !.state = "final", !.filesize = CryptoSize(tree.size),
                 !.recs = tree.recs \o (IF Modified THEN IntRecs(tree.local) ELSE <<>>)]

\* Mutant: the sectors of the log that is gone are kept (of->sectorsinlog).
Finalize_KeepsSectors ==
  /\ pc.at = "finalize"
  /\ \E tree \in {WithTree(of, disk.data)} :
       /\ logs' = [logs EXCEPT !.l = FinalLog(tree)]
       /\ of' = [tree EXCEPT !.recs = <<>>]
  /\ pc' = Renaming
  /\ UNCHANGED <<asked, disk, synced, todo, fetch>>

Finalize ==
  /\ pc.at = "finalize"
  /\ \E tree \in {WithTree(of, disk.data)} :
       /\ logs' = [logs EXCEPT !.l = FinalLog(tree)]
       /\ of' = [tree EXCEPT !.recs = <<>>, !.inlog = <<>>]
  /\ pc' = Renaming
  /\ UNCHANGED <<asked, disk, synced, todo, fetch>>

\* A write that leaves the log too long flushes before it returns.
Returned(o) == of' = o /\ pc' = IF Len(o.recs) >= MaxLog THEN Finalizing ELSE Idle

\* The file is unlocked: between requests, while one fetches, and between
\* the parts of a truncation that fetches.
Unlocked == pc.at = "idle" /\ (todo # <<>> /\ fetch = {} => todo[1].free)

Flush ==
  /\ Unlocked /\ count.flushes < workload.flushes
  /\ ~Clean(of, disk.data)
  /\ pc' = Finalizing
  /\ count' = [count EXCEPT !.flushes = @ + 1]
  /\ UNCHANGED <<workload, disk, synced, logs, of, todo, fetch, plain>>

Goto(at) == pc' = [pc EXCEPT !.at = at]

RenameLog ==
  /\ pc.at = "rename"
  /\ logs' = [l |-> NoLog, f |-> logs.l]
  /\ Goto("create")
  /\ UNCHANGED <<asked, disk, synced, of, todo, fetch>>

CreateLog ==
  /\ pc.at = "create"
  /\ logs' = [logs EXCEPT !.l = NewLog]
  /\ Goto("sync")
  /\ UNCHANGED <<asked, disk, synced, of, todo, fetch>>

\* Mutant: the log is processed without a sync.
SyncLog_Not ==
  /\ pc.at = "sync" /\ Goto("process")
  /\ UNCHANGED <<asked, disk, synced, logs, of, todo, fetch>>

SyncLog ==
  /\ pc.at = "sync"
  /\ logs' = [logs EXCEPT !.f.synced = TRUE]
  /\ Goto("process")
  /\ UNCHANGED <<asked, disk, synced, of, todo, fetch>>

\* psync_fs_crypto_process_log, one write to a file at a time
Process ==
  /\ pc.at = "process"
  /\ disk' = Replayable(disk, logs[pc.log])
  /\ Goto("record")
  /\ UNCHANGED <<asked, synced, logs, of, todo, fetch>>

ProcessRecord ==
  LET log == logs[pc.log] IN
  /\ pc.at = "record" /\ pc.next <= Len(log.recs)
  /\ disk' = Replayed(disk, log.recs[pc.next], log.filesize)
  /\ pc' = [pc EXCEPT !.next = @ + 1]
  /\ UNCHANGED <<asked, synced, logs, of, todo, fetch>>

ProcessEnd ==
  LET log == logs[pc.log] IN
  /\ pc.at = "record" /\ pc.next > Len(log.recs)
  /\ disk' = [disk EXCEPT !.data = Resized(@, log.filesize)]
  /\ Goto("syncdata")
  /\ UNCHANGED <<asked, synced, logs, of, todo, fetch>>

SyncData ==
  /\ pc.at = "syncdata"
  /\ synced' = [synced EXCEPT !.data = disk.data]
  /\ Goto(IF Modified THEN "syncindex" ELSE "delete")
  /\ UNCHANGED <<asked, disk, logs, of, todo, fetch>>

SyncIndex ==
  /\ pc.at = "syncindex"
  /\ synced' = [synced EXCEPT !.index = disk.index]
  /\ Goto("delete")
  /\ UNCHANGED <<asked, disk, logs, of, todo, fetch>>

DeleteLog ==
  /\ pc.at = "delete"
  /\ logs' = [logs EXCEPT ![pc.log] = NoLog]
  /\ pc' = IF pc.recovering THEN Down ELSE Idle
  /\ UNCHANGED <<asked, disk, synced, of, todo, fetch>>

-----------------------------------------------------------------------------
(* Writes and truncations *)

Chunk(op, offset, us, free) == [op |-> op, offset |-> offset, units |-> us, free |-> free]

\* psync_fs_modfile_fillzero: one write for each sector up to an offset
ZeroChunks(from, to) ==
  LET cuts == {from} \cup {c \in (from + 1)..(to - 1) : c % SectorSize = 0}
      upto(c) == IF (c \div SectorSize + 1) * SectorSize < to
                 THEN (c \div SectorSize + 1) * SectorSize ELSE to
  IN IF to <= from THEN <<>>
     ELSE [i \in 1..Cardinality(cuts) |->
             LET c == SetToSortSeq(cuts, <)[i]
             IN Chunk("write", c, Zeros(upto(c) - c), FALSE)]

\* psync_fs_write, pfscrypto_write_new, pfscrypto_write_mod
Write(offset, length) ==
  LET us   == [i \in 1..length |-> <<count.requests + 1>>]
      gap  == IF offset > Len(plain) THEN Zeros(offset - Len(plain)) ELSE <<>>
  IN /\ plain' = Patched(plain \o gap, offset, us)
     /\ todo' = (IF Modified THEN ZeroChunks(of.size, offset) ELSE <<>>)
                  \o <<Chunk("write", offset, us, FALSE)>>
     /\ UNCHANGED of

\* pfscrypto_truncate, when the file grows; a new file does not flush
Extend(size) ==
  /\ size > of.size
  /\ plain' = plain \o Zeros(size - Len(plain))
  /\ IF Modified
     THEN todo' = ZeroChunks(of.size, size) /\ UNCHANGED of
     ELSE of' = FillZero(of, disk.data, size) /\ UNCHANGED todo

\* pfscrypto_truncate_to_zero
Empty ==
  /\ of.size > 0
  /\ plain' = <<>>
  /\ of' = [Closed EXCEPT !.local = IF Modified THEN Units(0, CryptoSize(InitialSize)) ELSE {}]
  /\ UNCHANGED todo

\* pfscrypto_truncate_down reads the sector that becomes the last one.  When
\* it is not local, it is read from the server and written back, with the
\* file unlocked before the write and after it.
Shorten(size) ==
  LET last  == LastSector(size)
      local == ~Modified \/ DataOffset(last) \in of.local
      us    == IF local THEN ReadSector(of, disk.data, last) ELSE Sector(workload.initial, last)
      kept  == SubSeq(us, 1, size - last * SectorSize)
  IN /\ 0 < size /\ size < of.size
     /\ plain' = SubSeq(plain, 1, size)
     /\ todo' = (IF local THEN <<>>
                 ELSE <<Chunk("write", last * SectorSize, us, TRUE)>>)
                  \o <<Chunk("cut", size, kept, ~local)>>
     /\ UNCHANGED of

Request ==
  /\ pc.at = "idle" /\ todo = <<>> /\ count.requests < workload.requests
  /\ \/ \E w \in workload.writes : Write(w[1], w[2])
     \/ \E size \in workload.sizes : Extend(size) \/ Shorten(size)
     \/ 0 \in workload.sizes /\ Empty
  /\ count' = [count EXCEPT !.requests = @ + 1]
  /\ UNCHANGED <<workload, disk, synced, logs, fetch, pc>>

Working(op) == pc.at = "idle" /\ fetch = {} /\ todo # <<>> /\ todo[1].op = op

\* pfscrypto_write_new_nu
WriteNew(o, data) ==
  LET chunk == todo[1]
  IN /\ \E written \in {WriteUnits(FillZero(o, data, chunk.offset), data,
                                   chunk.offset, chunk.units)} : Returned(written)
     /\ todo' = Tail(todo)

Fetching ==
  IF Modified
  THEN Needed(of, todo[1].offset, Len(todo[1].units), OffsetsBySize[of.size]) ELSE {}

StartFetch ==
  /\ Working("write")
  /\ fetch' = Fetching /\ fetch' # {}
  /\ UNCHANGED <<asked, disk, synced, logs, of, todo, pc>>

WriteChunk ==
  /\ Working("write") /\ Fetching = {}
  /\ WriteNew(of, disk.data)
  /\ UNCHANGED <<asked, disk, synced, logs, fetch>>

WithFetched(data, remote, kept) ==
  [i \in 1..(CHOOSE n \in Len(data)..Len(remote) \cup {Len(data)} :
               /\ \A u \in kept : u < n
               /\ n = Len(data) \/ n - 1 \in kept) |->
     IF i - 1 \in kept THEN remote[i] ELSE Part(data, i - 1, 1)[1]]

\* The end of ppagecache_readv_locked, with the file locked again.  What was
\* fetched is written to the data file without a sync.
Fetched ==
  /\ pc.at = "idle" /\ fetch # {} /\ fetch' = {}
  /\ \E kept \in {Kept(fetch, of.local)} :
       LET o == [of EXCEPT !.local = @ \cup kept] IN
       /\ disk' = [disk EXCEPT !.data = WithFetched(@, Remote, kept)]
       /\ IF fetch \cap of.local = {}
          THEN WriteNew(o, disk'.data)
          ELSE /\ of' = o
               /\ todo' = [todo EXCEPT ![1].free = FALSE]
               /\ UNCHANGED pc
  /\ UNCHANGED <<asked, synced, logs>>

\* The end of pfscrypto_truncate_down
Cut ==
  LET size == todo[1].offset
      last == LastSector(size)
      o    == [of EXCEPT !.size = size,
                         !.inlog = [s \in {t \in DOMAIN @ : t < last} |-> @[s]]]
      cut  == WriteSector(o, last, todo[1].units)
  IN /\ Working("cut")
     /\ of' = [cut EXCEPT !.local = {u \in @ : u < CryptoSize(size)}]
     /\ todo' = Tail(todo)
     /\ UNCHANGED <<asked, disk, synced, logs, fetch, pc>>

-----------------------------------------------------------------------------
(* Crashes and the recovery *)

\* A loss of power leaves any part of what was written since the last sync.
Mixtures(new, old) ==
  UNION {{[i \in 1..n |-> Part(IF i \in lost THEN old ELSE new, i - 1, 1)[1]] :
            lost \in SUBSET {i \in 1..n : Part(new, i - 1, 1) # Part(old, i - 1, 1)}} :
         n \in {Len(new), Len(old)}}

\* A log that lost a part fails the check of its checksum.
TornLogs(log) == IF log.synced \/ log.state = "absent" THEN {log}
                 ELSE {[log EXCEPT !.synced = TRUE], [NewLog EXCEPT !.synced = TRUE]}

Crash ==
  /\ count.crashes < workload.crashes
  /\ IF workload.power
     THEN /\ disk' \in [data : Mixtures(disk.data, synced.data),
                        index : {disk.index, synced.index}]
          /\ logs' \in [l : TornLogs(logs.l), f : TornLogs(logs.f)]
          /\ synced' = disk'
     ELSE UNCHANGED <<disk, synced, logs>>
  /\ pc' = Down /\ of' = Closed /\ todo' = <<>> /\ fetch' = {}
  /\ plain' = Recovered(disk', logs')
  /\ count' = [count EXCEPT !.crashes = @ + 1]
  /\ UNCHANGED workload


\* psync_fs_crypto_check_log, for the log files in any order.  A log that is
\* not finalised, or whose checksum is wrong, is deleted.
Check(log) ==
  /\ pc.at = "down" /\ logs[log].state # "absent"
  /\ IF logs[log].state = "final"
     THEN /\ disk' = Replayable(disk, logs[log])
          /\ pc' = [at |-> "record", log |-> log, recovering |-> TRUE, next |-> 1]
          /\ UNCHANGED logs
     ELSE logs' = [logs EXCEPT ![log] = NoLog] /\ UNCHANGED <<disk, pc>>
  /\ UNCHANGED <<asked, synced, of, todo, fetch>>

\* open_write_files
Open ==
  /\ pc.at = "down" /\ \A log \in {"l", "f"} : logs[log].state = "absent"
  /\ of' = [Closed EXCEPT !.size = PlainSize(Len(disk.data)), !.local = disk.index]
  /\ logs' = [logs EXCEPT !.l = NewLog]
  /\ pc' = Idle
  /\ UNCHANGED <<asked, disk, synced, todo, fetch>>

-----------------------------------------------------------------------------
\* A new file, or a file of the server of which nothing is local yet: see
\* psync_fs_reopen_file_for_writing.
Init ==
  /\ workload \in Workloads
  /\ disk = [data |-> Part(<<>>, 0, CryptoSize(InitialSize)), index |-> {}]
  /\ synced = disk
  /\ logs = [l |-> NewLog, f |-> NoLog]
  /\ of = [Closed EXCEPT !.size = InitialSize]
  /\ todo = <<>> /\ fetch = {} /\ pc = Idle
  /\ plain = workload.initial
  /\ count = [requests |-> 0, flushes |-> 0, crashes |-> 0]

FlushStep ==
  \/ Flush \/ Finalize \/ RenameLog \/ CreateLog \/ SyncLog \/ SyncData \/ SyncIndex \/ DeleteLog
ProcessStep == Process \/ ProcessRecord \/ ProcessEnd
WriteStep == Request \/ StartFetch \/ WriteChunk \/ Fetched \/ Cut
CrashStep == Crash \/ (\E log \in {"l", "f"} : Check(log)) \/ Open

Next == FlushStep \/ ProcessStep \/ WriteStep \/ CrashStep
Spec == Init /\ [][Next]_vars

-----------------------------------------------------------------------------
(* Properties *)

\* TYPE INVARIANT.  psync_openfile_t, the log files and the steps of a flush;
\* the sectors in of->sectorsinlog are in the log.
TypeOK ==
  /\ of.size \in 0..MaxSize /\ of.local \subseteq 0..(CryptoSize(MaxSize) - 1)
  /\ \A s \in DOMAIN of.inlog : of.inlog[s] \in 1..Len(of.recs)
  /\ \A log \in {"l", "f"} : logs[log].state \in {"absent", "open", "final"}
  /\ pc.at \in {"idle", "down", "finalize", "rename", "create", "sync", "process", "record",
                "syncdata", "syncindex", "delete"}

\* INVARIANT.  At the size the file has, and at each it may grow to, the
\* functions that place its sectors agree: the layout can be read back from the
\* size of the data file, and nothing in it overlaps (pfscrypto_offset_by_size,
\* psync_fs_crypto_offsets_by_cryptosize, pfscrypto_get_auth_off).
LayoutFits == \A size \in of.size..MaxSize : Fits[size]

\* What pfscrypto_read_new and pfscrypto_read_mod return for a sector.
Read(s) ==
  IF ~Modified \/ DataOffset(s) \in of.local THEN ReadSector(of, disk.data, s)
  ELSE LET rest == of.size - s * SectorSize
           us   == Sector(workload.initial, s)
       IN SubSeq(us, 1, IF rest < Len(us) THEN rest ELSE Len(us))

\* INVARIANT.  Between requests, every sector reads as it was last written,
\* whether it is in the log, in the data file or at the server, and verifies
\* (pfscrypto_read_new, pfscrypto_read_mod).
ReadsBack ==
  pc.at = "idle" /\ todo = <<>> =>
    /\ of.size = Len(plain)
    /\ of.size > 0 => \A s \in 0..LastSector(of.size) : Read(s) = Sector(plain, s)

\* INVARIANT.  What a write fetches lies inside the data file: "if the file
\* grew, we would have already moved all trailing checksums to a new location
\* and they would be in of->writeintervals anyway" (pfscrypto.c:1556).
FetchesInside == \A u \in fetch : u < Len(disk.data)

\* What can be read of the file; while its log is processed, what a recovery
\* would read.
View ==
  IF pc.at \notin {"idle", "finalize"} THEN Recovered(disk, logs)
  ELSE IF of.size = 0 THEN <<>>
  ELSE With([i \in 1..(LastSector(of.size) + 1) |-> Read(i - 1)], FlattenSeq)

\* The logs as a loss of power leaves them at worst.
SyncedLogs == [log \in {"l", "f"} |-> IF logs[log].synced THEN logs[log] ELSE NoLog]

Durable == INSTANCE DurableFile WITH
  contents <- View, saved <- Recovered(disk, logs),
  synced <- IF workload.power THEN Recovered(synced, SyncedLogs) ELSE Recovered(disk, logs)

\* REFINEMENT.  A flush saves all of what was written or nothing of it, also
\* when it, or the recovery, is interrupted at any point and repeated
\* (psync_fs_crypto_do_finalize_log, psync_fs_crypto_process_log).
DurableSpec == Durable!Spec
=============================================================================
