---------------------------- MODULE CryptoLayout ----------------------------
(***************************************************************************)
(* Where an encrypted file keeps what (pfscrypto.c).  The sectors of the   *)
(* plain file are stored in order.  After every HashSectors of them comes  *)
(* a sector with their authenticators, after every HashSectors of those a  *)
(* sector with the authenticators of these, and so on.  The incomplete     *)
(* sectors at the end of each level follow the last data sector, and the   *)
(* file ends with one authenticator of the topmost sector.                 *)
(*                                                                         *)
(* All sizes and offsets count units of PSYNC_CRYPTO_AUTH_SIZE bytes, the  *)
(* size of one authenticator, so a sector has HashSectors units.           *)
(***************************************************************************)
EXTENDS Integers

CONSTANTS HashSectors,     \* PSYNC_CRYPTO_HASH_TREE_SECTORS, 128 in the code
          MaxSize          \* the plain size of the largest file considered

ASSUME LayoutAssumption == HashSectors \in Nat /\ HashSectors > 1 /\ MaxSize \in Nat \ {0}

SectorSize == HashSectors  \* PSYNC_CRYPTO_SECTOR_SIZE

Up(n, d) == (n + d - 1) \div d

\* max_level_size: what one sector of a level covers, and the sector.
LevelSize[level \in Nat] ==
  IF level = 0 THEN SectorSize ELSE HashSectors * LevelSize[level - 1] + SectorSize

\* pfscrypto_sector_id: the place of a data sector among all the sectors.
SectorId[sector \in 0..MaxSize] ==
  IF sector < HashSectors THEN sector
                          ELSE sector + SectorId[sector \div HashSectors]

DataOffset(sector) == SectorId[sector] * SectorSize

\* psync_fs_crypto_auth_offset: a complete sector of authenticators.
AuthOffset(level, id) ==
  LevelSize[level + 1] * (id + 1) - SectorSize + (SectorId[id] - id) * SectorSize

\* get_last_sectorid_by_size
LastSector(size) == IF size = 0 THEN 0 ELSE (size - 1) \div SectorSize

\* Mutant: a level that ends with a full sector ends with an empty one.
LastLength_Empty(n) == n % HashSectors

\* How much of its last sector a level with n entries fills.
LastLength(n) == IF n % HashSectors = 0 THEN HashSectors ELSE n % HashSectors

\* pfscrypto_offset_by_size; an empty file has nothing.
NoOffsets ==
  [plainsize |-> 0, needmasterauth |-> FALSE, treelevels |-> 0, masterauthoff |-> 0,
   lastauthsectoroff |-> [level \in {0} |-> 0], lastauthsectorlen |-> [level \in {0} |-> 0]]
OffsetsBySize == [size \in 0..MaxSize |->
  LET entries[level \in Nat] ==
        IF level = 0 THEN Up(size, SectorSize) ELSE Up(entries[level - 1], HashSectors)
      levels == CHOOSE n \in 1..size : /\ entries[n] = 1
                                       /\ \A m \in 1..(n - 1) : entries[m] > 1
      offset[level \in Nat] ==
        IF level = 0 THEN DataOffset(LastSector(size)) + size - LastSector(size) * SectorSize
                     ELSE offset[level - 1] + LastLength(entries[level - 1])
  IN IF size = 0 THEN NoOffsets
     ELSE [plainsize |-> size, needmasterauth |-> size > SectorSize, treelevels |-> levels,
           masterauthoff |-> offset[levels],
           lastauthsectoroff |-> [level \in 0..levels |-> offset[level]],
           lastauthsectorlen |-> [level \in 0..levels |->
             IF level = levels THEN 1 ELSE LastLength(entries[level])]]]

\* pfscrypto_crypto_size
StoredSize(offsets) == offsets.masterauthoff + (IF offsets.needmasterauth THEN 1 ELSE 0)
CryptoSize(size) == StoredSize(OffsetsBySize[size])

\* psync_fs_crypto_offsets_by_cryptosize: the same from the stored size.
OffsetsByCryptoSize == [stored \in 0..CryptoSize(MaxSize) |->
  LET master == stored > SectorSize + 1
      size   == IF master THEN stored - 1 ELSE stored
      levels == CHOOSE n \in 1..stored : /\ size <= LevelSize[n]
                                         /\ \A m \in 1..(n - 1) : size > LevelSize[m]
      entries(rest, level) == Up(rest, LevelSize[level] + 1)
      rest[above \in Nat] ==          \* above = levels - level
        IF above = 0 THEN size
        ELSE rest[above - 1] - entries(rest[above - 1], levels - above)
      length(level) == LastLength(entries(rest[levels - level - 1], level))
      offset[above \in Nat] ==
        IF above = 0 THEN size ELSE offset[above - 1] - length(levels - above)
  IN IF stored <= 1 THEN NoOffsets
     ELSE [plainsize |-> rest[levels], needmasterauth |-> master, treelevels |-> levels,
           masterauthoff |-> size,
           lastauthsectoroff |-> [level \in 0..levels |-> offset[levels - level]],
           lastauthsectorlen |-> [level \in 0..levels |->
             IF level = levels THEN 1 ELSE length(level)]]]

\* pfscrypto_plain_size
PlainSize(stored) == OffsetsByCryptoSize[stored].plainsize

\* pfscrypto_get_auth_off: where the authenticator of a data sector
\* (level 0), or of the sector of authenticators above it, is kept.
AuthPlace(sector, level, offsets) ==
  LET above[l \in Nat] == IF l = 0 THEN sector ELSE above[l - 1] \div HashSectors
      last[l \in Nat]  == IF l = 0 THEN LastSector(offsets.plainsize)
                                   ELSE last[l - 1] \div HashSectors
      id == above[level + 1]
  IN IF id = last[level + 1]
     THEN [offset |-> offsets.lastauthsectoroff[level],
           length |-> offsets.lastauthsectorlen[level], entry |-> above[level] % HashSectors]
     ELSE [offset |-> AuthOffset(level, id), length |-> SectorSize,
           entry |-> above[level] % HashSectors]

-----------------------------------------------------------------------------
\* What a size says about the stored file is what the stored size says about
\* it: a file is opened again from nothing but the size of its data file.
Invertible(size) == OffsetsByCryptoSize[CryptoSize(size)] = OffsetsBySize[size]

\* Data sectors, sectors of authenticators and the master authenticator fill
\* the stored file without a gap and without an overlap.
Tiled(size) ==
  LET offsets == OffsetsBySize[size]
      sectors == IF size = 0 THEN {} ELSE 0..LastSector(size)
      data(s) == [offset |-> DataOffset(s),
                  length |-> IF s = LastSector(size) THEN size - s * SectorSize ELSE SectorSize]
      auth(s, l) == [offset |-> AuthPlace(s, l, offsets).offset,
                     length |-> AuthPlace(s, l, offsets).length]
      parts == {data(s) : s \in sectors}
                 \cup {auth(s, l) : s \in sectors, l \in 0..(offsets.treelevels - 1)}
                 \cup IF offsets.needmasterauth
                      THEN {[offset |-> offsets.masterauthoff, length |-> 1]} ELSE {}
      units(p) == p.offset..(p.offset + p.length - 1)
  IN /\ UNION {units(p) : p \in parts} = 0..(CryptoSize(size) - 1)
     /\ \A p, q \in parts : p # q => units(p) \cap units(q) = {}

\* pfscrypto_offset_by_size, psync_fs_crypto_offsets_by_cryptosize,
\* pfscrypto_sector_id and pfscrypto_get_auth_off agree on a size.
Fits == [size \in 0..MaxSize |-> Invertible(size) /\ Tiled(size)]
=============================================================================
