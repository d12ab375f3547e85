---------------------------- MODULE RWLockProofs ----------------------------
(***************************************************************************)
(* Proofs about RWLock, for any finite set of threads and any depth of     *)
(* recursion: its types, the agreement of its counters, one owner of the   *)
(* reservation, mutual exclusion, no lost wake-up, and that plocks.c        *)
(* implements LockContract.                                                *)
(***************************************************************************)
EXTENDS RWLock, FiniteSetTheorems, TLAPS

(* What the per-thread records may look like. *)
ThreadShape(t) ==
  /\ cnt[t].rd # 0 => cnt[t].wr = 0
  /\ cnt[t].res => cnt[t].rd # 0
  /\ Upgrading(t) => cnt[t].rd # 0
  /\ call[t] \in Calls \ {"towrlock"} => cnt[t] = NoLock
  /\ cond[t] = "none" <=> call[t] = "none"

Shape == \A t \in Threads : ThreadShape(t)

(* Mutual exclusion in terms of the shared counters. *)
Exclusion ==
  /\ wcount # 0 => rcount = 0 /\ ~reserved
  /\ wcount <= 1

(* The inductive invariant: MutualExclusion speaks of the threads' own     *)
(* records, the guards of the shared counters, CountersAgree connects them. *)
IInv == TypeOK /\ Shape /\ CountersAgree /\ ReservedHasOneOwner /\ Exclusion

-----------------------------------------------------------------------------
(* Sets that differ in one element at most.                                *)
LEMMA OneElement ==
  ASSUME NEW S, NEW T, NEW t, IsFiniteSet(S),
         \A u : u # t => (u \in S <=> u \in T)
  PROVE  /\ IsFiniteSet(T)
         /\ Cardinality(S) \in Nat /\ Cardinality(T) \in Nat
         /\ (t \in S <=> t \in T) => Cardinality(T) = Cardinality(S)
         /\ t \in S /\ t \notin T => Cardinality(T) = Cardinality(S) - 1
         /\ t \notin S /\ t \in T => Cardinality(T) = Cardinality(S) + 1
<1>1. CASE t \in S <=> t \in T
  <2>1. S = T
    BY <1>1
  <2>2. Cardinality(S) \in Nat
    BY FS_CardinalityType
  <2> QED
    BY <1>1, <2>1, <2>2
<1>2. CASE t \in S /\ t \notin T
  <2>1. T = S \ {t}
    BY <1>2
  <2>2. IsFiniteSet(T) /\ Cardinality(T) = Cardinality(S) - 1
    BY <1>2, <2>1, FS_RemoveElement
  <2>3. Cardinality(S) \in Nat /\ Cardinality(T) \in Nat
    BY <2>2, FS_CardinalityType
  <2> QED
    BY <1>2, <2>2, <2>3
<1>3. CASE t \notin S /\ t \in T
  <2>1. T = S \cup {t}
    BY <1>3
  <2>2. IsFiniteSet(T) /\ Cardinality(T) = Cardinality(S) + 1
    BY <1>3, <2>1, FS_AddElement
  <2>3. Cardinality(S) \in Nat /\ Cardinality(T) \in Nat
    BY <2>2, FS_CardinalityType
  <2> QED
    BY <1>3, <2>2, <2>3
<1> QED
  BY <1>1, <1>2, <1>3

(* A set of threads is finite, and empty exactly when it counts nobody.    *)
LEMMA ThreadSets ==
  ASSUME NEW S \in SUBSET Threads
  PROVE  IsFiniteSet(S) /\ Cardinality(S) \in Nat /\ (Cardinality(S) = 0 <=> S = {})
<1>1. IsFiniteSet(S)
  BY ThreadsAssumption, FS_Subset
<1> QED
  BY <1>1, FS_CardinalityType, FS_EmptySet

-----------------------------------------------------------------------------
(* Every step is one thread's: it changes that thread's records, the       *)
(* counters by what the thread stops or starts to count for, and wakes     *)
(* others without touching their records.                                  *)
One(b) == IF b THEN 1 ELSE 0
IsReader(t) == HoldingRd(t) /\ ~Upgrading(t)
IsReserver(t) == cnt[t].res \/ Upgrading(t)
WaitsIn(kinds, t) == call[t] \in kinds

Local(t) ==
  /\ cnt' \in [Threads -> [rd : Nat, wr : Nat, res : BOOLEAN]]
  /\ call' \in [Threads -> Calls \cup {"none"}]
  /\ cond' \in [Threads -> {"none", "asleep", "woken", "expired"}]
  /\ preferRead' \in BOOLEAN /\ reserved' \in BOOLEAN
  /\ \A u \in Threads \ {t} :
       /\ cnt'[u] = cnt[u] /\ call'[u] = call[u]
       /\ cond'[u] = "none" <=> cond[u] = "none"
  /\ ThreadShape(t)'

Counted(t) ==
  /\ rcount' = rcount + One(IsReader(t)') - One(IsReader(t))
  /\ wcount' = wcount + One(HoldingWr(t)') - One(HoldingWr(t))
  /\ rwait' = rwait + One(WaitsIn(ReadCalls, t)') - One(WaitsIn(ReadCalls, t))
  /\ wwait' = wwait + One(WaitsIn(Calls \ ReadCalls, t)')
                    - One(WaitsIn(Calls \ ReadCalls, t))

LEMMA ThreadStep ==
  ASSUME IInv, NEW t \in Threads, Local(t), Counted(t),
         ReservedHasOneOwner', Exclusion'
  PROVE  IInv'
<1> USE DEF IInv
<1>1. Shape'
  <2> SUFFICES ASSUME NEW u \in Threads PROVE ThreadShape(u)'
    BY DEF Shape
  <2>1. CASE u = t
    BY <2>1 DEF Local
  <2>2. CASE u # t
    BY <2>2 DEF Local, Shape, ThreadShape, Upgrading
  <2> QED
    BY <2>1, <2>2
<1>2. rcount' = Cardinality(Readers') /\ Cardinality(Readers') \in Nat
  <2>1. \A u : u # t => (u \in Readers <=> u \in Readers')
    BY DEF Local, Readers, HoldingRd, Upgrading
  <2>2. /\ t \in Readers <=> IsReader(t)
        /\ t \in Readers' <=> IsReader(t)'
    BY DEF Readers, IsReader, HoldingRd, Upgrading
  <2>3. IsFiniteSet(Readers)
    BY ThreadSets DEF Readers
  <2>4. rcount = Cardinality(Readers)
    BY DEF CountersAgree
  <2>5. rcount' = rcount + One(IsReader(t)') - One(IsReader(t))
    BY DEF Counted
  <2> QED
    BY <2>1, <2>2, <2>3, <2>4, <2>5, OneElement DEF One
<1>3. wcount' = Cardinality(Writers') /\ Cardinality(Writers') \in Nat
  <2>1. \A u : u # t => (u \in Writers <=> u \in Writers')
    BY DEF Local, Writers, HoldingWr
  <2>2. /\ t \in Writers <=> HoldingWr(t)
        /\ t \in Writers' <=> HoldingWr(t)'
    BY DEF Writers, HoldingWr
  <2>3. IsFiniteSet(Writers)
    BY ThreadSets DEF Writers
  <2>4. wcount = Cardinality(Writers)
    BY DEF CountersAgree
  <2>5. wcount' = wcount + One(HoldingWr(t)') - One(HoldingWr(t))
    BY DEF Counted
  <2> QED
    BY <2>1, <2>2, <2>3, <2>4, <2>5, OneElement DEF One
<1>4. ASSUME NEW kinds
      PROVE  /\ Cardinality(Waiting(kinds)') \in Nat
             /\ Cardinality(Waiting(kinds)') = Cardinality(Waiting(kinds))
                  + One(WaitsIn(kinds, t)') - One(WaitsIn(kinds, t))
  <2>1. \A u : u # t => (u \in Waiting(kinds) <=> u \in Waiting(kinds)')
    BY DEF Local, Waiting
  <2>2. /\ t \in Waiting(kinds) <=> WaitsIn(kinds, t)
        /\ t \in Waiting(kinds)' <=> WaitsIn(kinds, t)'
    BY DEF Waiting, WaitsIn
  <2>3. IsFiniteSet(Waiting(kinds))
    BY ThreadSets DEF Waiting
  <2> QED
    BY <2>1, <2>2, <2>3, OneElement DEF One
<1>5. /\ rwait' = Cardinality(Waiting(ReadCalls)')
      /\ wwait' = Cardinality(Waiting(Calls \ ReadCalls)')
      /\ rwait' \in Nat /\ wwait' \in Nat
  <2>1. /\ rwait = Cardinality(Waiting(ReadCalls))
        /\ wwait = Cardinality(Waiting(Calls \ ReadCalls))
    BY DEF CountersAgree
  <2> QED
    BY <1>4, <2>1 DEF Counted, ReadCalls, Calls
<1>6. TypeOK'
  BY <1>2, <1>3, <1>5 DEF Local, TypeOK
<1>7. CountersAgree'
  BY <1>2, <1>3, <1>5 DEF CountersAgree, ReadCalls, Calls
<1> QED
  BY <1>1, <1>6, <1>7

-----------------------------------------------------------------------------
(* What the invariant says of who holds what, in the form the steps use.   *)
LEMMA Holders ==
  ASSUME IInv
  PROVE  /\ \A t \in Threads : HoldingRd(t) /\ ~Upgrading(t) => rcount > 0
         /\ \A t \in Threads : HoldingWr(t) => wcount = 1 /\ rcount = 0 /\ ~reserved
         /\ \A t \in Threads : (cnt[t].res \/ Upgrading(t)) => reserved /\ wcount = 0
         /\ rcount = 1 => \A t, u \in Readers : t = u
         /\ wcount = 1 => \A t, u \in Writers : t = u
<1> USE DEF IInv
<1>1. /\ rcount = 0 <=> Readers = {}
      /\ wcount = 0 <=> Writers = {}
  BY ThreadSets DEF CountersAgree, Readers, Writers
<1>2. ASSUME NEW S \in SUBSET Threads, Cardinality(S) = 1
      PROVE  \A t, u \in S : t = u
  <2> SUFFICES ASSUME NEW t \in S, NEW u \in S, t # u PROVE FALSE
    OBVIOUS
  <2>1. IsFiniteSet(S) /\ IsFiniteSet(S \ {t}) /\ Cardinality(S \ {t}) = 0
    BY <1>2, ThreadSets, FS_RemoveElement
  <2>2. S \ {t} = {}
    BY <2>1, ThreadSets
  <2> QED
    BY <2>2
<1>3. /\ rcount = 1 => \A t, u \in Readers : t = u
      /\ wcount = 1 => \A t, u \in Writers : t = u
  BY <1>2 DEF CountersAgree, Readers, Writers
<1>4. rcount \in Nat /\ wcount \in Nat
  BY DEF TypeOK
<1>5. \A t \in Threads : HoldingRd(t) /\ ~Upgrading(t) => rcount > 0
  BY <1>1, <1>4 DEF Readers
<1>6. \A t \in Threads : HoldingWr(t) => wcount = 1 /\ rcount = 0 /\ ~reserved
  BY <1>1, <1>4 DEF Writers, Exclusion
<1>7. \A t \in Threads : (cnt[t].res \/ Upgrading(t)) => reserved /\ wcount = 0
  BY <1>4 DEF ReservedHasOneOwner, Reservers, Exclusion
<1> QED
  BY <1>3, <1>5, <1>6, <1>7

(* Waking sleepers leaves the records and the wait states of the rest.     *)
LEMMA Waking ==
  ASSUME NEW cs \in [Threads -> {"none", "asleep", "woken", "expired"}],
         NEW S \in SUBSET {t \in Threads : cs[t] = "asleep"},
         NEW ws \in {cs, Broadcast(S, cs)} \cup Signal(S, cs)
  PROVE  /\ ws \in [Threads -> {"none", "asleep", "woken", "expired"}]
         /\ \A t \in Threads : ws[t] = "none" <=> cs[t] = "none"
<1>1. CASE ws = cs
  BY <1>1
<1>2. CASE ws = Broadcast(S, cs)
  BY <1>2 DEF Broadcast
<1>3. CASE ws \in Signal(S, cs) /\ ws # cs
  <2>1. PICK t \in S : ws = [cs EXCEPT ![t] = "woken"]
    BY <1>3 DEF Signal
  <2> QED
    BY <2>1
<1> QED
  BY <1>1, <1>2, <1>3

(* A step keeps, takes or gives up the reservation on behalf of its thread. *)
LEMMA ReservationStep ==
  ASSUME IInv, NEW t \in Threads, Local(t),
         \/ reserved' = reserved /\ (IsReserver(t)' <=> IsReserver(t))
         \/ (~reserved \/ IsReserver(t)) /\ (reserved' <=> IsReserver(t)')
  PROVE  ReservedHasOneOwner'
<1>1. \A u \in Threads \ {t} : u \in Reservers <=> u \in Reservers'
  BY DEF Local, Reservers, Upgrading
<1>2. /\ t \in Reservers <=> IsReserver(t)
      /\ t \in Reservers' <=> IsReserver(t)'
  BY DEF Reservers, IsReserver, Upgrading
<1>3. Reservers \subseteq Threads /\ Reservers' \subseteq Threads
  BY DEF Reservers
<1>4. /\ reserved <=> Reservers # {}
      /\ \A u, v \in Reservers : u = v
  BY DEF IInv, ReservedHasOneOwner
<1>5. CASE reserved' = reserved /\ (IsReserver(t)' <=> IsReserver(t))
  <2>1. Reservers' = Reservers
    BY <1>1, <1>2, <1>3, <1>5
  <2> QED
    BY <1>4, <1>5, <2>1 DEF ReservedHasOneOwner
<1>6. CASE (~reserved \/ IsReserver(t)) /\ (reserved' <=> IsReserver(t)')
  <2>1. Reservers \subseteq {t}
    BY <1>2, <1>4, <1>6
  <2>2. Reservers' = IF IsReserver(t)' THEN {t} ELSE {}
    BY <1>1, <1>2, <1>3, <2>1
  <2> QED
    BY <1>6, <2>2 DEF ReservedHasOneOwner
<1> QED
  BY <1>5, <1>6

(* check_rdrecursive_in preserves the invariant. *)
LEMMA ReadAgainStep ==
  ASSUME IInv, NEW t \in Threads, ReadAgain(t)
  PROVE  IInv'
<1> USE DEF IInv, ReadAgain, Running, counters, waits, opts, HoldingRd, HoldingWr
<1>1. Local(t)
  BY DEF Local, ThreadShape, Upgrading, NoLock, Held, TypeOK, Shape, Calls, ReadCalls, WriteCalls, HoldingRd, HoldingWr
<1>2. Counted(t)
  BY DEF Counted, One, IsReader, WaitsIn, HoldingRd, HoldingWr, Upgrading, TypeOK, Calls, ReadCalls, WriteCalls, NoLock, Held, Shape, ThreadShape
<1>3. ReservedHasOneOwner'
  <2>1. \/ reserved' = reserved /\ (IsReserver(t)' <=> IsReserver(t))
        \/ (~reserved \/ IsReserver(t)) /\ (reserved' <=> IsReserver(t)')
    BY DEF IsReserver, NoLock, Held, TypeOK, Shape, ThreadShape, Upgrading, HoldingRd, HoldingWr
  <2> QED
    BY <1>1, <2>1, ReservationStep
<1>4. Exclusion'
  BY Holders DEF Exclusion, TypeOK, Upgrading, HoldingRd, HoldingWr
<1> HIDE DEF IInv, ReadAgain, Running, counters, waits, opts, HoldingRd, HoldingWr
<1> QED
  BY <1>1, <1>2, <1>3, <1>4, ThreadStep

(* check_wrrecursive_in preserves the invariant. *)
LEMMA WriteAgainStep ==
  ASSUME IInv, NEW t \in Threads, WriteAgain(t)
  PROVE  IInv'
<1> USE DEF IInv, WriteAgain, Running, counters, waits, opts, HoldingRd, HoldingWr
<1>1. Local(t)
  BY DEF Local, ThreadShape, Upgrading, NoLock, Held, TypeOK, Shape, Calls, ReadCalls, WriteCalls, HoldingRd, HoldingWr
<1>2. Counted(t)
  BY DEF Counted, One, IsReader, WaitsIn, HoldingRd, HoldingWr, Upgrading, TypeOK, Calls, ReadCalls, WriteCalls, NoLock, Held, Shape, ThreadShape
<1>3. ReservedHasOneOwner'
  <2>1. \/ reserved' = reserved /\ (IsReserver(t)' <=> IsReserver(t))
        \/ (~reserved \/ IsReserver(t)) /\ (reserved' <=> IsReserver(t)')
    BY DEF IsReserver, NoLock, Held, TypeOK, Shape, ThreadShape, Upgrading, HoldingRd, HoldingWr
  <2> QED
    BY <1>1, <2>1, ReservationStep
<1>4. Exclusion'
  BY Holders DEF Exclusion, TypeOK, Upgrading, HoldingRd, HoldingWr
<1> HIDE DEF IInv, WriteAgain, Running, counters, waits, opts, HoldingRd, HoldingWr
<1> QED
  BY <1>1, <1>2, <1>3, <1>4, ThreadStep

(* An inner unlock preserves the invariant. *)
LEMMA UnlockInnerStep ==
  ASSUME IInv, NEW t \in Threads, UnlockInner(t)
  PROVE  IInv'
<1> USE DEF IInv, UnlockInner, Running, counters, waits, opts
<1>1. Local(t)
  BY DEF Local, ThreadShape, Upgrading, NoLock, Held, TypeOK, Shape, Calls, ReadCalls, WriteCalls, HoldingRd, HoldingWr
<1>2. Counted(t)
  BY DEF Counted, One, IsReader, WaitsIn, HoldingRd, HoldingWr, Upgrading, TypeOK, Calls, ReadCalls, WriteCalls, NoLock, Held, Shape, ThreadShape
<1>3. ReservedHasOneOwner'
  <2>1. \/ reserved' = reserved /\ (IsReserver(t)' <=> IsReserver(t))
        \/ (~reserved \/ IsReserver(t)) /\ (reserved' <=> IsReserver(t)')
    BY DEF IsReserver, NoLock, Held, TypeOK, Shape, ThreadShape, Upgrading, HoldingRd, HoldingWr
  <2> QED
    BY <1>1, <2>1, ReservationStep
<1>4. Exclusion'
  BY Holders DEF Exclusion, TypeOK, Upgrading, HoldingRd, HoldingWr
<1> HIDE DEF IInv, UnlockInner, Running, counters, waits, opts
<1> QED
  BY <1>1, <1>2, <1>3, <1>4, ThreadStep

(* A spurious wake-up preserves the invariant. *)
LEMMA SpuriousWakeStep ==
  ASSUME IInv, NEW t \in Threads, SpuriousWake(t)
  PROVE  IInv'
<1> USE DEF IInv, SpuriousWake, counters, waits, opts
<1>1. Local(t)
  BY DEF Local, ThreadShape, Upgrading, NoLock, Held, TypeOK, Shape, Calls, ReadCalls, WriteCalls, HoldingRd, HoldingWr
<1>2. Counted(t)
  BY DEF Counted, One, IsReader, WaitsIn, HoldingRd, HoldingWr, Upgrading, TypeOK, Calls, ReadCalls, WriteCalls, NoLock, Held, Shape, ThreadShape
<1>3. ReservedHasOneOwner'
  <2>1. \/ reserved' = reserved /\ (IsReserver(t)' <=> IsReserver(t))
        \/ (~reserved \/ IsReserver(t)) /\ (reserved' <=> IsReserver(t)')
    BY DEF IsReserver, NoLock, Held, TypeOK, Shape, ThreadShape, Upgrading, HoldingRd, HoldingWr
  <2> QED
    BY <1>1, <2>1, ReservationStep
<1>4. Exclusion'
  BY Holders DEF Exclusion, TypeOK, Upgrading, HoldingRd, HoldingWr
<1> HIDE DEF IInv, SpuriousWake, counters, waits, opts
<1> QED
  BY <1>1, <1>2, <1>3, <1>4, ThreadStep

(* A passing deadline preserves the invariant. *)
LEMMA ExpireStep ==
  ASSUME IInv, NEW t \in Threads, Expire(t)
  PROVE  IInv'
<1> USE DEF IInv, Expire, counters, waits, opts, Timed
<1>1. Local(t)
  BY DEF Local, ThreadShape, Upgrading, NoLock, Held, TypeOK, Shape, Calls, ReadCalls, WriteCalls, HoldingRd, HoldingWr
<1>2. Counted(t)
  BY DEF Counted, One, IsReader, WaitsIn, HoldingRd, HoldingWr, Upgrading, TypeOK, Calls, ReadCalls, WriteCalls, NoLock, Held, Shape, ThreadShape
<1>3. ReservedHasOneOwner'
  <2>1. \/ reserved' = reserved /\ (IsReserver(t)' <=> IsReserver(t))
        \/ (~reserved \/ IsReserver(t)) /\ (reserved' <=> IsReserver(t)')
    BY DEF IsReserver, NoLock, Held, TypeOK, Shape, ThreadShape, Upgrading, HoldingRd, HoldingWr
  <2> QED
    BY <1>1, <2>1, ReservationStep
<1>4. Exclusion'
  BY Holders DEF Exclusion, TypeOK, Upgrading, HoldingRd, HoldingWr
<1> HIDE DEF IInv, Expire, counters, waits, opts, Timed
<1> QED
  BY <1>1, <1>2, <1>3, <1>4, ThreadStep

(* Giving up reading preserves the invariant. *)
LEMMA TimeoutReadStep ==
  ASSUME IInv, NEW t \in Threads, TimeoutRead(t)
  PROVE  IInv'
<1> USE DEF IInv, TimeoutRead, counters, opts
<1>1. Local(t)
  BY DEF Local, ThreadShape, Upgrading, NoLock, Held, TypeOK, Shape, Calls, ReadCalls, WriteCalls, HoldingRd, HoldingWr
<1>2. Counted(t)
  BY DEF Counted, One, IsReader, WaitsIn, HoldingRd, HoldingWr, Upgrading, TypeOK, Calls, ReadCalls, WriteCalls, NoLock, Held, Shape, ThreadShape
<1>3. ReservedHasOneOwner'
  <2>1. \/ reserved' = reserved /\ (IsReserver(t)' <=> IsReserver(t))
        \/ (~reserved \/ IsReserver(t)) /\ (reserved' <=> IsReserver(t)')
    BY DEF IsReserver, NoLock, Held, TypeOK, Shape, ThreadShape, Upgrading, HoldingRd, HoldingWr
  <2> QED
    BY <1>1, <2>1, ReservationStep
<1>4. Exclusion'
  BY Holders DEF Exclusion, TypeOK, Upgrading, HoldingRd, HoldingWr
<1> HIDE DEF IInv, TimeoutRead, counters, opts
<1> QED
  BY <1>1, <1>2, <1>3, <1>4, ThreadStep

(* tryrdlock preserves the invariant. *)
LEMMA TryRdLockStep ==
  ASSUME IInv, NEW t \in Threads, TryRdLock(t)
  PROVE  IInv'
<1> USE DEF IInv, TryRdLock, Running, waits, EnterRead, CanRead
<1>1. Local(t)
  BY DEF Local, ThreadShape, Upgrading, NoLock, Held, TypeOK, Shape, Calls, ReadCalls, WriteCalls, HoldingRd, HoldingWr
<1>2. Counted(t)
  BY DEF Counted, One, IsReader, WaitsIn, HoldingRd, HoldingWr, Upgrading, TypeOK, Calls, ReadCalls, WriteCalls, NoLock, Held, Shape, ThreadShape
<1>3. ReservedHasOneOwner'
  <2>1. \/ reserved' = reserved /\ (IsReserver(t)' <=> IsReserver(t))
        \/ (~reserved \/ IsReserver(t)) /\ (reserved' <=> IsReserver(t)')
    BY DEF IsReserver, NoLock, Held, TypeOK, Shape, ThreadShape, Upgrading, HoldingRd, HoldingWr
  <2> QED
    BY <1>1, <2>1, ReservationStep
<1>4. Exclusion'
  BY Holders DEF Exclusion, TypeOK, Upgrading, HoldingRd, HoldingWr
<1> HIDE DEF IInv, TryRdLock, Running, waits, EnterRead, CanRead
<1> QED
  BY <1>1, <1>2, <1>3, <1>4, ThreadStep

(* trywrlock preserves the invariant. *)
LEMMA TryWrLockStep ==
  ASSUME IInv, NEW t \in Threads, TryWrLock(t)
  PROVE  IInv'
<1> USE DEF IInv, TryWrLock, Running, waits, EnterWrite, CanWrite
<1>1. Local(t)
  BY DEF Local, ThreadShape, Upgrading, NoLock, Held, TypeOK, Shape, Calls, ReadCalls, WriteCalls, HoldingRd, HoldingWr
<1>2. Counted(t)
  BY DEF Counted, One, IsReader, WaitsIn, HoldingRd, HoldingWr, Upgrading, TypeOK, Calls, ReadCalls, WriteCalls, NoLock, Held, Shape, ThreadShape
<1>3. ReservedHasOneOwner'
  <2>1. \/ reserved' = reserved /\ (IsReserver(t)' <=> IsReserver(t))
        \/ (~reserved \/ IsReserver(t)) /\ (reserved' <=> IsReserver(t)')
    BY DEF IsReserver, NoLock, Held, TypeOK, Shape, ThreadShape, Upgrading, HoldingRd, HoldingWr
  <2> QED
    BY <1>1, <2>1, ReservationStep
<1>4. Exclusion'
  BY Holders DEF Exclusion, TypeOK, Upgrading, HoldingRd, HoldingWr
<1> HIDE DEF IInv, TryWrLock, Running, waits, EnterWrite, CanWrite
<1> QED
  BY <1>1, <1>2, <1>3, <1>4, ThreadStep

(* Both ways of towrlock preserve the invariant. *)
LEMMA ToWrLockStep ==
  ASSUME IInv, NEW t \in Threads, ToWrLock(t)
  PROVE  IInv'
<1> USE DEF IInv
<1>1. /\ cnt[t] \in [rd : Nat, wr : Nat, res : BOOLEAN]
      /\ cnt[t].rd # 0 /\ cnt[t].wr = 0 /\ call[t] = "none" /\ cond[t] = "none"
      /\ rcount \in Nat \ {0} /\ wcount = 0 /\ rwait \in Nat /\ wwait \in Nat
  <2>1. ~Upgrading(t) /\ HoldingRd(t)
    BY DEF ToWrLock, Running, Upgrading
  <2>2. rcount > 0
    BY <2>1, Holders
  <2> QED
    BY <2>1, <2>2 DEF ToWrLock, Running, HoldingRd, TypeOK, Shape, ThreadShape, Exclusion
<1>2. CASE rcount = 1
  <2>1. /\ wcount' = 1 /\ rcount' = 0 /\ reserved' = FALSE
        /\ cnt' = [cnt EXCEPT ![t] = [rd |-> 0, wr |-> cnt[t].rd, res |-> FALSE]]
        /\ UNCHANGED <<waits, preferRead, call, cond>>
    BY <1>1, <1>2 DEF ToWrLock, Held
  <2>2. cnt'[t].rd = 0 /\ cnt'[t].wr = cnt[t].rd /\ cnt'[t].res = FALSE
    BY <2>1 DEF Held, TypeOK
  <2>3. Local(t)
    BY <1>1, <2>1, <2>2 DEF Local, ThreadShape, Upgrading, Held, TypeOK, Calls, ReadCalls, WriteCalls, waits
  <2>4. Counted(t)
    BY <1>1, <1>2, <2>1, <2>2
    DEF Counted, One, IsReader, WaitsIn, HoldingRd, HoldingWr, Upgrading, waits
  <2>5. ReservedHasOneOwner'
    <3>1. ~reserved \/ IsReserver(t)
      BY DEF ToWrLock, IsReserver
    <3>2. ~IsReserver(t)'
      BY <1>1, <2>1, <2>2 DEF IsReserver, Upgrading
    <3> QED
      BY <2>1, <2>3, <3>1, <3>2, ReservationStep
  <2>6. Exclusion'
    BY <2>1 DEF Exclusion
  <2> QED
    BY <2>3, <2>4, <2>5, <2>6, ThreadStep
<1>3. CASE rcount # 1
  <2>1. /\ rcount' = rcount - 1 /\ reserved' = TRUE
        /\ Sleep(t, "towrlock")
        /\ UNCHANGED <<wcount, cnt>>
    BY <1>3 DEF ToWrLock, Held
  <2>2. /\ call' = [call EXCEPT ![t] = "towrlock"]
        /\ cond' = [cond EXCEPT ![t] = "asleep"]
        /\ rwait' = rwait /\ wwait' = wwait + 1 /\ preferRead' = preferRead
    BY <2>1 DEF Sleep, ReadCalls, TypeOK
  <2>3. Local(t)
    <3>1. cnt' = cnt /\ call'[t] = "towrlock" /\ cond'[t] = "asleep"
      BY <2>1, <2>2 DEF TypeOK
    <3>2. ThreadShape(t)'
      BY <1>1, <3>1 DEF ThreadShape, Upgrading
    <3> QED
      BY <2>1, <2>2, <3>1, <3>2 DEF Local, TypeOK, Calls
  <2>4. Counted(t)
    BY <1>1, <2>1, <2>2
    DEF Counted, One, IsReader, WaitsIn, HoldingRd, HoldingWr, Upgrading,
        ReadCalls, WriteCalls, Calls, TypeOK
  <2>5. ReservedHasOneOwner'
    <3>1. ~reserved \/ IsReserver(t)
      BY DEF ToWrLock, IsReserver
    <3>2. IsReserver(t)'
      BY <2>2 DEF IsReserver, Upgrading, TypeOK
    <3> QED
      BY <2>1, <2>3, <3>1, <3>2, ReservationStep
  <2>6. Exclusion'
    BY <1>1, <2>1 DEF Exclusion
  <2> QED
    BY <2>3, <2>4, <2>5, <2>6, ThreadStep
<1> QED
  BY <1>2, <1>3

(* A reader's last unlock preserves the invariant. *)
LEMMA UnlockReaderStep ==
  ASSUME IInv, NEW t \in Threads, UnlockReader(t)
  PROVE  IInv'
<1> USE DEF IInv, UnlockReader, Running, waits
<1>a. cond' \in {cond, Broadcast(WSleepers, cond)} \cup Signal(WSleepers, cond)
  BY DEF WakeAfterReaders
<1>b. /\ cond' \in [Threads -> {"none", "asleep", "woken", "expired"}]
      /\ \A u \in Threads : cond'[u] = "none" <=> cond[u] = "none"
  BY <1>a, Waking DEF WSleepers, Sleepers, TypeOK
<1>1. Local(t)
  BY <1>b DEF Local, ThreadShape, Upgrading, NoLock, Held, TypeOK, Shape, Calls, ReadCalls, WriteCalls, HoldingRd, HoldingWr
<1>2. Counted(t)
  BY DEF Counted, One, IsReader, WaitsIn, HoldingRd, HoldingWr, Upgrading, TypeOK, Calls, ReadCalls, WriteCalls, NoLock, Held, Shape, ThreadShape
<1>3. ReservedHasOneOwner'
  <2>1. \/ reserved' = reserved /\ (IsReserver(t)' <=> IsReserver(t))
        \/ (~reserved \/ IsReserver(t)) /\ (reserved' <=> IsReserver(t)')
    BY DEF IsReserver, NoLock, Held, TypeOK, Shape, ThreadShape, Upgrading, HoldingRd, HoldingWr
  <2> QED
    BY <1>1, <2>1, ReservationStep
<1>4. Exclusion'
  BY Holders DEF Exclusion, TypeOK, Upgrading, HoldingRd, HoldingWr
<1> HIDE DEF IInv, UnlockReader, Running, waits
<1> QED
  BY <1>1, <1>2, <1>3, <1>4, ThreadStep

(* A writer's last unlock preserves the invariant. *)
LEMMA UnlockWriterStep ==
  ASSUME IInv, NEW t \in Threads, UnlockWriter(t)
  PROVE  IInv'
<1> USE DEF IInv, UnlockWriter, Running, waits, opts
<1>a. \/ cond' \in {cond, Broadcast(WSleepers, cond)} \cup Signal(WSleepers, cond)
      \/ cond' = Broadcast(RSleepers, cond)
  BY DEF WakeAfterWriter
<1>b. /\ cond' \in [Threads -> {"none", "asleep", "woken", "expired"}]
      /\ \A u \in Threads : cond'[u] = "none" <=> cond[u] = "none"
  BY <1>a, Waking DEF WSleepers, RSleepers, Sleepers, TypeOK
<1>1. Local(t)
  BY <1>b DEF Local, ThreadShape, Upgrading, NoLock, Held, TypeOK, Shape, Calls, ReadCalls, WriteCalls, HoldingRd, HoldingWr
<1>2. Counted(t)
  BY DEF Counted, One, IsReader, WaitsIn, HoldingRd, HoldingWr, Upgrading, TypeOK, Calls, ReadCalls, WriteCalls, NoLock, Held, Shape, ThreadShape
<1>3. ReservedHasOneOwner'
  <2>1. \/ reserved' = reserved /\ (IsReserver(t)' <=> IsReserver(t))
        \/ (~reserved \/ IsReserver(t)) /\ (reserved' <=> IsReserver(t)')
    BY DEF IsReserver, NoLock, Held, TypeOK, Shape, ThreadShape, Upgrading, HoldingRd, HoldingWr
  <2> QED
    BY <1>1, <2>1, ReservationStep
<1>4. Exclusion'
  BY Holders DEF Exclusion, TypeOK, Upgrading, HoldingRd, HoldingWr
<1> HIDE DEF IInv, UnlockWriter, Running, waits, opts
<1> QED
  BY <1>1, <1>2, <1>3, <1>4, ThreadStep

(* Giving up writing preserves the invariant. *)
LEMMA TimeoutWriteStep ==
  ASSUME IInv, NEW t \in Threads, TimeoutWrite(t)
  PROVE  IInv'
<1> USE DEF IInv, TimeoutWrite, counters, opts
<1> DEFINE cs == [cond EXCEPT ![t] = "none"]
<1>a. cond' \in {cs, Broadcast(RSleepers, cs)}
  BY DEF AfterWriteTimeout
<1>b. /\ cs \in [Threads -> {"none", "asleep", "woken", "expired"}]
      /\ RSleepers \in SUBSET {u \in Threads : cs[u] = "asleep"}
  BY DEF TypeOK, RSleepers, Sleepers
<1>c. /\ cond' \in [Threads -> {"none", "asleep", "woken", "expired"}]
      /\ \A u \in Threads : cond'[u] = "none" <=> cs[u] = "none"
  <2> HIDE DEF cs, IInv, TimeoutWrite
  <2> QED
    BY <1>a, <1>b, Waking
<1>d. /\ cond'[t] = "none"
      /\ \A u \in Threads \ {t} : cond'[u] = "none" <=> cond[u] = "none"
  BY <1>c DEF TypeOK
<1>1. Local(t)
  BY <1>c, <1>d DEF Local, ThreadShape, Upgrading, NoLock, Held, TypeOK, Shape, Calls, ReadCalls, WriteCalls, HoldingRd, HoldingWr
<1>2. Counted(t)
  BY DEF Counted, One, IsReader, WaitsIn, HoldingRd, HoldingWr, Upgrading, TypeOK, Calls, ReadCalls, WriteCalls, NoLock, Held, Shape, ThreadShape
<1>3. ReservedHasOneOwner'
  <2>1. \/ reserved' = reserved /\ (IsReserver(t)' <=> IsReserver(t))
        \/ (~reserved \/ IsReserver(t)) /\ (reserved' <=> IsReserver(t)')
    BY DEF IsReserver, NoLock, Held, TypeOK, Shape, ThreadShape, Upgrading, HoldingRd, HoldingWr
  <2> QED
    BY <1>1, <2>1, ReservationStep
<1>4. Exclusion'
  BY Holders DEF Exclusion, TypeOK, Upgrading, HoldingRd, HoldingWr
<1> HIDE DEF IInv, TimeoutWrite, counters, opts
<1> QED
  BY <1>1, <1>2, <1>3, <1>4, ThreadStep
(* A call enters, at once or after its wait; cs is cond without the wait.  *)
LEMMA EnterStep ==
  ASSUME IInv, NEW t \in Threads, NEW kind \in Calls \ {"towrlock"},
         NEW cs \in [Threads -> {"none", "asleep", "woken", "expired"}],
         cs[t] = "none", \A u \in Threads \ {t} : cs[u] = cond[u],
         cnt[t] = NoLock, call[t] \in {"none", kind}, cond[t] # "asleep",
         MayEnter(kind), Enter(t, kind, cs), preferRead' \in BOOLEAN,
         call' = [call EXCEPT ![t] = "none"],
         rwait' = rwait - One(WaitsIn(ReadCalls, t)),
         wwait' = wwait - One(WaitsIn(Calls \ ReadCalls, t))
  PROVE  IInv'
<1> USE DEF IInv
<1>1. /\ cond' \in [Threads -> {"none", "asleep", "woken", "expired"}]
      /\ \A u \in Threads : cond'[u] = "none" <=> cs[u] = "none"
  <2>1. cond' \in {cs, Broadcast(RSleepers, cs)}
    BY DEF Enter, EnterRead, EnterWrite, EnterReserved
  <2>2. RSleepers \in SUBSET {u \in Threads : cs[u] = "asleep"}
    BY DEF RSleepers, Sleepers
  <2> HIDE DEF IInv
  <2> QED
    BY <2>1, <2>2, Waking
<1>2. /\ call'[t] = "none" /\ cond'[t] = "none"
      /\ cnt[t].rd = 0 /\ cnt[t].wr = 0 /\ cnt[t].res = FALSE /\ ~Upgrading(t)
      /\ call' \in [Threads -> Calls \cup {"none"}]
      /\ \A u \in Threads \ {t} : call'[u] = call[u]
  BY <1>1 DEF TypeOK, NoLock, Held, Upgrading
<1>3. /\ rcount \in Nat /\ wcount = 0 /\ rwait \in Nat /\ wwait \in Nat
      /\ kind \notin ReadCalls => ~reserved
      /\ kind \in WriteCalls => rcount = 0
  BY DEF MayEnter, CanRead, CanReadAnyway, CanWrite, CanReserve, TypeOK,
         Calls, ReadCalls, WriteCalls
<1> DEFINE Entered(r, w, s) ==
      /\ cnt' = [cnt EXCEPT ![t] = [rd |-> r, wr |-> w, res |-> s]]
      /\ r # 0 => w = 0
      /\ s => r # 0
      /\ rcount' = rcount + One(r # 0)
      /\ wcount' = One(w # 0)
      /\ w # 0 => rcount = 0 /\ ~reserved /\ r = 0
      /\ IF s THEN ~reserved /\ reserved' = TRUE ELSE reserved' = reserved
<1>4. PICK r \in Nat, w \in Nat, s \in BOOLEAN : Entered(r, w, s)
  <2>1. CASE kind \in ReadCalls /\ EnterRead(t, cs)
    <3>1. Entered(1, 0, FALSE)
      BY <1>3, <2>1 DEF EnterRead, Held, One
    <3> QED
      BY <3>1
  <2>2. CASE kind \in WriteCalls /\ EnterWrite(t, cs)
    <3>1. kind \notin ReadCalls
      BY <2>2 DEF ReadCalls, WriteCalls
    <3>2. Entered(0, 1, FALSE)
      BY <1>3, <2>2, <3>1 DEF EnterWrite, Held, One
    <3> QED
      BY <3>2
  <2>3. CASE kind = "rslock" /\ EnterReserved(t, cs)
    <3>1. Entered(1, 0, TRUE)
      BY <1>3, <2>3 DEF EnterReserved, Held, One, ReadCalls
    <3> QED
      BY <3>1
  <2> QED
    BY <2>1, <2>2, <2>3 DEF Enter
<1>5. /\ cnt'[t].rd = r /\ cnt'[t].wr = w /\ cnt'[t].res = s
      /\ cnt' \in [Threads -> [rd : Nat, wr : Nat, res : BOOLEAN]]
      /\ \A u \in Threads \ {t} : cnt'[u] = cnt[u]
  BY <1>4 DEF TypeOK
<1>6. Local(t)
  <2>1. ThreadShape(t)'
    BY <1>2, <1>4, <1>5 DEF ThreadShape, Upgrading, Calls, ReadCalls, WriteCalls
  <2>2. reserved' \in BOOLEAN
    BY <1>4 DEF TypeOK
  <2> QED
    BY <1>1, <1>2, <1>5, <2>1, <2>2 DEF Local
<1>7. Counted(t)
  <2>1. /\ IsReader(t)' <=> r # 0
        /\ ~IsReader(t)
        /\ HoldingWr(t)' <=> w # 0
        /\ ~HoldingWr(t)
        /\ ~WaitsIn(ReadCalls, t)' /\ ~WaitsIn(Calls \ ReadCalls, t)'
    BY <1>2, <1>5 DEF IsReader, HoldingRd, HoldingWr, Upgrading, WaitsIn,
       Calls, ReadCalls, WriteCalls
  <2> QED
    BY <1>3, <1>4, <2>1 DEF Counted, One
<1>8. ReservedHasOneOwner'
  <2>1. ~IsReserver(t) /\ (IsReserver(t)' <=> s)
    BY <1>2, <1>5 DEF IsReserver, Upgrading
  <2> QED
    BY <1>4, <1>6, <2>1, ReservationStep
<1>9. Exclusion'
  BY <1>3, <1>4 DEF Exclusion, One
<1> HIDE DEF IInv
<1> QED
  BY <1>6, <1>7, <1>8, <1>9, ThreadStep

(* A call that does not enter goes to sleep. *)
LEMMA SleepStep ==
  ASSUME IInv, NEW t \in Threads, NEW kind \in Calls \ {"towrlock"},
         Running(t), ~HoldingRd(t), ~HoldingWr(t), Sleep(t, kind),
         UNCHANGED <<rcount, wcount, reserved, cnt>>
  PROVE  IInv'
<1> USE DEF IInv
<1>1. /\ cnt[t] = NoLock /\ cnt' = cnt
      /\ call[t] = "none" /\ call'[t] = kind /\ cond'[t] = "asleep"
      /\ rwait \in Nat /\ wwait \in Nat
      /\ cnt[t].rd = 0 /\ cnt[t].wr = 0 /\ cnt[t].res = FALSE
  <2>1. cnt[t].rd = 0 /\ cnt[t].wr = 0 /\ cnt[t].res = FALSE
    <3>1. cnt[t].res \in BOOLEAN
      BY DEF TypeOK
    <3>2. ThreadShape(t)
      BY DEF Shape
    <3> QED
      BY <3>1, <3>2 DEF HoldingRd, HoldingWr, ThreadShape
  <2>2. cnt[t] = [rd |-> cnt[t].rd, wr |-> cnt[t].wr, res |-> cnt[t].res]
    BY DEF TypeOK
  <2>3. cnt[t] = NoLock
    BY <2>1, <2>2 DEF NoLock, Held
  <2> QED
    BY <2>1, <2>3 DEF Running, Sleep, TypeOK
<1>2. Local(t)
  <2>1. ThreadShape(t)'
    BY <1>1 DEF ThreadShape, Upgrading, NoLock, Held, Calls, ReadCalls, WriteCalls
  <2> QED
    BY <1>1, <2>1 DEF Local, Sleep, TypeOK
<1>3. Counted(t)
  BY <1>1 DEF Counted, Sleep, One, IsReader, HoldingRd, HoldingWr, WaitsIn, TypeOK,
     Calls, ReadCalls, WriteCalls
<1>4. ReservedHasOneOwner'
  <2>1. ~IsReserver(t) /\ ~IsReserver(t)'
    BY <1>1 DEF IsReserver, Upgrading
  <2> QED
    BY <1>2, <2>1, ReservationStep
<1>5. Exclusion'
  BY DEF Exclusion
<1> HIDE DEF IInv
<1> QED
  BY <1>2, <1>3, <1>4, <1>5, ThreadStep
(* The blocking calls of a thread without the lock preserve the invariant. *)
LEMMA RequestStep ==
  ASSUME IInv, NEW t \in Threads, NEW kind \in Calls \ {"towrlock"}, Request(t, kind)
  PROVE  IInv'
<1>1. Running(t) /\ ~HoldingRd(t) /\ ~HoldingWr(t)
  BY DEF Request
<1>2. CASE /\ MayEnter(kind) /\ Enter(t, kind, cond)
           /\ UNCHANGED <<rwait, wwait, preferRead, call>>
  <2>1. /\ cond \in [Threads -> {"none", "asleep", "woken", "expired"}]
        /\ cond[t] = "none" /\ call[t] = "none" /\ call' = [call EXCEPT ![t] = "none"]
        /\ rwait \in Nat /\ wwait \in Nat /\ preferRead' \in BOOLEAN
    BY <1>1, <1>2 DEF IInv, TypeOK, Shape, ThreadShape, Running
  <2>2. cnt[t] = NoLock
    <3>1. cnt[t] = [rd |-> cnt[t].rd, wr |-> cnt[t].wr, res |-> cnt[t].res]
          /\ cnt[t].res \in BOOLEAN
      BY DEF IInv, TypeOK
    <3>2. cnt[t].rd = 0 /\ cnt[t].wr = 0 /\ cnt[t].res = FALSE
      BY <1>1, <3>1 DEF IInv, Shape, ThreadShape, HoldingRd, HoldingWr
    <3> QED
      BY <3>1, <3>2 DEF NoLock, Held
  <2>3. ~WaitsIn(ReadCalls, t) /\ ~WaitsIn(Calls \ ReadCalls, t)
    BY <2>1 DEF WaitsIn, Calls, ReadCalls, WriteCalls
  <2>4. /\ rwait' = rwait - One(WaitsIn(ReadCalls, t))
        /\ wwait' = wwait - One(WaitsIn(Calls \ ReadCalls, t))
    BY <1>2, <2>1, <2>3 DEF One
  <2> QED
    BY <1>2, <2>1, <2>2, <2>4, EnterStep
<1>3. CASE Sleep(t, kind) /\ UNCHANGED <<rcount, wcount, reserved, cnt>>
  BY <1>1, <1>3, SleepStep
<1> QED
  BY <1>2, <1>3 DEF Request

(* A woken thread enters, becomes the writer it asked to be or sleeps on. *)
LEMMA ResumeStep ==
  ASSUME IInv, NEW t \in Threads, Resume(t)
  PROVE  IInv'
<1> DEFINE kind == call[t]
           cs == [cond EXCEPT ![t] = "none"]
<1>1. /\ cond[t] = "woken" /\ kind \in Calls
      /\ cs \in [Threads -> {"none", "asleep", "woken", "expired"}]
      /\ cs[t] = "none" /\ \A u \in Threads \ {t} : cs[u] = cond[u]
      /\ rwait \in Nat /\ wwait \in Nat /\ preferRead \in BOOLEAN
      /\ cnt[t] \in [rd : Nat, wr : Nat, res : BOOLEAN]
  BY DEF IInv, TypeOK, Shape, ThreadShape, Resume
<1>2. CASE MayEnter(kind) /\ Enter(t, kind, cs)
           /\ call' = [call EXCEPT ![t] = "none"]
           /\ rwait' = (IF kind \in ReadCalls THEN rwait - 1 ELSE rwait)
           /\ wwait' = (IF kind \in ReadCalls THEN wwait ELSE wwait - 1)
           /\ preferRead' = (preferRead /\ kind # "rdlock_starvewr")
  <2>1. kind # "towrlock"
    BY <1>2 DEF Enter, ReadCalls, WriteCalls
  <2>2. cnt[t] = NoLock
    BY <1>1, <2>1 DEF IInv, Shape, ThreadShape
  <2>3. /\ rwait' = rwait - One(WaitsIn(ReadCalls, t))
        /\ wwait' = wwait - One(WaitsIn(Calls \ ReadCalls, t))
        /\ preferRead' \in BOOLEAN
    BY <1>1, <1>2 DEF One, WaitsIn
  <2>4. call[t] \in {"none", kind} /\ cond[t] # "asleep" /\ kind \in Calls \ {"towrlock"}
    BY <1>1, <2>1
  <2> HIDE DEF kind, cs
  <2> QED
    BY <1>1, <1>2, <2>2, <2>3, <2>4, EnterStep
<1>3. CASE /\ kind = "towrlock" /\ CanBecomeWriter
           /\ EnterUpgraded(t, cs) /\ UNCHANGED rcount
           /\ call' = [call EXCEPT ![t] = "none"]
           /\ rwait' = rwait /\ wwait' = wwait - 1 /\ preferRead' = preferRead
  <2>1. /\ cnt[t].rd # 0 /\ cnt[t].wr = 0 /\ reserved /\ wcount = 0 /\ rcount = 0
        /\ IsReserver(t)
    BY <1>3, Holders DEF IInv, Shape, ThreadShape, Upgrading, CanBecomeWriter, IsReserver
  <2>2. /\ cnt' = [cnt EXCEPT ![t] = [rd |-> 0, wr |-> cnt[t].rd, res |-> FALSE]]
        /\ wcount' = 1 /\ reserved' = FALSE /\ cond' = cs
    BY <1>3, <2>1 DEF EnterUpgraded, Held
  <2>3. /\ cnt'[t].rd = 0 /\ cnt'[t].wr = cnt[t].rd /\ cnt'[t].res = FALSE
        /\ call'[t] = "none" /\ cond'[t] = "none"
    BY <1>1, <1>3, <2>2 DEF IInv, TypeOK
  <2>4. Local(t)
    <3>1. ThreadShape(t)'
      BY <2>3 DEF ThreadShape, Upgrading, Calls, ReadCalls, WriteCalls
    <3> QED
      BY <1>1, <1>3, <2>2, <2>3, <3>1 DEF Local, IInv, TypeOK
  <2>5. Counted(t)
    BY <1>1, <1>3, <2>1, <2>2, <2>3
    DEF Counted, One, IsReader, HoldingRd, HoldingWr, Upgrading, WaitsIn,
        Calls, ReadCalls, WriteCalls
  <2>6. ReservedHasOneOwner'
    <3>1. ~IsReserver(t)'
      BY <2>3 DEF IsReserver, Upgrading
    <3> QED
      BY <2>1, <2>2, <2>4, <3>1, ReservationStep
  <2>7. Exclusion'
    BY <1>3, <2>1, <2>2 DEF Exclusion
  <2> QED
    BY <2>4, <2>5, <2>6, <2>7, ThreadStep
<1>4. CASE /\ cond' = [cond EXCEPT ![t] = "asleep"]
           /\ preferRead' = (preferRead \/ kind = "rdlock_starvewr")
           /\ UNCHANGED <<counters, waits, reserved, cnt, call>>
  <2>1. Local(t)
    BY <1>1, <1>4 DEF Local, IInv, TypeOK, Shape, ThreadShape, Upgrading
  <2>2. Counted(t)
    BY <1>4 DEF Counted, counters, waits, IInv, TypeOK, One, IsReader, HoldingRd, HoldingWr,
       Upgrading, WaitsIn
  <2>3. ReservedHasOneOwner' /\ Exclusion'
    BY <1>4 DEF IInv, ReservedHasOneOwner, Reservers, Upgrading, Exclusion, counters
  <2> QED
    BY <2>1, <2>2, <2>3, ThreadStep
<1>5. kind = "towrlock" => (MayEnter(kind) <=> CanBecomeWriter)
  BY DEF MayEnter, ReadCalls, WriteCalls
<1>6. kind = "towrlock" => kind \notin ReadCalls
  BY DEF ReadCalls
<1> QED
  BY <1>1, <1>2, <1>3, <1>4, <1>5, <1>6 DEF Resume

-----------------------------------------------------------------------------
(* IInv holds initially: nobody holds, waits or is counted. *)
LEMMA Initially == Init => IInv
<1> SUFFICES ASSUME Init PROVE IInv
  OBVIOUS
<1> USE DEF Init
<1>1. TypeOK /\ Shape /\ Exclusion
  <2>1. NoLock \in [rd : Nat, wr : Nat, res : BOOLEAN]
        /\ NoLock.rd = 0 /\ NoLock.wr = 0 /\ NoLock.res = FALSE
    BY DEF NoLock, Held
  <2>2. "none" \notin Calls
    BY DEF Calls, ReadCalls, WriteCalls
  <2>3. TypeOK
    BY <2>1 DEF TypeOK
  <2>4. Shape
    BY <2>1, <2>2 DEF Shape, ThreadShape, Upgrading
  <2> QED
    BY <2>3, <2>4 DEF Exclusion
<1>2. /\ Readers = {} /\ Writers = {} /\ Reservers = {}
      /\ Waiting(ReadCalls) = {} /\ Waiting(Calls \ ReadCalls) = {}
  BY DEF Readers, Writers, Reservers, Waiting, HoldingRd, HoldingWr, Upgrading, NoLock, Held,
     Calls, ReadCalls, WriteCalls
<1>3. CountersAgree /\ ReservedHasOneOwner
  BY <1>2, FS_EmptySet DEF CountersAgree, ReservedHasOneOwner
<1> QED
  BY <1>1, <1>3 DEF IInv

(* Every step, and every step that changes nothing, keeps IInv. *)
LEMMA Inductive == IInv /\ [Next]_vars => IInv'
<1> SUFFICES ASSUME IInv, [Next]_vars PROVE IInv'
  OBVIOUS
<1>1. ASSUME NEW t \in Threads, Acquire(t) PROVE IInv'
  <2>1. ASSUME NEW kind \in Calls \ {"towrlock"}, Request(t, kind) PROVE IInv'
    BY <2>1, RequestStep
  <2>2. {"rdlock", "rdlock_starvewr", "timedrdlock", "wrlock", "timedwrlock", "rslock"}
          \subseteq Calls \ {"towrlock"}
    BY DEF Calls, ReadCalls, WriteCalls
  <2> QED
    BY <1>1, <2>1, <2>2, ReadAgainStep, WriteAgainStep, TryRdLockStep, TryWrLockStep, ToWrLockStep
    DEF Acquire, RdLock, RdLockStarveWr, TimedRdLock, WrLock, TimedWrLock, RsLock
<1>2. ASSUME NEW t \in Threads, Wait(t) PROVE IInv'
  BY <1>2, ResumeStep, ExpireStep, TimeoutReadStep, TimeoutWriteStep DEF Wait
<1>3. ASSUME NEW t \in Threads, SpuriousWake(t) PROVE IInv'
  BY <1>3, SpuriousWakeStep
<1>4. ASSUME NEW t \in Threads, Unlock(t) PROVE IInv'
  BY <1>4, UnlockInnerStep, UnlockReaderStep, UnlockWriterStep DEF Unlock
<1>5. CASE UNCHANGED vars
  <2> USE <1>5 DEF vars
  <2>1. (TypeOK /\ Exclusion)'
    BY DEF IInv, TypeOK, Exclusion
  <2>2. Shape'
    BY DEF IInv, Shape, ThreadShape, Upgrading
  <2>3. /\ Readers' = Readers /\ Writers' = Writers /\ Reservers' = Reservers
        /\ Waiting(ReadCalls)' = Waiting(ReadCalls)
        /\ Waiting(Calls \ ReadCalls)' = Waiting(Calls \ ReadCalls)
    BY DEF Readers, Writers, Reservers, Waiting, HoldingRd, HoldingWr, Upgrading
  <2>4. (CountersAgree /\ ReservedHasOneOwner)'
    BY <2>3 DEF IInv, CountersAgree, ReservedHasOneOwner
  <2> QED
    BY <2>1, <2>2, <2>4 DEF IInv
<1> QED
  BY <1>1, <1>2, <1>3, <1>4, <1>5 DEF Next

(* Every behaviour of plocks.c satisfies the inductive invariant. *)
THEOREM Invariant == Spec => []IInv
BY Initially, Inductive, PTL DEF Spec

(* plocks.c's counters stay natural numbers (an unsigned never wraps) and  *)
(* its records stay records, for any set of threads and any depth.         *)
THEOREM TypeCorrect == Spec => []TypeOK
<1>1. IInv => TypeOK
  BY DEF IInv
<1> QED
  BY <1>1, Invariant, PTL

(* A thread that holds the write lock of plocks.c is the only holder.      *)
THEOREM Exclusive == Spec => []MutualExclusion
<1>1. IInv => MutualExclusion
  <2> SUFFICES ASSUME IInv, NEW t \in Threads, HoldingWr(t), NEW u \in Threads \ {t}
               PROVE  ~HoldingRd(u) /\ ~HoldingWr(u)
    BY DEF MutualExclusion
  <2>1. wcount = 1 /\ rcount = 0 /\ ~reserved
    BY Holders
  <2>2. ~HoldingRd(u)
    BY <2>1, Holders DEF IInv, TypeOK
  <2>3. ~HoldingWr(u)
    BY <2>1, Holders DEF Writers
  <2> QED
    BY <2>2, <2>3
<1> QED
  BY <1>1, Invariant, PTL

(* The shared counters of plocks.c always equal what the threads hold and  *)
(* wait for, so no unlock sees a count that another path forgot to adjust. *)
THEOREM Accounted == Spec => []CountersAgree
<1>1. IInv => CountersAgree
  BY DEF IInv
<1> QED
  BY <1>1, Invariant, PTL

(* The RESERVED bit of plocks.c is set exactly while one thread owns it.   *)
THEOREM OneReservation == Spec => []ReservedHasOneOwner
<1>1. IInv => ReservedHasOneOwner
  BY DEF IInv
<1> QED
  BY <1>1, Invariant, PTL

-----------------------------------------------------------------------------
(* No wake-up is lost: whenever the lock is free and threads sleep, one is  *)
(* on its way back.                                                         *)

(* Readers sleep for a writer, who holds or waits. *)
ReadersRest == wcount = 0 /\ wwait = 0 => RSleepers = {}

(* The upgrading thread is awake as soon as it is alone. *)
UpgraderAwake ==
  rcount = 0 /\ wcount = 0 => \A t \in Threads : Upgrading(t) => cond[t] = "woken"

(* While writers sleep at a free lock, some thread is awake that will take  *)
(* it: not a reader that would go back to sleep for them.                   *)
TakerAwake ==
  rcount = 0 /\ wcount = 0 /\ ~reserved /\ WSleepers # {} =>
    \E t \in Threads : cond[t] = "woken" /\ call[t] \notin {"rdlock", "timedrdlock"}

(* PSYNC_RW_OPT_PREFER_READ is set for a thread that waits. *)
PreferredWaits == preferRead => \E t \in Threads : call[t] = "rdlock_starvewr"

(* Only timed calls expire. *)
TimedExpire == \A t \in Threads : cond[t] = "expired" => call[t] \in Timed

WInv == ReadersRest /\ UpgraderAwake /\ TakerAwake /\ PreferredWaits /\ TimedExpire

-----------------------------------------------------------------------------
(* Who waits when a counter says that somebody does. *)
Counted0 ==
  /\ rwait = 0 <=> \A t \in Threads : call[t] \notin ReadCalls
  /\ wwait = 0 <=> \A t \in Threads : call[t] \notin Calls \ ReadCalls
  /\ rcount = 0 <=> \A t \in Threads : HoldingRd(t) => Upgrading(t)

LEMMA CountedWaiters == IInv => Counted0
<1> SUFFICES ASSUME IInv PROVE Counted0
  OBVIOUS
<1>1. /\ Readers \in SUBSET Threads
      /\ Waiting(ReadCalls) \in SUBSET Threads /\ Waiting(Calls \ ReadCalls) \in SUBSET Threads
  BY DEF Readers, Waiting
<1>2. /\ rcount = 0 <=> Readers = {}
      /\ rwait = 0 <=> Waiting(ReadCalls) = {}
      /\ wwait = 0 <=> Waiting(Calls \ ReadCalls) = {}
  BY <1>1, ThreadSets DEF IInv, CountersAgree
<1> QED
  BY <1>2 DEF Counted0, Readers, Waiting

(* What the steps use of the invariant of RWLockProofs. *)
LEMMA Context ==
  ASSUME IInv
  PROVE  /\ rcount \in Nat /\ wcount \in {0, 1} /\ rwait \in Nat /\ wwait \in Nat
         /\ preferRead \in BOOLEAN /\ reserved \in BOOLEAN
         /\ cnt \in [Threads -> [rd : Nat, wr : Nat, res : BOOLEAN]]
         /\ call \in [Threads -> Calls \cup {"none"}]
         /\ cond \in [Threads -> {"none", "asleep", "woken", "expired"}]
         /\ \A t \in Threads : cond[t] = "none" <=> call[t] = "none"
         /\ \A t \in Threads : Upgrading(t) => reserved /\ wcount = 0
BY Holders DEF IInv, TypeOK, Shape, ThreadShape, Exclusion

-----------------------------------------------------------------------------
(* Steps that leave the waiting threads and the shared counters alone.      *)
LEMMA QuietStep ==
  ASSUME WInv, UNCHANGED <<rcount, wcount, wwait, reserved, preferRead, call, cond>>
  PROVE  WInv'
BY DEF WInv, ReadersRest, UpgraderAwake, TakerAwake, PreferredWaits, TimedExpire,
   RSleepers, WSleepers, Sleepers, Upgrading

(* A spurious wake-up or a deadline takes a sleeper from the sleepers.      *)
LEMMA RousedStep ==
  ASSUME IInv, WInv, NEW t \in Threads, SpuriousWake(t) \/ Expire(t)
  PROVE  WInv'
<1> USE Context DEF counters, waits, opts, SpuriousWake, Expire
<1>1. /\ RSleepers' \subseteq RSleepers /\ WSleepers' \subseteq WSleepers
      /\ \A u \in Threads : cond[u] = "woken" => cond'[u] = "woken"
  BY DEF RSleepers, WSleepers, Sleepers
<1>2. ReadersRest' /\ TakerAwake' /\ PreferredWaits'
  BY <1>1 DEF WInv, ReadersRest, TakerAwake, PreferredWaits
<1>3. UpgraderAwake'
  BY <1>1 DEF WInv, UpgraderAwake, Upgrading
<1>4. TimedExpire'
  BY DEF WInv, TimedExpire
<1> QED
  BY <1>2, <1>3, <1>4 DEF WInv

(* A thread takes the free lock without a wait.                             *)
LEMMA TakenStep ==
  ASSUME IInv, WInv, rcount' # 0 \/ wcount' # 0,
         \/ wcount' = 1 \/ UNCHANGED <<wcount, wwait>>,
         UNCHANGED <<preferRead, call, cond>>
  PROVE  WInv'
<1>1. RSleepers' = RSleepers
  BY DEF RSleepers, Sleepers
<1> QED
  BY <1>1 DEF WInv, ReadersRest, UpgraderAwake, TakerAwake, PreferredWaits, TimedExpire

(* A call of a thread without the lock enters, or goes to sleep where       *)
(* somebody will wake it.                                                   *)
LEMMA RequestWakes ==
  ASSUME IInv, WInv, NEW t \in Threads, NEW kind \in Calls \ {"towrlock"},
         Request(t, kind)
  PROVE  WInv'
<1> USE Context
<1>1. CASE MayEnter(kind) /\ Enter(t, kind, cond)
           /\ UNCHANGED <<rwait, wwait, preferRead, call>>
  <2>1. RSleepers' \subseteq RSleepers /\ WSleepers' = WSleepers
    BY <1>1, ZenonT(60) DEF Enter, EnterRead, EnterWrite, EnterReserved, Broadcast, RSleepers, WSleepers,
       Sleepers
  <2>2. \/ rcount' = rcount + 1 /\ wcount' = wcount
        \/ wcount' = wcount + 1
    BY <1>1 DEF Enter, EnterRead, EnterWrite, EnterReserved
  <2>3. (rcount' # 0 \/ wcount' # 0) /\ (wcount' # 0 \/ wcount' = wcount)
    <3>1. rcount \in Nat /\ wcount \in {0, 1}
      BY Context
    <3> QED
      BY <2>2, <3>1
  <2>4. ReadersRest' /\ PreferredWaits'
    BY <1>1, <2>1, <2>3 DEF WInv, ReadersRest, PreferredWaits
  <2>5. TimedExpire'
    BY <1>1 DEF Enter, EnterRead, EnterWrite, EnterReserved, Broadcast, WInv, TimedExpire
  <2> QED
    BY <2>3, <2>4, <2>5 DEF WInv, UpgraderAwake, TakerAwake
<1>2. CASE ~MayEnter(kind) /\ Sleep(t, kind) /\ UNCHANGED <<rcount, wcount, reserved, cnt>>
  <2>1. /\ call' = [call EXCEPT ![t] = kind] /\ cond' = [cond EXCEPT ![t] = "asleep"]
        /\ call[t] = "none" /\ cond[t] = "none"
    BY <1>2 DEF Sleep, Request, Running
  <2>2. ReadersRest'
    <3>1. CASE kind \in ReadCalls
      <4>1. wwait' = wwait /\ wcount' = wcount /\ (wcount # 0 \/ wwait # 0)
        BY <1>2, <3>1 DEF Sleep, MayEnter, CanRead, CanReadAnyway, ReadCalls
      <4> QED
        BY <4>1 DEF ReadersRest
    <3>2. CASE kind \notin ReadCalls
      <4>1. wwait' # 0
        BY <1>2, <3>2 DEF Sleep
      <4> QED
        BY <4>1 DEF ReadersRest
    <3> QED
      BY <3>1, <3>2
  <2>3. UpgraderAwake'
    BY <1>2, <2>1 DEF WInv, UpgraderAwake, Upgrading
  <2>4. TakerAwake'
    <3> SUFFICES ASSUME rcount = 0, wcount = 0, ~reserved, WSleepers' # {}
                 PROVE  \E u \in Threads : cond'[u] = "woken"
                                          /\ call'[u] \notin {"rdlock", "timedrdlock"}
      BY <1>2 DEF TakerAwake
    <3>1. kind \in ReadCalls
      BY <1>2 DEF MayEnter, CanWrite, CanReserve, Calls, ReadCalls, WriteCalls
    <3>2. WSleepers # {}
      BY <2>1, <3>1 DEF WSleepers, Sleepers
    <3>3. PICK u \in Threads : cond[u] = "woken" /\ call[u] \notin {"rdlock", "timedrdlock"}
      BY <3>2 DEF WInv, TakerAwake
    <3> QED
      BY <2>1, <3>3
  <2>5. PreferredWaits'
    <3>1. CASE kind = "rdlock_starvewr"
      BY <2>1, <3>1 DEF PreferredWaits
    <3>2. CASE kind # "rdlock_starvewr"
      <4>1. preferRead' = preferRead
        BY <1>2, <3>2 DEF Sleep
      <4> QED
        BY <2>1, <4>1 DEF WInv, PreferredWaits
    <3> QED
      BY <3>1, <3>2
  <2>6. TimedExpire'
    BY <2>1 DEF WInv, TimedExpire
  <2> QED
    BY <2>2, <2>3, <2>4, <2>5, <2>6 DEF WInv
<1> QED
  BY <1>1, <1>2 DEF Request

(* An upgrade leaves another reader behind, or is done.                     *)
LEMMA ToWrLockWakes ==
  ASSUME IInv, WInv, IInv', NEW t \in Threads, ToWrLock(t)
  PROVE  WInv'
<1> USE Context
<1>1. CASE wcount' = wcount + 1 /\ UNCHANGED <<waits, preferRead, call, cond>>
  <2>1. wcount' = 1
    <3>1. wcount \in {0, 1} /\ wcount' <= 1
      BY Context DEF IInv, Exclusion
    <3> QED
      BY <1>1, <3>1
  <2> QED
    BY <1>1, <2>1, TakenStep
<1>2. CASE rcount # 1 /\ rcount' = rcount - 1 /\ Sleep(t, "towrlock") /\ UNCHANGED <<wcount, cnt>>
  <2>1. rcount' # 0
    BY <1>2
  <2>2. wwait' # 0 /\ preferRead' = preferRead
        /\ call' = [call EXCEPT ![t] = "towrlock"] /\ cond' = [cond EXCEPT ![t] = "asleep"]
        /\ call[t] = "none"
    BY <1>2 DEF Sleep, ReadCalls, ToWrLock, Running
  <2>3. PreferredWaits' /\ TimedExpire'
    BY <2>2 DEF WInv, PreferredWaits, TimedExpire
  <2> QED
    BY <2>1, <2>2, <2>3 DEF WInv, ReadersRest, UpgraderAwake, TakerAwake
<1> QED
  BY <1>1, <1>2 DEF ToWrLock

(* A woken thread takes the lock, or sleeps on because another will.        *)
LEMMA ResumeWakes ==
  ASSUME IInv, WInv, NEW t \in Threads, Resume(t)
  PROVE  WInv'
<1> DEFINE kind == call[t]
           cs == [cond EXCEPT ![t] = "none"]
<1>1. /\ cond[t] = "woken" /\ kind \in Calls
      /\ cond \in [Threads -> {"none", "asleep", "woken", "expired"}]
      /\ call \in [Threads -> Calls \cup {"none"}]
      /\ rcount \in Nat /\ wcount \in {0, 1} /\ rwait \in Nat /\ wwait \in Nat
      /\ reserved \in BOOLEAN
  BY Context DEF Resume
<1>2. CASE /\ MayEnter(kind)
           /\ \/ Enter(t, kind, cs)
              \/ kind = "towrlock" /\ EnterUpgraded(t, cs) /\ UNCHANGED rcount
           /\ call' = [call EXCEPT ![t] = "none"]
           /\ wwait' = (IF kind \in ReadCalls THEN wwait ELSE wwait - 1)
           /\ preferRead' = (preferRead /\ kind # "rdlock_starvewr")
  <2>1. rcount' # 0 \/ wcount' # 0
    <3>1. rcount' = rcount + 1 \/ wcount' = wcount + 1
      BY <1>2 DEF Enter, EnterRead, EnterWrite, EnterReserved, EnterUpgraded
    <3> QED
      BY <1>1, <3>1
  <2>2. /\ cond' \in {cs, Broadcast(RSleepers, cs)}
        /\ kind = "rslock" => cond' = Broadcast(RSleepers, cs)
        /\ kind \in {"towrlock"} \cup WriteCalls => wcount' = wcount + 1
    BY <1>2 DEF Enter, EnterRead, EnterWrite, EnterReserved, EnterUpgraded, ReadCalls, WriteCalls
  <2>3. /\ RSleepers' \subseteq RSleepers
        /\ kind = "rslock" => RSleepers' = {}
    BY <1>1, <1>2, <2>2 DEF RSleepers, Sleepers, Broadcast
  <2>4. ReadersRest'
    <3>1. CASE kind \in ReadCalls
      <4>1. wcount' = wcount /\ wwait' = wwait
        BY <1>2, <3>1 DEF Enter, EnterRead, EnterWrite, EnterReserved, ReadCalls, WriteCalls
      <4> QED
        BY <2>3, <4>1 DEF WInv, ReadersRest
    <3>2. CASE kind \in {"towrlock"} \cup WriteCalls
      <4>1. wcount' # 0
        BY <1>1, <2>2, <3>2
      <4> QED
        BY <4>1 DEF ReadersRest
    <3>3. CASE kind = "rslock"
      BY <2>3, <3>3 DEF ReadersRest
    <3> QED
      BY <1>1, <3>1, <3>2, <3>3 DEF Calls
  <2>5. PreferredWaits'
    <3> SUFFICES ASSUME preferRead' PROVE \E u \in Threads : call'[u] = "rdlock_starvewr"
      BY DEF PreferredWaits
    <3>1. preferRead /\ kind # "rdlock_starvewr"
      BY <1>2
    <3>2. PICK u \in Threads : call[u] = "rdlock_starvewr"
      BY <3>1 DEF WInv, PreferredWaits
    <3>3. u # t
      BY <3>1, <3>2
    <3>4. call'[u] = "rdlock_starvewr"
      BY <1>1, <1>2, <3>2, <3>3
    <3> QED
      BY <3>4
  <2>6. TimedExpire'
    <3> SUFFICES ASSUME NEW u \in Threads, cond'[u] = "expired" PROVE call'[u] \in Timed
      BY DEF TimedExpire
    <3>1. u # t /\ cond[u] = "expired"
      BY <1>1, <2>2 DEF Broadcast
    <3> QED
      BY <1>1, <1>2, <3>1 DEF WInv, TimedExpire
  <2> QED
    BY <2>1, <2>4, <2>5, <2>6 DEF WInv, UpgraderAwake, TakerAwake
<1>3. CASE /\ ~MayEnter(kind)
           /\ cond' = [cond EXCEPT ![t] = "asleep"]
           /\ preferRead' = (preferRead \/ kind = "rdlock_starvewr")
           /\ UNCHANGED <<counters, waits, reserved, cnt, call>>
  <2> USE DEF counters, waits
  <2>1. ReadersRest'
    <3>1. CASE kind \in ReadCalls
      <4>1. wcount # 0 \/ wwait # 0
        BY <1>3, <3>1 DEF MayEnter, CanRead, CanReadAnyway, ReadCalls
      <4> QED
        BY <1>3, <4>1 DEF ReadersRest
    <3>2. CASE kind \notin ReadCalls
      <4>1. RSleepers' = RSleepers
        BY <1>1, <1>3, <3>2 DEF RSleepers, Sleepers
      <4> QED
        BY <1>3, <4>1 DEF WInv, ReadersRest
    <3> QED
      BY <3>1, <3>2
  <2>2. UpgraderAwake'
    <3> SUFFICES ASSUME rcount = 0, wcount = 0, NEW u \in Threads, Upgrading(u)
                 PROVE  cond'[u] = "woken"
      BY <1>3 DEF UpgraderAwake, Upgrading
    <3>1. u # t
      BY <1>3 DEF Upgrading, MayEnter, CanBecomeWriter
    <3>2. cond[u] = "woken"
      BY DEF WInv, UpgraderAwake
    <3> QED
      BY <1>1, <1>3, <3>1, <3>2
  <2>3. TakerAwake'
    <3> SUFFICES ASSUME rcount = 0, wcount = 0, ~reserved, WSleepers' # {}
                 PROVE  \E u \in Threads : cond'[u] = "woken"
                                          /\ call'[u] \notin {"rdlock", "timedrdlock"}
      BY <1>3 DEF TakerAwake
    <3>1. kind \in {"rdlock", "timedrdlock"}
      BY <1>1, <1>3 DEF MayEnter, CanReadAnyway, CanWrite, CanReserve, CanBecomeWriter,
         Calls, ReadCalls, WriteCalls
    <3>2. WSleepers # {}
      BY <1>1, <1>3, <3>1 DEF WSleepers, Sleepers, ReadCalls
    <3>3. PICK u \in Threads : cond[u] = "woken" /\ call[u] \notin {"rdlock", "timedrdlock"}
      BY <3>2 DEF WInv, TakerAwake
    <3> QED
      BY <1>1, <1>3, <3>1, <3>3
  <2>4. PreferredWaits'
    BY <1>3 DEF WInv, PreferredWaits
  <2>5. TimedExpire'
    BY <1>1, <1>3 DEF WInv, TimedExpire
  <2> QED
    BY <2>1, <2>2, <2>3, <2>4, <2>5 DEF WInv
<1> QED
  BY <1>2, <1>3 DEF Resume

(* A thread whose deadline passed leaves; the last writer to do so lets the *)
(* readers go that slept for it.                                            *)
LEMMA TimeoutWakes ==
  ASSUME IInv, WInv, NEW t \in Threads, TimeoutRead(t) \/ TimeoutWrite(t)
  PROVE  WInv'
<1> DEFINE cs == [cond EXCEPT ![t] = "none"]
<1>1. /\ cond \in [Threads -> {"none", "asleep", "woken", "expired"}]
      /\ cond[t] = "expired" /\ call[t] \in Timed
      /\ call' = [call EXCEPT ![t] = "none"]
      /\ UNCHANGED <<rcount, wcount, reserved, preferRead>>
      /\ cond' \in {cs, Broadcast(RSleepers, cs)}
  BY Context DEF TimeoutRead, TimeoutWrite, AfterWriteTimeout, Timed, counters, opts
<1>2. /\ RSleepers' \subseteq RSleepers /\ WSleepers' = WSleepers
      /\ \A u \in Threads : cond[u] = "woken" => cond'[u] = "woken" /\ call'[u] = call[u]
  BY <1>1 DEF RSleepers, WSleepers, Sleepers, Broadcast, ReadCalls, Timed
<1>3. ReadersRest'
  <2>1. CASE TimeoutRead(t)
    BY <1>2, <2>1 DEF TimeoutRead, counters, WInv, ReadersRest
  <2>2. CASE TimeoutWrite(t)
    <3>1. CASE wwait' = 0 /\ wcount = 0
      <4>1. cond' = Broadcast(RSleepers, cs)
        BY <2>2, <3>1 DEF TimeoutWrite, AfterWriteTimeout
      <4>2. RSleepers' = {}
        BY <1>1, <4>1 DEF RSleepers, Sleepers, Broadcast
      <4> QED
        BY <4>2 DEF ReadersRest
    <3>2. CASE ~(wwait' = 0 /\ wcount = 0)
      BY <1>1, <3>2 DEF ReadersRest
    <3> QED
      BY <3>1, <3>2
  <2> QED
    BY <2>1, <2>2
<1>4. UpgraderAwake'
  BY <1>1, <1>2 DEF WInv, UpgraderAwake, Upgrading, Timed
<1>5. TakerAwake'
  BY <1>1, <1>2 DEF WInv, TakerAwake
<1>6. PreferredWaits'
  BY <1>1 DEF WInv, PreferredWaits, Timed
<1>7. TimedExpire'
  BY <1>1 DEF WInv, TimedExpire, Broadcast
<1> QED
  BY <1>3, <1>4, <1>5, <1>6, <1>7 DEF WInv

(* The last reader to leave wakes whoever may write.                        *)
LEMMA UnlockReaderWakes ==
  ASSUME IInv, WInv, NEW t \in Threads, UnlockReader(t)
  PROVE  WInv'
<1>1. /\ cond \in [Threads -> {"none", "asleep", "woken", "expired"}]
      /\ rcount \in Nat /\ wwait \in Nat /\ rcount' = rcount - 1
      /\ UNCHANGED <<wcount, rwait, wwait, preferRead, call>>
      /\ cond' \in IF rcount = 1 THEN WakeAfterReaders(reserved') ELSE {cond}
  BY Context DEF UnlockReader, waits
<1>2. /\ RSleepers' = RSleepers
      /\ \A u \in Threads : cond[u] = "woken" => cond'[u] = "woken"
      /\ \A u \in Threads : cond'[u] = "expired" => cond[u] = "expired"
  BY <1>1 DEF WakeAfterReaders, Signal, Broadcast, RSleepers, WSleepers, Sleepers
<1>3. ReadersRest' /\ PreferredWaits' /\ TimedExpire'
  BY <1>1, <1>2 DEF WInv, ReadersRest, PreferredWaits, TimedExpire
<1>4. CASE rcount' = 0
  <2>1. rcount = 1
    BY <1>1, <1>4
  <2>2. cond' \in WakeAfterReaders(reserved')
    BY <1>1, <2>1
  <2>3. UpgraderAwake'
    <3> SUFFICES ASSUME NEW u \in Threads, Upgrading(u)' PROVE cond'[u] = "woken"
      BY DEF UpgraderAwake
    <3>1. Upgrading(u) /\ cond[u] \in {"asleep", "woken"}
      BY <1>1, Context DEF WInv, TimedExpire, Timed, Upgrading
    <3>2. wwait # 0
      BY <3>1, CountedWaiters DEF Counted0, Upgrading, Calls, ReadCalls, WriteCalls
    <3>3. reserved'
      <4>1. u \in Reservers /\ u # t
        BY <3>1 DEF Reservers, Upgrading, UnlockReader, Running
      <4>2. ~cnt[t].res
        BY <4>1 DEF IInv, ReservedHasOneOwner, Reservers
      <4>3. reserved
        BY <3>1, Holders
      <4> QED
        BY <4>2, <4>3 DEF UnlockReader
    <3> QED
      BY <1>1, <2>2, <3>1, <3>2, <3>3 DEF WakeAfterReaders, Broadcast, WSleepers, Sleepers,
         Upgrading, Calls, ReadCalls
  <2>4. TakerAwake'
    <3> SUFFICES ASSUME ~reserved', WSleepers' # {}
                 PROVE  \E u \in Threads : cond'[u] = "woken"
                                          /\ call'[u] \notin {"rdlock", "timedrdlock"}
      BY DEF TakerAwake
    <3>1. WSleepers' \subseteq WSleepers
      BY <1>1, <2>2 DEF WakeAfterReaders, Signal, Broadcast, WSleepers, Sleepers
    <3>2. wwait # 0
      BY <3>1, CountedWaiters DEF Counted0, WSleepers, Sleepers
    <3>3. PICK u \in WSleepers : cond' = [cond EXCEPT ![u] = "woken"]
      BY <2>2, <3>1, <3>2 DEF WakeAfterReaders, Signal
    <3> QED
      BY <1>1, <3>3 DEF WSleepers, Sleepers, ReadCalls
  <2> QED
    BY <1>3, <2>3, <2>4 DEF WInv
<1>5. CASE rcount' # 0
  BY <1>3, <1>5 DEF WInv, UpgraderAwake, TakerAwake
<1> QED
  BY <1>4, <1>5

(* A writer that leaves wakes the readers, or whoever may write.            *)
LEMMA UnlockWriterWakes ==
  ASSUME IInv, WInv, NEW t \in Threads, UnlockWriter(t)
  PROVE  WInv'
<1>1. /\ cond \in [Threads -> {"none", "asleep", "woken", "expired"}]
      /\ call \in [Threads -> Calls \cup {"none"}]
      /\ \A u \in Threads : cond[u] = "none" <=> call[u] = "none"
      /\ wcount = 1 /\ ~reserved /\ wwait \in Nat /\ rwait \in Nat
      /\ UNCHANGED <<rcount, rwait, wwait, preferRead, reserved, call>>
      /\ cond' \in WakeAfterWriter
  BY Context, Holders DEF UnlockWriter, waits, opts, HoldingWr
<1>2. /\ \A u \in Threads : cond[u] = "woken" => cond'[u] = "woken"
      /\ \A u \in Threads : cond'[u] = "expired" => cond[u] = "expired"
  BY <1>1 DEF WakeAfterWriter, Signal, Broadcast, RSleepers, WSleepers, Sleepers
<1>3. PreferredWaits' /\ TimedExpire'
  BY <1>1, <1>2 DEF WInv, PreferredWaits, TimedExpire
<1>4. UpgraderAwake'
  BY <1>1, Context DEF UpgraderAwake, Upgrading
<1>5. CASE rwait > 0 /\ (preferRead \/ wwait = 0)
  <2>1. cond' = Broadcast(RSleepers, cond)
    BY <1>1, <1>5 DEF WakeAfterWriter
  <2>2. RSleepers' = {} /\ WSleepers' = WSleepers
    BY <1>1, <2>1 DEF Broadcast, RSleepers, WSleepers, Sleepers
  <2>3. TakerAwake'
    <3> SUFFICES ASSUME WSleepers' # {}
                 PROVE  \E u \in Threads : cond'[u] = "woken"
                                          /\ call'[u] \notin {"rdlock", "timedrdlock"}
      BY DEF TakerAwake
    <3>1. wwait # 0
      BY <2>2, CountedWaiters DEF Counted0, WSleepers, Sleepers
    <3>2. PICK u \in Threads : call[u] = "rdlock_starvewr"
      BY <1>5, <3>1 DEF WInv, PreferredWaits
    <3>3. cond[u] \in {"asleep", "woken"}
      BY <1>1, <3>2 DEF WInv, TimedExpire, Timed
    <3>4. cond'[u] = "woken"
      BY <1>1, <2>1, <3>2, <3>3 DEF Broadcast, RSleepers, Sleepers, ReadCalls
    <3> QED
      BY <1>1, <3>2, <3>4
  <2> QED
    BY <1>3, <1>4, <2>2, <2>3 DEF WInv, ReadersRest
<1>6. CASE ~(rwait > 0 /\ (preferRead \/ wwait = 0))
  <2>1. cond' \in Signal(WSleepers, cond)
    BY <1>1, <1>6 DEF WakeAfterWriter
  <2>2. RSleepers' = RSleepers /\ WSleepers' \subseteq WSleepers
    BY <1>1, <2>1 DEF Signal, RSleepers, WSleepers, Sleepers
  <2>3. ReadersRest'
    <3>1. wwait = 0 => RSleepers = {}
      BY <1>1, <1>6, CountedWaiters DEF Counted0, RSleepers, Sleepers
    <3> QED
      BY <1>1, <2>2, <3>1 DEF ReadersRest
  <2>4. TakerAwake'
    <3> SUFFICES ASSUME WSleepers' # {}
                 PROVE  \E u \in Threads : cond'[u] = "woken"
                                          /\ call'[u] \notin {"rdlock", "timedrdlock"}
      BY DEF TakerAwake
    <3>1. PICK u \in WSleepers : cond' = [cond EXCEPT ![u] = "woken"]
      BY <2>1, <2>2 DEF Signal
    <3> QED
      BY <1>1, <3>1 DEF WSleepers, Sleepers, ReadCalls
  <2> QED
    BY <1>3, <1>4, <2>3, <2>4 DEF WInv
<1> QED
  BY <1>5, <1>6

-----------------------------------------------------------------------------
LEMMA WakingInductive == IInv /\ WInv /\ IInv' /\ [Next]_vars => WInv'
<1> SUFFICES ASSUME IInv, WInv, IInv', [Next]_vars PROVE WInv'
  OBVIOUS
<1>1. ASSUME NEW t \in Threads, Acquire(t) PROVE WInv'
  <2>1. CASE ReadAgain(t) \/ WriteAgain(t)
    BY <2>1, QuietStep DEF ReadAgain, WriteAgain, counters, waits, opts
  <2>2. CASE TryRdLock(t) \/ TryWrLock(t)
    <3>1. /\ \/ rcount' = rcount + 1 /\ wcount' = wcount
             \/ wcount' = wcount + 1 /\ wcount = 0
          /\ UNCHANGED <<wwait, preferRead, call, cond>>
      BY <2>2 DEF TryRdLock, TryWrLock, EnterRead, EnterWrite, waits, CanWrite
    <3>2. rcount \in Nat
      BY Context
    <3> QED
      BY <3>1, <3>2, TakenStep
  <2>3. ASSUME NEW kind \in Calls \ {"towrlock"}, Request(t, kind) PROVE WInv'
    BY <2>3, RequestWakes
  <2>4. {"rdlock", "rdlock_starvewr", "timedrdlock", "wrlock", "timedwrlock", "rslock"}
          \subseteq Calls \ {"towrlock"}
    BY DEF Calls, ReadCalls, WriteCalls
  <2> QED
    BY <1>1, <2>1, <2>2, <2>3, <2>4, ToWrLockWakes
    DEF Acquire, RdLock, RdLockStarveWr, TimedRdLock, WrLock, TimedWrLock, RsLock
<1>2. ASSUME NEW t \in Threads, Wait(t) \/ SpuriousWake(t) PROVE WInv'
  BY <1>2, ResumeWakes, RousedStep, TimeoutWakes DEF Wait
<1>3. ASSUME NEW t \in Threads, Unlock(t) PROVE WInv'
  <2>1. CASE UnlockInner(t)
    BY <2>1, QuietStep DEF UnlockInner, counters, waits, opts
  <2> QED
    BY <1>3, <2>1, UnlockReaderWakes, UnlockWriterWakes DEF Unlock
<1>4. CASE UNCHANGED vars
  BY <1>4, QuietStep DEF vars
<1> QED
  BY <1>1, <1>2, <1>3, <1>4 DEF Next

(* WInv holds initially: nobody waits. *)
LEMMA WakingInitially == Init => WInv
BY DEF Init, WInv, ReadersRest, UpgraderAwake, TakerAwake, PreferredWaits, TimedExpire,
   RSleepers, WSleepers, Sleepers, Upgrading

(* Readers of plocks.c sleep for a writer only, an upgrading thread that is *)
(* alone is awake, and a free lock that writers sleep at will be taken.     *)
THEOREM WakingInvariant == Spec => []WInv
BY WakingInitially, WakingInductive, Invariant, PTL DEF Spec

(* plocks.c loses no wake-up: with the lock free and threads asleep on it,  *)
(* some thread has been woken, or its deadline has passed and it will pass  *)
(* the wake-up on.                                                          *)
THEOREM WakesUp == Spec => []NoLostWakeup
<1>1. IInv /\ WInv => NoLostWakeup
  <2> SUFFICES ASSUME IInv, WInv, rcount = 0, wcount = 0, RSleepers \cup WSleepers # {}
               PROVE  \E t \in Threads : cond[t] \in {"woken", "expired"}
    BY DEF NoLostWakeup
  <2>1. CASE reserved
    <3>1. PICK t \in Threads : cnt[t].res \/ Upgrading(t)
      BY <2>1 DEF IInv, ReservedHasOneOwner, Reservers
    <3>2. Upgrading(t)
      BY <3>1, CountedWaiters DEF Counted0, IInv, Shape, ThreadShape, HoldingRd
    <3> QED
      BY <3>2 DEF WInv, UpgraderAwake
  <2>2. CASE ~reserved /\ WSleepers # {}
    BY <2>2 DEF WInv, TakerAwake
  <2>3. CASE WSleepers = {} /\ RSleepers # {}
    <3>1. wwait # 0
      BY <2>3 DEF WInv, ReadersRest
    <3>2. PICK t \in Threads : call[t] \in Calls \ ReadCalls
      BY <3>1, CountedWaiters DEF Counted0
    <3>3. cond[t] # "asleep" /\ cond[t] # "none"
      BY <2>3, <3>2, Context DEF WSleepers, Sleepers, Calls, ReadCalls, WriteCalls
    <3> QED
      BY <3>3, Context
  <2> QED
    BY <2>1, <2>2, <2>3
<1> QED
  BY <1>1, Invariant, WakingInvariant, PTL

-----------------------------------------------------------------------------
(* plocks.c implements LockContract.                                        *)

HoldRead == {t \in Threads : HoldingRd(t)}

(* Who holds what, from the shared counters, in the terms of the contract.  *)
LEMMA ContractView ==
  ASSUME IInv
  PROVE  /\ wcount = 0 => Writers = {}
         /\ rcount = 0 /\ ~reserved => HoldRead = {}
         /\ ~reserved => Reservers = {}
         /\ \A t \in Threads : HoldingWr(t) => HoldRead = {} /\ Writers = {t}
         /\ \A t \in Reservers : Reservers = {t}
         /\ rcount = 0 => HoldRead \subseteq Reservers
<1>1. wcount \in Nat /\ rcount \in Nat
  BY DEF IInv, TypeOK
<1>2. wcount = 0 => Writers = {}
  BY <1>1, Holders DEF Writers
<1>3. rcount = 0 => HoldRead \subseteq Reservers
  BY <1>1, Holders DEF HoldRead, Reservers
<1>4. ~reserved => Reservers = {}
  BY DEF IInv, ReservedHasOneOwner
<1>5. \A t \in Reservers : Reservers = {t}
  BY DEF IInv, ReservedHasOneOwner
<1>6. ASSUME NEW t \in Threads, HoldingWr(t) PROVE HoldRead = {} /\ Writers = {t}
  <2>1. wcount = 1 /\ rcount = 0 /\ ~reserved
    BY <1>6, Holders
  <2>2. HoldRead = {}
    BY <1>3, <1>4, <2>1
  <2>3. Writers = {t}
    BY <1>6, <2>1, Holders DEF Writers
  <2> QED
    BY <2>2, <2>3
<1> QED
  BY <1>2, <1>3, <1>4, <1>5, <1>6

(* A step of thread t that leaves the records of the others alone.          *)
Alone(t) ==
  \A u \in Threads \ {t} : cnt'[u] = cnt[u] /\ call'[u] = call[u]

LEMMA AloneView ==
  ASSUME NEW t \in Threads, Alone(t)
  PROVE  /\ HoldRead' = (HoldRead \ {t}) \cup (IF HoldingRd(t)' THEN {t} ELSE {})
         /\ Writers' = (Writers \ {t}) \cup (IF HoldingWr(t)' THEN {t} ELSE {})
         /\ Reservers' = (Reservers \ {t})
                           \cup (IF cnt'[t].res \/ call'[t] = "towrlock" THEN {t} ELSE {})
BY DEF Alone, HoldRead, Writers, Reservers, HoldingRd, HoldingWr, Upgrading

(* The thread held nothing before.                                          *)
LEMMA JoinView ==
  ASSUME NEW t \in Threads, Alone(t), call'[t] = "none",
         t \notin HoldRead, t \notin Writers, t \notin Reservers
  PROVE  /\ HoldRead' = IF HoldingRd(t)' THEN HoldRead \cup {t} ELSE HoldRead
         /\ Writers' = IF HoldingWr(t)' THEN Writers \cup {t} ELSE Writers
         /\ Reservers' = IF cnt'[t].res THEN Reservers \cup {t} ELSE Reservers
BY AloneView

(* The holders do not change: the contract takes no step.                   *)
LEMMA SilentStep ==
  ASSUME NEW t \in Threads, Alone(t), HoldingRd(t)' = HoldingRd(t), HoldingWr(t)' = HoldingWr(t),
         cnt'[t].res = cnt[t].res, Upgrading(t)' = Upgrading(t)
  PROVE  UNCHANGED Contract!avars
<1>1. HoldRead' = HoldRead /\ Writers' = Writers /\ Reservers' = Reservers
  BY DEF Alone, HoldRead, Writers, Reservers, HoldingRd, HoldingWr, Upgrading
<1> QED
  BY <1>1 DEF Contract!avars, HoldRead

-----------------------------------------------------------------------------
(* A thread that enters, at once or after its wait, begins to read, to      *)
(* write, or to read with a claim.                                          *)
LEMMA EnterMaps ==
  ASSUME IInv, NEW t \in Threads, NEW kind \in Calls \ {"towrlock"}, NEW cs,
         MayEnter(kind), Enter(t, kind, cs), cnt[t] = NoLock,
         call[t] \in {"none", kind}, call' = [call EXCEPT ![t] = "none"]
  PROVE  Contract!ANext
<1>1. /\ cnt \in [Threads -> [rd : Nat, wr : Nat, res : BOOLEAN]]
      /\ call \in [Threads -> Calls \cup {"none"}]
      /\ cnt[t].rd = 0 /\ cnt[t].wr = 0 /\ cnt[t].res = FALSE
      /\ call[t] # "towrlock" /\ call'[t] = "none"
  BY DEF IInv, TypeOK, NoLock, Held
<1>2. t \notin HoldRead /\ t \notin Writers /\ t \notin Reservers
  BY <1>1 DEF HoldRead, Writers, Reservers, HoldingRd, HoldingWr, Upgrading
<1>3. wcount = 0 /\ Writers = {}
  BY ContractView DEF MayEnter, CanRead, CanReadAnyway, CanWrite, CanReserve
<1>4. CASE kind \in ReadCalls /\ EnterRead(t, cs)
  <2>1. Alone(t) /\ cnt'[t].rd = 1 /\ cnt'[t].wr = 0 /\ cnt'[t].res = FALSE
    BY <1>1, <1>4 DEF Alone, EnterRead, Held
  <2>2. HoldRead' = HoldRead \cup {t} /\ Writers' = Writers /\ Reservers' = Reservers
    <3>1. HoldingRd(t)' /\ ~HoldingWr(t)' /\ (cnt'[t].res = FALSE)
      BY <2>1 DEF HoldingRd, HoldingWr
    <3> QED
      BY <1>1, <1>2, <2>1, <3>1, JoinView
  <2>3. Contract!BeginRead(t)
    BY <1>2, <1>3, <2>2 DEF Contract!BeginRead, Contract!Holds, HoldRead
  <2> QED
    BY <2>3 DEF Contract!ANext
<1>5. CASE kind \in WriteCalls /\ EnterWrite(t, cs)
  <2>1. Alone(t) /\ cnt'[t].rd = 0 /\ cnt'[t].wr = 1 /\ cnt'[t].res = FALSE
    BY <1>1, <1>5 DEF Alone, EnterWrite, Held
  <2>2. HoldRead' = HoldRead /\ Writers' = Writers \cup {t} /\ Reservers' = Reservers
    <3>1. ~HoldingRd(t)' /\ HoldingWr(t)' /\ (cnt'[t].res = FALSE)
      BY <2>1 DEF HoldingRd, HoldingWr
    <3> QED
      BY <1>1, <1>2, <2>1, <3>1, JoinView
  <2>3. HoldRead = {}
    BY <1>5, ContractView DEF MayEnter, CanWrite, ReadCalls, WriteCalls
  <2>4. Contract!BeginWrite(t)
    BY <1>3, <2>2, <2>3 DEF Contract!BeginWrite, HoldRead
  <2> QED
    BY <2>4 DEF Contract!ANext
<1>6. CASE kind = "rslock" /\ EnterReserved(t, cs)
  <2>1. Alone(t) /\ cnt'[t].rd = 1 /\ cnt'[t].wr = 0 /\ cnt'[t].res = TRUE
    BY <1>1, <1>6 DEF Alone, EnterReserved, Held
  <2>2. HoldRead' = HoldRead \cup {t} /\ Writers' = Writers /\ Reservers' = Reservers \cup {t}
    <3>1. HoldingRd(t)' /\ ~HoldingWr(t)' /\ (cnt'[t].res = TRUE)
      BY <2>1 DEF HoldingRd, HoldingWr
    <3> QED
      BY <1>1, <1>2, <2>1, <3>1, JoinView
  <2>3. Reservers = {}
    BY <1>6, ContractView DEF MayEnter, CanReserve, ReadCalls, WriteCalls
  <2>4. Contract!BeginReserved(t)
    BY <1>2, <1>3, <2>2, <2>3 DEF Contract!BeginReserved, Contract!Holds, HoldRead
  <2> QED
    BY <2>4 DEF Contract!ANext
<1> QED
  BY <1>4, <1>5, <1>6 DEF Enter

(* A thread that holds nothing has an empty record. *)
LEMMA EmptyRecord ==
  ASSUME IInv, NEW t \in Threads, ~HoldingRd(t), ~HoldingWr(t)
  PROVE  cnt[t] = NoLock
<1>1. cnt[t] = [rd |-> cnt[t].rd, wr |-> cnt[t].wr, res |-> cnt[t].res] /\ cnt[t].res \in BOOLEAN
  BY DEF IInv, TypeOK
<1>2. cnt[t].rd = 0 /\ cnt[t].wr = 0 /\ cnt[t].res = FALSE
  BY <1>1 DEF IInv, Shape, ThreadShape, HoldingRd, HoldingWr
<1> QED
  BY <1>1, <1>2 DEF NoLock, Held

LEMMA RequestMaps ==
  ASSUME IInv, NEW t \in Threads, NEW kind \in Calls \ {"towrlock"}, Request(t, kind)
  PROVE  Contract!ANext \/ UNCHANGED Contract!avars
<1>1. call[t] = "none" /\ call \in [Threads -> Calls \cup {"none"}] /\ cnt[t] = NoLock
  BY EmptyRecord DEF Request, Running, IInv, TypeOK
<1>2. CASE MayEnter(kind) /\ Enter(t, kind, cond) /\ UNCHANGED call
  <2>1. call' = [call EXCEPT ![t] = "none"]
    BY <1>1, <1>2
  <2> QED
    BY <1>1, <1>2, <2>1, EnterMaps
<1>3. CASE Sleep(t, kind) /\ UNCHANGED cnt
  <2>1. Alone(t) /\ Upgrading(t)' = Upgrading(t)
    BY <1>1, <1>3 DEF Alone, Sleep, Upgrading
  <2> QED
    BY <1>3, <2>1, SilentStep DEF HoldingRd, HoldingWr
<1> QED
  BY <1>2, <1>3 DEF Request

(* tryrdlock and trywrlock. *)
LEMMA TryMaps ==
  ASSUME IInv, NEW t \in Threads, TryRdLock(t) \/ TryWrLock(t)
  PROVE  Contract!ANext
<1>1. call[t] = "none" /\ call' = [call EXCEPT ![t] = "none"] /\ cnt[t] = NoLock
  BY EmptyRecord DEF TryRdLock, TryWrLock, Running, IInv, TypeOK
<1>2. CASE TryRdLock(t)
  <2>1. MayEnter("rdlock") /\ Enter(t, "rdlock", cond) /\ "rdlock" \in Calls \ {"towrlock"}
    BY <1>2 DEF TryRdLock, MayEnter, Enter, Calls, ReadCalls
  <2> QED
    BY <1>1, <2>1, EnterMaps
<1>3. CASE TryWrLock(t)
  <2>1. MayEnter("wrlock") /\ Enter(t, "wrlock", cond) /\ "wrlock" \in Calls \ {"towrlock"}
    BY <1>3 DEF TryWrLock, MayEnter, Enter, Calls, WriteCalls
  <2> QED
    BY <1>1, <2>1, EnterMaps
<1> QED
  BY <1>2, <1>3

(* The moment at which an upgrade happens: the thread is the only reader,   *)
(* and no other has a claim.                                                *)
LEMMA UpgradeMaps ==
  ASSUME IInv, NEW t \in Threads, HoldRead = {t}, Reservers \subseteq {t},
         cnt' = [cnt EXCEPT ![t] = Held(0, cnt[t].rd, FALSE)],
         call' = [call EXCEPT ![t] = "none"]
  PROVE  Contract!ANext
<1>1. /\ Alone(t) /\ cnt'[t].rd = 0 /\ cnt'[t].wr = cnt[t].rd /\ cnt'[t].res = FALSE
      /\ call'[t] = "none" /\ cnt[t].rd # 0
  BY DEF Alone, Held, IInv, TypeOK, HoldRead, HoldingRd
<1>2. Writers = {}
  BY ContractView DEF Writers
<1>3. HoldRead' = {} /\ Writers' = {t} /\ Reservers' = {}
  BY <1>1, <1>2, AloneView DEF HoldingRd, HoldingWr
<1>4. Contract!Upgrade(t)
  BY <1>3 DEF Contract!Upgrade, HoldRead
<1> QED
  BY <1>4 DEF Contract!ANext

LEMMA ToWrLockMaps ==
  ASSUME IInv, NEW t \in Threads, ToWrLock(t)
  PROVE  Contract!ANext \/ UNCHANGED Contract!avars
<1>1. /\ call[t] = "none" /\ call \in [Threads -> Calls \cup {"none"}]
      /\ HoldingRd(t) /\ t \in HoldRead /\ t \in Readers
  BY DEF ToWrLock, Running, IInv, TypeOK, HoldRead, Readers, Upgrading
<1>2. Reservers \subseteq {t}
  <2>1. ~reserved \/ t \in Reservers
    BY DEF ToWrLock, Reservers
  <2> QED
    BY <2>1, ContractView
<1>3. CASE rcount = 1 /\ cnt' = [cnt EXCEPT ![t] = Held(0, cnt[t].rd, FALSE)] /\ UNCHANGED call
  <2>1. HoldRead = {t}
    <3>1. ASSUME NEW u \in HoldRead PROVE u = t
      <4>1. CASE Upgrading(u)
        BY <1>2, <4>1 DEF HoldRead, Reservers
      <4>2. CASE ~Upgrading(u)
        BY <1>1, <1>3, <4>2, Holders DEF HoldRead, Readers
      <4> QED
        BY <4>1, <4>2
    <3> QED
      BY <1>1, <3>1
  <2>2. call' = [call EXCEPT ![t] = "none"]
    BY <1>1, <1>3
  <2> QED
    BY <1>2, <1>3, <2>1, <2>2, UpgradeMaps
<1>4. CASE Sleep(t, "towrlock") /\ UNCHANGED cnt
  <2>1. Alone(t) /\ call'[t] = "towrlock"
    BY <1>1, <1>4 DEF Alone, Sleep
  <2>2. HoldRead' = HoldRead /\ Writers' = Writers
    BY <1>4 DEF HoldRead, Writers, HoldingRd, HoldingWr
  <2>3. Reservers' = {t}
    BY <1>2, <2>1, AloneView
  <2>4. CASE Reservers = {}
    <3>1. Contract!Claim(t)
      BY <1>1, <2>2, <2>3, <2>4 DEF Contract!Claim, HoldRead
    <3> QED
      BY <3>1 DEF Contract!ANext
  <2>5. CASE Reservers = {t}
    BY <2>2, <2>3, <2>5 DEF Contract!avars, HoldRead
  <2> QED
    BY <1>2, <2>4, <2>5
<1> QED
  BY <1>3, <1>4 DEF ToWrLock

LEMMA ResumeMaps ==
  ASSUME IInv, NEW t \in Threads, Resume(t)
  PROVE  Contract!ANext \/ UNCHANGED Contract!avars
<1> DEFINE kind == call[t]
           cs == [cond EXCEPT ![t] = "none"]
<1>1. kind \in Calls /\ cond[t] = "woken"
  BY DEF Resume, IInv, TypeOK, Shape, ThreadShape
<1>2. CASE MayEnter(kind) /\ Enter(t, kind, cs) /\ call' = [call EXCEPT ![t] = "none"]
  <2>1. kind # "towrlock"
    BY <1>2 DEF Enter, ReadCalls, WriteCalls
  <2>2. cnt[t] = NoLock
    BY <1>1, <2>1 DEF IInv, Shape, ThreadShape
  <2> HIDE DEF cs
  <2> QED
    BY <1>1, <1>2, <2>1, <2>2, EnterMaps
<1>3. CASE /\ MayEnter(kind) /\ kind = "towrlock"
           /\ EnterUpgraded(t, cs) /\ call' = [call EXCEPT ![t] = "none"]
  <2>1. t \in HoldRead /\ t \in Reservers /\ rcount = 0
    BY <1>3 DEF IInv, Shape, ThreadShape, HoldRead, Reservers, HoldingRd, Upgrading,
       MayEnter, CanBecomeWriter, ReadCalls, WriteCalls
  <2>2. HoldRead = {t} /\ Reservers \subseteq {t}
    BY <2>1, ContractView
  <2>3. cnt' = [cnt EXCEPT ![t] = Held(0, cnt[t].rd, FALSE)]
    BY <1>3 DEF EnterUpgraded
  <2> QED
    BY <1>3, <2>2, <2>3, UpgradeMaps
<1>4. CASE UNCHANGED <<cnt, call>>
  BY <1>4, SilentStep DEF Alone, HoldingRd, HoldingWr, Upgrading
<1> QED
  BY <1>2, <1>3, <1>4 DEF Resume

LEMMA UnlockMaps ==
  ASSUME IInv, NEW t \in Threads, UnlockReader(t) \/ UnlockWriter(t)
  PROVE  Contract!ANext
<1>1. /\ Alone(t) /\ cnt'[t].rd = 0 /\ cnt'[t].wr = 0 /\ cnt'[t].res = FALSE
      /\ call'[t] = "none" /\ call[t] = "none"
  BY DEF UnlockReader, UnlockWriter, Running, Alone, NoLock, Held, opts, IInv, TypeOK
<1>2. /\ HoldRead' = HoldRead \ {t} /\ Writers' = Writers \ {t}
      /\ Reservers' = Reservers \ {t}
  BY <1>1, AloneView DEF HoldingRd, HoldingWr
<1>3. CASE UnlockReader(t)
  <2>1. t \in HoldRead /\ t \notin Writers
    BY <1>3 DEF UnlockReader, HoldRead, Writers, HoldingRd, HoldingWr, IInv, Shape, ThreadShape
  <2>2. Contract!EndRead(t)
    BY <1>2, <2>1 DEF Contract!EndRead, HoldRead
  <2> QED
    BY <2>2 DEF Contract!ANext
<1>4. CASE UnlockWriter(t)
  <2>1. HoldRead = {} /\ Writers = {t}
    BY <1>4, ContractView DEF UnlockWriter, HoldingWr
  <2>2. t \notin Reservers
    BY <1>1, <1>4 DEF Reservers, Upgrading, UnlockWriter, IInv, Shape, ThreadShape
  <2>3. Contract!EndWrite(t)
    BY <1>2, <2>1, <2>2 DEF Contract!EndWrite, HoldRead
  <2> QED
    BY <2>3 DEF Contract!ANext
<1> QED
  BY <1>3, <1>4

-----------------------------------------------------------------------------
(* Every step of plocks.c is a step of the contract, or none.               *)
LEMMA StepMaps == IInv /\ [Next]_vars => [Contract!ANext]_(Contract!avars)
<1> SUFFICES ASSUME IInv, [Next]_vars PROVE Contract!ANext \/ UNCHANGED Contract!avars
  OBVIOUS
<1>1. ASSUME NEW t \in Threads, Acquire(t) PROVE Contract!ANext \/ UNCHANGED Contract!avars
  <2>1. CASE ReadAgain(t) \/ WriteAgain(t)
    <3>1. Alone(t) /\ call' = call
      BY <2>1 DEF ReadAgain, WriteAgain, Alone, IInv, TypeOK
    <3>2. /\ HoldingRd(t)' = HoldingRd(t) /\ HoldingWr(t)' = HoldingWr(t)
          /\ cnt'[t].res = cnt[t].res
      BY <2>1 DEF ReadAgain, WriteAgain, HoldingRd, HoldingWr, IInv, TypeOK
    <3> QED
      BY <3>1, <3>2, SilentStep DEF Upgrading
  <2>2. ASSUME NEW kind \in Calls \ {"towrlock"}, Request(t, kind)
        PROVE  Contract!ANext \/ UNCHANGED Contract!avars
    BY <2>2, RequestMaps
  <2>3. {"rdlock", "rdlock_starvewr", "timedrdlock", "wrlock", "timedwrlock", "rslock"}
          \subseteq Calls \ {"towrlock"}
    BY DEF Calls, ReadCalls, WriteCalls
  <2> QED
    BY <1>1, <2>1, <2>2, <2>3, TryMaps, ToWrLockMaps
    DEF Acquire, RdLock, RdLockStarveWr, TimedRdLock, WrLock, TimedWrLock, RsLock
<1>2. ASSUME NEW t \in Threads, Wait(t) \/ SpuriousWake(t)
      PROVE  Contract!ANext \/ UNCHANGED Contract!avars
  <2>1. CASE TimeoutRead(t) \/ TimeoutWrite(t)
    <3>1. Alone(t) /\ cnt' = cnt /\ Upgrading(t)' = Upgrading(t)
      BY <2>1 DEF TimeoutRead, TimeoutWrite, Alone, Upgrading, IInv, TypeOK
    <3> QED
      BY <3>1, SilentStep DEF HoldingRd, HoldingWr
  <2>2. CASE Expire(t) \/ SpuriousWake(t)
    BY <2>2, SilentStep DEF Expire, SpuriousWake, Alone, HoldingRd, HoldingWr, Upgrading
  <2> QED
    BY <1>2, <2>1, <2>2, ResumeMaps DEF Wait
<1>3. ASSUME NEW t \in Threads, Unlock(t) PROVE Contract!ANext \/ UNCHANGED Contract!avars
  <2>1. CASE UnlockInner(t)
    <3>1. Alone(t) /\ call' = call
      BY <2>1 DEF UnlockInner, Alone, IInv, TypeOK
    <3>2. /\ HoldingRd(t)' = HoldingRd(t) /\ HoldingWr(t)' = HoldingWr(t)
          /\ cnt'[t].res = cnt[t].res
      BY <2>1 DEF UnlockInner, HoldingRd, HoldingWr, IInv, TypeOK
    <3> QED
      BY <3>1, <3>2, SilentStep DEF Upgrading
  <2> QED
    BY <1>3, <2>1, UnlockMaps DEF Unlock
<1>4. CASE UNCHANGED vars
  BY <1>4 DEF vars, Contract!avars, HoldingRd, Writers, HoldingWr, Reservers, Upgrading
<1> QED
  BY <1>1, <1>2, <1>3, <1>4 DEF Next

LEMMA InitMaps == Init => Contract!AInit
BY DEF Init, Contract!AInit, HoldingRd, Writers, HoldingWr, Reservers, Upgrading, NoLock, Held

(* plocks.c gives its callers what LockContract promises: the steps inside   *)
(* a blocking call, an upgrade's two halves among them, look like one step   *)
(* or none, for any set of threads and any depth of recursion.               *)
THEOREM Implements == Spec => ImplementsContract
BY InitMaps, StepMaps, Invariant, PTL DEF Spec, ImplementsContract, Contract!ASpec
=============================================================================
