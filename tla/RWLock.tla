------------------------------- MODULE RWLock -------------------------------
(***************************************************************************)
(* The recursive reader/writer lock of pclsync/plocks.c.                   *)
(*                                                                         *)
(* A section of code between pthread_mutex_lock and the next wait or       *)
(* unlock is one step.  A blocked thread is in a "call" and has a "cond"   *)
(* state: asleep on the condition variable, woken (a signal reached it, it *)
(* has yet to get the mutex back) or expired (its deadline passed first).  *)
(* rwait and wwait still count it until it runs again.                     *)
(***************************************************************************)
EXTENDS Integers, FiniteSets

CONSTANTS Threads,
          MaxDepth     \* bound on the recursion depth of one thread

ASSUME ThreadsAssumption == IsFiniteSet(Threads)
ASSUME MaxDepthAssumption == MaxDepth \in Nat \ {0}

VARIABLES rcount, rwait, wcount, wwait,
          preferRead, reserved,   \* the two bits of rw->opts
          cnt,    \* the thread-specific psync_rwlock_lockcnt_t
          call,   \* the blocking call a thread is waiting in
          cond    \* where the waiting thread stands with its condition

counters == <<rcount, wcount>>
waits == <<rwait, wwait>>
opts == <<preferRead, reserved>>
vars == <<rcount, rwait, wcount, wwait, preferRead, reserved, cnt, call, cond>>

(* res says that cnt[1] is PSYNC_WR_RESERVED; wr is then 0. *)
Held(r, w, s) == [rd |-> r, wr |-> w, res |-> s]
NoLock == Held(0, 0, FALSE)
ReadCalls == {"rdlock", "timedrdlock", "rdlock_starvewr"}
WriteCalls == {"wrlock", "timedwrlock"}
Calls == ReadCalls \cup WriteCalls \cup {"rslock", "towrlock"}
Timed == {"timedrdlock", "timedwrlock"}

TypeOK ==
  /\ rcount \in Nat /\ rwait \in Nat /\ wcount \in Nat /\ wwait \in Nat
  /\ preferRead \in BOOLEAN /\ reserved \in BOOLEAN
  /\ cnt \in [Threads -> [rd : Nat, wr : Nat, res : BOOLEAN]]
  /\ call \in [Threads -> Calls \cup {"none"}]
  /\ cond \in [Threads -> {"none", "asleep", "woken", "expired"}]

Init ==
  /\ rcount = 0 /\ rwait = 0 /\ wcount = 0 /\ wwait = 0
  /\ preferRead = FALSE /\ reserved = FALSE
  /\ cnt = [t \in Threads |-> NoLock]
  /\ call = [t \in Threads |-> "none"]
  /\ cond = [t \in Threads |-> "none"]

HoldingRd(t) == cnt[t].rd # 0
HoldingWr(t) == cnt[t].wr # 0
Running(t) == call[t] = "none"
Sleepers(kinds) == {t \in Threads : call[t] \in kinds /\ cond[t] = "asleep"}
RSleepers == Sleepers(ReadCalls)
WSleepers == Sleepers(Calls \ ReadCalls)

-----------------------------------------------------------------------------
(* The conditions the loops wait for. *)
CanRead == wcount = 0 /\ (wwait = 0 \/ reserved)
CanReadAnyway == wcount = 0
\* Fault: a writer that forgets the pending upgrade.
CanWrite_IgnoringReserved == rcount = 0 /\ wcount = 0
CanWrite == rcount = 0 /\ wcount = 0 /\ ~reserved
CanReserve == wcount = 0 /\ ~reserved
CanBecomeWriter == rcount = 0

MayEnter(kind) ==
  \/ kind \in {"rdlock", "timedrdlock"} /\ CanRead
  \/ kind = "rdlock_starvewr" /\ CanReadAnyway
  \/ kind \in WriteCalls /\ CanWrite
  \/ kind = "rslock" /\ CanReserve
  \/ kind = "towrlock" /\ CanBecomeWriter

(* pthread_cond_broadcast and pthread_cond_signal on a set of sleepers: the *)
(* values cs may take.                                                      *)
Broadcast(S, cs) == [t \in Threads |-> IF t \in S THEN "woken" ELSE cs[t]]
Signal(S, cs) ==
  IF S = {} THEN {cs} ELSE {[cs EXCEPT ![t] = "woken"] : t \in S}

(* The end of each blocking call, under the mutex and past its loop; cs is *)
(* cond once t itself no longer waits.                                     *)
EnterRead(t, cs) ==
  /\ rcount' = rcount + 1
  /\ cnt' = [cnt EXCEPT ![t] = Held(1, 0, FALSE)]
  /\ cond' = cs
  /\ UNCHANGED <<wcount, reserved>>

EnterWrite(t, cs) ==
  /\ wcount' = wcount + 1
  /\ cnt' = [cnt EXCEPT ![t] = Held(0, 1, FALSE)]
  /\ cond' = cs
  /\ UNCHANGED <<rcount, reserved>>

EnterReserved(t, cs) ==
  /\ rcount' = rcount + 1
  /\ reserved' = TRUE
  /\ cnt' = [cnt EXCEPT ![t] = Held(1, 0, TRUE)]
  /\ cond' = Broadcast(RSleepers, cs)
  /\ UNCHANGED wcount

EnterUpgraded(t, cs) ==
  /\ wcount' = wcount + 1
  /\ reserved' = FALSE
  /\ cnt' = [cnt EXCEPT ![t] = Held(0, cnt[t].rd, FALSE)]
  /\ cond' = cs

Enter(t, kind, cs) ==
  \/ kind \in ReadCalls /\ EnterRead(t, cs)
  \/ kind \in WriteCalls /\ EnterWrite(t, cs)
  \/ kind = "rslock" /\ EnterReserved(t, cs)

\* Fault: waiting writers are not counted.
Sleep_UncountedWriter(t, kind) ==
  /\ call' = [call EXCEPT ![t] = kind]
  /\ cond' = [cond EXCEPT ![t] = "asleep"]
  /\ rwait' = IF kind \in ReadCalls THEN rwait + 1 ELSE rwait
  /\ preferRead' = (preferRead \/ kind = "rdlock_starvewr")
  /\ UNCHANGED wwait

Sleep(t, kind) ==
  /\ call' = [call EXCEPT ![t] = kind]
  /\ cond' = [cond EXCEPT ![t] = "asleep"]
  /\ rwait' = IF kind \in ReadCalls THEN rwait + 1 ELSE rwait
  /\ wwait' = IF kind \in ReadCalls THEN wwait ELSE wwait + 1
  /\ preferRead' = (preferRead \/ kind = "rdlock_starvewr")

-----------------------------------------------------------------------------
(* check_rdrecursive_in: a holder, of either kind, takes the lock again to *)
(* read without looking at it.                                             *)
ReadAgain(t) ==
  /\ Running(t)
  /\ \/ HoldingRd(t) /\ cnt[t].rd < MaxDepth
        /\ cnt' = [cnt EXCEPT ![t].rd = @ + 1]
     \/ ~HoldingRd(t) /\ HoldingWr(t) /\ cnt[t].wr < MaxDepth
        /\ cnt' = [cnt EXCEPT ![t].wr = @ + 1]
  /\ UNCHANGED <<counters, waits, opts, call, cond>>

(* check_wrrecursive_in, and the same lines of rslock: a reader may not ask *)
(* for more (the assertion).                                                *)
WriteAgain(t) ==
  /\ Running(t)
  /\ ~HoldingRd(t) /\ HoldingWr(t) /\ cnt[t].wr < MaxDepth
  /\ cnt' = [cnt EXCEPT ![t].wr = @ + 1]
  /\ UNCHANGED <<counters, waits, opts, call, cond>>

(* The calls of a thread that does not hold the lock.                      *)
Request(t, kind) ==
  /\ Running(t) /\ ~HoldingRd(t) /\ ~HoldingWr(t)
  /\ \/ /\ MayEnter(kind) /\ Enter(t, kind, cond)
        /\ UNCHANGED <<rwait, wwait, preferRead, call>>
     \/ /\ ~MayEnter(kind) /\ Sleep(t, kind)
        /\ UNCHANGED <<rcount, wcount, reserved, cnt>>

RdLock(t) == Request(t, "rdlock")
RdLockStarveWr(t) == Request(t, "rdlock_starvewr")
TimedRdLock(t) == Request(t, "timedrdlock")
WrLock(t) == Request(t, "wrlock")
TimedWrLock(t) == Request(t, "timedwrlock")
RsLock(t) == Request(t, "rslock")

(* tryrdlock and trywrlock; a refusal (-1) changes nothing. *)
TryRdLock(t) ==
  /\ Running(t) /\ ~HoldingRd(t) /\ ~HoldingWr(t) /\ CanRead
  /\ EnterRead(t, cond)
  /\ UNCHANGED <<waits, preferRead, call>>

TryWrLock(t) ==
  /\ Running(t) /\ ~HoldingRd(t) /\ ~HoldingWr(t) /\ CanWrite
  /\ EnterWrite(t, cond)
  /\ UNCHANGED <<waits, preferRead, call>>

(* A reader asks to write.  Refused (-1, no change) when another thread has *)
(* reserved; a writer that asks already is one (0, no change).              *)
ToWrLock(t) ==
  /\ Running(t) /\ HoldingRd(t)
  /\ ~reserved \/ cnt[t].res
  /\ \/ /\ rcount = 1
        /\ wcount' = wcount + 1 /\ rcount' = 0
        /\ reserved' = FALSE
        /\ cnt' = [cnt EXCEPT ![t] = Held(0, cnt[t].rd, FALSE)]
        /\ UNCHANGED <<waits, preferRead, call, cond>>
     \/ /\ rcount # 1
        /\ rcount' = rcount - 1
        /\ reserved' = TRUE
        /\ Sleep(t, "towrlock")
        /\ UNCHANGED <<wcount, cnt>>

(* The loop of a blocking call after pthread_cond_wait returns. *)
Resume(t) ==
  LET kind == call[t] IN
  /\ cond[t] = "woken"
  /\ \/ /\ MayEnter(kind)
        /\ \/ Enter(t, kind, [cond EXCEPT ![t] = "none"])
           \/ /\ kind = "towrlock"
              /\ EnterUpgraded(t, [cond EXCEPT ![t] = "none"])
              /\ UNCHANGED rcount
        /\ call' = [call EXCEPT ![t] = "none"]
        /\ rwait' = IF kind \in ReadCalls THEN rwait - 1 ELSE rwait
        /\ wwait' = IF kind \in ReadCalls THEN wwait ELSE wwait - 1
        /\ preferRead' = (preferRead /\ kind # "rdlock_starvewr")
     \/ /\ ~MayEnter(kind)
        /\ cond' = [cond EXCEPT ![t] = "asleep"]
        /\ preferRead' = (preferRead \/ kind = "rdlock_starvewr")
        /\ UNCHANGED <<counters, waits, reserved, cnt, call>>

(* The deadline of a timed call passes while it sleeps; a signal sent from *)
(* now on goes to another sleeper.                                         *)
Expire(t) ==
  /\ cond[t] = "asleep" /\ call[t] \in Timed
  /\ cond' = [cond EXCEPT ![t] = "expired"]
  /\ UNCHANGED <<counters, waits, opts, cnt, call>>

\* Fault: a reader that gives up stays counted.
TimeoutRead_StillCounted(t) ==
  /\ cond[t] = "expired" /\ call[t] = "timedrdlock"
  /\ call' = [call EXCEPT ![t] = "none"]
  /\ cond' = [cond EXCEPT ![t] = "none"]
  /\ UNCHANGED <<counters, waits, opts, cnt>>

TimeoutRead(t) ==
  /\ cond[t] = "expired" /\ call[t] = "timedrdlock"
  /\ rwait' = rwait - 1
  /\ call' = [call EXCEPT ![t] = "none"]
  /\ cond' = [cond EXCEPT ![t] = "none"]
  /\ UNCHANGED <<counters, wwait, opts, cnt>>

\* Fault: the writer leaves without a word.
AfterWriteTimeout_Silent(t, left, cs) == cs

(* The last writer to give up lets in the readers it was holding back. *)
AfterWriteTimeout(t, left, cs) ==
  IF left = 0 /\ wcount = 0 THEN Broadcast(RSleepers, cs) ELSE cs

TimeoutWrite(t) ==
  /\ cond[t] = "expired" /\ call[t] = "timedwrlock"
  /\ wwait' = wwait - 1
  /\ call' = [call EXCEPT ![t] = "none"]
  /\ cond' = AfterWriteTimeout(t, wwait - 1, [cond EXCEPT ![t] = "none"])
  /\ UNCHANGED <<counters, rwait, opts, cnt>>

(* POSIX lets pthread_cond_wait return without a signal. *)
SpuriousWake(t) ==
  /\ cond[t] = "asleep"
  /\ cond' = [cond EXCEPT ![t] = "woken"]
  /\ UNCHANGED <<counters, waits, opts, cnt, call>>

-----------------------------------------------------------------------------
(* check_recursive_out returns true: the thread still holds the lock. *)
UnlockInner(t) ==
  /\ Running(t)
  /\ \/ cnt[t].rd > 1 /\ cnt' = [cnt EXCEPT ![t].rd = @ - 1]
     \/ cnt[t].rd = 0 /\ cnt[t].wr > 1 /\ cnt' = [cnt EXCEPT ![t].wr = @ - 1]
  /\ UNCHANGED <<counters, waits, opts, call, cond>>

\* Fault: one signal although only the upgrading thread can use it.
WakeAfterReaders_OneSignal(stillReserved) ==
  IF wwait = 0 THEN {cond} ELSE Signal(WSleepers, cond)

(* Whom the last reader wakes; everyone when an upgrade is pending, since   *)
(* only the upgrading thread can use the wake-up.                           *)
WakeAfterReaders(stillReserved) ==
  IF wwait = 0 THEN {cond}
  ELSE IF stillReserved THEN {Broadcast(WSleepers, cond)}
  ELSE Signal(WSleepers, cond)

UnlockReader(t) ==
  /\ Running(t) /\ cnt[t].rd = 1
  /\ rcount > 0
  /\ rcount' = rcount - 1
  /\ reserved' = (reserved /\ ~cnt[t].res)
  /\ cnt' = [cnt EXCEPT ![t] = NoLock]
  /\ cond' \in IF rcount = 1 THEN WakeAfterReaders(reserved') ELSE {cond}
  /\ UNCHANGED <<wcount, waits, preferRead, call>>

(* Whom a writer wakes. *)
WakeAfterWriter ==
  LET letReadersIn == rwait > 0 /\ (preferRead \/ wwait = 0)
  IN  IF reserved THEN {Broadcast(WSleepers, cond)}
      ELSE IF letReadersIn THEN {Broadcast(RSleepers, cond)}
      ELSE Signal(WSleepers, cond)

UnlockWriter(t) ==
  /\ Running(t) /\ cnt[t].rd = 0 /\ cnt[t].wr = 1
  /\ rcount = 0
  /\ wcount' = wcount - 1
  /\ cnt' = [cnt EXCEPT ![t] = NoLock]
  /\ cond' \in IF wcount = 1 THEN WakeAfterWriter ELSE {cond}
  /\ UNCHANGED <<rcount, waits, opts, call>>

Unlock(t) == UnlockInner(t) \/ UnlockReader(t) \/ UnlockWriter(t)

Acquire(t) ==
  \/ ReadAgain(t) \/ WriteAgain(t)
  \/ RdLock(t) \/ RdLockStarveWr(t) \/ TimedRdLock(t) \/ TryRdLock(t)
  \/ WrLock(t) \/ TimedWrLock(t) \/ TryWrLock(t)
  \/ RsLock(t) \/ ToWrLock(t)

Wait(t) == Resume(t) \/ Expire(t) \/ TimeoutRead(t) \/ TimeoutWrite(t)

Next == \E t \in Threads : Acquire(t) \/ Wait(t) \/ SpuriousWake(t) \/ Unlock(t)

Spec == Init /\ [][Next]_vars

-----------------------------------------------------------------------------
Upgrading(t) == call[t] = "towrlock"

(* The threads each counter stands for. *)
Readers == {t \in Threads : HoldingRd(t) /\ ~Upgrading(t)}
Writers == {t \in Threads : HoldingWr(t)}
Reservers == {t \in Threads : cnt[t].res \/ Upgrading(t)}
Waiting(kinds) == {t \in Threads : call[t] \in kinds}

(* plocks.c's mutual exclusion, in terms of what each thread believes it    *)
(* holds (its thread-specific counts) and not of the shared counters: a     *)
(* writer is alone, also while another thread is between the two halves of  *)
(* an upgrade, where the shared counters no longer count it as a reader.    *)
MutualExclusion ==
  \A t \in Threads : HoldingWr(t) =>
    \A u \in Threads \ {t} : ~HoldingRd(u) /\ ~HoldingWr(u)

(* The four shared counters agree with the threads they count, whatever the *)
(* order in which signals, deadlines and upgrades arrive.                   *)
CountersAgree ==
  /\ rcount = Cardinality(Readers)
  /\ wcount = Cardinality(Writers)
  /\ rwait = Cardinality(Waiting(ReadCalls))
  /\ wwait = Cardinality(Waiting(Calls \ ReadCalls))

(* The RESERVED bit has exactly one owner, either an rslock holder or a     *)
(* thread inside towrlock; this is what refuses the second of two upgrades. *)
ReservedHasOneOwner ==
  /\ reserved <=> Reservers # {}
  /\ \A t, u \in Reservers : t = u

(* No lost wake-up: whenever the lock is free and threads sleep on it, one  *)
(* of them (or of the timed calls that will pass the wake-up on) is already *)
(* on its way back, so the lock never stays free with everyone asleep.      *)
NoLostWakeup ==
  rcount = 0 /\ wcount = 0 /\ RSleepers \cup WSleepers # {}
    => \E t \in Threads : cond[t] \in {"woken", "expired"}

(* The lock as its callers see it. *)
Contract == INSTANCE LockContract WITH
  readers <- {t \in Threads : HoldingRd(t)},
  writers <- Writers,
  claimed <- Reservers

(* plocks.c implements the contract; in particular an upgrade is atomic: no *)
(* other thread writes between the upgrading thread's last read and its     *)
(* first write.                                                             *)
ImplementsContract == Contract!ASpec
=============================================================================
