---------------------------- MODULE TimerProofs ----------------------------
(***************************************************************************)
(* For any timers, any wheel and any clock (ptimer.c): who frees a timer - *)
(* ptimer_stop leaves one that is running to the thread, which frees       *)
(* exactly those when it has called them - and when it is called.          *)
(* And of the cache and the throttled functions: they keep to the          *)
(* interface of the timers, so what is shown of timers holds for theirs;   *)
(* entries have one owner; and no request to run is forgotten, or run too  *)
(* soon.                                                                   *)
(***************************************************************************)
EXTENDS TimerUsers, Induction

(* The thread has a list of timers only from the end of                    *)
(* timer_prepare_timers to the end of timer_process_timers, and only what  *)
(* is in it waits to be freed.                                             *)
ListWhileCalling == pc # "call" => due = {}
StoppedIsDue == \A t \in DOMAIN timer : timer[t].stop => t \in due

(* psync_timer_structure_t has a flag to mark it with.                     *)
HasStop ==
    \A t \in DOMAIN timer :
        /\ DOMAIN timer[t] = {"numsec", "level", "runat", "stop", "late"}
        /\ timer[t].stop \in BOOLEAN

StopInv == ListWhileCalling /\ StoppedIsDue /\ HasStop

-----------------------------------------------------------------------------
LEMMA StopInit == Init => StopInv
BY DEF Init, StopInv, ListWhileCalling, StoppedIsDue, HasStop

(* timer_prepare_timers makes the list while it is empty: no timer is       *)
(* marked then, whichever it takes.                                         *)
LEMMA StopPrepare == StopInv /\ Prepare => StopInv'
<1> SUFFICES ASSUME StopInv, Prepare PROVE StopInv'
  OBVIOUS
<1> USE DEF StopInv, ListWhileCalling, StoppedIsDue, HasStop
<1>1. due = {} /\ timer' = timer
  BY DEF Prepare
<1>2. \A t \in DOMAIN timer : ~timer[t].stop
  BY <1>1
<1>3. pc' # "call" => due' = {}
  BY DEF Prepare
<1> QED
  BY <1>1, <1>2, <1>3

(* timer_process_timers frees the marked ones and starts the others again.  *)
LEMMA StopRearm == StopInv /\ Rearm => StopInv'
<1> SUFFICES ASSUME StopInv, Rearm PROVE StopInv'
  OBVIOUS
<1> DEFINE stay == {t \in DOMAIN timer : t \in due => Kept(t)}
           again(t) == now + timer[t].numsec
           new(t) == IF t \in due
                     THEN [timer[t] EXCEPT !.runat = again(t),
                                           !.stop = FALSE, !.late = FALSE]
                     ELSE timer[t]
<1>1. timer' = [t \in stay |-> new(t)] /\ due' = {} /\ pc' = "sleep"
  BY DEF Rearm
<1>2. \A t \in stay : t \notin due => ~timer[t].stop
  BY DEF StopInv, StoppedIsDue
<1>3. ASSUME NEW t \in stay
      PROVE  /\ DOMAIN new(t) = {"numsec", "level", "runat", "stop", "late"}
             /\ new(t).stop = FALSE
  <2>1. DOMAIN timer[t] = {"numsec", "level", "runat", "stop", "late"}
    BY DEF StopInv, HasStop
  <2>2. CASE t \in due
    <3> DEFINE x == timer[t]
               y == [x EXCEPT !.runat = again(t), !.stop = FALSE, !.late = FALSE]
    <3>1. new(t) = y
      BY <2>2
    <3>2. DOMAIN y = DOMAIN x /\ (("stop" \in DOMAIN x) => y.stop = FALSE)
      <4> HIDE DEF x, again
      <4> QED
        OBVIOUS
    <3> QED
      BY <2>1, <3>1, <3>2
  <2>3. CASE t \notin due
    BY <1>2, <2>1, <2>3 DEF StopInv, HasStop
  <2> QED
    BY <2>2, <2>3
<1>4. \A t \in DOMAIN timer' :
        /\ DOMAIN timer'[t] = {"numsec", "level", "runat", "stop", "late"}
        /\ timer'[t].stop = FALSE
  <2> HIDE DEF new, stay
  <2> QED
    BY <1>1, <1>3
<1> QED
  BY <1>1, <1>4 DEF StopInv, ListWhileCalling, StoppedIsDue, HasStop

(* ptimer_register *)
LEMMA StopRegister ==
  ASSUME StopInv, NEW t \in Timers, NEW n \in Timeouts, Register(t, n)
  PROVE  StopInv'
BY DEF Register, StopInv, ListWhileCalling, StoppedIsDue, HasStop

(* ptimer_stop frees what does not run and marks what does.                 *)
LEMMA StopStop ==
  ASSUME StopInv, NEW t \in Timers, Stop(t)
  PROVE  StopInv'
<1> USE DEF StopInv, ListWhileCalling, StoppedIsDue, HasStop
<1>1. CASE MayFree(t)
  BY <1>1 DEF Stop
<1>2. CASE ~MayFree(t)
  <2>1. t \in due /\ timer' = [timer EXCEPT ![t].stop = TRUE]
    BY <1>2 DEF Stop, MayFree, Running
  <2>2. due' = due /\ pc' = pc
    BY DEF Stop
  <2>3. /\ DOMAIN timer' = DOMAIN timer
        /\ DOMAIN timer'[t] = DOMAIN timer[t] /\ timer'[t].stop = TRUE
    BY <2>1 DEF Stop
  <2>4. \A u \in DOMAIN timer : u # t => timer'[u] = timer[u]
    BY <2>1
  <2> QED
    BY <2>1, <2>2, <2>3, <2>4
<1> QED
  BY <1>1, <1>2

LEMMA StopStep == StopInv /\ [Next]_vars => StopInv'
<1> SUFFICES ASSUME StopInv, [Next]_vars PROVE StopInv'
  OBVIOUS
<1> USE DEF StopInv, ListWhileCalling, StoppedIsDue, HasStop
<1>1. CASE Look
  BY <1>1 DEF Look
<1>2. CASE \E t \in Timers : Call(t)
  BY <1>2 DEF Call
<1>3. CASE UNCHANGED vars
  BY <1>3 DEF vars
<1> QED
  BY <1>1, <1>2, <1>3, StopPrepare, StopRearm, StopRegister, StopStop DEF Next

(* Nobody but the thread ends the life of a timer in its list: ptimer_stop  *)
(* by another thread, or by the callback, only marks it.                    *)
THEOREM StoppedStays == Spec => []StopInv
<1>1. Init => StopInv
  BY StopInit
<1>2. StopInv /\ [Next]_vars => StopInv'
  BY StopStep
<1> QED
  BY <1>1, <1>2, PTL DEF Spec

-----------------------------------------------------------------------------
(* One step of the property. *)
Stays == \A t \in DOMAIN timer :
            timer[t].stop => /\ t \in due
                             /\ t \in DOMAIN timer' => timer'[t].stop

LEMMA StaysStep == StopInv /\ [Next]_vars => Stays
<1> SUFFICES ASSUME StopInv, [Next]_vars,
                    NEW t \in DOMAIN timer, timer[t].stop
             PROVE  t \in due /\ (t \in DOMAIN timer' => timer'[t].stop)
  BY DEF Stays
<1>1. t \in due /\ pc = "call"
  BY DEF StopInv, ListWhileCalling, StoppedIsDue
<1>2. CASE Rearm
  <2>1. DOMAIN timer' = {u \in DOMAIN timer : u \in due => Kept(u)}
    BY <1>2 DEF Rearm
  <2> QED
    BY <1>1, <2>1 DEF Kept
<1>3. ASSUME NEW u \in Timers, NEW n \in Timeouts, Register(u, n)
      PROVE  timer'[t].stop
  BY <1>3 DEF Register
<1>4. ASSUME NEW u \in Timers, Stop(u)
      PROVE  t \in DOMAIN timer' => timer'[t].stop
  <2>1. u # t
    BY <1>4 DEF Stop
  <2> QED
    BY <1>4, <2>1 DEF Stop
<1>5. CASE UNCHANGED timer
  BY <1>1, <1>5
<1>6. Look \/ Prepare \/ (\E u \in Timers : Call(u)) \/ UNCHANGED vars
        => UNCHANGED timer
  BY DEF Look, Prepare, Call, vars
<1> QED
  BY <1>1, <1>2, <1>3, <1>4, <1>5, <1>6 DEF Next

(* A timer that was stopped while it ran is in the thread's hands, and is    *)
(* never started again (PTIMER_STOP_AFTER_RUN).                             *)
THEOREM NeverAgain == Spec => StopsForGood
<1>1. StopInv /\ [Next]_vars => Stays
  BY StaysStep
<1>2. Stays <=> (\A t \in DOMAIN timer :
          timer[t].stop => /\ t \in due
                           /\ t \in DOMAIN timer' => timer'[t].stop)
  BY DEF Stays
<1> QED
  BY <1>1, <1>2, StoppedStays, PTL DEF Spec, StopsForGood, Stays
-----------------------------------------------------------------------------
(* Where timers are while the wheel turns: where they were, nowhere, or in  *)
(* the slot of an inner ring.                                              *)
Places == {at[t] : t \in DOMAIN at} \cup {Nowhere}
          \cup {SlotOf(l, timer[t].runat) : l \in 0..(Levels - 1), t \in DOMAIN at}
Maps == [DOMAIN at -> Places]

(* A ring gives its timers to another ring only. *)
Settled(p, q) == \A t \in DOMAIN at : p[t] = Nowhere <=> q[t] = Nowhere

LEMMA SlotsArePlaces == \A x, y : <<x, y>> # Nowhere
BY DEF Nowhere

(* timer_check_upper_levels, one ring.                                     *)
LEMMA TurnedType ==
  ASSUME NEW p \in Maps, NEW l \in 0..(Levels - 1), NEW i
  PROVE  Turned(p, l, i) \in Maps /\ Settled(p, Turned(p, l, i))
<1>1. \A t \in DOMAIN at : SlotOf(l, timer[t].runat) \in Places \ {Nowhere}
  BY SlotsArePlaces DEF Places, SlotOf
<1> QED
  BY <1>1, SlotsArePlaces DEF Turned, Maps, Settled

(* ... and all of them, from the outermost in: what holds of the rings       *)
(* before, and is kept by each of them, holds after.  I[l] is what holds     *)
(* when ring l has been filled.                                            *)
LEMMA CascadedBy ==
  ASSUME NEW p \in Maps, NEW i, NEW I,
         p \in I[Levels - 1],
         \A l \in 0..(Levels - 2) : \A q \in Maps :
            q \in I[l + 1] => Turned(q, l, i) \in I[l]
  PROVE  Cascaded(p, i) \in Maps /\ Cascaded(p, i) \in I[0]
<1> DEFINE top == Levels - 1
           body(f, l) == IF l = top THEN p ELSE Turned(f[l + 1], l, i)
           from == CHOOSE f : f = [l \in 0..top |-> body(f, l)]
           g == [k \in 0..top |-> [q \in Maps |-> Turned(q, top - k, i)]]
<1>0. Levels \in Nat /\ top \in Nat
  BY WheelAssumption
<1>1. g \in Steps(0, top, Maps)
  BY <1>0, TurnedType DEF Steps
<1>2. PICK h \in [0..top -> Maps] :
        \A k \in 0..top : h[k] = IF k = 0 THEN p ELSE g[k][h[k - 1]]
  <2>1. 0 \in Int /\ top \in Int
    BY <1>0
  <2> HIDE DEF g, top, from, body
  <2>2. Iterable(0, top, Maps, p, g)
    BY <1>1, <2>1, Iterate
  <2> QED
    BY <2>2 DEF Iterable
<1> DEFINE up == [l \in 0..top |-> h[top - l]]
<1>3. up = [l \in 0..top |-> body(up, l)]
  <2>1. ASSUME NEW l \in 0..top PROVE up[l] = body(up, l)
    <3>1. CASE l = top
      <4>1. top - l = 0 /\ 0 \in 0..top
        BY <1>0, <3>1
      <4> HIDE DEF top, g
      <4> QED
        BY <1>2, <3>1, <4>1
    <3>2. CASE l # top
      <4>1. top - l \in 0..top /\ top - l # 0 /\ (top - l) - 1 \in 0..top
            /\ l + 1 \in 0..top /\ top - (top - l) = l /\ top - (l + 1) = (top - l) - 1
        BY <1>0, <3>2
      <4>2. h[top - l] = g[top - l][h[(top - l) - 1]]
        BY <1>2, <4>1
      <4>3. h[(top - l) - 1] \in Maps
        BY <1>2, <4>1
      <4>4. g[top - l][h[(top - l) - 1]] = Turned(h[(top - l) - 1], l, i)
        BY <4>1, <4>3
      <4>5. up[l + 1] = h[(top - l) - 1] /\ up[l] = h[top - l]
        BY <4>1
      <4> QED
        BY <3>2, <4>2, <4>4, <4>5
    <3> QED
      BY <3>1, <3>2
  <2> QED
    BY <2>1
<1>4. from = [l \in 0..top |-> body(from, l)]
  <2> HIDE DEF body, up
  <2> QED
    BY <1>3
<1>5. Cascaded(p, i) = from[0]
  BY DEF Cascaded
<1> DEFINE S == {k \in 0..top : from[top - k] \in Maps /\ from[top - k] \in I[top - k]}
<1>6. 0 \in S
  <2>1. top - 0 = top /\ 0 \in 0..top /\ top \in 0..top
    BY <1>0
  <2>2. from[top] = p
    <3> HIDE DEF from, top
    <3> QED
      BY <1>4, <2>1
  <2> QED
    BY <2>1, <2>2
<1>7. ASSUME NEW k \in 0..top, k \in S, k < top PROVE k + 1 \in S
  <2> DEFINE l == top - (k + 1)
  <2>1. k + 1 \in 0..top /\ l \in 0..(Levels - 2) /\ l \in 0..top /\ l # top
        /\ l + 1 = top - k
    BY <1>0, <1>7
  <2>2. from[l] = Turned(from[top - k], l, i)
    <3> HIDE DEF from, top, l
    <3> QED
      BY <1>4, <2>1
  <2>3. from[top - k] \in Maps /\ from[top - k] \in I[l + 1]
    BY <1>7, <2>1
  <2>4. Turned(from[top - k], l, i) \in Maps
    <3> HIDE DEF from, l
    <3> QED
      BY <2>1, <2>3, TurnedType
  <2>5. Turned(from[top - k], l, i) \in I[l]
    <3> HIDE DEF from, l, top
    <3> QED
      BY <2>1, <2>3
  <2> HIDE DEF from
  <2> QED
    BY <2>1, <2>2, <2>4, <2>5
<1>8. 0..top \subseteq S
  <2> HIDE DEF S
  <2> QED
    BY <1>0, <1>6, <1>7, Climb
<1>9. top \in S
  <2> HIDE DEF S
  <2> QED
    BY <1>0, <1>8
<1> QED
  <2>1. top - top = 0
    BY <1>0
  <2> HIDE DEF from, top
  <2> QED
    BY <1>5, <1>9, <2>1


LEMMA CascadedType ==
  ASSUME NEW p \in Maps, NEW i
  PROVE  Cascaded(p, i) \in Maps /\ Settled(p, Cascaded(p, i))
<1> DEFINE N == {q \in Maps : Settled(p, q)}
           I == [l \in 0..(Levels - 1) |-> N]
<1>0. Levels \in Nat /\ Levels - 1 \in Nat
  BY WheelAssumption
<1>1. p \in N
  BY DEF Settled
<1>2. \A l \in 0..(Levels - 2) : \A q \in Maps : q \in N => Turned(q, l, i) \in N
  <2>1. 0..(Levels - 2) \subseteq 0..(Levels - 1)
    BY <1>0
  <2> QED
    BY <2>1, TurnedType DEF Settled
<1>3. Cascaded(p, i) \in I[0]
  <2>1. I[Levels - 1] = N /\ I[0] = N
        /\ \A l \in 0..(Levels - 2) : I[l] = N /\ I[l + 1] = N
    <3> HIDE DEF N
    <3> QED
      BY <1>0
  <2> HIDE DEF I, N
  <2>2. \A l \in 0..(Levels - 2) : \A q \in Maps :
            q \in I[l + 1] => Turned(q, l, i) \in I[l]
    BY <1>2, <2>1
  <2> QED
    BY <1>1, <2>1, <2>2, CascadedBy
<1> QED
  <2> HIDE DEF N
  <2>1. Cascaded(p, i) \in N
    BY <1>0, <1>3
  <2> USE DEF N
  <2> QED
    BY <2>1

(* What timer_prepare_timers has at any second: a place for every timer, and *)
(* a list of those that are in no slot.                                    *)
Swept == {v \in [place : Maps, due : SUBSET (DOMAIN at)] :
            \A t \in DOMAIN at : t \in v.due <=> v.place[t] = Nowhere}

(* One second of it. *)
Second(v, k) ==
    LET c == Cascaded(v.place, k)
        hit == {t \in DOMAIN c : c[t] = <<0, k % Size>>}
    IN [place |-> [t \in DOMAIN c |-> IF t \in hit THEN Nowhere ELSE c[t]],
        due |-> v.due \cup hit]

LEMMA SecondType ==
  ASSUME NEW v \in Swept, NEW k
  PROVE  Second(v, k) \in Swept
<1> DEFINE c == Cascaded(v.place, k)
           hit == {t \in DOMAIN c : c[t] = <<0, k % Size>>}
           place == [t \in DOMAIN c |-> IF t \in hit THEN Nowhere ELSE c[t]]
<1>1. v.place \in Maps /\ v.due \subseteq DOMAIN at
      /\ \A t \in DOMAIN at : t \in v.due <=> v.place[t] = Nowhere
  BY DEF Swept
<1>2. c \in Maps /\ \A t \in DOMAIN at : t \in v.due <=> c[t] = Nowhere
  BY <1>1, CascadedType DEF Settled
<1>3. Nowhere \in Places
  BY DEF Places
<1>4. DOMAIN c = DOMAIN at /\ hit \subseteq DOMAIN at
  <2> HIDE DEF c
  <2> QED
    BY <1>2 DEF Maps
<1>5. place \in Maps
  <2> HIDE DEF c, hit
  <2> QED
    BY <1>2, <1>3, <1>4 DEF Maps
<1>6. \A t \in DOMAIN at : t \in v.due \cup hit <=> place[t] = Nowhere
  <2> HIDE DEF c, hit
  <2> QED
    BY <1>1, <1>2, <1>4
<1>7. Second(v, k) = [place |-> place, due |-> v.due \cup hit]
  BY DEF Second
<1> QED
  <2> HIDE DEF c, hit, place
  <2> QED
    BY <1>1, <1>4, <1>5, <1>6, <1>7 DEF Swept

(* The whole loop, over any number of seconds: I[k] is what holds when       *)
(* second k is done.                                                       *)
LEMMA AfterBy ==
  ASSUME NEW i \in Int, NEW b \in Int, b <= i, NEW I,
         [place |-> at, due |-> {}] \in Swept,
         [place |-> at, due |-> {}] \in I[b],
         \A k \in b..i : \A v \in Swept :
            k < i /\ v \in I[k] => Second(v, k + 1) \in I[k + 1]
  PROVE  After(i, b) \in Swept /\ After(i, b) \in I[i]
<1> DEFINE v == [place |-> at, due |-> {}]
           body(f, k) == IF k = b THEN v ELSE Second(f[k - 1], k)
           upto == CHOOSE f : f = [k \in b..i |-> body(f, k)]
           g == [k \in b..i |-> [w \in Swept |-> Second(w, k)]]
<1>1. v \in Swept /\ g \in Steps(b, i, Swept)
  BY SecondType DEF Steps
<1>2. PICK h \in [b..i -> Swept] :
        \A k \in b..i : h[k] = IF k = b THEN v ELSE g[k][h[k - 1]]
  <2> HIDE DEF g, v, upto, body
  <2>1. Iterable(b, i, Swept, v, g)
    BY <1>1, Iterate
  <2> QED
    BY <2>1 DEF Iterable
<1>3. h = [k \in b..i |-> body(h, k)]
  <2>1. ASSUME NEW k \in b..i, k # b PROVE h[k] = Second(h[k - 1], k)
    <3>1. k - 1 \in b..i
      BY <2>1
    <3>2. h[k - 1] \in Swept /\ h[k] = g[k][h[k - 1]]
      <4> HIDE DEF g, v
      <4> QED
        BY <1>2, <2>1, <3>1
    <3> QED
      BY <3>2
  <2> HIDE DEF g, v
  <2> QED
    BY <1>2, <2>1
<1>4. upto = [k \in b..i |-> body(upto, k)]
  <2> HIDE DEF body
  <2> QED
    BY <1>3
<1>5. After(i, b) = upto[i]
  BY DEF After, Second
<1> DEFINE S == {k \in b..i : upto[k] \in Swept /\ upto[k] \in I[k]}
<1>6. b \in S
  <2>1. b \in b..i
    OBVIOUS
  <2>2. upto[b] = v
    <3> HIDE DEF upto, v
    <3> QED
      BY <1>4, <2>1
  <2>3. v \in Swept /\ v \in I[b]
    OBVIOUS
  <2> HIDE DEF upto, v
  <2> QED
    BY <2>1, <2>2, <2>3
<1>7. ASSUME NEW k \in b..i, k \in S, k < i PROVE k + 1 \in S
  <2>1. k + 1 \in b..i /\ k + 1 # b /\ (k + 1) - 1 = k
    <3> HIDE DEF upto, v, S
    <3> QED
      BY <1>7, SMTT(30)
  <2>2. upto[k + 1] = Second(upto[k], k + 1)
    <3> HIDE DEF upto, v
    <3> QED
      BY <1>4, <2>1
  <2>3. upto[k] \in Swept /\ upto[k] \in I[k]
    BY <1>7
  <2> HIDE DEF upto
  <2>4. Second(upto[k], k + 1) \in Swept
    BY <2>3, SecondType
  <2>5. Second(upto[k], k + 1) \in I[k + 1]
    BY <1>7, <2>3
  <2> QED
    BY <2>1, <2>2, <2>4, <2>5
<1>8. b..i \subseteq S
  <2> HIDE DEF S
  <2> QED
    BY <1>6, <1>7, Climb
<1>9. i \in S
  <2> HIDE DEF S
  <2> QED
    BY <1>8
<1> QED
  <2> HIDE DEF upto
  <2> QED
    BY <1>5, <1>9

-----------------------------------------------------------------------------
(* The clock, and that every timer has a place: what the loop starts from.  *)
ClockOK == now \in Nat /\ lt \in Nat /\ lt <= now
Placed == DOMAIN at = DOMAIN timer /\ at = [t \in DOMAIN at |-> at[t]]

(* PTIMER_IS_RUNNING is set exactly for what is in no slot.                 *)
InHand == \A t \in DOMAIN at : t \in due <=> at[t] = Nowhere

FreeInv == ClockOK /\ Placed /\ ListWhileCalling /\ NoneFreedWhileRunning /\ InHand

LEMMA FreeInit == Init => FreeInv
BY DEF Init, FreeInv, ClockOK, Placed, ListWhileCalling, NoneFreedWhileRunning, InHand

LEMMA FreePrepare == FreeInv /\ Prepare => FreeInv'
<1> SUFFICES ASSUME FreeInv, Prepare PROVE FreeInv'
  OBVIOUS
<1>1. at \in Maps
  BY DEF FreeInv, Placed, Maps, Places
<1>2. now \in Int /\ lt \in Int /\ lt <= now
  BY DEF FreeInv, ClockOK
<1>3. After(now, lt) \in Swept
  <2> DEFINE I == [k \in lt..now |-> Swept]
  <2>1. [place |-> at, due |-> {}] \in Swept
    BY <1>1 DEF Swept, FreeInv, InHand, ListWhileCalling, Prepare
  <2>2. I[lt] = Swept /\ I[now] = Swept
        /\ \A k \in lt..now : k < now => I[k] = Swept /\ I[k + 1] = Swept
    BY <1>2
  <2> HIDE DEF I
  <2>3. \A k \in lt..now : \A v \in Swept :
            k < now /\ v \in I[k] => Second(v, k + 1) \in I[k + 1]
    BY <2>2, SecondType
  <2> QED
    BY <1>2, <2>1, <2>2, <2>3, AfterBy
<1>4. /\ at' = After(now, lt).place /\ due' = After(now, lt).due
      /\ timer' = timer /\ now' = now
      /\ lt' \in {now, lt}
      /\ pc' # "call" => After(now, lt).due = {}
  BY DEF Prepare
<1>5. /\ at' \in Maps /\ due' \subseteq DOMAIN at
      /\ \A t \in DOMAIN at : t \in due' <=> at'[t] = Nowhere
  BY <1>3, <1>4 DEF Swept
<1>6. Placed'
  BY <1>4, <1>5 DEF FreeInv, Placed, Maps
<1>7. ClockOK' /\ ListWhileCalling'
  BY <1>4 DEF FreeInv, ClockOK, ListWhileCalling
<1> QED
  BY <1>4, <1>5, <1>6, <1>7
     DEF FreeInv, Placed, NoneFreedWhileRunning, InHand, Maps

LEMMA FreeRearm == FreeInv /\ Rearm => FreeInv'
<1> SUFFICES ASSUME FreeInv, Rearm PROVE FreeInv'
  OBVIOUS
<1>1. due' = {} /\ pc' = "sleep" /\ lt' = now /\ now' = now
  BY DEF Rearm
<1>2. DOMAIN at' = DOMAIN timer' /\ at' = [t \in DOMAIN at' |-> at'[t]]
  BY DEF Rearm
<1>3. \A t \in DOMAIN at' : at'[t] # Nowhere
  <2>1. DOMAIN at' \subseteq DOMAIN at
        /\ \A t \in DOMAIN at' :
              at'[t] = IF t \in due THEN SlotOf(timer[t].level, now + timer[t].numsec)
                       ELSE at[t]
    BY DEF Rearm, FreeInv, Placed
  <2> QED
    BY <2>1, SlotsArePlaces DEF FreeInv, InHand, SlotOf
<1> QED
  BY <1>1, <1>2, <1>3
     DEF FreeInv, ClockOK, Placed, ListWhileCalling, NoneFreedWhileRunning, InHand

LEMMA FreeRegister ==
  ASSUME FreeInv, NEW t \in Timers, NEW n \in Timeouts, Register(t, n)
  PROVE  FreeInv'
<1>1. /\ t \notin DOMAIN timer /\ DOMAIN at' = DOMAIN at \cup {t}
      /\ DOMAIN timer' = DOMAIN timer \cup {t}
      /\ at' = [u \in DOMAIN at' |-> at'[u]]
      /\ \A u \in DOMAIN at : u # t => at'[u] = at[u]
      /\ at'[t] = SlotOf(LevelOf(n), now + Cut(n)) /\ at'[t] # Nowhere
      /\ UNCHANGED <<now, lt, due, pc>>
  BY SlotsArePlaces DEF Register, SlotOf
<1> QED
  BY <1>1 DEF FreeInv, ClockOK, Placed, ListWhileCalling, NoneFreedWhileRunning, InHand

LEMMA FreeStop ==
  ASSUME FreeInv, NEW t \in Timers, Stop(t)
  PROVE  FreeInv'
<1>1. UNCHANGED <<now, lt, due, pc>>
  BY DEF Stop
<1>2. CASE MayFree(t)
  <2>1. /\ t \notin due
        /\ DOMAIN at' = DOMAIN at \ {t} /\ DOMAIN timer' = DOMAIN timer \ {t}
        /\ at' = [u \in DOMAIN at' |-> at'[u]]
        /\ \A u \in DOMAIN at \ {t} : at'[u] = at[u]
    BY <1>2 DEF Stop, MayFree, Running
  <2> QED
    BY <1>1, <2>1
       DEF FreeInv, ClockOK, Placed, ListWhileCalling, NoneFreedWhileRunning, InHand
<1>3. CASE ~MayFree(t)
  <2>1. DOMAIN timer' = DOMAIN timer /\ at' = at
    BY <1>3 DEF Stop
  <2> QED
    BY <1>1, <2>1
       DEF FreeInv, ClockOK, Placed, ListWhileCalling, NoneFreedWhileRunning, InHand
<1> QED
  BY <1>2, <1>3

LEMMA FreeStep == FreeInv /\ [Next]_vars => FreeInv'
<1> SUFFICES ASSUME FreeInv, [Next]_vars PROVE FreeInv'
  OBVIOUS
<1> USE DEF FreeInv, ClockOK, Placed, ListWhileCalling, NoneFreedWhileRunning, InHand
<1>1. CASE Look
  <2>1. PICK d \in 0..MaxJump : now' = now + d
    BY <1>1 DEF Look
  <2>2. MaxJump \in Nat
    BY WheelAssumption
  <2>3. now' \in Nat /\ lt <= now'
    BY <2>1, <2>2
  <2> QED
    BY <1>1, <2>3 DEF Look
<1>2. CASE \E t \in Timers : Call(t)
  BY <1>2 DEF Call
<1>3. CASE UNCHANGED vars
  BY <1>3 DEF vars
<1> QED
  BY <1>1, <1>2, <1>3, FreePrepare, FreeRearm, FreeRegister, FreeStop DEF Next

(* The list the thread walks without timer_mutex holds timers that are       *)
(* allocated and in no slot, whatever other threads and the callbacks do.    *)
THEOREM ListStaysAllocated == Spec => []NoneFreedWhileRunning
<1>1. Init => FreeInv
  BY FreeInit
<1>2. FreeInv /\ [Next]_vars => FreeInv'
  BY FreeStep
<1>3. FreeInv => NoneFreedWhileRunning
  BY DEF FreeInv
<1> QED
  BY <1>1, <1>2, <1>3, PTL DEF Spec

-----------------------------------------------------------------------------
(* The wheel calls every timer in its second: for any number of rings of    *)
(* any size, any time-outs and any jumps of the clock, none is passed over, *)
(* and none is early but for those of the window that CallsOnTime names.    *)

-----------------------------------------------------------------------------
(* Arithmetic. *)

LEMMA DivMod ==
  ASSUME NEW x \in Int, NEW p \in Nat \ {0}
  PROVE  x \div p \in Int /\ x % p \in Int /\ x = p * (x \div p) + (x % p)
         /\ 0 <= x % p /\ x % p < p
<1>1. x \div p \in Int /\ x % p \in Int
  OBVIOUS
<1>2. 0 <= x % p /\ x % p < p
  OBVIOUS
<1>3. x = p * (x \div p) + (x % p)
  OBVIOUS
<1> QED
  BY <1>1, <1>2, <1>3

LEMMA DivUp ==
  ASSUME NEW x \in Int, NEW y \in Int, NEW p \in Nat \ {0}, x <= y
  PROVE  x \div p <= y \div p
OBVIOUS

LEMMA DivDiv ==
  ASSUME NEW x \in Int, NEW p \in Nat \ {0}, NEW s \in Nat \ {0}
  PROVE  (x \div p) \div s = x \div (s * p)
OBVIOUS

(* One second on, a ring of slots of p seconds turns when p divides it.      *)
LEMMA DivNext ==
  ASSUME NEW x \in Int, NEW p \in Nat \ {0}
  PROVE  x \div p = ((x - 1) \div p) + (IF x % p = 0 THEN 1 ELSE 0)
OBVIOUS

(* Less than one turn apart, one slot means one place.                       *)
LEMMA SameSlot ==
  ASSUME NEW x \in Int, NEW y \in Int, NEW s \in Nat \ {0},
         x % s = y % s, x <= y, y < x + s
  PROVE  x = y
<1>1. /\ x = s * (x \div s) + (x % s) /\ y = s * (y \div s) + (y % s)
      /\ x \div s \in Int /\ y \div s \in Int
  BY DivMod
<1> DEFINE a == x \div s
           b == y \div s
<1>2. y - x = s * b - s * a
  BY <1>1
<1>3. a <= b
  BY DivUp
<1>4. s * b - s * a = s * (b - a) /\ a \in Int /\ b \in Int
  BY <1>1
<1> HIDE DEF a, b
<1>5. b - a < 1
  <2> SUFFICES ASSUME b - a >= 1 PROVE FALSE
    BY <1>4
  <2>1. s * (b - a) >= s
    BY <1>4
  <2> QED
    BY <1>2, <1>4, <2>1
<1>6. a = b
  BY <1>3, <1>4, <1>5
<1> QED
  BY <1>2, <1>6, <1>4

-----------------------------------------------------------------------------
(* The rings. *)

LEMMA SpanFacts ==
  /\ Span \in [0..Levels -> Nat \ {0}]
  /\ Span[0] = 1
  /\ \A l \in 0..(Levels - 1) : Span[l + 1] = Size * Span[l]
<1> DEFINE V == Nat \ {0}
           g == [k \in 0..Levels |-> [x \in V |-> Size * x]]
<1>0. Levels \in Nat /\ Size \in Nat \ {0, 1}
  BY WheelAssumption
<1>1. \A x \in V : Size * x \in V
  BY <1>0
<1>2. g \in Steps(0, Levels, V) /\ 1 \in V
  BY <1>1 DEF Steps
<1>3. PICK h \in [0..Levels -> V] :
        \A k \in 0..Levels : h[k] = IF k = 0 THEN 1 ELSE g[k][h[k - 1]]
  <2> HIDE DEF g, V
  <2>1. Iterable(0, Levels, V, 1, g)
    BY <1>0, <1>2, Iterate
  <2> QED
    BY <2>1 DEF Iterable
<1>4. h = [l \in 0..Levels |-> IF l = 0 THEN 1 ELSE Size * h[l - 1]]
  <2>1. ASSUME NEW k \in 0..Levels, k # 0 PROVE h[k] = Size * h[k - 1]
    <3>1. k - 1 \in 0..Levels
      BY <1>0, <2>1
    <3>2. h[k - 1] \in V
      BY <3>1
    <3> QED
      BY <1>3, <2>1, <3>2
  <2> HIDE DEF g
  <2>2. \A k \in 0..Levels : k = 0 => h[k] = 1
    BY <1>3
  <2> QED
    BY <2>1, <2>2
<1>5. Span = [l \in 0..Levels |-> IF l = 0 THEN 1 ELSE Size * Span[l - 1]]
  BY <1>4 DEF Span
<1> DEFINE S == {k \in 0..Levels : Span[k] \in V}
<1>6. Span[0] = 1 /\ 0 \in S
  BY <1>0, <1>2, <1>5
<1>7. \A l \in 0..(Levels - 1) : Span[l + 1] = Size * Span[l]
  <2> SUFFICES ASSUME NEW l \in 0..(Levels - 1) PROVE Span[l + 1] = Size * Span[l]
    OBVIOUS
  <2>1. l + 1 \in 0..Levels /\ l + 1 # 0 /\ (l + 1) - 1 = l
    BY <1>0
  <2> QED
    BY <1>5, <2>1
<1>8. ASSUME NEW k \in 0..Levels, k \in S, k < Levels PROVE k + 1 \in S
  <2>1. k \in 0..(Levels - 1) /\ k + 1 \in 0..Levels
    BY <1>0, <1>8
  <2>2. Span[k] \in V
    BY <1>8
  <2> QED
    BY <1>1, <1>7, <2>1, <2>2
<1>9. 0..Levels \subseteq S
  <2>1. 0 \in Int /\ Levels \in Int /\ 0 \in S
    BY <1>0, <1>6
  <2> HIDE DEF S
  <2> QED
    BY <1>8, <2>1, Climb
<1> QED
  BY <1>5, <1>6, <1>7, <1>9

(* The lowest ring a time-out fits in, which Cut sees to, and never a slot   *)
(* of more than that.                                                      *)
LEMMA LevelFits ==
  ASSUME NEW n \in Timeouts
  PROVE  /\ LevelOf(n) \in 0..(Levels - 1) /\ Cut(n) \in Nat
         /\ Span[LevelOf(n)] <= Cut(n) /\ Cut(n) <= Span[LevelOf(n) + 1]
<1> DEFINE top == Levels - 1
           T == {l \in 0..top : n <= Span[l + 1] \/ l = top}
<1>0. Levels \in Nat /\ top \in 0..top /\ Size \in Nat \ {0, 1} /\ n \in Nat \ {0}
      /\ Levels = top + 1
  BY WheelAssumption
<1>1. \A l \in 0..top : Span[l] \in Nat \ {0} /\ Span[l + 1] = Size * Span[l]
      /\ Span[l + 1] \in Nat
  <2>1. \A l \in 0..top : l \in 0..Levels /\ l + 1 \in 0..Levels
    BY <1>0
  <2> QED
    BY <2>1, SpanFacts
<1>2. PICK low \in T : \A l \in T : low <= l
  <2>1. top \in T /\ 0 \in Int /\ \A l \in T : l \in Int /\ l >= 0
    BY <1>0
  <2> HIDE DEF T
  <2> QED
    BY <2>1, Least
<1>3. \A k \in 0..(low - 1) : n > Span[k + 1]
  <2> SUFFICES ASSUME NEW k \in 0..(low - 1) PROVE n > Span[k + 1]
    OBVIOUS
  <2>1. k \in 0..top /\ k \notin T
    BY <1>0, <1>2
  <2> QED
    BY <1>0, <1>1, <2>1
<1> DEFINE L == LevelOf(n)
<1>4. /\ L \in 0..top /\ (n <= Span[L + 1] \/ L = top)
      /\ \A k \in 0..(L - 1) : n > Span[k + 1]
  <2>1. \E l \in 0..(Levels - 1) :
          /\ n <= Span[l + 1] \/ l = Levels - 1
          /\ \A k \in 0..(l - 1) : n > Span[k + 1]
    BY <1>2, <1>3
  <2> QED
    BY <2>1 DEF LevelOf
<1> HIDE DEF L
<1>5. Span[L] <= n
  <2>1. CASE L = 0
    BY <1>0, <2>1, SpanFacts
  <2>2. CASE L # 0
    <3>1. L - 1 \in 0..(L - 1) /\ (L - 1) + 1 = L
      BY <1>4, <2>2
    <3>2. n > Span[L]
      BY <1>4, <3>1
    <3> QED
      BY <1>0, <1>1, <1>4, <3>2
  <2> QED
    BY <2>1, <2>2
<1> DEFINE S == {k \in 0..Levels : Span[L] <= Span[k]}
<1>6. L..Levels \subseteq S
  <2>1. L \in Int /\ Levels \in Int /\ L \in 0..Levels
    BY <1>0, <1>4
  <2>2. L \in S
    BY <1>1, <1>4, <2>1
  <2>3. ASSUME NEW k \in L..Levels, k \in S, k < Levels PROVE k + 1 \in S
    <3>1. k \in 0..top /\ k + 1 \in 0..Levels
      BY <1>0, <2>1, <2>3
    <3>2. Span[k + 1] >= Span[k]
      BY <1>0, <1>1, <3>1
    <3> QED
      BY <1>1, <1>4, <2>3, <3>1, <3>2
  <2> HIDE DEF S
  <2> QED
    BY <2>1, <2>2, <2>3, Climb
<1>7. Span[Levels] \in Nat /\ Span[L] <= Span[Levels]
  <2>1. Levels \in L..Levels /\ Levels \in 0..Levels
    BY <1>0, <1>4
  <2> QED
    BY <1>6, <2>1, SpanFacts
<1>8. Span[L + 1] <= Span[Levels]
  <2> DEFINE W == {k \in 0..Levels : Span[L + 1] <= Span[k]}
  <2>1. L + 1 \in Int /\ Levels \in Int /\ L + 1 <= Levels /\ L + 1 \in 0..Levels
    BY <1>0, <1>4
  <2>2. L + 1 \in W
    BY <1>1, <1>4, <2>1
  <2>3. ASSUME NEW k \in (L + 1)..Levels, k \in W, k < Levels PROVE k + 1 \in W
    <3>1. k \in 0..top /\ k + 1 \in 0..Levels
      BY <1>0, <1>4, <2>1, <2>3
    <3>2. Span[k + 1] >= Span[k]
      BY <1>0, <1>1, <3>1
    <3> QED
      BY <1>1, <1>4, <2>3, <3>1, <3>2
  <2>4. (L + 1)..Levels \subseteq W
    <3> HIDE DEF W
    <3> QED
      BY <2>1, <2>2, <2>3, Climb
  <2>5. Levels \in (L + 1)..Levels
    BY <2>1
  <2> QED
    BY <2>4, <2>5
<1>9. Cut(n) \in Nat /\ Span[L] <= Cut(n) /\ Cut(n) <= Span[L + 1]
  <2>1. CASE n > Span[Levels]
    <3>1. L = top
      BY <1>0, <1>1, <1>4, <1>7, <1>8, <2>1
    <3> QED
      BY <1>0, <1>7, <2>1, <3>1 DEF Cut
  <2>2. CASE ~(n > Span[Levels])
    <3>1. Cut(n) = n
      BY <2>2 DEF Cut
    <3>2. n <= Span[L + 1]
      BY <1>0, <1>4, <1>7, <2>2
    <3> QED
      BY <1>0, <1>5, <3>1, <3>2
  <2> QED
    BY <2>1, <2>2
<1> QED
  BY <1>4, <1>9 DEF L

-----------------------------------------------------------------------------
(* A timer for second r in ring l at second i: its slot is still to come,    *)
(* and unless the timer is late, on this turn of the ring.                 *)
Turn(x, l) == x \div Span[l]
Ahead(r, late, l, i) ==
    /\ Turn(r, l) > Turn(i, l)
    /\ late \/ Turn(r, l) <= Turn(i, l) + Size

LEMMA TurnType ==
  ASSUME NEW l \in 0..(Levels - 1)
  PROVE  /\ Span[l] \in Nat \ {0} /\ Size \in Nat \ {0} /\ Size > 1
         /\ \A x \in Int : Turn(x, l) \in Int
<1>1. l \in 0..Levels /\ Size \in Nat \ {0, 1}
  BY WheelAssumption
<1>2. Span[l] \in Nat \ {0}
  BY <1>1, SpanFacts
<1> QED
  BY <1>1, <1>2 DEF Turn

(* What ring l keeps at second i, whether or not it turns.                   *)
LEMMA AheadStays ==
  ASSUME NEW r \in Int, NEW late \in BOOLEAN, NEW l \in 0..(Levels - 1), NEW i \in Int,
         Ahead(r, late, l, i - 1),
         i % Span[l] = 0 => Turn(r, l) % Size # Turn(i, l) % Size
  PROVE  Ahead(r, late, l, i)
<1>1. /\ Turn(r, l) \in Int /\ Turn(i, l) \in Int /\ Turn(i - 1, l) \in Int
      /\ Size \in Nat
  BY TurnType
<1>2. Turn(i, l) = Turn(i - 1, l) + (IF i % Span[l] = 0 THEN 1 ELSE 0)
  BY TurnType, DivNext DEF Turn
<1>3. i % Span[l] = 0 => Turn(r, l) # Turn(i, l)
  OBVIOUS
<1> QED
  BY <1>1, <1>2, <1>3 DEF Ahead

(* What ring l + 1 gives up when it turns goes to the right place of ring l. *)
LEMMA AheadFalls ==
  ASSUME NEW r \in Int, NEW late \in BOOLEAN, NEW l \in 0..(Levels - 2), NEW i \in Int,
         i % Span[l + 1] = 0,
         Ahead(r, late, l + 1, i - 1),
         Turn(r, l + 1) % Size = Turn(i, l + 1) % Size
  PROVE  Ahead(r, late, l, i - 1)
<1> DEFINE p == Span[l]
           a == Turn(r, l)
           b == Turn(i, l)
           c == Turn(i - 1, l)
           A == Turn(r, l + 1)
           B == Turn(i, l + 1)
           C == Turn(i - 1, l + 1)
<1>0. l \in 0..(Levels - 1) /\ l + 1 \in 0..(Levels - 1)
  BY WheelAssumption
<1>1. /\ p \in Nat \ {0} /\ Size \in Nat \ {0} /\ Size > 1
      /\ Span[l + 1] = Size * p /\ Span[l + 1] \in Nat \ {0}
      /\ a \in Int /\ b \in Int /\ c \in Int
      /\ A \in Int /\ B \in Int /\ C \in Int
  <2>1. /\ p \in Nat \ {0} /\ Size \in Nat \ {0} /\ Size > 1
        /\ a \in Int /\ b \in Int /\ c \in Int
    BY <1>0, TurnType
  <2>2. /\ Span[l + 1] \in Nat \ {0}
        /\ A \in Int /\ B \in Int /\ C \in Int
    BY <1>0, TurnType
  <2>3. Span[l + 1] = Size * p
    BY <1>0, SpanFacts
  <2> QED
    BY <2>1, <2>2, <2>3
<1>2. A = a \div Size /\ B = b \div Size
  BY <1>1, DivDiv DEF Turn
<1>3. B = C + 1
  BY <1>1, DivNext DEF Turn
<1>4. A >= B /\ (late \/ A = B)
  <2>1. A > C /\ (late \/ A <= C + Size)
    BY DEF Ahead
  <2>2. ASSUME ~late PROVE A = B
    <3>1. B <= A /\ A < B + Size /\ B % Size = A % Size
      BY <1>1, <1>3, <2>1, <2>2
    <3> HIDE DEF A, B, C, a, b, c, p
    <3> QED
      BY <1>1, <3>1, SameSlot
  <2> HIDE DEF A, B, C
  <2> QED
    BY <1>1, <1>3, <2>1, <2>2
<1>5. b = Size * B /\ i = p * b
  <2>1. i = Span[l + 1] * B
    <3>1. i = Span[l + 1] * (i \div Span[l + 1]) + (i % Span[l + 1])
      BY <1>1, DivMod
    <3>2. i \div Span[l + 1] = B
      BY DEF Turn
    <3>3. i = Span[l + 1] * B + (i % Span[l + 1])
      BY <3>1, <3>2
    <3> DEFINE x == Span[l + 1] * B
    <3>4. x \in Int
      BY <1>1
    <3>5. i = x + 0
      BY <3>3
    <3> HIDE DEF x
    <3>6. i = x
      BY <3>4, <3>5
    <3> USE DEF x
    <3> QED
      BY <3>6
  <2>2. i = p * (Size * B)
    <3> HIDE DEF A, B, C, a, b, c, p
    <3> QED
      BY <1>1, <2>1
  <2>3. b = i \div p
    BY DEF Turn
  <2>4. (p * (Size * B)) \div p = Size * B
    <3> DEFINE z == Size * B
    <3>1. z \in Int
      BY <1>1
    <3> HIDE DEF z, p, B
    <3> QED
      BY <1>1, <3>1
  <2> QED
    BY <2>2, <2>3, <2>4
<1>6. b = c + 1
  <2>1. i % p = 0
    <3>1. i = p * b + (i % p)
      <4>1. i \div p = b
        BY DEF Turn
      <4> HIDE DEF b, p
      <4> QED
        BY <1>1, <4>1, DivMod
    <3>2. i % p \in Int
      BY <1>1
    <3> HIDE DEF A, B, C, a, b, c, p
    <3> QED
      BY <1>1, <1>5, <3>1, <3>2
  <2> QED
    BY <1>1, <2>1, DivNext DEF Turn
<1>7. Size * A <= a /\ a < Size * A + Size
  <2>1. a = Size * (a \div Size) + (a % Size) /\ 0 <= a % Size /\ a % Size < Size
        /\ a % Size \in Int
    <3> HIDE DEF a
    <3> QED
      BY <1>1, DivMod
  <2> HIDE DEF A, B, C, a, b, c, p
  <2> QED
    BY <1>1, <1>2, <2>1
<1>8. Size * A >= Size * B
  <2> HIDE DEF A, B, C, a, b, c, p
  <2> QED
    BY <1>1, <1>4
<1>9. a > c /\ (late \/ a <= c + Size)
  <2> HIDE DEF A, B, C, a, b, c, p
  <2>1. Size * A \in Int /\ Size * B \in Int
    BY <1>1
  <2> QED
    BY <1>1, <1>4, <1>5, <1>6, <1>7, <1>8, <2>1
<1> QED
  BY <1>9 DEF Ahead

-----------------------------------------------------------------------------
(* A timer fits its ring. *)
Timed ==
    /\ DOMAIN at = DOMAIN timer
    /\ \A t \in DOMAIN timer :
         /\ timer[t].level \in 0..(Levels - 1) /\ timer[t].numsec \in Nat
         /\ Span[timer[t].level] <= timer[t].numsec
         /\ timer[t].numsec <= Span[timer[t].level + 1]
         /\ timer[t].runat \in Int /\ timer[t].late \in BOOLEAN

InRing(t, place, m, i) ==
    /\ place = SlotOf(m, timer[t].runat)
    /\ Ahead(timer[t].runat, timer[t].late, m, i)

(* In the middle of second i the rings above l have been turned.             *)
Rings(q, l, i) ==
    \A t \in DOMAIN at : q[t] # Nowhere =>
        \E m \in 0..(Levels - 1) : InRing(t, q[t], m, IF m > l THEN i ELSE i - 1)

LEMMA TurnedRings ==
  ASSUME Timed, NEW q \in Maps, NEW l \in 0..(Levels - 2), NEW i \in Int,
         Rings(q, l + 1, i)
  PROVE  Rings(Turned(q, l, i), l, i)
<1> SUFFICES ASSUME NEW t \in DOMAIN at, Turned(q, l, i)[t] # Nowhere
             PROVE  \E m \in 0..(Levels - 1) :
                       InRing(t, Turned(q, l, i)[t], m, IF m > l THEN i ELSE i - 1)
  BY DEF Rings
<1> DEFINE r == timer[t].runat
           late == timer[t].late
<1>1. /\ l \in 0..(Levels - 1) /\ l + 1 \in 0..(Levels - 1) /\ l \in Int
      /\ r \in Int /\ late \in BOOLEAN /\ 0..(Levels - 1) \subseteq Int
  BY WheelAssumption DEF Timed
<1>2. q[t] # Nowhere
  BY <1>1, TurnedType DEF Settled
<1>3. PICK m \in 0..(Levels - 1) : InRing(t, q[t], m, IF m > l + 1 THEN i ELSE i - 1)
  BY <1>2 DEF Rings
<1>4. q[t] = <<m, Turn(r, m) % Size>>
  BY <1>3 DEF InRing, SlotOf, Turn
<1>5. DOMAIN q = DOMAIN at
  BY DEF Maps
<1> DEFINE falls == i % Span[l + 1] = 0 /\ q[t] = <<l + 1, Turn(i, l + 1) % Size>>
<1>6. Turned(q, l, i)[t] = IF falls THEN SlotOf(l, r) ELSE q[t]
  BY <1>5 DEF Turned, Turn
<1>7. CASE falls
  <2>1. m = l + 1 /\ Turn(r, l + 1) % Size = Turn(i, l + 1) % Size
    BY <1>4, <1>7
  <2>2. Ahead(r, late, l + 1, i - 1)
    BY <1>1, <1>3, <2>1 DEF InRing
  <2>3. Ahead(r, late, l, i - 1)
    <3> HIDE DEF r, late
    <3> QED
      BY <1>1, <1>7, <2>1, <2>2, AheadFalls
  <2>4. InRing(t, SlotOf(l, r), l, IF l > l THEN i ELSE i - 1)
    BY <1>1, <2>3 DEF InRing
  <2> HIDE DEF falls
  <2> QED
    BY <1>1, <1>6, <1>7, <2>4
<1>8. CASE ~falls
  <2>1. Turned(q, l, i)[t] = q[t]
    BY <1>6, <1>8
  <2>2. CASE m = l + 1
    <3>1. i % Span[l + 1] = 0 => Turn(r, l + 1) % Size # Turn(i, l + 1) % Size
      BY <1>4, <1>8, <2>2
    <3>2. Ahead(r, late, l + 1, i - 1)
      BY <1>1, <1>3, <2>2 DEF InRing
    <3>3. Ahead(r, late, l + 1, i)
      <4> HIDE DEF r, late
      <4> QED
        BY <1>1, <3>1, <3>2, AheadStays
    <3>4. InRing(t, q[t], m, IF m > l THEN i ELSE i - 1)
      BY <1>1, <1>3, <2>2, <3>3 DEF InRing
    <3> QED
      BY <2>1, <3>4
  <2>3. CASE m # l + 1
    <3>1. m > l + 1 <=> m > l
      BY <1>1, <2>3
    <3>2. InRing(t, q[t], m, IF m > l THEN i ELSE i - 1)
      BY <1>3, <3>1
    <3> QED
      BY <2>1, <3>2
  <2> QED
    BY <2>2, <2>3
<1> QED
  BY <1>7, <1>8

LEMMA CascadedRings ==
  ASSUME Timed, NEW p \in Maps, NEW i \in Int, Rings(p, Levels - 1, i)
  PROVE  Cascaded(p, i) \in Maps /\ Rings(Cascaded(p, i), 0, i)
<1> DEFINE I == [l \in 0..(Levels - 1) |-> {q \in Maps : Rings(q, l, i)}]
<1>0. /\ Levels - 1 \in 0..(Levels - 1) /\ 0 \in 0..(Levels - 1)
      /\ \A l \in 0..(Levels - 2) : l \in 0..(Levels - 1) /\ l + 1 \in 0..(Levels - 1)
  BY WheelAssumption
<1>1. p \in I[Levels - 1]
  BY <1>0
<1>2. \A l \in 0..(Levels - 2) : \A q \in Maps :
         q \in I[l + 1] => Turned(q, l, i) \in I[l]
  <2> SUFFICES ASSUME NEW l \in 0..(Levels - 2), NEW q \in Maps, q \in I[l + 1]
               PROVE  Turned(q, l, i) \in I[l]
    OBVIOUS
  <2>1. Rings(q, l + 1, i)
    BY <1>0
  <2>2. Turned(q, l, i) \in Maps /\ Rings(Turned(q, l, i), l, i)
    BY <1>0, <2>1, TurnedType, TurnedRings
  <2> QED
    BY <1>0, <2>2
<1>3. Cascaded(p, i) \in Maps /\ Cascaded(p, i) \in I[0]
  <2> HIDE DEF I
  <2> QED
    BY <1>1, <1>2, CascadedBy
<1> QED
  BY <1>0, <1>3

(* When second k is done: what is due was due, and the rest is ahead.        *)
OnTime(v, k) ==
    \A t \in DOMAIN at :
        IF t \in v.due THEN timer[t].late \/ timer[t].runat <= k
        ELSE \E m \in 0..(Levels - 1) : InRing(t, v.place[t], m, k)

LEMMA SecondOnTime ==
  ASSUME Timed, NEW v \in Swept, NEW k \in Int, OnTime(v, k)
  PROVE  OnTime(Second(v, k + 1), k + 1)
<1> DEFINE i == k + 1
           c == Cascaded(v.place, i)
           hit == {t \in DOMAIN c : c[t] = <<0, i % Size>>}
<1>1. v.place \in Maps /\ \A t \in DOMAIN at : t \in v.due <=> v.place[t] = Nowhere
  BY DEF Swept
<1>2. Rings(v.place, Levels - 1, i)
  <2> SUFFICES ASSUME NEW t \in DOMAIN at, v.place[t] # Nowhere
               PROVE  \E m \in 0..(Levels - 1) :
                 InRing(t, v.place[t], m, IF m > Levels - 1 THEN i ELSE i - 1)
    BY DEF Rings
  <2>1. PICK m \in 0..(Levels - 1) : InRing(t, v.place[t], m, k)
    BY <1>1 DEF OnTime
  <2>2. ~(m > Levels - 1) /\ i - 1 = k
    BY WheelAssumption
  <2>3. InRing(t, v.place[t], m, IF m > Levels - 1 THEN i ELSE i - 1)
    BY <2>1, <2>2
  <2> QED
    BY <2>3
<1>3. c \in Maps /\ Rings(c, 0, i) /\ Settled(v.place, c) /\ i \in Int
  <2>1. i \in Int
    OBVIOUS
  <2> HIDE DEF i
  <2> QED
    BY <1>1, <1>2, <2>1, CascadedRings, CascadedType
<1>4. /\ Second(v, i).due = v.due \cup hit
      /\ \A t \in DOMAIN at :
            Second(v, i).place[t] = IF t \in hit THEN Nowhere ELSE c[t]
  <2>1. DOMAIN c = DOMAIN at
    BY <1>3 DEF Maps
  <2>2. Second(v, i) = [place |-> [t \in DOMAIN c |-> IF t \in hit THEN Nowhere ELSE c[t]],
                        due |-> v.due \cup hit]
    BY DEF Second
  <2> HIDE DEF c, hit, i
  <2> QED
    BY <2>1, <2>2
<1> SUFFICES ASSUME NEW t \in DOMAIN at
             PROVE  IF t \in Second(v, i).due
                    THEN timer[t].late \/ timer[t].runat <= i
                    ELSE \E m \in 0..(Levels - 1) : InRing(t, Second(v, i).place[t], m, i)
  BY DEF OnTime
<1> DEFINE r == timer[t].runat
           late == timer[t].late
<1>5. r \in Int /\ late \in BOOLEAN /\ Size \in Nat \ {0} /\ 0 \in 0..(Levels - 1)
      /\ 0..(Levels - 1) \subseteq Int /\ DOMAIN c = DOMAIN at
  BY <1>3, WheelAssumption DEF Timed, Maps
<1>6. CASE t \in v.due
  <2>1. late \/ r <= k
    BY <1>6 DEF OnTime
  <2>2. late \/ r <= i
    BY <1>5, <2>1
  <2> HIDE DEF hit, i
  <2> QED
    BY <1>4, <1>6, <2>2
<1>7. CASE t \notin v.due
  <2>1. c[t] # Nowhere
    <3> HIDE DEF c
    <3> QED
      BY <1>1, <1>3, <1>7 DEF Settled
  <2>2. PICK m \in 0..(Levels - 1) : InRing(t, c[t], m, IF m > 0 THEN i ELSE i - 1)
    <3> HIDE DEF c, i
    <3> QED
      BY <1>3, <2>1 DEF Rings
  <2>3. c[t] = <<m, Turn(r, m) % Size>>
    <3> HIDE DEF c
    <3> QED
      BY <2>2 DEF InRing, SlotOf, Turn
  <2>4. Turn(r, 0) = r /\ Turn(i, 0) = i /\ Turn(i - 1, 0) = k /\ i % Span[0] = 0
    BY <1>5, SpanFacts DEF Turn
  <2>5. t \in hit <=> m = 0 /\ r % Size = i % Size
    <3> HIDE DEF c, i, r
    <3> QED
      BY <1>5, <2>3, <2>4
  <2>6. m = 0 => r > k /\ (late \/ r <= k + Size)
    <3>1. m = 0 => Ahead(r, late, 0, i - 1)
      BY <2>2 DEF InRing
    <3> QED
      BY <2>4, <3>1 DEF Ahead
  <2>7. CASE t \in hit
    <3>1. r % Size = i % Size /\ r > k /\ (late \/ r <= k + Size)
      <4> HIDE DEF hit
      <4> QED
        BY <2>5, <2>6, <2>7
    <3>2. ASSUME ~late PROVE i = r
      <4>1. i <= r /\ r < i + Size /\ i \in Int
        BY <1>5, <3>1, <3>2
      <4> HIDE DEF i, r
      <4> QED
        BY <1>5, <3>1, <4>1, SameSlot
    <3>3. late \/ r <= i
      BY <1>5, <3>2
    <3> HIDE DEF hit, i
    <3> QED
      BY <1>4, <2>7, <3>3
  <2>8. CASE t \notin hit
    <3>1. Ahead(r, late, m, i)
      <4>1. CASE m = 0
        <5>1. Ahead(r, late, 0, i - 1)
          BY <2>2, <4>1 DEF InRing
        <5>2. i % Span[0] = 0 => Turn(r, 0) % Size # Turn(i, 0) % Size
          <6> HIDE DEF hit, i, r
          <6> QED
            BY <2>4, <2>5, <2>8, <4>1
        <5>3. i \in Int
          OBVIOUS
        <5> HIDE DEF i, r, late
        <5> QED
          BY <1>5, <4>1, <5>1, <5>2, <5>3, AheadStays
      <4>2. CASE m # 0
        <5>1. m > 0
          BY <1>5, <4>2
        <5> QED
          BY <2>2, <5>1 DEF InRing
      <4> QED
        BY <4>1, <4>2
    <3>2. InRing(t, c[t], m, i)
      BY <2>2, <3>1 DEF InRing
    <3> HIDE DEF hit, i, c
    <3> QED
      BY <1>4, <1>7, <2>8, <3>2
  <2> QED
    BY <2>7, <2>8
<1> QED
  BY <1>6, <1>7

LEMMA AfterOnTime ==
  ASSUME Timed, NEW i \in Int, NEW b \in Int, b <= i,
         [place |-> at, due |-> {}] \in Swept, OnTime([place |-> at, due |-> {}], b)
  PROVE  After(i, b) \in Swept /\ OnTime(After(i, b), i)
<1> DEFINE I == [k \in b..i |-> {v \in Swept : OnTime(v, k)}]
<1>0. b \in b..i /\ i \in b..i /\ \A k \in b..i : k < i => k + 1 \in b..i
  OBVIOUS
<1>1. [place |-> at, due |-> {}] \in I[b]
  BY <1>0
<1>2. \A k \in b..i : \A v \in Swept :
        k < i /\ v \in I[k] => Second(v, k + 1) \in I[k + 1]
  <2> SUFFICES ASSUME NEW k \in b..i, NEW v \in Swept, k < i, v \in I[k]
               PROVE  Second(v, k + 1) \in I[k + 1]
    OBVIOUS
  <2>1. OnTime(v, k)
    OBVIOUS
  <2>2. Second(v, k + 1) \in Swept /\ OnTime(Second(v, k + 1), k + 1)
    BY <2>1, SecondType, SecondOnTime
  <2> QED
    BY <1>0, <2>2
<1>3. After(i, b) \in Swept /\ After(i, b) \in I[i]
  <2> HIDE DEF I
  <2> QED
    BY <1>1, <1>2, AfterBy
<1> QED
  BY <1>0, <1>3

-----------------------------------------------------------------------------
(* A timer goes to the ring its time-out fits, as far ahead as that is.       *)
LEMMA AheadNew ==
  ASSUME NEW x \in Int, NEW n \in Nat, NEW l \in 0..(Levels - 1),
         Span[l] <= n, n <= Span[l + 1]
  PROVE  Turn(x + n, l) > Turn(x, l) /\ Turn(x + n, l) <= Turn(x, l) + Size
<1> DEFINE p == Span[l]
           a == Turn(x, l)
           b == Turn(x + n, l)
<1>1. /\ p \in Nat \ {0} /\ Size \in Nat \ {0} /\ a \in Int /\ b \in Int
      /\ Span[l + 1] = Size * p /\ Size * p \in Int
  <2>1. p \in Nat \ {0} /\ Size \in Nat \ {0} /\ a \in Int /\ b \in Int
    BY TurnType
  <2>2. Span[l + 1] = Size * p
    BY SpanFacts
  <2> HIDE DEF p, a, b
  <2> QED
    BY <2>1, <2>2
<1>2. /\ x = p * a + (x % p) /\ 0 <= x % p /\ x % p < p /\ x % p \in Int
      /\ x + n = p * b + ((x + n) % p) /\ 0 <= (x + n) % p /\ (x + n) % p < p
      /\ (x + n) % p \in Int
  <2>1. a = x \div p /\ b = (x + n) \div p /\ x + n \in Int
    BY DEF Turn
  <2> HIDE DEF p, a, b
  <2> QED
    BY <1>1, <2>1, DivMod
<1> DEFINE d == b - a
<1>3. /\ p * b - p * a = p * d /\ p * a \in Int /\ p * b \in Int /\ p * d \in Int
      /\ d \in Int
  <2> HIDE DEF p, a, b
  <2> QED
    BY <1>1
<1>4. p * d > n - p /\ p * d < n + p
  <2> HIDE DEF p, a, b, d
  <2> QED
    BY <1>1, <1>2, <1>3
<1>5. p * d > 0 /\ p * d < Size * p + p
  <2>1. p <= n /\ n <= Size * p
    BY <1>1
  <2> HIDE DEF p, a, b, d
  <2> QED
    BY <1>1, <1>3, <1>4, <2>1
<1>6. d > 0
  <2> HIDE DEF p, a, b, d
  <2> SUFFICES ASSUME d <= 0 PROVE FALSE
    BY <1>3
  <2>1. p * d <= 0
    BY <1>1, <1>3
  <2> QED
    BY <1>3, <1>5, <2>1
<1>7. d <= Size
  <2> HIDE DEF p, a, b, d
  <2> SUFFICES ASSUME d >= Size + 1 PROVE FALSE
    BY <1>1, <1>3
  <2>1. p * d >= p * (Size + 1)
    BY <1>1, <1>3
  <2>2. p * (Size + 1) = Size * p + p
    BY <1>1
  <2> QED
    BY <1>1, <1>3, <1>5, <2>1, <2>2
<1> QED
  <2>1. b > a /\ b <= a + Size
    <3> HIDE DEF p, a, b
    <3> QED
      BY <1>1, <1>6, <1>7
  <2> QED
    BY <2>1

-----------------------------------------------------------------------------
(* The invariant: up to which second the wheel has been turned, and that     *)
(* every timer is in its slot as of then.                                  *)
TurnedTo == IF pc = "call" THEN now ELSE lt
InTime ==
    \A t \in DOMAIN at :
        IF t \in due THEN timer[t].late \/ timer[t].runat <= TurnedTo
        ELSE \E m \in 0..(Levels - 1) :
               /\ at[t] = SlotOf(m, timer[t].runat)
               /\ Ahead(timer[t].runat, timer[t].late, m, TurnedTo)
Asleep == pc \in {"sleep", "tick", "call"} /\ (pc = "sleep" => lt = now)

WheelInv == FreeInv /\ HasStop /\ Timed /\ Asleep /\ InTime

LEMMA WheelInit == Init => WheelInv
<1> SUFFICES ASSUME Init PROVE WheelInv
  OBVIOUS
<1>1. FreeInv
  BY FreeInit
<1>2. at = <<>> /\ timer = <<>> /\ DOMAIN at = {} /\ DOMAIN timer = {} /\ lt = now
      /\ pc = "sleep"
  BY DEF Init
<1> QED
  BY <1>1, <1>2 DEF WheelInv, HasStop, Timed, Asleep, InTime

LEMMA WheelPrepare == WheelInv /\ Prepare => WheelInv'
<1> SUFFICES ASSUME WheelInv, Prepare PROVE WheelInv'
  OBVIOUS
<1> DEFINE start == [place |-> at, due |-> {}]
           end == After(now, lt)
<1>1. FreeInv' /\ FreeInv /\ Timed /\ pc = "tick" /\ due = {}
  BY FreePrepare DEF WheelInv, FreeInv, ListWhileCalling, Prepare
<1>2. now \in Int /\ lt \in Int /\ lt <= now /\ at \in Maps /\ start \in Swept
  BY <1>1 DEF FreeInv, ClockOK, Placed, InHand, Maps, Places, Swept
<1>3. OnTime(start, lt)
  BY <1>1 DEF WheelInv, InTime, TurnedTo, OnTime, InRing
<1>4. end \in Swept /\ OnTime(end, now)
  BY <1>1, <1>2, <1>3, AfterOnTime
<1>5. /\ at' = end.place /\ due' = end.due /\ timer' = timer /\ now' = now
      /\ pc' \in {"sleep", "call"} /\ TurnedTo' = now /\ Asleep'
  BY DEF Prepare, TurnedTo, Asleep
<1>6. DOMAIN at' = DOMAIN at
  <2> HIDE DEF end
  <2> QED
    BY <1>4, <1>5 DEF Swept, Maps
<1>7. InTime'
  <2> HIDE DEF end
  <2> QED
    BY <1>4, <1>5, <1>6 DEF InTime, OnTime, InRing
<1>8. Timed' /\ HasStop'
  BY <1>5, <1>6 DEF WheelInv, Timed, HasStop
<1> QED
  BY <1>1, <1>5, <1>7, <1>8 DEF WheelInv

LEMMA WheelRearm == WheelInv /\ Rearm => WheelInv'
<1> SUFFICES ASSUME WheelInv, Rearm PROVE WheelInv'
  OBVIOUS
<1> DEFINE again(t) == now + timer[t].numsec
<1>1. FreeInv' /\ due' = {} /\ pc' = "sleep" /\ lt' = now /\ now' = now /\ pc = "call"
      /\ TurnedTo = now /\ TurnedTo' = now /\ Asleep' /\ now \in Int
      /\ DOMAIN at = DOMAIN timer
  <2>1. due' = {} /\ pc' = "sleep" /\ lt' = now /\ now' = now /\ pc = "call"
    BY DEF Rearm
  <2>2. FreeInv' /\ now \in Int /\ DOMAIN at = DOMAIN timer
    <3>1. FreeInv
      BY DEF WheelInv
    <3>2. now \in Int /\ DOMAIN at = DOMAIN timer
      BY <3>1 DEF FreeInv, ClockOK, Placed
    <3> QED
      BY <3>1, <3>2, FreeRearm
  <2>3. TurnedTo = now /\ TurnedTo' = now /\ Asleep'
    BY <2>1 DEF TurnedTo, Asleep
  <2> QED
    BY <2>1, <2>2, <2>3
<1>2. DOMAIN at' = DOMAIN timer' /\ DOMAIN timer' \subseteq DOMAIN timer
  BY DEF Rearm
<1>3. ASSUME NEW t \in DOMAIN timer', t \notin due
      PROVE  timer'[t] = timer[t] /\ at'[t] = at[t]
  BY <1>3 DEF Rearm
<1>4. ASSUME NEW t \in DOMAIN timer', t \in due
      PROVE  /\ DOMAIN timer'[t] = {"numsec", "level", "runat", "stop", "late"}
             /\ timer'[t].level = timer[t].level /\ timer'[t].numsec = timer[t].numsec
             /\ timer'[t].runat = again(t) /\ timer'[t].late = FALSE
             /\ timer'[t].stop = FALSE /\ at'[t] = SlotOf(timer[t].level, again(t))
  <2> DEFINE x == timer[t]
             y == [x EXCEPT !.runat = again(t), !.stop = FALSE, !.late = FALSE]
  <2>1. DOMAIN x = {"numsec", "level", "runat", "stop", "late"}
    BY <1>2 DEF WheelInv, HasStop
  <2>2. timer'[t] = y /\ at'[t] = SlotOf(timer[t].level, again(t))
    BY <1>4 DEF Rearm
  <2>3. /\ DOMAIN y = DOMAIN x /\ ("runat" \in DOMAIN x => y.runat = again(t))
        /\ ("stop" \in DOMAIN x => y.stop = FALSE)
        /\ ("late" \in DOMAIN x => y.late = FALSE)
        /\ ("level" \in DOMAIN x => y.level = x.level)
        /\ ("numsec" \in DOMAIN x => y.numsec = x.numsec)
    <3> HIDE DEF x, again
    <3> QED
      OBVIOUS
  <2>4. /\ "runat" \in DOMAIN x /\ "stop" \in DOMAIN x /\ "late" \in DOMAIN x
        /\ "level" \in DOMAIN x /\ "numsec" \in DOMAIN x
    BY <2>1
  <2>5. /\ DOMAIN y = DOMAIN x /\ y.runat = again(t) /\ y.stop = FALSE /\ y.late = FALSE
        /\ y.level = x.level /\ y.numsec = x.numsec
    <3> HIDE DEF x, y, again
    <3> QED
      BY <2>3, <2>4
  <2> HIDE DEF y, again
  <2> QED
    BY <2>1, <2>2, <2>5
<1>5. HasStop'
  <2>1. \A t \in DOMAIN timer' : t \notin due =>
          /\ DOMAIN timer'[t] = {"numsec", "level", "runat", "stop", "late"}
          /\ timer'[t].stop \in BOOLEAN
    BY <1>2, <1>3 DEF WheelInv, HasStop
  <2> HIDE DEF again
  <2> QED
    BY <1>4, <2>1 DEF HasStop
<1>6. ASSUME NEW t \in DOMAIN timer'
      PROVE  /\ timer'[t].level \in 0..(Levels - 1) /\ timer'[t].numsec \in Nat
             /\ Span[timer'[t].level] <= timer'[t].numsec
             /\ timer'[t].numsec <= Span[timer'[t].level + 1]
             /\ timer'[t].runat \in Int /\ timer'[t].late \in BOOLEAN
  <2>1. /\ timer[t].level \in 0..(Levels - 1) /\ timer[t].numsec \in Nat
        /\ Span[timer[t].level] <= timer[t].numsec
        /\ timer[t].numsec <= Span[timer[t].level + 1]
        /\ timer[t].runat \in Int /\ timer[t].late \in BOOLEAN
    BY <1>2 DEF WheelInv, Timed
  <2>2. CASE t \notin due
    BY <1>3, <2>1, <2>2
  <2>3. CASE t \in due
    <3>1. again(t) \in Int
      BY <1>1, <2>1
    <3> HIDE DEF again
    <3> QED
      BY <1>4, <2>1, <2>3, <3>1
  <2> QED
    BY <2>2, <2>3
<1>7. ASSUME NEW t \in DOMAIN at'
      PROVE  \E m \in 0..(Levels - 1) :
                /\ at'[t] = SlotOf(m, timer'[t].runat)
                /\ Ahead(timer'[t].runat, timer'[t].late, m, now)
  <2>1. t \in DOMAIN timer' /\ t \in DOMAIN at
    BY <1>1, <1>2
  <2>2. CASE t \notin due
    <3>1. \E m \in 0..(Levels - 1) :
            /\ at[t] = SlotOf(m, timer[t].runat)
            /\ Ahead(timer[t].runat, timer[t].late, m, now)
      BY <1>1, <2>1, <2>2 DEF WheelInv, InTime
    <3> QED
      BY <1>3, <2>1, <2>2, <3>1
  <2>3. CASE t \in due
    <3> DEFINE l == timer[t].level
               n == timer[t].numsec
    <3>1. l \in 0..(Levels - 1) /\ n \in Nat /\ Span[l] <= n /\ n <= Span[l + 1]
      BY <1>1, <2>1 DEF WheelInv, Timed
    <3>2. Turn(now + n, l) > Turn(now, l) /\ Turn(now + n, l) <= Turn(now, l) + Size
      <4> HIDE DEF l, n
      <4> QED
        BY <1>1, <3>1, AheadNew
    <3>3. Ahead(again(t), FALSE, l, now)
      BY <3>2 DEF Ahead
    <3>4. at'[t] = SlotOf(l, again(t)) /\ timer'[t].runat = again(t) /\ timer'[t].late = FALSE
      <4> HIDE DEF again
      <4> QED
        BY <1>4, <2>1, <2>3
    <3> HIDE DEF again, l, n
    <3> QED
      BY <3>1, <3>3, <3>4
  <2> QED
    BY <2>2, <2>3
<1>8. InTime'
  BY <1>1, <1>7 DEF InTime
<1>9. Timed'
  BY <1>2, <1>6 DEF Timed
<1> QED
  BY <1>1, <1>5, <1>8, <1>9 DEF WheelInv

LEMMA WheelRegister ==
  ASSUME WheelInv, NEW t \in Timers, NEW n \in Timeouts, Register(t, n)
  PROVE  WheelInv'
<1> DEFINE l == LevelOf(n)
           s == Cut(n)
           r == now + s
           late == (pc = "tick")
<1>1. FreeInv' /\ FreeInv
  BY FreeRegister DEF WheelInv
<1>2. /\ l \in 0..(Levels - 1) /\ s \in Nat /\ Span[l] <= s /\ s <= Span[l + 1]
      /\ now \in Int /\ lt \in Int /\ lt <= now /\ r \in Int
      /\ late \in BOOLEAN
  BY <1>1, LevelFits DEF FreeInv, ClockOK
<1>3. /\ t \notin DOMAIN timer /\ t \notin DOMAIN at /\ t \notin due
      /\ DOMAIN timer' = DOMAIN timer \cup {t} /\ DOMAIN at' = DOMAIN at \cup {t}
      /\ timer'[t] = [numsec |-> s, level |-> l, runat |-> r, stop |-> FALSE, late |-> late]
      /\ at'[t] = SlotOf(l, r)
      /\ \A u \in DOMAIN timer : timer'[u] = timer[u] /\ at'[u] = at[u]
      /\ UNCHANGED <<now, lt, due, called, pc>> /\ TurnedTo' = TurnedTo
  BY DEF Register, WheelInv, Timed, FreeInv, NoneFreedWhileRunning, TurnedTo
<1>4. Ahead(r, late, l, TurnedTo)
  <2>1. Turn(r, l) > Turn(now, l) /\ Turn(r, l) <= Turn(now, l) + Size
    <3> HIDE DEF l, s
    <3> QED
      BY <1>2, AheadNew
  <2>2. Turn(lt, l) <= Turn(now, l)
    <3>1. Span[l] \in Nat \ {0}
      <4> HIDE DEF l
      <4> QED
        BY <1>2, TurnType
    <3> HIDE DEF l
    <3> QED
      BY <1>2, <3>1, DivUp DEF Turn
  <2>3. /\ Turn(r, l) \in Int /\ Turn(now, l) \in Int /\ Turn(lt, l) \in Int
    <3> HIDE DEF l, r
    <3> QED
      BY <1>2, TurnType
  <2>4. CASE late
    <3>1. TurnedTo = lt
      BY <2>4 DEF TurnedTo
    <3> HIDE DEF l, r
    <3> QED
      BY <2>1, <2>2, <2>3, <2>4, <3>1 DEF Ahead
  <2>5. CASE ~late
    <3>1. TurnedTo = now
      <4>1. pc \in {"sleep", "call"}
        BY <2>5 DEF WheelInv, Asleep, late
      <4> QED
        BY <4>1 DEF TurnedTo, WheelInv, Asleep
    <3> HIDE DEF l, r
    <3> QED
      BY <2>1, <3>1 DEF Ahead
  <2> QED
    BY <2>4, <2>5
<1> HIDE DEF l, s, r, late
<1>5. Timed' /\ HasStop' /\ Asleep'
  <2>1. Asleep'
    BY <1>3 DEF WheelInv, Asleep
  <2>2. HasStop'
    <3>1. DOMAIN timer'[t] = {"numsec", "level", "runat", "stop", "late"}
          /\ timer'[t].stop = FALSE
      BY <1>3
    <3> QED
      BY <1>3, <3>1 DEF WheelInv, HasStop
  <2>3. /\ timer'[t].level = l /\ timer'[t].numsec = s
        /\ timer'[t].runat = r /\ timer'[t].late = late
    BY <1>3
  <2>4. Timed'
    BY <1>2, <1>3, <2>3 DEF WheelInv, Timed
  <2> QED
    BY <2>1, <2>2, <2>4
<1>6. InTime'
  BY <1>2, <1>3, <1>4 DEF WheelInv, InTime, Timed
<1> QED
  BY <1>1, <1>5, <1>6 DEF WheelInv

LEMMA WheelStop ==
  ASSUME WheelInv, NEW t \in Timers, Stop(t)
  PROVE  WheelInv'
<1>1. FreeInv' /\ UNCHANGED <<now, lt, due, called, pc>> /\ TurnedTo' = TurnedTo
      /\ DOMAIN at = DOMAIN timer
  BY FreeStop DEF WheelInv, Stop, TurnedTo, Timed
<1>2. CASE MayFree(t)
  <2>1. /\ DOMAIN timer' = DOMAIN timer \ {t} /\ DOMAIN at' = DOMAIN at \ {t}
        /\ \A u \in DOMAIN timer \ {t} : timer'[u] = timer[u] /\ at'[u] = at[u]
    BY <1>1, <1>2 DEF Stop
  <2> QED
    BY <1>1, <2>1 DEF WheelInv, Timed, HasStop, Asleep, InTime
<1>3. CASE ~MayFree(t)
  <2> DEFINE x == timer[t]
             y == [x EXCEPT !.stop = TRUE]
  <2>1. /\ t \in DOMAIN timer /\ timer' = [timer EXCEPT ![t] = y] /\ at' = at
        /\ t \in due
    BY <1>3 DEF Stop, MayFree, Running
  <2>2. DOMAIN x = {"numsec", "level", "runat", "stop", "late"}
    BY <2>1 DEF WheelInv, HasStop
  <2>3. /\ DOMAIN y = DOMAIN x /\ ("stop" \in DOMAIN x => y.stop = TRUE)
        /\ \A f \in DOMAIN x : f # "stop" => y[f] = x[f]
    <3> HIDE DEF x
    <3> QED
      OBVIOUS
  <2>4. /\ DOMAIN y = {"numsec", "level", "runat", "stop", "late"} /\ y.stop = TRUE
        /\ y.runat = x.runat /\ y.late = x.late /\ y.level = x.level
        /\ y.numsec = x.numsec
    <3> HIDE DEF x, y
    <3> QED
      BY <2>2, <2>3
  <2>5. /\ DOMAIN timer' = DOMAIN timer /\ timer'[t] = y
        /\ \A u \in DOMAIN timer : u # t => timer'[u] = timer[u]
    <3> HIDE DEF y
    <3> QED
      BY <2>1
  <2> HIDE DEF y
  <2>6. Timed' /\ HasStop'
    BY <1>1, <2>1, <2>4, <2>5 DEF WheelInv, Timed, HasStop
  <2>7. InTime'
    BY <1>1, <2>1, <2>4, <2>5 DEF WheelInv, InTime
  <2> QED
    BY <1>1, <2>6, <2>7 DEF WheelInv, Asleep
<1> QED
  BY <1>2, <1>3

LEMMA WheelStep == WheelInv /\ [Next]_vars => WheelInv'
<1> SUFFICES ASSUME WheelInv, [Next]_vars PROVE WheelInv'
  OBVIOUS
<1>1. FreeInv'
  BY FreeStep DEF WheelInv
<1>2. CASE Look
  <2>1. /\ UNCHANGED <<lt, timer, at, due>> /\ pc = "sleep" /\ pc' = "tick"
        /\ TurnedTo' = TurnedTo
    BY <1>2 DEF Look, TurnedTo
  <2> QED
    BY <1>1, <2>1 DEF WheelInv, HasStop, Timed, Asleep, InTime
<1>3. ASSUME NEW t \in Timers, Call(t) PROVE WheelInv'
  <2>1. UNCHANGED <<now, lt, timer, at, due, pc, TurnedTo>>
    BY <1>3 DEF Call, TurnedTo
  <2> QED
    BY <1>1, <2>1 DEF WheelInv, HasStop, Timed, Asleep, InTime
<1>4. CASE UNCHANGED vars
  <2>1. UNCHANGED <<now, lt, timer, at, due, pc, TurnedTo>>
    BY <1>4 DEF vars, TurnedTo
  <2> QED
    BY <1>1, <2>1 DEF WheelInv, HasStop, Timed, Asleep, InTime
<1> QED
  BY <1>2, <1>3, <1>4, WheelPrepare, WheelRearm, WheelRegister, WheelStop DEF Next

LEMMA WheelCalls == WheelInv => CallsOnTime
<1> SUFFICES ASSUME WheelInv PROVE NoneMissed /\ NoneEarly
  BY DEF CallsOnTime
<1>1. now \in Int /\ DOMAIN at = DOMAIN timer /\ due \subseteq DOMAIN timer
  BY DEF WheelInv, FreeInv, ClockOK, Timed, NoneFreedWhileRunning
<1>2. NoneMissed
  <2> SUFFICES ASSUME pc = "sleep", NEW t \in DOMAIN timer PROVE timer[t].runat > now
    BY DEF NoneMissed
  <2>1. t \notin due /\ TurnedTo = now
    BY DEF WheelInv, FreeInv, ListWhileCalling, TurnedTo, Asleep
  <2>2. PICK m \in 0..(Levels - 1) : Ahead(timer[t].runat, timer[t].late, m, now)
    BY <1>1, <2>1 DEF WheelInv, InTime
  <2>3. timer[t].runat \in Int
    BY DEF WheelInv, Timed
  <2>4. Turn(timer[t].runat, m) > Turn(now, m)
    BY <2>2 DEF Ahead
  <2>5. ASSUME timer[t].runat <= now PROVE Turn(timer[t].runat, m) <= Turn(now, m)
    BY <1>1, <2>3, <2>5, TurnType, DivUp DEF Turn
  <2>6. Turn(timer[t].runat, m) \in Int /\ Turn(now, m) \in Int
    BY <1>1, <2>3, TurnType
  <2> QED
    BY <1>1, <2>3, <2>4, <2>5, <2>6
<1>3. NoneEarly
  <2> SUFFICES ASSUME pc = "call", NEW t \in due \ called, t \in DOMAIN timer
               PROVE  timer[t].runat <= now \/ timer[t].late
    BY DEF NoneEarly
  <2> QED
    BY <1>1 DEF WheelInv, InTime, TurnedTo
<1> QED
  BY <1>2, <1>3

(* timer_prepare_timers and ptimer_register agree on where a timer is: it is *)
(* called at the first look at the clock from its second on, never before,   *)
(* and a late one only early.                                              *)
THEOREM WheelOnTime == Spec => []CallsOnTime
<1>1. Init => WheelInv
  BY WheelInit
<1>2. WheelInv /\ [Next]_vars => WheelInv'
  BY WheelStep
<1>3. WheelInv => CallsOnTime
  BY WheelCalls
<1> QED
  BY <1>1, <1>2, <1>3, PTL DEF Spec

----------------------------------------------------------------------------
(* The cache and the throttled functions.                                  *)


all == <<vars, uvars>>
Names == DOMAIN timer \subseteq Timers

----------------------------------------------------------------------------
(* Every step of theirs is a step of Timer, or none of its business.         *)

(* A timer that is stopped twice is stopped once.                          *)
LEMMA StopsOnce ==
  ASSUME NEW t, Names, StopAgain(t) PROVE [Next]_vars
<1>1. CASE timer[t].stop
  BY <1>1 DEF StopAgain
<1>2. CASE ~timer[t].stop
  <2>1. Stop(t)
    BY <1>2 DEF StopAgain
  <2>2. t \in Timers
    BY <2>1 DEF Stop, Names
  <2> QED
    BY <2>1, <2>2 DEF Next
<1> QED
  BY <1>1, <1>2

LEMMA NamesStep == Names /\ [Next]_vars => Names'
<1> SUFFICES ASSUME Names, [Next]_vars PROVE Names'
  OBVIOUS
<1> USE DEF Names
<1>1. CASE Look \/ Prepare \/ UNCHANGED vars \/ \E t \in Timers : Call(t)
  BY <1>1 DEF Look, Prepare, Call, vars
<1>2. CASE Rearm
  BY <1>2 DEF Rearm
<1>3. ASSUME NEW t \in Timers, Stop(t) PROVE Names'
  BY <1>3 DEF Stop
<1>4. ASSUME NEW t \in Timers, NEW n \in Timeouts, Register(t, n) PROVE Names'
  BY <1>4 DEF Register
<1> QED
  BY <1>1, <1>2, <1>3, <1>4 DEF Next

LEMMA UsersStep == Names /\ [UsersNext]_all => [Next]_vars
<1> SUFFICES ASSUME Names, [UsersNext]_all PROVE [Next]_vars
  OBVIOUS
<1>1. CASE UNCHANGED all \/ RunThrottled \/ RunFirst \/ \E op, ks : Scan(op, ks)
  BY <1>1 DEF all, RunThrottled, RunFirst, Scan
<1>2. CASE Thread
  BY <1>2 DEF Thread, Next
<1>3. CASE StopSelf
  BY <1>3, StopsOnce DEF StopSelf
<1>4. ASSUME NEW t \in Timers, Visit(t) PROVE [Next]_vars
  BY <1>4, StopsOnce DEF Visit
<1>5. ASSUME NEW t \in Timers,
             CacheTimer(t) \/ RunAgain(t) \/ Unthrottle(t) \/ CallPlain(t)
      PROVE  Next
  <2>1. Call(t)
    BY <1>5 DEF CacheTimer, RunAgain, Unthrottle, CallPlain
  <2> QED
    BY <2>1 DEF Next
<1>6. ASSUME NEW t \in Timers, StopPlain(t) PROVE Next
  BY <1>6 DEF StopPlain, Next
<1>7. ASSUME NEW t \in Timers, NEW n \in Timeouts, RegisterPlain(t, n) PROVE Next
  BY <1>7 DEF RegisterPlain, Next
<1>8. ASSUME NEW t \in Timers, RegisterNode(t) PROVE Next
  BY <1>8, UsersAssumption DEF RegisterNode, Next
<1>9. ASSUME NEW t \in Timers, NEW k, NEW n \in FreeAfter, CacheAdd(t, k, n) PROVE Next
  BY <1>9, UsersAssumption DEF CacheAdd, Next
<1> QED
  BY <1>1, <1>2, <1>3, <1>4, <1>5, <1>6, <1>7, <1>8, <1>9 DEF UsersNext

(* pcache.c and prunthrottled.c use ptimer_register and ptimer_stop as     *)
(* ptimer.c means them: seen from the wheel, they are any other users.     *)
THEOREM UsersImplement == UsersSpec => Spec
<1>1. UsersInit => Init /\ Names
  BY DEF UsersInit, Init, Names
<1>2. Names /\ [UsersNext]_all => [Next]_vars /\ Names'
  BY UsersStep, NamesStep
<1> QED
  BY <1>1, <1>2, PTL DEF UsersSpec, Spec, all

(* So nobody frees a timer the thread has, no timer of theirs is late, and *)
(* one that was stopped never runs again (pcache.c relies on all three).   *)
THEOREM UsersOnTime ==
  UsersSpec => []NoneFreedWhileRunning /\ []CallsOnTime /\ StopsForGood
BY UsersImplement, ListStaysAllocated, WheelOnTime, NeverAgain, PTL

----------------------------------------------------------------------------
(* What a step of Timer does to the timers, under its invariants.            *)

(* Callbacks run only on the thread's list, and every timer has one.         *)
Calls ==
    /\ called \subseteq due /\ DOMAIN fun = DOMAIN timer
    /\ ending # None => ending \in called

Base == WheelInv /\ StopInv /\ Names /\ Calls

\* u is the timer it was, but for the mark that stops it.
Same(u) ==
    /\ timer'[u].numsec = timer[u].numsec /\ timer'[u].runat = timer[u].runat
    /\ timer'[u].late = timer[u].late

LEMMA StopFacts ==
  ASSUME NEW t, Base, Stop(t)
  PROVE  /\ t \in DOMAIN timer /\ UNCHANGED <<now, due, called, pc>>
         /\ DOMAIN timer' = IF t \in due THEN DOMAIN timer ELSE DOMAIN timer \ {t}
         /\ t \in due => timer'[t].stop
         /\ \A u \in DOMAIN timer' : Same(u) /\ (u # t => timer'[u].stop = timer[u].stop)
<1>1. /\ t \in DOMAIN timer /\ UNCHANGED <<now, due, called, pc>>
      /\ DOMAIN timer[t] = {"numsec", "level", "runat", "stop", "late"}
  BY DEF Stop, Base, StopInv, HasStop
<1>2. CASE t \in due
  <2>1. timer' = [timer EXCEPT ![t].stop = TRUE]
    BY <1>2 DEF Stop, MayFree, Running
  <2>2. timer' = [timer EXCEPT ![t] = [timer[t] EXCEPT !.stop = TRUE]]
    BY <2>1
  <2>3. DOMAIN timer' = DOMAIN timer /\ timer'[t] = [timer[t] EXCEPT !.stop = TRUE]
        /\ \A u \in DOMAIN timer \ {t} : timer'[u] = timer[u]
    BY <1>1, <2>2
  <2>4. timer'[t].stop /\ Same(t)
    BY <1>1, <2>3 DEF Same
  <2> QED
    BY <1>1, <1>2, <2>3, <2>4 DEF Same
<1>3. CASE t \notin due
  BY <1>1, <1>3 DEF Stop, MayFree, Running, Same
<1> QED
  BY <1>2, <1>3

LEMMA RegisterFacts ==
  ASSUME NEW t, NEW n, Register(t, n)
  PROVE  /\ t \notin DOMAIN timer /\ UNCHANGED <<now, due, called, pc>>
         /\ DOMAIN timer' = DOMAIN timer \cup {t}
         /\ timer'[t].numsec = Cut(n) /\ timer'[t].runat = now + Cut(n)
         /\ timer'[t].stop = FALSE
         /\ \A u \in DOMAIN timer : timer'[u] = timer[u]
BY DEF Register

LEMMA RearmFacts ==
  ASSUME Base, Rearm
  PROVE  /\ due' = {} /\ called' = {} /\ now' = now /\ called = due
         /\ DOMAIN timer' = {t \in DOMAIN timer : t \in due => ~timer[t].stop}
         /\ \A u \in DOMAIN timer' : u \notin due => timer'[u] = timer[u]
         /\ \A u \in DOMAIN timer' : u \in due =>
               /\ timer'[u].numsec = timer[u].numsec
               /\ timer'[u].runat = now + timer[u].numsec
               /\ timer'[u].stop = FALSE
<1>1. /\ due' = {} /\ called' = {} /\ now' = now /\ called = due
      /\ DOMAIN timer' = {t \in DOMAIN timer : t \in due => ~timer[t].stop}
  BY DEF Rearm, Kept
<1>2. ASSUME NEW u \in DOMAIN timer', u \notin due PROVE timer'[u] = timer[u]
  BY <1>2 DEF Rearm, Kept
<1>3. ASSUME NEW u \in DOMAIN timer', u \in due
      PROVE  /\ timer'[u].numsec = timer[u].numsec
             /\ timer'[u].runat = now + timer[u].numsec
             /\ timer'[u].stop = FALSE
  <2>1. DOMAIN timer[u] = {"numsec", "level", "runat", "stop", "late"}
    BY <1>1 DEF Base, StopInv, HasStop
  <2>2. timer'[u] = [timer[u] EXCEPT !.runat = now + timer[u].numsec,
                                     !.stop = FALSE, !.late = FALSE]
    BY <1>3 DEF Rearm, Kept
  <2> QED
    BY <2>1, <2>2
<1> QED
  BY <1>1, <1>2, <1>3

LEMMA ThreadFacts ==
  ASSUME Base, Look \/ Prepare
  PROVE  timer' = timer /\ called' = called /\ called = {} /\ now' \in Int /\ now' >= now
<1>1. due = {} /\ called = {} /\ now \in Int
  BY DEF Look, Prepare, Base, Calls, StopInv, ListWhileCalling, WheelInv, FreeInv, ClockOK
<1>2. now' \in Int /\ now' >= now
  BY <1>1, WheelAssumption DEF Look, Prepare
<1> QED
  BY <1>1, <1>2 DEF Look, Prepare

(* Timers that stop themselves, or are stopped, are the thread's or free.     *)
LEMMA StopAgainFacts ==
  ASSUME NEW t \in DOMAIN timer, Base, StopAgain(t)
  PROVE  /\ UNCHANGED <<now, due, called, pc>>
         /\ DOMAIN timer' = IF t \in due THEN DOMAIN timer ELSE DOMAIN timer \ {t}
         /\ t \in due => timer'[t].stop
         /\ \A u \in DOMAIN timer' : Same(u) /\ (u # t => timer'[u].stop = timer[u].stop)
<1>1. CASE timer[t].stop
  BY <1>1 DEF StopAgain, vars, Base, StopInv, StoppedIsDue, Same
<1>2. CASE ~timer[t].stop
  BY <1>2, StopFacts DEF StopAgain
<1> QED
  BY <1>1, <1>2

(* The steps of pcache.c, for who has which entry: besides OwnersAgree, a  *)
(* scan has only entries of the list, and a callback of the cache that is  *)
(* over, or about to be, has its timer marked.                             *)
Listed == OwnersAgree /\ scan.left \subseteq DOMAIN bucket /\ DOMAIN scan = {"op", "left"}
Ended == \A t \in called : fun[t] = "cache" => timer[t].stop \/ t = ending
OwnInv == Base /\ Listed /\ Ended

LEMMA Names2 ==
  ASSUME Base
  PROVE  /\ None \notin Timers /\ due \subseteq DOMAIN timer /\ DOMAIN timer \subseteq Timers
         /\ called \subseteq due /\ DOMAIN fun = DOMAIN timer
BY UsersAssumption
   DEF Base, Calls, Names, None, WheelInv, FreeInv, NoneFreedWhileRunning

(* ptimer_stop by the callback itself.                                     *)
LEMMA OwnStopSelf == OwnInv /\ StopSelf => Calls' /\ Listed' /\ Ended'
<1> SUFFICES ASSUME OwnInv, StopSelf PROVE Calls' /\ Listed' /\ Ended'
  OBVIOUS
<1> DEFINE t == ending
<1>1. t # None /\ t \in called /\ t \in due /\ t \in DOMAIN timer /\ Base
  BY Names2 DEF OwnInv, StopSelf, Base, Calls
<1>2. /\ UNCHANGED <<now, due, called, pc>> /\ DOMAIN timer' = DOMAIN timer
      /\ timer'[t].stop /\ fun' = [u \in DOMAIN timer' |-> fun[u]]
      /\ \A u \in DOMAIN timer' : u # t => timer'[u].stop = timer[u].stop
      /\ ending' = None /\ UNCHANGED <<bucket, scan>>
  <2>1. StopAgain(t)
    BY DEF StopSelf
  <2>2. fun' = [u \in DOMAIN timer' |-> IF u \in DOMAIN timer THEN fun[u] ELSE "plain"]
        /\ ending' = None /\ UNCHANGED <<bucket, scan>>
    BY DEF StopSelf, Fun, cache
  <2> HIDE DEF t
  <2>3. /\ UNCHANGED <<now, due, called, pc>> /\ DOMAIN timer' = DOMAIN timer
        /\ timer'[t].stop
        /\ \A u \in DOMAIN timer' : u # t => timer'[u].stop = timer[u].stop
    BY <1>1, <2>1, StopAgainFacts
  <2> QED
    BY <2>2, <2>3
<1>3. Calls'
  BY <1>1, <1>2 DEF Base, Calls
<1>4. Listed'
  BY <1>1, <1>2 DEF OwnInv, Listed, OwnersAgree
<1>5. Ended'
  BY <1>1, <1>2, Names2 DEF OwnInv, Ended
<1> QED
  BY <1>3, <1>4, <1>5

(* An entry that was visited is either gone with its timer, or stays with  *)
(* it until the callback takes it off the list.                            *)
LEMMA OwnVisit ==
  ASSUME NEW t \in Timers, OwnInv, Visit(t)
  PROVE  Calls' /\ Listed' /\ Ended'
<1>1. t \in DOMAIN bucket /\ t \in DOMAIN timer /\ t \notin called /\ fun[t] = "cache"
  BY DEF OwnInv, Visit, Listed, OwnersAgree
<1>2. /\ UNCHANGED <<now, due, called, pc>> /\ ending' = ending
      /\ DOMAIN timer' = IF t \in due THEN DOMAIN timer ELSE DOMAIN timer \ {t}
      /\ \A u \in DOMAIN timer' : u # t => timer'[u].stop = timer[u].stop
      /\ fun' = [u \in DOMAIN timer' |-> fun[u]]
  <2>1. StopAgain(t) /\ Fun("plain") /\ ending' = ending
    BY DEF Visit
  <2>2. /\ UNCHANGED <<now, due, called, pc>>
        /\ DOMAIN timer' = IF t \in due THEN DOMAIN timer ELSE DOMAIN timer \ {t}
        /\ \A u \in DOMAIN timer' : u # t => timer'[u].stop = timer[u].stop
    BY <1>1, <2>1, StopAgainFacts DEF OwnInv
  <2> QED
    BY <2>1, <2>2 DEF Fun
<1>3. DOMAIN bucket' = IF t \in due THEN DOMAIN bucket ELSE DOMAIN bucket \ {t}
  BY DEF Visit, Taken, MayFree, Running, Without
<1>4. scan'.left \subseteq scan.left /\ (t \notin due => t \notin scan'.left)
      /\ DOMAIN scan' = {"op", "left"}
  <2> DEFINE rest == IF Taken(t) /\ scan.op = "take" THEN {} ELSE scan.left \ {t}
  <2>1. scan' = IF rest = {} THEN NoScan ELSE [scan EXCEPT !.left = rest]
    BY DEF Visit
  <2>2. rest \subseteq scan.left \ {t} /\ DOMAIN scan = {"op", "left"}
    BY DEF OwnInv, Listed
  <2> HIDE DEF rest
  <2> QED
    BY <2>1, <2>2 DEF NoScan
<1>5. Calls'
  BY <1>1, <1>2, Names2 DEF OwnInv, Base, Calls
<1>6. Listed'
  BY <1>1, <1>2, <1>3, <1>4 DEF OwnInv, Listed, OwnersAgree
<1>7. Ended'
  BY <1>1, <1>2, Names2 DEF OwnInv, Ended
<1> QED
  BY <1>5, <1>6, <1>7

(* A new timer is not called before the list has its entry.                *)
LEMMA OwnRegister ==
  ASSUME NEW t, NEW n, NEW kind, OwnInv, Register(t, n), Fun(kind),
         UNCHANGED <<scan, ending>>,
         DOMAIN bucket' = IF kind = "cache" THEN DOMAIN bucket \cup {t} ELSE DOMAIN bucket
  PROVE  Calls' /\ Listed' /\ Ended'
<1>1. /\ t \notin DOMAIN timer /\ UNCHANGED <<now, due, called, pc>>
      /\ DOMAIN timer' = DOMAIN timer \cup {t}
      /\ \A u \in DOMAIN timer : timer'[u] = timer[u]
  BY RegisterFacts
<1>2. fun' = [u \in DOMAIN timer' |-> IF u \in DOMAIN timer THEN fun[u] ELSE kind]
  BY DEF Fun
<1>3. Calls'
  BY <1>1, <1>2 DEF OwnInv, Base, Calls
<1>4. Listed'
  BY <1>1, <1>2, Names2 DEF OwnInv, Listed, OwnersAgree
<1>5. Ended'
  BY <1>1, <1>2, Names2 DEF OwnInv, Ended
<1> QED
  BY <1>3, <1>4, <1>5

(* A callback of the cache takes its entry off the list; others leave it.  *)
LEMMA OwnCall ==
  ASSUME NEW t, OwnInv, Call(t), fun' = fun, ending = None,
         \/ /\ fun[t] = "cache" /\ ending' = t /\ scan = NoScan /\ scan' = scan
            /\ bucket' = Without(t)
         \/ fun[t] # "cache" /\ ending' \in {None, t} /\ UNCHANGED cache
  PROVE  Calls' /\ Listed' /\ Ended'
<1>1. /\ t \in due /\ t \notin called /\ called' = called \cup {t}
      /\ UNCHANGED <<timer, due, now, pc>>
  BY DEF Call
<1>2. t \in DOMAIN timer
  BY <1>1, Names2 DEF OwnInv
<1>3. Calls'
  BY <1>1 DEF OwnInv, Base, Calls, cache
<1>4. DOMAIN bucket' = IF fun[t] = "cache" THEN DOMAIN bucket \ {t} ELSE DOMAIN bucket
  BY DEF Without, cache
<1>5. scan' = scan /\ (fun[t] = "cache" => scan.left = {})
  BY DEF cache, NoScan
<1>6. Listed'
  BY <1>1, <1>2, <1>4, <1>5 DEF OwnInv, Listed, OwnersAgree
<1>7. ASSUME NEW u \in called', fun'[u] = "cache" PROVE timer'[u].stop \/ u = ending'
  <2>1. CASE u = t
    BY <1>7, <2>1
  <2>2. CASE u # t
    BY <1>1, <1>7, <2>2, Names2 DEF OwnInv, Ended
  <2> QED
    BY <2>1, <2>2
<1> QED
  BY <1>3, <1>6, <1>7 DEF Ended

LEMMA OwnThread == OwnInv /\ Thread => Calls' /\ Listed' /\ Ended'
<1> SUFFICES ASSUME OwnInv, Thread PROVE Calls' /\ Listed' /\ Ended'
  OBVIOUS
<1>1. /\ fun' = [t \in DOMAIN timer' |-> IF t \in DOMAIN timer THEN fun[t] ELSE "plain"]
      /\ ending' = ending /\ UNCHANGED <<bucket, scan>>
  BY DEF Thread, Fun, cache
<1>2. CASE Look \/ Prepare
  <2>1. timer' = timer /\ called' = called /\ called = {}
    BY <1>2, ThreadFacts DEF OwnInv
  <2> QED
    BY <1>1, <2>1 DEF OwnInv, Base, Calls, Listed, OwnersAgree, Ended
<1>3. CASE ending = None /\ Rearm
  <2>1. /\ due' = {} /\ called' = {} /\ called = due
        /\ DOMAIN timer' = {t \in DOMAIN timer : t \in due => ~timer[t].stop}
    BY <1>3, RearmFacts DEF OwnInv
  <2>2. \A t \in due : fun[t] = "cache" => timer[t].stop
    BY <1>3, <2>1, Names2 DEF OwnInv, Ended
  <2>3. Calls' /\ Ended'
    BY <1>1, <1>3, <2>1 DEF Calls, Ended
  <2>4. DOMAIN bucket' = {t \in DOMAIN timer' : fun'[t] = "cache" /\ t \notin called'}
    BY <1>1, <2>1, <2>2 DEF OwnInv, Listed, OwnersAgree
  <2> QED
    BY <1>1, <2>3, <2>4 DEF OwnInv, Listed, OwnersAgree
<1> QED
  BY <1>2, <1>3 DEF Thread

LEMMA OwnStep == OwnInv /\ [UsersNext]_all => OwnInv'
<1> SUFFICES ASSUME OwnInv, [UsersNext]_all PROVE OwnInv'
  OBVIOUS
<1>1. [Next]_vars
  BY UsersStep DEF OwnInv, Base
<1>2. WheelInv' /\ StopInv' /\ Names'
  BY <1>1, WheelStep, StopStep, NamesStep DEF OwnInv, Base
<1>3. SUFFICES Calls' /\ Listed' /\ Ended'
  BY <1>2 DEF OwnInv, Base
<1>4. CASE UNCHANGED all \/ RunThrottled \/ RunFirst
  <2>1. UNCHANGED <<due, called, timer, fun, bucket, scan, ending>>
    BY <1>4 DEF all, vars, uvars, cache, RunThrottled, RunFirst
  <2> QED
    BY <2>1 DEF OwnInv, Base, Calls, Listed, OwnersAgree, Ended
<1>5. ASSUME NEW op, NEW ks, Scan(op, ks) PROVE Calls' /\ Listed' /\ Ended'
  <2>1. UNCHANGED <<due, called, timer, fun, bucket, ending>>
    BY <1>5 DEF vars, Scan
  <2>2. scan'.left \subseteq DOMAIN bucket /\ DOMAIN scan' = {"op", "left"}
    BY <1>5 DEF Scan, Having
  <2> QED
    BY <2>1, <2>2 DEF OwnInv, Base, Calls, Listed, OwnersAgree, Ended
<1>6. ASSUME NEW t \in Timers, CacheTimer(t) PROVE Calls' /\ Listed' /\ Ended'
  <2>1. Call(t) /\ fun' = fun /\ ending = None /\ scan' = scan
    BY <1>6 DEF CacheTimer
  <2>2. fun[t] = "cache" /\ ending' = t /\ scan = NoScan /\ bucket' = Without(t)
    BY <1>6 DEF CacheTimer
  <2> QED
    BY <2>1, <2>2, OwnCall
<1>7. ASSUME NEW t \in Timers, RunAgain(t) \/ Unthrottle(t) \/ CallPlain(t)
      PROVE  Calls' /\ Listed' /\ Ended'
  <2>1. Call(t) /\ fun' = fun /\ ending = None /\ fun[t] # "cache"
    BY <1>7 DEF RunAgain, Unthrottle, CallPlain, uvars
  <2>2. ending' \in {None, t} /\ UNCHANGED cache
    BY <1>7, <2>1 DEF RunAgain, Unthrottle, CallPlain, uvars, cache
  <2> QED
    BY <2>1, <2>2, OwnCall
<1>8. ASSUME NEW t \in Timers, NEW k, NEW n, CacheAdd(t, k, n)
      PROVE  Calls' /\ Listed' /\ Ended'
  <2>1. Register(t, n) /\ Fun("cache") /\ UNCHANGED <<scan, ending>>
        /\ DOMAIN bucket' = DOMAIN bucket \cup {t}
    BY <1>8 DEF CacheAdd
  <2> QED
    BY <2>1, OwnRegister
<1>9. ASSUME NEW t \in Timers, NEW n, RegisterPlain(t, n) PROVE Calls' /\ Listed' /\ Ended'
  <2>1. Register(t, n) /\ Fun("plain") /\ UNCHANGED <<scan, ending, bucket>>
    BY <1>9 DEF RegisterPlain, cache
  <2> QED
    BY <2>1, OwnRegister
<1>10. ASSUME NEW t \in Timers, RegisterNode(t) PROVE Calls' /\ Listed' /\ Ended'
  <2>1. Register(t, Interval) /\ Fun("throttle") /\ UNCHANGED <<scan, ending, bucket>>
    BY <1>10 DEF RegisterNode, cache
  <2> QED
    BY <2>1, OwnRegister
<1>11. ASSUME NEW t \in Timers, StopPlain(t) PROVE Calls' /\ Listed' /\ Ended'
  <2>1. /\ fun' = [u \in DOMAIN timer' |-> IF u \in DOMAIN timer THEN fun[u] ELSE "plain"]
        /\ UNCHANGED <<scan, ending, bucket>> /\ fun[t] = "plain"
    BY <1>11 DEF StopPlain, Fun, cache
  <2>2. /\ t \in DOMAIN timer /\ UNCHANGED <<now, due, called, pc>>
        /\ DOMAIN timer' = IF t \in due THEN DOMAIN timer ELSE DOMAIN timer \ {t}
        /\ \A u \in DOMAIN timer' : u # t => timer'[u].stop = timer[u].stop
    BY <1>11, StopFacts DEF StopPlain, OwnInv
  <2>3. Calls'
    BY <2>1, <2>2 DEF OwnInv, Base, Calls
  <2>4. Listed'
    BY <2>1, <2>2 DEF OwnInv, Listed, OwnersAgree
  <2>5. Ended'
    BY <2>1, <2>2, Names2 DEF OwnInv, Ended
  <2> QED
    BY <2>3, <2>4, <2>5
<1> QED
  BY <1>4, <1>5, <1>6, <1>7, <1>8, <1>9, <1>10, <1>11, OwnStopSelf, OwnVisit, OwnThread
     DEF UsersNext

LEMMA OwnInit == UsersInit => OwnInv
<1> SUFFICES ASSUME UsersInit PROVE OwnInv
  OBVIOUS
<1>1. WheelInv /\ StopInv
  BY WheelInit, StopInit DEF UsersInit
<1>2. /\ DOMAIN timer = {} /\ due = {} /\ called = {} /\ DOMAIN fun = {} /\ DOMAIN bucket = {}
      /\ scan = NoScan /\ ending = None
  BY DEF UsersInit, Init
<1>3. scan.left = {} /\ DOMAIN scan = {"op", "left"}
  BY <1>2 DEF NoScan
<1> QED
  BY <1>1, <1>2, <1>3 DEF OwnInv, Base, Names, Calls, Listed, OwnersAgree, Ended

(* An entry of the cache has one owner, for any number of entries and keys: *)
(* the list until its timer is called or somebody takes it, and never both   *)
(* the callback (cache_timer) and a lookup (pcache_get).                     *)
THEOREM OneOwner == UsersSpec => []OwnersAgree
<1>1. OwnInv => OwnersAgree
  BY DEF OwnInv, Listed
<1> QED
  BY <1>1, OwnInit, OwnStep, PTL DEF UsersSpec, all

----------------------------------------------------------------------------
(* The throttled function.                                                   *)

(* The timers with the callback ratelimit_timer are the node's, or one     *)
(* whose node is gone and that ends.                                       *)
NodeType ==
    /\ DOMAIN node = {"scheduled", "at"} /\ node.scheduled \in BOOLEAN
    /\ node.at \in {None, "run", "register"} \cup Timers
Held ==
    \A t \in DOMAIN timer :
        fun[t] = "throttle" => node.at = t \/ (t \in called /\ (timer[t].stop \/ t = ending))
Holds ==
    node.at \in Timers =>
        /\ node.at \in DOMAIN timer /\ fun[node.at] = "throttle"
        /\ ~timer[node.at].stop /\ ending # node.at

(* The next run is due no sooner than Interval after the last one.         *)
Spaced ==
    /\ last \in Int /\ last <= now
    /\ node.at \in {None, "run"} => now - last >= Interval
    /\ node.at \in Timers =>
          /\ timer[node.at].numsec = Interval
          /\ node.at \in called \/ timer[node.at].late
             \/ timer[node.at].runat - last >= Interval

RunInv == NodeType /\ Held /\ Holds /\ NoneForgotten /\ Spaced

LEMMA Clock == Base => now \in Nat /\ Interval \in Nat \ {0} /\ Cut(Interval) = Interval
<1>1. Interval \in Nat \ {0} /\ Interval <= Span[Levels]
  BY UsersAssumption, WheelAssumption
<1>2. Span[Levels] \in Int
  BY SpanFacts, WheelAssumption
<1>3. Cut(Interval) = Interval
  BY <1>1, <1>2 DEF Cut
<1> QED
  BY <1>1, <1>3 DEF Base, WheelInv, FreeInv, ClockOK

(* Marks and places are apart from timers.                                 *)
LEMMA Places2 == None \notin Timers /\ "run" \notin Timers /\ "register" \notin Timers
                 /\ None # "run" /\ None # "register"
BY UsersAssumption DEF None

(* What neither touches the node nor its timer changes nothing.            *)
LEMMA RunKept ==
  ASSUME OwnInv, RunInv, UNCHANGED throttle, now' \in Int, now' >= now,
         \A t \in DOMAIN timer : fun[t] = "throttle" => t \in DOMAIN timer',
         \A t \in DOMAIN timer' :
            IF t \in DOMAIN timer
            THEN /\ fun'[t] = fun[t]
                 /\ fun[t] = "throttle" =>
                       /\ timer'[t].stop = timer[t].stop /\ Same(t)
                       /\ t \in called' <=> t \in called
                       /\ t = ending' <=> t = ending
            ELSE fun'[t] # "throttle"
  PROVE  RunInv'
<1>1. node' = node /\ asked' = asked /\ last' = last
  BY DEF throttle
<1>2. now \in Int /\ Interval \in Int
  BY Clock DEF OwnInv
<1>3. NodeType'
  BY <1>1 DEF RunInv, NodeType
<1>4. Held'
  BY <1>1 DEF RunInv, Held
<1>5. Holds'
  BY <1>1 DEF RunInv, Holds
<1>6. NoneForgotten'
  BY <1>1 DEF RunInv, NoneForgotten
<1>7. Spaced'
  <2>1. CASE node.at \in Timers
    <3>1. PICK t \in Timers : node.at = t
      BY <2>1
    <3>2. t \in DOMAIN timer /\ fun[t] = "throttle"
      BY <3>1 DEF RunInv, Holds
    <3>3. t \in DOMAIN timer' /\ Same(t) /\ (t \in called' <=> t \in called)
      BY <3>2
    <3>4. last \in Int /\ last <= now /\ timer[t].numsec = Interval
          /\ (t \in called \/ timer[t].late \/ timer[t].runat - last >= Interval)
      BY <3>1 DEF RunInv, Spaced
    <3>5. t \notin {None, "run"}
      BY <3>1, Places2
    <3>6. last <= now'
      BY <1>2, <3>4
    <3> QED
      BY <1>1, <3>1, <3>3, <3>4, <3>5, <3>6 DEF Spaced, Same
  <2>2. CASE node.at \notin Timers
    BY <1>1, <1>2, <2>2 DEF RunInv, Spaced
  <2> QED
    BY <2>1, <2>2
<1> QED
  BY <1>3, <1>4, <1>5, <1>6, <1>7 DEF RunInv

LEMMA RunInit == UsersInit => RunInv
<1> SUFFICES ASSUME UsersInit PROVE RunInv
  OBVIOUS
<1>1. /\ DOMAIN timer = {} /\ now = 0 /\ node = NoNode /\ asked = FALSE
      /\ last = -Interval /\ Interval \in Int
  BY UsersAssumption, WheelAssumption DEF UsersInit, Init, LongAgo
<1>2. DOMAIN node = {"scheduled", "at"} /\ node.scheduled = FALSE /\ node.at = None
      /\ node.at \notin Timers
  BY <1>1, Places2 DEF NoNode
<1>3. Interval \in Nat
  BY UsersAssumption, WheelAssumption
<1>4. last \in Int /\ last <= now /\ now - last >= Interval
  BY <1>1, <1>3
<1>5. NodeType /\ Held /\ Holds /\ NoneForgotten
  BY <1>1, <1>2 DEF NodeType, Held, Holds, NoneForgotten
<1>6. Spaced
  BY <1>2, <1>4 DEF Spaced
<1> QED
  BY <1>5, <1>6 DEF RunInv

(* timer_process_timers starts the node's timer again, at least Interval   *)
(* after the run it has just begun, and frees those of nodes that are gone. *)
LEMMA RunThread == OwnInv /\ RunInv /\ Thread => RunInv'
<1> SUFFICES ASSUME OwnInv, RunInv, Thread PROVE RunInv'
  OBVIOUS
<1>1. /\ fun' = [t \in DOMAIN timer' |-> IF t \in DOMAIN timer THEN fun[t] ELSE "plain"]
      /\ ending' = ending /\ UNCHANGED throttle
  BY DEF Thread, Fun
<1>2. now \in Int /\ Interval \in Nat
  BY Clock DEF OwnInv
<1>3. CASE Look \/ Prepare
  <2>1. timer' = timer /\ called' = called /\ now' \in Int /\ now' >= now
    BY <1>3, ThreadFacts DEF OwnInv
  <2> QED
    BY <1>1, <2>1, RunKept DEF Same
<1>4. CASE ending = None /\ Rearm
  <2>1. /\ called' = {} /\ now' = now /\ called = due
        /\ DOMAIN timer' = {t \in DOMAIN timer : t \in due => ~timer[t].stop}
        /\ \A u \in DOMAIN timer' : u \notin due => timer'[u] = timer[u]
        /\ \A u \in DOMAIN timer' : u \in due =>
              /\ timer'[u].numsec = timer[u].numsec
              /\ timer'[u].runat = now + timer[u].numsec
              /\ timer'[u].stop = FALSE
    BY <1>4, RearmFacts DEF OwnInv
  <2>2. node' = node /\ asked' = asked /\ last' = last
    BY <1>1 DEF throttle
  <2>3. NodeType'
    BY <2>2 DEF RunInv, NodeType
  <2>4. Held'
    <3> SUFFICES ASSUME NEW t \in DOMAIN timer', fun'[t] = "throttle" PROVE node'.at = t
      BY DEF Held
    <3>1. t \in DOMAIN timer /\ fun[t] = "throttle" /\ (t \in due => ~timer[t].stop)
      BY <1>1, <2>1
    <3>2. t # None
      BY <3>1, Names2 DEF OwnInv
    <3> QED
      BY <1>4, <2>1, <2>2, <3>1, <3>2 DEF RunInv, Held
  <2>5. Holds'
    BY <1>1, <2>1, <2>2 DEF RunInv, Holds
  <2>6. NoneForgotten'
    BY <1>1, <2>1, <2>2 DEF RunInv, NoneForgotten
  <2>7. Spaced'
    <3>1. ASSUME NEW t \in Timers, node.at = t
          PROVE  /\ timer'[t].numsec = Interval
                 /\ timer'[t].late \/ timer'[t].runat - last >= Interval
      <4>1. t \in DOMAIN timer'
        BY <2>1, <3>1 DEF RunInv, Holds
      <4>2. timer[t].numsec = Interval /\ last \in Int /\ last <= now
            /\ (t \in called \/ timer[t].late \/ timer[t].runat - last >= Interval)
        BY <3>1 DEF RunInv, Spaced
      <4>3. CASE t \in due
        BY <1>2, <2>1, <4>1, <4>2, <4>3
      <4>4. CASE t \notin due
        BY <2>1, <4>1, <4>2, <4>4
      <4> QED
        BY <4>3, <4>4
    <3> QED
      BY <2>1, <2>2, <3>1 DEF RunInv, Spaced
  <2> QED
    BY <2>3, <2>4, <2>5, <2>6, <2>7 DEF RunInv
<1> QED
  BY <1>3, <1>4 DEF Thread

(* prun_throttled: the node is marked, or made with a run to come.         *)
LEMMA RunAsked == OwnInv /\ RunInv /\ RunThrottled => RunInv'
<1> SUFFICES ASSUME OwnInv, RunInv, RunThrottled PROVE RunInv'
  OBVIOUS
<1>1. UNCHANGED <<now, timer, called, fun, last, ending>> /\ asked' = TRUE
  BY DEF RunThrottled, vars
<1>2. CASE node.at = None
  <2>1. node' = [scheduled |-> FALSE, at |-> "run"]
    BY <1>2 DEF RunThrottled
  <2>2. DOMAIN node' = {"scheduled", "at"} /\ node'.scheduled = FALSE /\ node'.at = "run"
        /\ node'.at \notin Timers
    BY <2>1, Places2
  <2>3. Held'
    BY <1>1, <1>2, Names2 DEF RunInv, Held, OwnInv
  <2> QED
    BY <1>1, <1>2, <2>2, <2>3
       DEF RunInv, NodeType, Holds, NoneForgotten, Spaced
<1>3. CASE node.at # None
  <2>1. node' = [node EXCEPT !.scheduled = TRUE]
    BY <1>3 DEF RunThrottled, Marked
  <2>2. DOMAIN node' = {"scheduled", "at"} /\ node'.scheduled = TRUE /\ node'.at = node.at
    BY <2>1 DEF RunInv, NodeType
  <2>3. node.at \in {"run", "register"} \cup Timers
    BY <1>3 DEF RunInv, NodeType
  <2>4. NodeType' /\ Held' /\ Holds' /\ Spaced'
    BY <1>1, <2>2 DEF RunInv, NodeType, Held, Holds, Spaced
  <2>5. NoneForgotten'
    BY <1>1, <2>2, <2>3 DEF RunInv, Holds, NoneForgotten
  <2> QED
    BY <2>4, <2>5 DEF RunInv
<1> QED
  BY <1>2, <1>3

LEMMA RunBegun == OwnInv /\ RunInv /\ RunFirst => RunInv'
<1> SUFFICES ASSUME OwnInv, RunInv, RunFirst PROVE RunInv'
  OBVIOUS
<1>1. /\ UNCHANGED <<now, timer, called, fun, ending>> /\ asked' = FALSE /\ last' = now
      /\ node' = [node EXCEPT !.at = "register"] /\ node.at = "run"
  BY DEF RunFirst, vars
<1>2. DOMAIN node' = {"scheduled", "at"} /\ node'.scheduled = node.scheduled
      /\ node'.at = "register" /\ node'.at \notin Timers
  BY <1>1, Places2 DEF RunInv, NodeType
<1>3. Held'
  BY <1>1, Places2, Names2 DEF RunInv, Held, OwnInv
<1>4. now \in Int
  BY Clock DEF OwnInv
<1> QED
  BY <1>1, <1>2, <1>3, <1>4, Places2
     DEF RunInv, NodeType, Holds, NoneForgotten, Spaced

(* The timer runs Interval after it is registered, so after the run.       *)
LEMMA RunRegistered ==
  ASSUME NEW t \in Timers, OwnInv, RunInv, RegisterNode(t)
  PROVE  RunInv'
<1>1. Register(t, Interval) /\ UNCHANGED <<asked, last, ending>> /\ node.at = "register"
      /\ node' = [node EXCEPT !.at = t]
      /\ fun' = [u \in DOMAIN timer' |-> IF u \in DOMAIN timer THEN fun[u] ELSE "throttle"]
  BY DEF RegisterNode, Fun
<1>2. /\ t \notin DOMAIN timer /\ UNCHANGED <<now, due, called>>
      /\ DOMAIN timer' = DOMAIN timer \cup {t}
      /\ timer'[t].numsec = Interval /\ timer'[t].runat = now + Interval
      /\ timer'[t].stop = FALSE
      /\ \A u \in DOMAIN timer : timer'[u] = timer[u]
  BY <1>1, RegisterFacts, Clock DEF OwnInv
<1>3. DOMAIN node' = {"scheduled", "at"} /\ node'.scheduled = node.scheduled
      /\ node'.at = t
  BY <1>1 DEF RunInv, NodeType
<1>4. NodeType'
  BY <1>3 DEF RunInv, NodeType
<1>5. Held'
  BY <1>1, <1>2, <1>3, Names2, Places2 DEF RunInv, Held, OwnInv
<1>6. Holds'
  <2>1. ending # t
    BY <1>2, Names2, Places2 DEF OwnInv, Base, Calls
  <2> QED
    BY <1>1, <1>2, <1>3, <2>1 DEF Holds
<1>7. NoneForgotten'
  BY <1>1, <1>2, <1>3 DEF RunInv, NoneForgotten
<1>8. Spaced'
  <2>1. last \in Int /\ last <= now /\ now \in Int /\ Interval \in Nat
    BY Clock DEF RunInv, Spaced, OwnInv
  <2>2. timer'[t].runat - last >= Interval
    BY <1>2, <2>1
  <2> QED
    BY <1>1, <1>2, <1>3, <2>1, <2>2, Places2 DEF Spaced
<1> QED
  BY <1>4, <1>5, <1>6, <1>7, <1>8 DEF RunInv

(* ratelimit_timer: the timer is the node's, and its time has come.        *)
LEMMA RunDue ==
  ASSUME NEW t, OwnInv, RunInv, Call(t), fun[t] = "throttle", ending = None
  PROVE  /\ t \in Timers /\ t \in DOMAIN timer /\ t \in due /\ node.at = t
         /\ called' = called \cup {t} /\ UNCHANGED <<now, timer, due>>
         /\ timer[t].late \/ now - last >= Interval
<1>1. /\ t \in due /\ t \notin called /\ pc = "call"
      /\ called' = called \cup {t} /\ UNCHANGED <<now, timer, due>>
  BY DEF Call
<1>2. t \in DOMAIN timer /\ t \in Timers
  BY <1>1, Names2 DEF OwnInv
<1>3. node.at = t
  BY <1>1, <1>2 DEF RunInv, Held
<1>4. timer[t].late \/ timer[t].runat - last >= Interval
  BY <1>1, <1>2, <1>3 DEF RunInv, Spaced
<1>5. timer[t].runat <= now \/ timer[t].late
  BY <1>1, <1>2, WheelCalls DEF OwnInv, Base, CallsOnTime, NoneEarly
<1>6. timer[t].runat \in Int /\ last \in Int /\ now \in Int /\ Interval \in Int
  BY <1>2, Clock DEF OwnInv, RunInv, Spaced, Base, WheelInv, Timed
<1>7. timer[t].late \/ now - last >= Interval
  BY <1>4, <1>5, <1>6
<1> QED
  BY <1>1, <1>2, <1>3, <1>7

LEMMA RunsAgain ==
  ASSUME NEW t, OwnInv, RunInv, RunAgain(t)
  PROVE  RunInv'
<1>1. /\ fun' = fun /\ ending' = ending /\ ending = None /\ asked' = FALSE /\ last' = now
      /\ node' = [node EXCEPT !.scheduled = FALSE]
  BY DEF RunAgain
<1>2. /\ t \in Timers /\ t \in DOMAIN timer /\ node.at = t
      /\ called' = called \cup {t} /\ UNCHANGED <<now, timer, due>>
  BY <1>1, RunDue DEF RunAgain
<1>3. DOMAIN node' = {"scheduled", "at"} /\ node'.scheduled = FALSE /\ node'.at = t
  BY <1>1, <1>2 DEF RunInv, NodeType
<1>4. NodeType'
  BY <1>2, <1>3 DEF NodeType
<1>5. Held' /\ Holds' /\ NoneForgotten'
  BY <1>1, <1>2, <1>3 DEF RunInv, Held, Holds, NoneForgotten
<1>6. Spaced'
  BY <1>1, <1>2, <1>3, Clock, Places2 DEF RunInv, Spaced, OwnInv
<1> QED
  BY <1>4, <1>5, <1>6 DEF RunInv

LEMMA RunsNoMore ==
  ASSUME NEW t, OwnInv, RunInv, Unthrottle(t)
  PROVE  RunInv'
<1>1. /\ fun' = fun /\ ending' = t /\ ending = None /\ asked' = asked /\ ~node.scheduled
      /\ last' = (IF timer[t].late THEN LongAgo ELSE last) /\ node' = NoNode
  BY DEF Unthrottle
<1>2. /\ t \in Timers /\ t \in DOMAIN timer /\ node.at = t
      /\ called' = called \cup {t} /\ UNCHANGED <<now, timer, due>>
      /\ timer[t].late \/ now - last >= Interval
  BY <1>1, RunDue DEF Unthrottle
<1>3. DOMAIN node' = {"scheduled", "at"} /\ node'.scheduled = FALSE /\ node'.at = None
      /\ node'.at \notin Timers
  BY <1>1, Places2 DEF NoNode
<1>4. NodeType' /\ Holds'
  BY <1>3 DEF NodeType, Holds
<1>5. Held'
  BY <1>1, <1>2, <1>3 DEF RunInv, Held
<1>6. asked' = FALSE \/ ~asked'
  BY <1>1, <1>2, Places2 DEF RunInv, NoneForgotten
<1>7. last' \in Int /\ last' <= now' /\ now' - last' >= Interval
  <2>1. now \in Nat /\ Interval \in Nat /\ last \in Int /\ last <= now
    BY Clock DEF OwnInv, RunInv, Spaced
  <2>2. CASE timer[t].late
    BY <1>1, <1>2, <2>1, <2>2 DEF LongAgo
  <2>3. CASE ~timer[t].late
    BY <1>1, <1>2, <2>1, <2>3
  <2> QED
    BY <2>2, <2>3
<1>8. Spaced' /\ NoneForgotten'
  BY <1>3, <1>6, <1>7 DEF Spaced, NoneForgotten
<1> QED
  BY <1>4, <1>5, <1>8 DEF RunInv

(* A callback that stops its own timer is not the node's any more.         *)
LEMMA RunStopSelf == OwnInv /\ RunInv /\ StopSelf => RunInv'
<1> SUFFICES ASSUME OwnInv, RunInv, StopSelf PROVE RunInv'
  OBVIOUS
<1>1. PICK t : t = ending
  OBVIOUS
<1>2. t \in called /\ t \in due /\ t \in DOMAIN timer /\ t # None
  BY <1>1, Names2 DEF OwnInv, StopSelf, Base, Calls
<1>3. StopAgain(t) /\ ending' = None /\ UNCHANGED throttle
      /\ fun' = [u \in DOMAIN timer' |-> IF u \in DOMAIN timer THEN fun[u] ELSE "plain"]
  BY <1>1 DEF StopSelf, Fun
<1>4. /\ UNCHANGED <<now, due, called, pc>> /\ DOMAIN timer' = DOMAIN timer
      /\ timer'[t].stop
      /\ \A u \in DOMAIN timer' : Same(u) /\ (u # t => timer'[u].stop = timer[u].stop)
  BY <1>2, <1>3, StopAgainFacts DEF OwnInv
<1>5. node' = node /\ asked' = asked /\ last' = last /\ node.at # t
  BY <1>1, <1>2, <1>3, Names2 DEF throttle, RunInv, Holds, OwnInv
<1>6. NodeType'
  BY <1>5 DEF RunInv, NodeType
<1>7. Held'
  BY <1>1, <1>2, <1>3, <1>4, <1>5 DEF RunInv, Held
<1>8. Holds'
  BY <1>3, <1>4, <1>5, Places2 DEF RunInv, Holds
<1>9. NoneForgotten'
  BY <1>3, <1>4, <1>5 DEF RunInv, NoneForgotten
<1>10. Spaced'
  <2>1. ASSUME NEW u \in Timers, node.at = u PROVE u \in DOMAIN timer /\ Same(u)
    BY <1>4, <2>1 DEF RunInv, Holds
  <2> QED
    BY <1>4, <1>5, <2>1 DEF RunInv, Spaced, Same
<1> QED
  BY <1>6, <1>7, <1>8, <1>9, <1>10 DEF RunInv

LEMMA RunStep == OwnInv /\ RunInv /\ [UsersNext]_all => RunInv'
<1> SUFFICES ASSUME OwnInv, RunInv, [UsersNext]_all PROVE RunInv'
  OBVIOUS
<1>0. now \in Int /\ DOMAIN timer \subseteq Timers
  BY Clock, Names2 DEF OwnInv
<1>1. CASE UNCHANGED all \/ \E op, ks : Scan(op, ks)
  <2>1. UNCHANGED throttle /\ UNCHANGED <<now, timer, called, fun, ending>>
    BY <1>1 DEF all, vars, uvars, throttle, Scan
  <2> QED
    BY <1>0, <2>1, RunKept DEF Same
<1>2. ASSUME NEW t \in Timers, CacheTimer(t) \/ CallPlain(t) PROVE RunInv'
  <2>1. Call(t) /\ fun' = fun /\ ending = None /\ fun[t] # "throttle"
        /\ ending' \in {None, t} /\ UNCHANGED throttle
    BY <1>2 DEF CacheTimer, CallPlain, uvars, throttle
  <2>2. called' = called \cup {t} /\ UNCHANGED <<now, timer>>
    BY <2>1 DEF Call
  <2>3. None \notin DOMAIN timer
    BY <1>0, Places2
  <2> QED
    BY <1>0, <2>1, <2>2, <2>3, RunKept DEF Same
<1>3. ASSUME NEW t, NEW n, NEW kind, Register(t, n), Fun(kind), kind # "throttle",
             ending' = ending, UNCHANGED throttle
      PROVE  RunInv'
  <2>1. /\ t \notin DOMAIN timer /\ UNCHANGED <<now, due, called>>
        /\ DOMAIN timer' = DOMAIN timer \cup {t}
        /\ \A u \in DOMAIN timer : timer'[u] = timer[u]
    BY <1>3, RegisterFacts
  <2>2. fun' = [u \in DOMAIN timer' |-> IF u \in DOMAIN timer THEN fun[u] ELSE kind]
    BY <1>3 DEF Fun
  <2> QED
    BY <1>0, <1>3, <2>1, <2>2, RunKept DEF Same
<1>4. ASSUME NEW t \in Timers, NEW n, RegisterPlain(t, n) PROVE RunInv'
  BY <1>3, <1>4 DEF RegisterPlain
<1>5. ASSUME NEW t \in Timers, NEW k, NEW n, CacheAdd(t, k, n) PROVE RunInv'
  BY <1>3, <1>5 DEF CacheAdd
<1>6. ASSUME NEW t, t \in DOMAIN timer, fun[t] # "throttle", StopAgain(t), Fun("plain"),
             ending' = ending, UNCHANGED throttle
      PROVE  RunInv'
  <2>1. /\ UNCHANGED <<now, due, called, pc>>
        /\ DOMAIN timer' = IF t \in due THEN DOMAIN timer ELSE DOMAIN timer \ {t}
        /\ \A u \in DOMAIN timer' : Same(u) /\ (u # t => timer'[u].stop = timer[u].stop)
    BY <1>6, StopAgainFacts DEF OwnInv
  <2>2. fun' = [u \in DOMAIN timer' |-> IF u \in DOMAIN timer THEN fun[u] ELSE "plain"]
    BY <1>6 DEF Fun
  <2> QED
    BY <1>0, <1>6, <2>1, <2>2, RunKept
<1>7. ASSUME NEW t \in Timers, Visit(t) PROVE RunInv'
  <2>1. t \in DOMAIN timer /\ fun[t] = "cache"
    BY <1>7 DEF Visit, OwnInv, Listed, OwnersAgree
  <2> QED
    BY <1>6, <1>7, <2>1 DEF Visit
<1>8. ASSUME NEW t \in Timers, StopPlain(t) PROVE RunInv'
  BY <1>6, <1>8 DEF StopPlain, Stop, StopAgain
<1> QED
  BY <1>1, <1>2, <1>4, <1>5, <1>7, <1>8, RunThread, RunStopSelf, RunAsked, RunBegun,
     RunRegistered, RunsAgain, RunsNoMore
     DEF UsersNext

LEMMA RunSpaces == OwnInv /\ RunInv => Throttles
<1> SUFFICES ASSUME OwnInv, RunInv PROVE RunsSpaced
  BY DEF RunInv, Throttles
<1>1. CASE node.at = "run"
  BY <1>1 DEF RunInv, Spaced, RunsSpaced
<1>2. ASSUME NEW t, node.at = t, t \in due \ called
      PROVE  now - last >= Interval \/ (t # "run" /\ timer[t].late)
  <2>1. t \in DOMAIN timer /\ t \in Timers /\ t # "run" /\ pc = "call"
    BY <1>2, Names2, Places2 DEF OwnInv, Base, StopInv, ListWhileCalling
  <2>2. timer[t].late \/ timer[t].runat - last >= Interval
    BY <1>2, <2>1 DEF RunInv, Spaced
  <2>3. timer[t].runat <= now \/ timer[t].late
    BY <1>2, <2>1, WheelCalls DEF OwnInv, Base, CallsOnTime, NoneEarly
  <2>4. timer[t].runat \in Int /\ last \in Int /\ now \in Int /\ Interval \in Int
    BY <2>1, Clock DEF OwnInv, RunInv, Spaced, Base, WheelInv, Timed
  <2> QED
    BY <2>1, <2>2, <2>3, <2>4
<1> QED
  BY <1>1, <1>2 DEF RunsSpaced

(* prun_throttled and ratelimit_timer lose no request between them, and    *)
(* keep runs at their distance, for every interval, wheel and clock.       *)
THEOREM AskedAndSpaced == UsersSpec => []Throttles
<1>1. UsersInit => OwnInv /\ RunInv
  BY OwnInit, RunInit
<1>2. OwnInv /\ RunInv /\ [UsersNext]_all => OwnInv' /\ RunInv'
  BY OwnStep, RunStep
<1> QED
  BY <1>1, <1>2, RunSpaces, PTL DEF UsersSpec, all
=============================================================================
