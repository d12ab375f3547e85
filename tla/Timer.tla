------------------------------- MODULE Timer -------------------------------
(***************************************************************************)
(* The timers of ptimer.c: a wheel of TIMER_LEVELS rings of                *)
(* TIMER_ARRAY_SIZE slots.  A thread wakes up about once a second, reads   *)
(* the clock, and under timer_mutex moves timers from outer to inner rings *)
(* and takes out those that are due; it calls them without the mutex and   *)
(* then puts them back.  Other threads, and the callbacks, register and    *)
(* stop timers at any time.                                                *)
(*                                                                         *)
(* A slot is a set of timers: the code depends on no order within one.     *)
(* Shifts are divisions.  The clock may jump ahead but not back.           *)
(***************************************************************************)
EXTENDS Integers, FiniteSets

CONSTANTS
    Timers,     \* the timers there may be at a time
    Size,       \* TIMER_ARRAY_SIZE
    Levels,     \* TIMER_LEVELS
    Timeouts,   \* the numbers of seconds a timer may be registered for
    MaxJump,    \* bound: how far the clock is ahead at the next look
    MaxTime     \* bound: the last second looked at

ASSUME WheelAssumption ==
    /\ Size \in Nat \ {0, 1} /\ Levels \in Nat \ {0, 1}
    /\ Timeouts \subseteq Nat \ {0} /\ IsFiniteSet(Timeouts)
    /\ MaxJump \in Nat \ {0} /\ MaxTime \in Nat

VARIABLES
    now,        \* psync_current_time
    lt,         \* the thread's last look at it
    timer,      \* timers that are allocated: [numsec, level, runat, stop, late]
    at,         \* where each of them is: <<level, slot>>, or Nowhere
    due,        \* the thread's list of timers that are running
    called,     \* those of them that were called already
    pc          \* where the thread is

vars == <<now, lt, timer, at, due, called, pc>>

Nowhere == <<>>
Running(t) == t \in due

----------------------------------------------------------------------------
(* The wheel. *)

\* How many seconds a slot of ring l stands for: Size^l.
Span[l \in 0..Levels] == IF l = 0 THEN 1 ELSE Size * Span[l - 1]

LevelOf(n) == CHOOSE l \in 0..(Levels - 1) :
                 /\ n <= Span[l + 1] \/ l = Levels - 1
                 /\ \A k \in 0..(l - 1) : n > Span[k + 1]

\* What no ring holds is cut to the longest time-out.
Cut(n) == IF n > Span[Levels] THEN Span[Levels] ELSE n

SlotOf(l, runat) == <<l, (runat \div Span[l]) % Size>>

\* timer_check_upper_levels: at second i, ring l + 1 gives up the slot it
\* has come to when the rings below are at their start.
Turned(place, l, i) ==
    IF i % Span[l + 1] # 0 THEN place
    ELSE [t \in DOMAIN place |->
            IF place[t] = <<l + 1, (i \div Span[l + 1]) % Size>>
            THEN SlotOf(l, timer[t].runat) ELSE place[t]]

\* Mutant: one ring too few is looked at.
Cascaded_OuterForgotten(place, i) == Turned(place, 0, i)

Cascaded(place, i) ==
    LET from[l \in 0..(Levels - 1)] ==
            IF l = Levels - 1 THEN place ELSE Turned(from[l + 1], l, i)
    IN from[0]

\* timer_prepare_timers: second after second, what is in the slot of the
\* inner ring is due.
After(i, from) ==
    LET upto[k \in from..i] ==
            IF k = from THEN [place |-> at, due |-> {}]
            ELSE LET c == Cascaded(upto[k - 1].place, k)
                     hit == {t \in DOMAIN c : c[t] = <<0, k % Size>>}
                 IN [place |-> [t \in DOMAIN c |->
                                  IF t \in hit THEN Nowhere ELSE c[t]],
                     due |-> upto[k - 1].due \cup hit]
    IN upto[i]

----------------------------------------------------------------------------
(* The thread. *)

\* psync_current_time is set before the mutex is taken.
Look ==
    /\ pc = "sleep"
    /\ \E d \in 0..MaxJump : now + d <= MaxTime /\ now' = now + d
    /\ pc' = "tick"
    /\ UNCHANGED <<lt, timer, at, due, called>>

Prepare ==
    /\ pc = "tick"
    /\ LET after == After(now, lt)
       IN /\ at' = after.place /\ due' = after.due
          /\ pc' = IF after.due = {} THEN "sleep" ELSE "call"
          /\ lt' = IF after.due = {} THEN now ELSE lt
    /\ UNCHANGED <<now, timer, called>>

Call(t) ==
    /\ pc = "call" /\ t \in due \ called
    /\ called' = called \cup {t}
    /\ UNCHANGED <<now, lt, timer, at, due, pc>>

\* Mutant: a timer that was stopped meanwhile is put back as well.
Kept_All(t) == TRUE

\* The rest of timer_process_timers: who was not stopped meanwhile starts
\* again, the others are freed.
Kept(t) == ~timer[t].stop
Rearm ==
    /\ pc = "call" /\ called = due
    /\ LET stay == {t \in DOMAIN timer : t \in due => Kept(t)}
           again(t) == now + timer[t].numsec
       IN /\ timer' = [t \in stay |->
                         IF t \in due
                         THEN [timer[t] EXCEPT !.runat = again(t),
                                               !.stop = FALSE, !.late = FALSE]
                         ELSE timer[t]]
          /\ at' = [t \in stay |->
                      IF t \in due THEN SlotOf(timer[t].level, again(t))
                      ELSE at[t]]
    /\ due' = {} /\ called' = {} /\ lt' = now /\ pc' = "sleep"
    /\ UNCHANGED now

----------------------------------------------------------------------------
(* Everybody else. *)

\* "late" remembers that the clock was set and not yet acted upon.
Register(t, n) ==
    /\ t \notin DOMAIN timer
    /\ LET r == now + Cut(n)
       IN /\ timer' = [u \in DOMAIN timer \cup {t} |->
                         IF u # t THEN timer[u]
                         ELSE [numsec |-> Cut(n), level |-> LevelOf(n),
                               runat |-> r, stop |-> FALSE,
                               late |-> pc = "tick"]]
          /\ at' = [u \in DOMAIN at \cup {t} |->
                      IF u # t THEN at[u] ELSE SlotOf(LevelOf(n), r)]
    /\ UNCHANGED <<now, lt, due, called, pc>>

\* Mutant: ptimer_stop frees the timer whatever it is doing.
MayFree_Always(t) == TRUE

\* ptimer_stop; whoever stops a timer forgets it.
MayFree(t) == ~Running(t)
Stop(t) ==
    /\ t \in DOMAIN timer /\ ~timer[t].stop
    /\ IF MayFree(t)
       THEN /\ timer' = [u \in DOMAIN timer \ {t} |-> timer[u]]
            /\ at' = [u \in DOMAIN at \ {t} |-> at[u]]
       ELSE /\ timer' = [timer EXCEPT ![t].stop = TRUE]
            /\ UNCHANGED at
    /\ UNCHANGED <<now, lt, due, called, pc>>

Init ==
    /\ now = 0 /\ lt = 0 /\ pc = "sleep"
    /\ timer = <<>> /\ at = <<>> /\ due = {} /\ called = {}

Next ==
    \/ Look \/ Prepare \/ Rearm
    \/ \E t \in Timers :
          Call(t) \/ Stop(t) \/ \E n \in Timeouts : Register(t, n)

Spec == Init /\ [][Next]_vars

----------------------------------------------------------------------------
\* ptimer_stop and the thread never disagree on who frees a timer: the list
\* the thread walks without the mutex (timer_process_timers) holds only
\* timers that are still allocated and in no slot.
NoneFreedWhileRunning ==
    \A t \in due : t \in DOMAIN timer /\ at[t] = Nowhere

\* No timer is passed over by the wheel, whichever ring it started in and
\* however far the clock jumps: when the thread goes back to sleep, every
\* timer left has its second ahead of it.
NoneMissed ==
    pc = "sleep" => \A t \in DOMAIN timer : timer[t].runat > now

\* The wheel does not call a timer before its second, unless it was
\* registered between the thread's look at the clock and its taking the mutex.
NoneEarly ==
    pc = "call" => \A t \in due \ called :
        t \in DOMAIN timer => timer[t].runat <= now \/ timer[t].late

\* The wheel calls every timer in its second: timer_check_upper_levels and
\* ptimer_register agree on where a timer is.
CallsOnTime == NoneMissed /\ NoneEarly

\* A timer that was stopped while it ran (PTIMER_STOP_AFTER_RUN) is in the
\* thread's hands until it is freed: it neither starts again nor is left over.
StopsForGood ==
    [][\A t \in DOMAIN timer :
          timer[t].stop => /\ t \in due
                           /\ t \in DOMAIN timer' => timer'[t].stop]_vars
=============================================================================
