----------------------------- MODULE TimerUsers -----------------------------
(***************************************************************************)
(* What lives on timers: the cache of pcache.c, whose entries are freed by *)
(* the timer thread unless somebody takes them first, and the functions of *)
(* prunthrottled.c, which run at most once in so many seconds.  The timers *)
(* are those of Timer; "plain" ones belong to everybody else.              *)
(*                                                                         *)
(* One bucket stands for the cache: entries of different buckets share     *)
(* nothing, or a lock.  An entry goes by the name of its timer.  Which of  *)
(* several entries of a key comes first in the list is left open.          *)
(***************************************************************************)
EXTENDS Timer

CONSTANTS
    Keys,       \* the keys of a bucket
    MaxKeys,    \* maxkeys of pcache_add, 0 for none
    FreeAfter,  \* how long entries are kept
    Interval,   \* minintervalsec of prun_throttled
    Uses        \* bound: which kinds of timers there are together

Kinds == {"plain", "cache", "throttle"}

ASSUME UsersAssumption ==
    /\ FreeAfter \subseteq Timeouts /\ Interval \in Timeouts
    /\ Interval <= Span[Levels]
    /\ MaxKeys \in Nat /\ Uses \subseteq SUBSET Kinds
    /\ Timers \cap {"none", "run", "register"} = {}

VARIABLES
    fun,        \* of every timer, whose callback it has
    bucket,     \* cache_hash: the entries in the list, each with its key
    scan,       \* who has the lock of the bucket and what it has not seen yet:
                \* [op, left], or NoScan
    node,       \* the function's psync_rr_tree_node: [scheduled, at], or NoNode
    asked,      \* somebody called prun_throttled and no run began since
    last,       \* when the last run began, or LongAgo when there was none
                \* and when its timer was registered in the window (Timer)
    ending,     \* the timer whose callback is about to stop it, or None
    kinds       \* the member of Uses that the behaviour is about

cache == <<bucket, scan>>
throttle == <<node, asked, last>>
uvars == <<fun, bucket, scan, node, asked, last, ending, kinds>>

None == "none"
NoScan == [op |-> "none", left |-> {}]
LongAgo == -Interval
NoNode == [scheduled |-> FALSE, at |-> None]

\* Timers that come up have this callback.
Fun(kind) ==
    fun' = [t \in DOMAIN timer' |-> IF t \in DOMAIN timer THEN fun[t] ELSE kind]

\* ptimer_stop of a timer that may be marked already.
StopAgain(t) ==
    IF timer[t].stop THEN UNCHANGED vars ELSE Stop(t)

----------------------------------------------------------------------------
(* pcache.c. *)

Without(t) == [e \in DOMAIN bucket \ {t} |-> bucket[e]]
Having(ks) == {e \in DOMAIN bucket : bucket[e] \in ks}

\* What is refused is freed at once.
CacheAdd(t, k, n) ==
    /\ scan = NoScan /\ "cache" \in kinds
    /\ MaxKeys > 0 => Cardinality(Having({k})) < MaxKeys
    /\ Register(t, n) /\ Fun("cache")
    /\ bucket' = [e \in DOMAIN bucket \cup {t} |-> IF e = t THEN k ELSE bucket[e]]
    /\ UNCHANGED <<scan, throttle, ending, kinds>>

\* pcache_get and pcache_del take the first entry that no callback waits for;
\* pcache_clean and pcache_clean_oneof take all of them.  The lock is held
\* until the list is at its end.
Scan(op, ks) ==
    /\ scan = NoScan /\ Having(ks) # {}
    /\ scan' = [op |-> op, left |-> Having(ks)]
    /\ UNCHANGED <<vars, fun, bucket, throttle, ending, kinds>>

\* Mutant: the answer of ptimer_stop is not looked at.
Taken_Always(t) == TRUE

Taken(t) == MayFree(t)
Visit(t) ==
    /\ t \in scan.left
    /\ StopAgain(t) /\ Fun("plain")
    /\ bucket' = IF Taken(t) THEN Without(t) ELSE bucket
    /\ LET rest == IF Taken(t) /\ scan.op = "take" THEN {} ELSE scan.left \ {t}
       IN scan' = IF rest = {} THEN NoScan ELSE [scan EXCEPT !.left = rest]
    /\ UNCHANGED <<throttle, ending, kinds>>

\* cache_timer: the entry leaves the list and is freed, then the timer stops.
CacheTimer(t) ==
    /\ ending = None /\ scan = NoScan
    /\ Call(t) /\ fun[t] = "cache"
    /\ bucket' = Without(t) /\ ending' = t
    /\ UNCHANGED <<fun, scan, throttle, kinds>>

StopSelf ==
    /\ ending # None
    /\ StopAgain(ending) /\ ending' = None
    /\ Fun("plain")
    /\ UNCHANGED <<cache, throttle, kinds>>

----------------------------------------------------------------------------
(* prunthrottled.c. *)

\* Mutant: who finds the node there leaves it at that.
Marked_Never(n) == n

Marked(n) == [n EXCEPT !.scheduled = TRUE]
RunThrottled ==
    /\ "throttle" \in kinds
    /\ node' = IF node.at = None THEN [scheduled |-> FALSE, at |-> "run"]
               ELSE Marked(node)
    /\ asked' = TRUE
    /\ UNCHANGED <<vars, fun, cache, last, ending, kinds>>

\* Who made the node runs the function, in a thread or here, and then
\* registers the timer.
RunFirst ==
    /\ node.at = "run"
    /\ node' = [node EXCEPT !.at = "register"]
    /\ asked' = FALSE /\ last' = now
    /\ UNCHANGED <<vars, fun, cache, ending, kinds>>

RegisterNode(t) ==
    /\ node.at = "register"
    /\ Register(t, Interval)
    /\ node' = [node EXCEPT !.at = t]
    /\ Fun("throttle")
    /\ UNCHANGED <<cache, asked, last, ending, kinds>>

\* ratelimit_timer.
RunAgain(t) ==
    /\ ending = None
    /\ Call(t) /\ fun[t] = "throttle" /\ node.scheduled
    /\ node' = [node EXCEPT !.scheduled = FALSE]
    /\ asked' = FALSE /\ last' = now
    /\ UNCHANGED <<fun, cache, ending, kinds>>

Unthrottle(t) ==
    /\ ending = None
    /\ Call(t) /\ fun[t] = "throttle" /\ ~node.scheduled
    /\ node' = NoNode /\ ending' = t
    /\ last' = IF timer[t].late THEN LongAgo ELSE last
    /\ UNCHANGED <<fun, cache, asked, kinds>>

----------------------------------------------------------------------------
(* Everybody else, and the thread. *)

RegisterPlain(t, n) ==
    /\ "plain" \in kinds /\ Register(t, n) /\ Fun("plain")
    /\ UNCHANGED <<cache, throttle, ending, kinds>>

StopPlain(t) ==
    /\ Stop(t) /\ fun[t] = "plain"
    /\ Fun("plain") /\ UNCHANGED <<cache, throttle, ending, kinds>>

CallPlain(t) ==
    /\ ending = None /\ Call(t) /\ fun[t] = "plain"
    /\ UNCHANGED uvars

Thread ==
    /\ Look \/ Prepare \/ (ending = None /\ Rearm)
    /\ Fun("plain") /\ UNCHANGED <<cache, throttle, ending, kinds>>

UsersInit ==
    /\ Init
    /\ fun = <<>> /\ bucket = <<>> /\ scan = NoScan
    /\ node = NoNode /\ asked = FALSE /\ last = LongAgo /\ ending = None
    /\ kinds \in Uses

UsersNext ==
    \/ Thread \/ StopSelf \/ RunThrottled \/ RunFirst
    \/ \E ks \in SUBSET Keys : Scan("clean", ks)
    \/ \E k \in Keys : Scan("take", {k})
    \/ \E t \in Timers :
          \/ Visit(t) \/ CacheTimer(t) \/ RegisterNode(t) \/ RunAgain(t) \/ Unthrottle(t)
          \/ CallPlain(t) \/ StopPlain(t)
          \/ \E n \in Timeouts : RegisterPlain(t, n)
          \/ \E k \in Keys, n \in FreeAfter : CacheAdd(t, k, n)

UsersSpec == UsersInit /\ [][UsersNext]_<<vars, uvars>>

----------------------------------------------------------------------------
\* pcache.c and the timer thread agree on who has an entry: the list holds
\* just the entries whose timer was not called yet, so that who finds an
\* entry finds its timer allocated, and cache_timer finds its entry still in
\* the list: nothing is freed or handed out twice.
OwnersAgree ==
    DOMAIN bucket = {t \in DOMAIN timer : fun[t] = "cache" /\ t \notin called}

\* prun_throttled forgets no request: until a run begins that sees what the
\* request was about, one is about to begin or a timer is on its way to it.
NoneForgotten ==
    asked =>
        \/ node.at = "run"
        \/ /\ node.scheduled
           /\ \/ node.at = "register"
              \/ /\ node.at \in DOMAIN timer /\ ~timer[node.at].stop
                 /\ fun[node.at] = "throttle"

\* It runs the function when the time since the last run is over, unless the
\* timer was registered in the window where the wheel may be early.
RunsSpaced ==
    (node.at = "run" \/ node.at \in due \ called)
        => \/ now - last >= Interval
           \/ node.at # "run" /\ timer[node.at].late

\* prun_throttled: as often as asked for, as seldom as promised.
Throttles == NoneForgotten /\ RunsSpaced
=============================================================================
