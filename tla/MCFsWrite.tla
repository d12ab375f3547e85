----------------------------- MODULE MCFsWrite -----------------------------
(* FsWrite with short programs. *)
EXTENDS FsWrite

Two == <<11, 12>>
Three == <<11, 12, 13>>
Four == <<11, 12, 13, 14>>

Do(op) == [op |-> op, at |-> 0, v |-> 0]
Write(at, v) == [op |-> "write", at |-> at, v |-> v]
Cut(n) == [op |-> "size", at |-> n, v |-> 0]
O == Do("open")
T == Do("trunc")
F == Do("flush")
C == Do("close")

Work(content, cached, s1, s2) ==
    [content |-> content, cached |-> cached, scripts |-> <<s1, s2>>,
     faults |-> 0, restarts |-> 0, timers |-> 0, late |-> 0]

With(W, faults, restarts, timers, late) ==
    {[w EXCEPT !.faults = faults, !.restarts = restarts, !.timers = timers, !.late = late] :
        w \in W}

Alone ==
    {Work(Two, TRUE, <<O, Write(1, 1), F, Write(2, 2), C>>, <<>>),
     Work(Two, FALSE, <<O, Write(1, 1), C, O, Write(3, 2), C>>, <<>>),
     Work(Four, TRUE, <<O, Write(2, 1), F, Write(5, 2), C>>, <<>>),
     Work(Four, TRUE, <<O, Cut(3), F, Cut(4), Write(4, 1), C>>, <<>>),
     Work(Two, TRUE, <<T, Write(4, 1), F, Write(1, 2), C>>, <<>>)}
Together ==
    {Work(Two, TRUE, <<O, Write(1, 1), C>>, <<O, Write(2, 2), C>>),
     Work(Four, FALSE, <<O, Write(2, 1), C>>, <<O, Write(3, 2), F, C>>),
     Work(Four, TRUE, <<O, Cut(3), C>>, <<O, Write(4, 2), C>>),
     Work(Four, FALSE, <<O, Write(2, 1), C>>, <<T, Write(1, 2), C>>)}
\* The second upload takes the page it did not change from the first one's: it goes
\* while the third write, which found all pages, is about to copy it.
Converted ==
    {Work(Three, TRUE, <<O, Write(3, 1), C, O, Write(3, 13), C, O, Write(1, 3), C>>, <<>>)}
Scripts ==
    Converted
    \cup With(Alone \cup Together, 0, 0, 1, 0)
    \cup With(Alone \cup Together, 1, 0, 0, 1)
    \cup With(Alone \cup Together, 0, 1, 0, 0)
    \cup With(Alone, 1, 1, 1, 0)
    \cup With(Together, 1, 0, 1, 0)
=============================================================================
