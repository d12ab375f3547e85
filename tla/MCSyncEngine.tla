--------------------------- MODULE MCSyncEngine ---------------------------
(* The sync engine on a file and a folder with a file, and what two users do. *)
EXTENDS SyncEngine

Work(here, there, faults, restarts, large) ==
    [here |-> here, there |-> there, faults |-> faults, restarts |-> restarts,
     large |-> large, one |-> Len(here) + Len(there) = 1]
Here(op, dir, name, c) ==
    [op |-> op, dir |-> dir, name |-> name, c |-> c, to |-> <<>>, as |-> NoName]
HereMove(dir, name, to, as) ==
    [op |-> "move", dir |-> dir, name |-> name, c |-> 0, to |-> to, as |-> as]
There(op, item, dir, name, c) ==
    [op |-> op, item |-> item, dir |-> dir, name |-> name, c |-> c]

D == <<"d", 0>>
EditsA == There("edit", FileA, 0, NoName, 5)
DeletesA == There("delete", FileA, 0, NoName, 0)
TakesA == There("move", FileA, Outside, A, 0)
RenamesB == There("move", FolderB, Remote, D, 0)

HereOps ==
    {Here("edit", <<>>, A, 3), Here("create", <<>>, D, 3), Here("create", <<B>>, D, 3),
     Here("mkdir", <<>>, D, 0), Here("delete", <<>>, A, 0), Here("delete", <<>>, B, 0),
     HereMove(<<>>, A, <<B>>, A), HereMove(<<>>, A, <<>>, D), HereMove(<<>>, B, <<>>, D)}
ThereOps ==
    {EditsA, DeletesA, TakesA, RenamesB, There("delete", FolderB, 0, NoName, 0),
     There("create", 0, Remote, D, 6), There("mkdir", 0, Remote, D, 0),
     There("move", FileA, FolderB, A, 0), There("move", FileA, Remote, D, 0),
     There("move", FolderB, Outside, B, 0)}

\* A change at each end.
Pairs == {Work(<<h>>, <<t>>, 0, 0, FALSE) : h \in HereOps, t \in ThereOps}

\* One change, a connection that breaks, a program that is killed.
Single ==
    {Work(<<h>>, <<>>, f, r, l) : h \in HereOps, f \in 0..1, r \in 0..1, l \in BOOLEAN}
    \cup {Work(<<>>, <<t>>, f, r, l) : t \in ThereOps, f \in 0..1, r \in 0..1, l \in BOOLEAN}

\* Uploads in each other's way, a download that is overtaken, a folder that comes
\* where there is one, a file that goes while its conflict is sought.
Longer ==
    {Work(<<Here("edit", <<>>, A, 3), Here("create", <<>>, D, 4), Here("edit", <<>>, D, 8)>>,
          <<>>, 0, 0, FALSE),
     Work(<<Here("mkdir", <<>>, D, 0), Here("create", <<D>>, C, 3)>>, <<RenamesB>>, 0, 0, FALSE),
     Work(<<Here("edit", <<>>, A, 3), Here("delete", <<>>, A, 0)>>, <<EditsA>>, 0, 0, FALSE)}
    \cup {Work(<<>>, <<EditsA, t>>, 0, 0, l) :
            t \in {DeletesA, TakesA, There("edit", FileA, 0, NoName, 6)}, l \in BOOLEAN}

Scripts == Pairs \cup Single \cup Longer

EditedAndDeleted == {Work(<<>>, <<EditsA, DeletesA>>, 0, 0, FALSE)}
=============================================================================
