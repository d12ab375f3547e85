------------------------------ MODULE DriveView ------------------------------
(***************************************************************************)
(* What the virtual drive promises: a tree of folders and files that only  *)
(* the requests of the user change, each at once and all of it.  That a    *)
(* request is still queued, is being uploaded, has been entered into the   *)
(* tables, or survived a restart, is not to be seen.                       *)
(***************************************************************************)
EXTENDS Integers

CONSTANTS
    Top,        \* the root folder
    Labels,     \* the names there are
    Nodes,      \* what folders and contents of files are told apart by
    Starts      \* the trees there may be at the start

VARIABLES
    tree,       \* a set of entries [dir, name, kind, node]
    asked       \* how many requests were granted

At(d, n) == {e \in tree : e.dir = d /\ e.name = n}
Folders == {Top} \cup {e.node : e \in {e \in tree : e.kind = "folder"}}
Inside(e) == {x \in tree : e.kind = "folder" /\ x.dir = e.node}
Used == Folders \cup {e.node : e \in tree}

Make(kind, d, n, x) ==
    /\ d \in Folders /\ At(d, n) = {} /\ x \in Nodes \ Used
    /\ tree' = tree \cup {[dir |-> d, name |-> n, kind |-> kind, node |-> x]}

Remove(e) ==
    /\ e \in tree /\ Inside(e) = {}
    /\ tree' = tree \ {e}

\* A move replaces what is of the same kind at the new place; a folder only
\* when it is empty.
Move(e, d, n) ==
    /\ e \in tree /\ d \in Folders
    /\ \A x \in At(d, n) \ {e} : x.kind = e.kind /\ Inside(x) = {}
    /\ tree' = (tree \ ({e} \cup At(d, n)))
               \cup {[e EXCEPT !.dir = d, !.name = n]}

Init == tree \in Starts /\ asked = 0
Next ==
    /\ asked' = asked + 1
    /\ \E d \in Folders, n \in Labels :
          \/ \E kind \in {"folder", "file"}, x \in Nodes : Make(kind, d, n, x)
          \/ \E e \in tree : Remove(e) \/ Move(e, d, n)

Spec == Init /\ [][Next]_<<tree, asked>>

=============================================================================
