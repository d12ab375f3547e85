---------------------------- MODULE MCCryptoLog -----------------------------
(***************************************************************************)
(* CryptoLog with sectors of two authenticators, so that a few units make  *)
(* a tree of several levels.                                               *)
(***************************************************************************)
EXTENDS CryptoLog

File(n) == [i \in 1..n |-> <<100 + i>>]

\* At most k requests and one crash for a new file, and for one of the server.
NewFile(writes, sizes, k) ==
    [initial |-> <<>>, power |-> FALSE, requests |-> k, flushes |-> 2, crashes |-> 1,
     writes |-> writes, sizes |-> sizes]
OldFile(n, writes, sizes, k) == [NewFile(writes, sizes, k) EXCEPT !.initial = File(n)]
Power(w) == [w EXCEPT !.power = TRUE]
Twice(w) == [w EXCEPT !.crashes = 2]

Files ==
    {NewFile({<<0, 1>>, <<1, 3>>, <<3, 2>>}, {0, 3}, 3),
     OldFile(5, {<<0, 1>>, <<1, 3>>, <<4, 2>>, <<6, 1>>}, {0, 9}, 2),
     OldFile(4, {<<1, 1>>, <<4, 1>>}, {6}, 3),
     OldFile(7, {<<0, 1>>, <<1, 1>>}, {0, 2, 3}, 2),
     Twice(OldFile(5, {<<0, 1>>}, {6}, 2)),
     Power(NewFile({<<0, 1>>, <<1, 2>>}, {1}, 2)),
     Power(OldFile(3, {<<0, 1>>, <<2, 1>>}, {2}, 2))}

\* A file of the server that is shortened, saved, and grows again.
Regrown == {[OldFile(5, {<<0, 1>>, <<3, 2>>}, {3}, 3) EXCEPT !.crashes = 0]}
=============================================================================
