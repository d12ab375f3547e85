---------------------------- MODULE MCPageCache ----------------------------
(* Two readers on a memory of four pages and a file of two. *)
EXTENDS PageCache

Asks(keys, full, auth, ahead) == [keys |-> keys, full |-> full, auth |-> auth, ahead |-> ahead]
Part(k) == Asks(<<k>>, FALSE, FALSE, {})
Whole(ks) == Asks(ks, TRUE, FALSE, {})
Auth(k) == Asks(<<k>>, TRUE, TRUE, {})
Ahead(k, ks) == Asks(<<k>>, TRUE, FALSE, ks)

Quiet == [adds |-> <<>>, fails |-> 0, errors |-> 0, shrinks |-> 0, full |-> FALSE, timer |-> FALSE]
Work(a, b, cached, stored, what) ==
    what @@ ("reads" :> [r \in Readers |-> IF r = "r1" THEN a ELSE b]) @@ ("cached" :> cached)
         @@ ("stored" :> stored) @@ Quiet

\* A row is cleaned and reused under a reader of a part of a page; more pages
\* than memory has; a page of authenticators; files that were uploaded, read at
\* the same time; a full disk; a write and a read of the cache file that fail;
\* requests that fail or are repeated; a last page that is cut off at the start, or
\* was at the one before, when the file was smaller; a table longer than the setting.
Scripts ==
    {Work(<<Part(1)>>, <<Whole(<<2, 3>>)>>, <<1, Free>>, <<0, 1>>, "timer" :> TRUE),
     Work(<<Whole(<<1, 2, 3, 4>>)>>, <<Part(5)>>, <<>>, <<>>, <<>>),
     Work(<<Auth(1)>>, <<Whole(<<2, 3, 4>>)>>, <<1, Free>>, <<0, 1>>, <<>>),
     Work(<<Whole(<<1, 2>>)>>, <<>>, <<>>, <<>>, "adds" :> <<1, 2, 3>> @@ "shrinks" :> 1),
     Work(<<Auth(1)>>, <<Whole(<<2, 3, 4>>)>>, <<1>>, <<0, 1>>, "full" :> TRUE @@ "shrinks" :> 1),
     Work(<<Whole(<<1, 2, 3, 4>>)>>, <<>>, <<>>, <<>>, "timer" :> TRUE @@ "errors" :> 1),
     Work(<<Whole(<<1>>), Whole(<<2, 3>>)>>, <<>>, <<1, 9>>, <<0, 1, 9>>,
          "timer" :> TRUE @@ "errors" :> 1),
     Work(<<Part(9)>>, <<Whole(<<2>>)>>, <<9>>, <<0>>, "timer" :> TRUE),
     Work(<<Whole(<<1, 9>>)>>, <<Part(9)>>, <<1, 9, 5, Free>>, <<0, 1, 9, 5>>,
          "shrinks" :> 1 @@ "errors" :> 1),
     Work(<<Whole(<<1, 2>>)>>, <<>>, <<2, Free>>, <<0, 2>>, "adds" :> <<2>>),
     Work(<<Ahead(1, {2, 4})>>, <<>>, <<>>, <<>>, "fails" :> 2),
     Work(<<Ahead(1, {2})>>, <<Part(2)>>, <<>>, <<>>, "fails" :> 1)}
=============================================================================
