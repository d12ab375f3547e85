---------------------------- MODULE DurableFile -----------------------------
(***************************************************************************)
(* What an encrypted file promises, whatever it is stored in: it has its   *)
(* contents, the contents that are saved, and the contents that survive a  *)
(* loss of power.  A save takes the contents as they are, all or nothing,  *)
(* and a crash brings back one of these, never a mixture of them.          *)
(***************************************************************************)
CONSTANT Damaged           \* what cannot be read any more

VARIABLES contents, saved, synced

vars == <<contents, saved, synced>>

Init == contents # Damaged /\ saved = contents /\ synced = contents

Edit == contents' # Damaged /\ UNCHANGED <<saved, synced>>
Save == contents' # Damaged /\ saved' = contents' /\ synced' \in {synced, saved'}
Sync == synced' = saved /\ UNCHANGED <<contents, saved>>
Kill == contents' = saved /\ UNCHANGED <<saved, synced>>
PowerLoss ==
  \E file \in {saved, synced} : contents' = file /\ saved' = file /\ synced' = file

Next == Edit \/ Save \/ Sync \/ Kill \/ PowerLoss
Spec == Init /\ [][Next]_vars
=============================================================================
