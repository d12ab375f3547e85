---------------------------- MODULE LockContract ----------------------------
(***************************************************************************)
(* What the callers of plocks.c (pclsync/psql.c and everything above it)   *)
(* rely on: many readers or one writer, at most one reader at a time that  *)
(* has announced it will write, and an upgrade from reading to writing     *)
(* with no other writer in between.                                        *)
(***************************************************************************)
CONSTANT Threads

VARIABLES readers,   \* the threads holding the lock for reading
          writers,   \* the threads holding it for writing: none or one
          claimed    \* the reader that announced it will write: none or one

avars == <<readers, writers, claimed>>

AInit == readers = {} /\ writers = {} /\ claimed = {}

Holds(t) == t \in readers \cup writers

BeginRead(t) ==
  /\ ~Holds(t) /\ writers = {}
  /\ readers' = readers \cup {t}
  /\ UNCHANGED <<writers, claimed>>

BeginWrite(t) ==
  /\ readers = {} /\ writers = {}
  /\ writers' = {t}
  /\ UNCHANGED <<readers, claimed>>

BeginReserved(t) ==
  /\ ~Holds(t) /\ writers = {} /\ claimed = {}
  /\ readers' = readers \cup {t}
  /\ claimed' = {t}
  /\ UNCHANGED writers

(* A reader asks to become the writer while no other reader has. *)
Claim(t) ==
  /\ t \in readers /\ claimed = {}
  /\ claimed' = {t}
  /\ UNCHANGED <<readers, writers>>

(* The claimant, once alone, turns into the writer in one step, so what it *)
(* read is still true when it writes.                                      *)
Upgrade(t) ==
  /\ readers = {t} /\ claimed \subseteq {t}
  /\ readers' = {} /\ writers' = {t} /\ claimed' = {}

EndRead(t) ==
  /\ t \in readers
  /\ readers' = readers \ {t}
  /\ claimed' = claimed \ {t}
  /\ UNCHANGED writers

EndWrite(t) ==
  /\ writers = {t}
  /\ writers' = {}
  /\ UNCHANGED <<readers, claimed>>

ANext == \E t \in Threads :
  \/ BeginRead(t) \/ BeginWrite(t) \/ BeginReserved(t)
  \/ Claim(t) \/ Upgrade(t) \/ EndRead(t) \/ EndWrite(t)

ASpec == AInit /\ [][ANext]_avars
=============================================================================
