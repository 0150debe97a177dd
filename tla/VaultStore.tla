----------------------------- MODULE VaultStore -----------------------------
(***************************************************************************)
(* What the vault files promise a user who waits for each operation: a     *)
(* store that is written through.  One vault is open at a time; a change   *)
(* reaches the file as a whole, nothing else changes a file, opening gives *)
(* back what was stored last, and a crash or a write that fails puts at    *)
(* most the file that is being written at risk.  Only a change that nobody *)
(* waits for may stay behind until the next one is stored.                 *)
(*                                                                         *)
(* An image is everything a file holds: the vault, its key (the field key) *)
(* and the password it is sealed with.                                     *)
(***************************************************************************)
CONSTANTS
  Path, Image,
  MayFail,   \* whether a write may fail
  MayLag,    \* whether a change may be left for the next one to store
  Nothing,   \* a file that is not there
  Lost,      \* a file nobody can open any more
  Closed, None

VARIABLES
  stored,    \* what can be opened, by file
  session,   \* the open vault and its file, or Closed
  pending    \* the image on its way to a file, or None

storeVars == <<stored, session, pending>>

At(p, i) == [path |-> p, image |-> i]
Resting == session # Closed /\ pending = None
SameKey(i) == i \in Image /\ i.key = session.image.key

\* Opening, locking, deleting.
Open(p) ==
  /\ session = Closed /\ pending = None /\ stored[p] \notin {Nothing, Lost}
  /\ session' = At(p, stored[p])
  /\ UNCHANGED <<stored, pending>>

Leave == Resting /\ session' = Closed /\ UNCHANGED <<stored, pending>>

Remove(p) ==
  /\ session = Closed /\ pending = None
  /\ stored' = [stored EXCEPT ![p] = Nothing]
  /\ UNCHANGED <<session, pending>>

\* A change shows at once (an edit) or once it is stored (a new password, a mirror).
Edit(i) ==
  /\ Resting /\ SameKey(i)
  /\ session' = [session EXCEPT !.image = i]
  /\ pending' = At(session.path, i)
  /\ UNCHANGED stored

\* A change nobody waits for is stored, or left for the next one to store.
Late(i) ==
  /\ MayLag /\ Resting /\ SameKey(i)
  /\ session' = [session EXCEPT !.image = i]
  /\ \E c \in {i, stored[session.path]} \cup (IF MayFail THEN {Lost} ELSE {}) :
       stored' = [stored EXCEPT ![session.path] = c]
  /\ UNCHANGED pending

Prepare(i) ==
  /\ Resting /\ SameKey(i)
  /\ pending' = At(session.path, i)
  /\ UNCHANGED <<stored, session>>

\* A new vault takes the place of what its file held; no other file has its key.
New(p, i) ==
  /\ session = Closed /\ pending = None
  /\ \A q \in Path : stored[q] \notin {Nothing, Lost} => stored[q].key # i.key
  /\ stored' = [stored EXCEPT ![p] = Nothing]
  /\ pending' = At(p, i)
  /\ UNCHANGED session

Settle ==
  /\ pending # None
  /\ stored' = [stored EXCEPT ![pending.path] = pending.image]
  /\ session' = pending
  /\ pending' = None

\* A new password and a mirror are written over what the file held.
Empty ==
  /\ session # Closed /\ pending # None
  /\ stored' = [stored EXCEPT ![pending.path] = Lost]
  /\ UNCHANGED <<session, pending>>

\* A write that fails keeps the session, and what the file held or nothing that
\* opens; a new file may be removed.
Fail ==
  /\ MayFail /\ pending # None
  /\ \E i \in {stored[pending.path], Lost} \cup (IF session = Closed THEN {Nothing} ELSE {}) :
       stored' = [stored EXCEPT ![pending.path] = i]
  /\ pending' = None
  /\ UNCHANGED session

Crash ==
  /\ session' = Closed /\ pending' = None
  /\ \/ UNCHANGED stored
     \/ /\ pending # None
        /\ \E i \in {pending.image, Lost} : stored' = [stored EXCEPT ![pending.path] = i]

Init ==
  /\ stored \in [Path -> Image \cup {Nothing}]
  /\ session = Closed /\ pending = None

Next ==
  \/ \E p \in Path : Open(p) \/ Remove(p) \/ \E i \in Image : New(p, i)
  \/ \E i \in Image : Edit(i) \/ Late(i) \/ Prepare(i)
  \/ Leave \/ Settle \/ Empty \/ Fail \/ Crash

Spec == Init /\ [][Next]_storeVars
=============================================================================
