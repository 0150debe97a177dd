---------------------------- MODULE LockedMemory ----------------------------
(***************************************************************************)
(* The locked pages of the secure buffers, and what the session does when  *)
(* the system has no more of them.                                         *)
(*                                                                         *)
(* Every SecureBuffer is VirtualAlloc'ed and VirtualLock'ed: it takes      *)
(* whole pages, one at least, out of a quota the program never raises.     *)
(* new and from_slice answer None when the quota is used up, clone panics. *)
(* A panic under the AppState mutex poisons it; from then on every         *)
(* callback panics and only a new process goes on.                         *)
(*                                                                         *)
(* Pages are not counted one by one: Used is what the live buffers take.   *)
(* A buffer that lives within a step counts in the step's guard.  The      *)
(* steps of one save or load are one step here, and two writers of one     *)
(* file never meet (VaultSession tells those apart).  Vaults are Portable. *)
(* A vault is given by what takes pages: the notes, in whole pages, and    *)
(* the favicons, a page of the serialized vault each.  The rest of it fits *)
(* one page.                                                               *)
(***************************************************************************)
EXTENDS Integers, FiniteSets, FiniteSetsExt

CONSTANTS
  Id,              \* accounts there can ever be
  Notes,           \* lengths of a note in pages, 0 for an empty one
  Quotas,          \* numbers of pages a process may lock, one for each behaviour
  Thread,          \* threads alive at a time (a bound)
  MaxStarts,       \* operations started in a behaviour (a bound)
  NoVault, Damaged, NoId

ASSUME LockedMemoryAssumption ==
  /\ IsFiniteSet(Id) /\ NoId \notin Id
  /\ IsFiniteSet(Notes) /\ Notes \subseteq Nat /\ 0 \in Notes
  /\ IsFiniteSet(Thread) /\ Quotas \subseteq Nat /\ MaxStarts \in Nat

VARIABLES
  vault,     \* AppState.vault
  password,  \* whether AppState.password is Some
  handle,    \* whether AppState.vault_file is Some
  file,      \* the vault file
  worker,    \* the threads of the callbacks
  poisoned,  \* whether a panic has poisoned the mutex
  started,   \* operations started so far
  created,   \* whether the vault was created in this behaviour, and not found
  quota      \* pages the process may lock

vars == <<vault, password, handle, file, worker, poisoned, started, created, quota>>

Entries == UNION {[I -> Notes] : I \in SUBSET Id}
Vault == [notes : Entries, icons : SUBSET Id]
Blank == [notes |-> [i \in {} |-> 0], icons |-> {}]

\* None is no vault, and a file that does not open is neither.
ASSUME NoVaultAssumption == NoVault \notin Vault /\ Damaged \notin Vault \cup {NoVault}

-----------------------------------------------------------------------------
(* Buffers *)

Pages(n) == IF n = 0 THEN 1 ELSE n

\* A password and a note for each account.
Buffers(v) == SumFunction([i \in DOMAIN v.notes |-> 1 + Pages(v.notes[i])])

\* The serialized vault, in one buffer while it is encrypted or decrypted.
Content(v) == 1 + Cardinality(v.icons) + SumFunction(v.notes)

If(b) == IF b THEN 1 ELSE 0

\* A key and, if it could be copied, a password, next to the vault a thread holds.
\* id is the account that is edited, new one whose id the program has still to choose.
Idle == [pc |-> "idle", id |-> NoId, new |-> FALSE, pass |-> FALSE,
         vault |-> NoVault, file |-> FALSE, ok |-> FALSE]
Held(w) ==
  CASE w.pc = "idle" \/ w.pc = "icon" -> 0
    [] w.pc = "save"  -> 1 + If(w.pass)
    [] w.pc = "write" -> 1 + Buffers(w.vault)
    [] w.pc = "open"  -> 1 + If(w.pass) + Buffers(w.vault)
    [] w.pc = "store" -> If(w.pass)

Session(v) == (IF v = NoVault THEN 0 ELSE 1 + Buffers(v)) + If(password)
Used == Session(vault) + SumFunction([t \in Thread |-> Held(worker[t])])

\* What is left when the session holds the vault v, and its password or none.
Room(v) == quota - (Used - Session(vault)) - Session(v)
Fits(n) == Room(vault) >= n

\* Wrapping the key takes two buffers, then the subkey and the content are there at once.
ToSave(v) == Max({2, 1 + Content(v)})

\* Unwrapping takes three, then subkey, content and entries are there next to the key,
\* then key, password, the entries and the clone the session keeps.
ToLoad(v) == Max({3, 2 + Content(v) + Buffers(v)})
ToOpen(v) == Max({ToLoad(v), 2 + 2 * Buffers(v)})

\* Enough for the largest vault: key and password of the session and of each thread,
\* the entries and a copy of them for each thread, and one subkey and content.
Largest == [notes |-> [i \in Id |-> Max(Notes)], icons |-> Id]
Enough == (1 + Cardinality(Thread)) * (2 + Buffers(Largest)) + 1 + Content(Largest)

-----------------------------------------------------------------------------
(* Edits *)

Begin(t) == ~poisoned /\ worker[t].pc = "idle" /\ started < MaxStarts /\ started' = started + 1
Set(t, w) == worker' = [worker EXCEPT ![t] = w]
Poison == poisoned' = TRUE /\ UNCHANGED <<vault, password, handle, file>>

\* The thread copies the key and the password, and saves if it has the key.
Copy(t, v, typed) ==
  /\ vault' = v
  /\ Set(t, IF Room(v) < 1 THEN Idle
            ELSE [typed EXCEPT !.pc = "save", !.pass = password /\ Room(v) >= 2])
  /\ UNCHANGED <<password, handle, file, poisoned>>

\* from_slice(..).unwrap_or(new(0).unwrap()): the empty buffer is made in any case.
Kept(notes, room) == room >= Pages(notes)
Unwraps(notes, room) == room >= IF Kept(notes, room) THEN Pages(notes) + 1 ELSE 1
Note(notes, room) == IF Kept(notes, room) THEN notes ELSE 0

WithNote(v, id, n) ==
  [v EXCEPT !.notes = [i \in DOMAIN v.notes \cup {id} |-> IF i = id THEN n ELSE v.notes[i]]]

UpdateEntry(t, id, notes) ==
  /\ Begin(t) /\ vault # NoVault /\ id \in DOMAIN vault.notes
  /\ IF Unwraps(notes, Room(vault))
     THEN Copy(t, WithNote(vault, id, Note(notes, Room(vault))), [Idle EXCEPT !.id = id])
     ELSE Poison /\ UNCHANGED worker

\* Without the two buffers of AccountEntry::new nothing is added, and the thread goes on.
CreateEntry(t, id, notes) ==
  /\ Begin(t) /\ vault # NoVault /\ id \notin DOMAIN vault.notes
  /\ LET typed == [Idle EXCEPT !.id = id, !.new = TRUE]
         room == Room(vault) - 2
     IN  CASE room < 0 -> Copy(t, vault, typed)
           [] room >= 0 /\ notes = 0 -> Copy(t, WithNote(vault, id, 0), typed)
           [] room >= 0 /\ notes # 0 ->
                IF Unwraps(notes, room)
                THEN Copy(t, WithNote(vault, id, Note(notes, room)), typed)
                ELSE Poison /\ UNCHANGED worker

PurgeEntry(t, id) ==
  /\ Begin(t) /\ vault # NoVault /\ id \in DOMAIN vault.notes
  /\ LET rest == DOMAIN vault.notes \ {id}
     IN  Copy(t, [notes |-> [i \in rest |-> vault.notes[i]], icons |-> vault.icons \ {id}], Idle)

\* What a writer leaves behind a truncated file: the vault, or nothing that opens.
Written(v, pass, room) == IF pass /\ room >= ToSave(v) THEN v ELSE Damaged

\* Somebody holds the file exclusively: File::create fails.
Taken == handle \/ \E t \in Thread : worker[t].file

\* Through the handle the vault is cloned first, and the clone stays until the end.
\* (mutants: it is never cloned; it is cloned again to be serialized)
NoClone == 0
TwoClones == IF handle THEN 2 * Buffers(vault) ELSE 0
Clone == IF handle THEN Buffers(vault) ELSE 0

\* save_vault_state: an edit with an URL goes on to fetch its favicon.
SaveState(t) ==
  LET w == worker[t] IN
  /\ w.pc = "save" /\ ~poisoned
  /\ CASE vault = NoVault \/ (~handle /\ Taken) -> Set(t, Idle) /\ UNCHANGED <<file, poisoned>>
       [] vault # NoVault /\ handle /\ ~Fits(Clone) -> Set(t, Idle) /\ poisoned' = TRUE /\ UNCHANGED file
       [] OTHER ->
            /\ file' = Written(vault, w.pass, Room(vault) - Clone)
            /\ \/ Set(t, Idle)
               \/ file' # Damaged /\ w.id # NoId /\ Set(t, [Idle EXCEPT !.pc = "icon", !.id = w.id, !.new = w.new])
            /\ UNCHANGED poisoned
  /\ UNCHANGED <<vault, password, handle, started>>

\* fetch_website_icon stores the favicon, and saves by the path of the vault.  For a
\* new entry it is given the id of the form, the empty one.
FetchIcon(t) ==
  LET w == worker[t]
      v == IF vault # NoVault /\ ~w.new /\ w.id \in DOMAIN vault.notes
           THEN [vault EXCEPT !.icons = @ \cup {w.id}] ELSE vault
  IN
  /\ w.pc = "icon" /\ ~poisoned
  /\ vault' = v
  /\ file' = IF v = NoVault \/ ~Fits(1) \/ Taken THEN file
             ELSE Written(v, password /\ Fits(2), Room(v) - 2)
  /\ Set(t, Idle)
  /\ UNCHANGED <<password, handle, poisoned, started>>

-----------------------------------------------------------------------------
(* The master password *)

\* The clones of the key and of the vault. (mutant: the key is not counted)
ToCloneVault(v) == Buffers(v)
ToClone(v) == 1 + Buffers(v)

ChangePassword(t) ==
  /\ Begin(t) /\ vault # NoVault
  /\ IF Fits(ToClone(vault))
     THEN /\ Set(t, [Idle EXCEPT !.pc = "write", !.vault = vault, !.file = handle])
          /\ handle' = FALSE
          /\ UNCHANGED <<vault, password, file, poisoned>>
     ELSE Poison /\ UNCHANGED worker

\* Outside the mutex.  The new password is copied while the clone is still there.
WriteVault(t) ==
  LET w == worker[t]
      failed == (~w.file /\ Taken) \/ file' = Damaged
  IN
  /\ w.pc = "write"
  /\ file' = IF ~w.file /\ Taken THEN file ELSE Written(w.vault, TRUE, Room(vault))
  /\ Set(t, [Idle EXCEPT !.pc = "store", !.file = w.file, !.ok = ~failed, !.pass = ~failed /\ Fits(1)])
  /\ UNCHANGED <<vault, password, handle, poisoned, started>>

\* The closure.  After a failure the handle is put back without a look at the vault.
StorePassword(t) ==
  LET w == worker[t] IN
  /\ w.pc = "store" /\ ~poisoned
  /\ handle' = (handle \/ (w.file /\ (w.ok => vault # NoVault)))
  /\ password' = IF w.ok THEN w.pass ELSE password
  /\ Set(t, Idle)
  /\ UNCHANGED <<vault, file, poisoned, started>>

-----------------------------------------------------------------------------
(* The session *)

Unused == \A t \in Thread : worker[t].pc \in {"idle", "save", "icon"}

OpenVault(t) ==
  /\ Begin(t) /\ vault = NoVault /\ ~handle /\ Unused /\ file \notin {NoVault, Damaged}
  /\ Set(t, IF Fits(ToLoad(file))
            THEN [Idle EXCEPT !.pc = "open", !.vault = file, !.pass = Fits(2 + Buffers(file)), !.file = TRUE]
            ELSE Idle)
  /\ UNCHANGED <<vault, password, handle, file, poisoned>>

\* The closure keeps a clone; the thread's own entries go at its end.
OpenSession(t) ==
  LET w == worker[t] IN
  /\ w.pc = "open" /\ ~poisoned
  /\ Set(t, Idle)
  /\ IF Fits(Buffers(w.vault))
     THEN vault' = w.vault /\ password' = w.pass /\ handle' = TRUE /\ UNCHANGED <<file, poisoned>>
     ELSE Poison
  /\ UNCHANGED started

\* A new vault is written by its path and stays in the session as it is, without a handle.
CreateVault(t) ==
  /\ Begin(t) /\ file = NoVault /\ Unused
  /\ IF Fits(1 + ToSave(Blank))
     THEN file' = Blank /\ vault' = Blank /\ password' = Fits(2)
     ELSE file' = (IF Fits(1) THEN Damaged ELSE file) /\ UNCHANGED <<vault, password>>
  /\ created' = TRUE
  /\ UNCHANGED <<worker, handle, poisoned>>

Lock ==
  /\ ~poisoned /\ vault # NoVault
  /\ vault' = NoVault /\ password' = FALSE /\ handle' = FALSE
  /\ UNCHANGED <<file, worker, poisoned, started>>

\* The first callback after the panic ends the process; the user starts it again.
Restart ==
  /\ poisoned
  /\ vault' = NoVault /\ password' = FALSE /\ handle' = FALSE /\ poisoned' = FALSE
  /\ worker' = [t \in Thread |-> Idle]
  /\ UNCHANGED <<file, started>>

Init ==
  /\ vault = NoVault /\ password = FALSE /\ handle = FALSE
  /\ quota \in Quotas
  /\ file \in {v \in {[Blank EXCEPT !.notes = n] : n \in Entries} : ToOpen(v) <= quota}
              \cup {NoVault}
  /\ worker = [t \in Thread |-> Idle]
  /\ poisoned = FALSE /\ started = 0 /\ created = FALSE

Step ==
  \/ \E t \in Thread :
       \/ \E id \in Id, notes \in Notes : UpdateEntry(t, id, notes) \/ CreateEntry(t, id, notes)
       \/ \E id \in Id : PurgeEntry(t, id)
       \/ SaveState(t) \/ FetchIcon(t)
       \/ ChangePassword(t) \/ WriteVault(t) \/ StorePassword(t)
       \/ OpenVault(t) \/ OpenSession(t)
  \/ Lock \/ Restart

Next ==
  /\ \/ Step /\ UNCHANGED created
     \/ \E t \in Thread : CreateVault(t)
  /\ UNCHANGED quota

Spec == Init /\ [][Next]_vars

-----------------------------------------------------------------------------
(* Properties *)

\* No step takes more pages than there are, whatever the interleaving.
TypeOK ==
  /\ vault \in Vault \cup {NoVault} /\ file \in Vault \cup {NoVault, Damaged}
  /\ password \in BOOLEAN /\ handle \in BOOLEAN /\ poisoned \in BOOLEAN
  /\ worker \in [Thread -> [pc : {"idle", "save", "icon", "write", "store", "open"}, id : Id \cup {NoId},
                            new : BOOLEAN, pass : BOOLEAN, vault : Vault \cup {NoVault},
                            file : BOOLEAN, ok : BOOLEAN]]
  /\ started \in 0..MaxStarts
  /\ created \in BOOLEAN
  /\ Used <= quota

\* A vault this process has opened and written can be opened in the next one: whoever had
\* the pages to write it through its handle, next to the clone of it, has the pages to
\* read it and to clone it again (save_vault_state, on_attempt_unlock). One that was
\* created is written without a clone as long as its first session lasts.
SavedReopens == ~created /\ file \notin {NoVault, Damaged} => ToOpen(file) <= quota

\* With pages enough for the largest vault neither the file is lost nor, by a panic
\* under the mutex, the session with the edits in it (SecureBuffer::clone, unwrap).
NothingLost == quota >= Enough => file # Damaged /\ ~poisoned
=============================================================================
