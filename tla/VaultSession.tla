---------------------------- MODULE VaultSession ----------------------------
(***************************************************************************)
(* The open vault of the desktop application: the fields of AppState that  *)
(* the callbacks of ui/bridge share behind one mutex, the background       *)
(* threads those callbacks spawn, the closures the threads post back to    *)
(* the event loop, and the vault files on disk with their exclusive        *)
(* handles.                                                                *)
(*                                                                         *)
(* One action is one critical section of the mutex, one file operation, or *)
(* one closure run by the event loop, because that is where the code lets  *)
(* another thread in.  A master key stands for the vault it was generated  *)
(* for, a vault's contents are its sequence number and the number of its   *)
(* mirrors, and a file is missing, damaged (truncated or mixed by two      *)
(* writers: no load accepts it) or one complete saved image.               *)
(***************************************************************************)
EXTENDS Naturals, Sequences, FiniteSets

CONSTANTS
  Path,        \* vault files
  Id,          \* master keys, each drawn at random for one new vault
  Password,    \* non-empty master passwords
  Thread,      \* spawned background threads alive at a time (a bound)
  Saver,       \* the dedicated thread that saves the generator settings
  Ops,         \* the operations a run exercises, a subset of AllOps
  MaxStarts,   \* operations started in a behaviour (a bound)
  Faults,      \* whether truncating or writing a file, or an ACL call, may fail
  NoPath, NoId, NoPassword, NoVault, Absent, Damaged

AllOps == {"unlock", "create", "managed", "passwd", "mirror", "unmirror", "sync",
           "edit", "totp", "icon", "generator", "lock", "select", "delete",
           "close", "crash"}

Slot == Thread \cup {Saver}
VaultValue == [id : Id, seq : Nat, mirrors : Nat]
Image == [vault : VaultValue, key : Id, pass : Password]

ASSUME SessionAssumption ==
  /\ Ops \subseteq AllOps
  /\ MaxStarts \in Nat
  /\ Faults \in BOOLEAN
  /\ Saver \notin Thread
  /\ NoPath \notin Path /\ NoId \notin Id /\ NoPassword \notin Password
  /\ NoVault \notin VaultValue
  /\ Absent \notin Image /\ Damaged \notin Image /\ Absent # Damaged

VARIABLES
  vault, key, password, vault_path, vault_file,   \* AppState
  screen,     \* "list" (launch and vault list), "unlock", "main" (and its pages)
  prefs,      \* last_vault_path in config.json
  disk,       \* what each vault file holds
  worker,     \* the background threads
  queue,      \* threads whose closure waits in the event loop, oldest first
  settings,   \* an unread message in the generator-settings channel
  used,       \* master keys already drawn
  started     \* operations started so far

appVars == <<vault, key, password, vault_path, vault_file>>
vars == <<vault, key, password, vault_path, vault_file, screen, prefs, disk,
          worker, queue, settings, used, started>>

-----------------------------------------------------------------------------
(* Threads and files *)

Kind == {"none", "unlock", "create", "managed", "passwd", "mirror", "unmirror",
         "sync", "edit", "totp", "icon", "generator"}
PC == {"idle", "begin", "open", "load", "write", "secure", "reopen", "copy",
       "save", "restore", "posted"}

\* What a thread's closure owns: the handle it took, its copy of the vault, the
\* key and the password it captured, and its result.
Job == [kind : Kind, pc : PC, path : Path \cup {NoPath}, file : Path \cup {NoPath},
        vault : VaultValue \cup {NoVault}, key : Id \cup {NoId},
        pass : Password \cup {NoPassword}, ok : BOOLEAN]

NoJob == [kind |-> "none", pc |-> "idle", path |-> NoPath, file |-> NoPath,
          vault |-> NoVault, key |-> NoId, pass |-> NoPassword, ok |-> FALSE]

Live(t, kinds, pc) == worker[t].kind \in kinds /\ worker[t].pc = pc

\* An exclusive handle to p is open, in AppState or moved into a thread.
Held(p) == vault_file = p \/ \E t \in Slot : worker[t].file = p

\* Thread t writes p through a handle of File::create, which others may share.
WritesShared(t, p) == /\ worker[t].pc = "write"
                      /\ worker[t].file = NoPath
                      /\ worker[t].path = p
Shared(p) == \E t \in Slot : WritesShared(t, p)

\* CreateFileA with FILE_SHARE_NONE succeeds only when no handle is open.
\* (mutant: the share mode is forgotten)
CanOpenUnshared(p) == ~Shared(p)
CanOpenExclusive(p) == ~Held(p) /\ ~Shared(p)

\* remove_file: an exclusive handle makes it fail, shared handles do not.
\* (mutant: the handle admits FILE_SHARE_DELETE)
RemovableHeld(p) == disk[p] # Absent
Removable(p) == disk[p] # Absent /\ ~Held(p)

Sealed(v, k, w) == [vault |-> v, key |-> k, pass |-> w]

\* What p may hold once image was written in full: if another thread has a
\* shared handle too, the bytes of both may be mixed.
Written(p, image, mixed) ==
  \E c \in {image} \cup (IF mixed THEN {Damaged} ELSE {}) : disk' = [disk EXCEPT ![p] = c]

SetJob(t, job) == worker' = [worker EXCEPT ![t] = job]
Step(t, pc) == worker' = [worker EXCEPT ![t].pc = pc]
Finish(t) == SetJob(t, NoJob)

\* A shared handle to a removed file writes to no file any more.
Unlinked(p) ==
  [t \in Slot |-> IF WritesShared(t, p) THEN [worker[t] EXCEPT !.path = NoPath] ELSE worker[t]]

\* invoke_from_event_loop: the closure takes the thread's values with it.
Post(t, job) == /\ SetJob(t, [job EXCEPT !.pc = "posted"])
                /\ queue' = Append(queue, t)

\* (mutant: an early return that posts nothing)
FailSilently(t) == Step(t, "posted") /\ UNCHANGED queue
Fail(t) == Post(t, [worker[t] EXCEPT !.ok = FALSE, !.file = NoPath])

-----------------------------------------------------------------------------
(* What the user does: each callback runs to its thread::spawn at once *)

InUse(op) == op \in Ops /\ started < MaxStarts

Start(t, kind, w) ==
  /\ InUse(kind)
  /\ t \in Thread
  /\ worker[t] = NoJob
  /\ SetJob(t, [NoJob EXCEPT !.kind = kind, !.pc = "begin", !.pass = w])
  /\ started' = started + 1
  /\ UNCHANGED <<appVars, screen, prefs, disk, queue, settings, used>>

StartUnlock(t) == screen = "unlock" /\ \E w \in Password : Start(t, "unlock", w)

\* A new vault's key is drawn by the thread before anything else it does.
StartNew(t, kind, p) ==
  /\ InUse(kind)
  /\ screen = "list"
  /\ worker[t] = NoJob
  /\ \E w \in Password, i \in Id \ used :
       /\ SetJob(t, [NoJob EXCEPT !.kind = kind, !.pc = "begin", !.path = p, !.pass = w,
                       !.key = i, !.vault = [id |-> i, seq |-> 0, mirrors |-> 0]])
       /\ used' = used \cup {i}
  /\ started' = started + 1
  /\ UNCHANGED <<appVars, screen, prefs, disk, queue, settings>>

\* The external form opens only once a location was chosen, in this visit or an
\* earlier one; a managed vault is named by the user, p is the path of that name.
StartCreate(t) == vault_path # NoPath /\ StartNew(t, "create", NoPath)
StartManaged(t, p) == StartNew(t, "managed", p)

\* The old password is compared here; the thread looks at it no more.
StartPasswd(t) == /\ screen = "main"
                  /\ password # NoPassword
                  /\ \E w \in Password : Start(t, "passwd", w)

StartPlain(t, kind) == /\ screen = "main"
                       /\ kind \in {"mirror", "unmirror", "sync", "edit", "totp"}
                       /\ Start(t, kind, NoPassword)

SendSettings ==
  /\ InUse("generator")
  /\ screen = "main"
  /\ settings' = TRUE
  /\ started' = started + 1
  /\ UNCHANGED <<appVars, screen, prefs, disk, worker, queue, used>>

\* The session's secrets and its handle are dropped together.
\* (mutants: the key, or the handle, is forgotten)
ClearedButKey == vault' = NoVault /\ password' = NoPassword /\ vault_file' = NoPath /\ UNCHANGED key
ClearedButFile == vault' = NoVault /\ key' = NoId /\ password' = NoPassword /\ UNCHANGED vault_file
Cleared == vault' = NoVault /\ key' = NoId /\ password' = NoPassword /\ vault_file' = NoPath

\* 5. Lock Vault: the path stays, for the unlock screen.
Lock ==
  /\ "lock" \in Ops
  /\ screen = "main"
  /\ Cleared
  /\ screen' = "unlock"
  /\ UNCHANGED <<vault_path, prefs, disk, worker, queue, settings, used, started>>

\* Choosing a vault: an existing file (or a managed name) leads to the unlock
\* screen, the location of a new external vault stays on the list.
SelectVault(p) ==
  /\ "select" \in Ops
  /\ screen = "list"
  /\ vault_path' = p
  /\ \/ disk[p] # Absent /\ screen' = "unlock"
     \/ "create" \in Ops /\ UNCHANGED screen
  /\ UNCHANGED <<vault, key, password, vault_file, prefs, disk, worker, queue,
                 settings, used, started>>

Back ==
  /\ "select" \in Ops
  /\ screen = "unlock"
  /\ screen' = "list"
  /\ UNCHANGED <<appVars, prefs, disk, worker, queue, settings, used, started>>

DeleteVault(p) ==
  /\ "delete" \in Ops
  /\ screen = "list"
  /\ Removable(p)
  /\ disk' = [disk EXCEPT ![p] = Absent]
  /\ worker' = Unlinked(p)
  /\ UNCHANGED <<appVars, screen, prefs, queue, settings, used, started>>

\* The process ends, with every thread wherever it is, and is started again.
Relaunch(last) ==
  /\ prefs' = last
  /\ Cleared
  /\ vault_path' = (IF last \in Path /\ disk[last] # Absent THEN last ELSE NoPath)
  /\ screen' = (IF vault_path' = NoPath THEN "list" ELSE "unlock")
  /\ worker' = [t \in Slot |-> NoJob]
  /\ queue' = <<>>
  /\ settings' = FALSE
  /\ UNCHANGED <<disk, used, started>>

Close == "close" \in Ops /\ Relaunch(vault_path)
Crash == "crash" \in Ops /\ Relaunch(prefs)

-----------------------------------------------------------------------------
(* Unlocking and creating *)

\* The thread reads the path under the mutex, after the callback returned.
ReadPath(t) ==
  /\ Live(t, {"unlock", "create"}, "begin")
  /\ IF vault_path = NoPath
     THEN Fail(t)
     ELSE /\ SetJob(t, [worker[t] EXCEPT !.path = vault_path, !.pc = "open"])
          /\ UNCHANGED queue
  /\ UNCHANGED <<appVars, screen, prefs, disk, settings, used, started>>

UnlockOpen(t) ==
  LET p == worker[t].path IN
  /\ Live(t, {"unlock"}, "open")
  /\ IF disk[p] # Absent /\ CanOpenExclusive(p)
     THEN /\ SetJob(t, [worker[t] EXCEPT !.file = p, !.pc = "load"])
          /\ UNCHANGED queue
     ELSE Fail(t)
  /\ UNCHANGED <<appVars, screen, prefs, disk, settings, used, started>>

\* load_vault_from_reader unwraps the key with the password and decrypts.
UnlockLoad(t) ==
  LET image == disk[worker[t].file] IN
  /\ Live(t, {"unlock"}, "load")
  /\ IF image \in {Absent, Damaged}
     THEN Fail(t)
     ELSE IF image.pass # worker[t].pass
     THEN Fail(t)
     ELSE Post(t, [worker[t] EXCEPT !.vault = image.vault, !.key = image.key, !.ok = TRUE])
  /\ UNCHANGED <<appVars, screen, prefs, disk, settings, used, started>>

\* create_managed_vault: the name must be free; CREATE_NEW makes an empty file.
ManagedCreate(t) ==
  LET p == worker[t].path IN
  /\ Live(t, {"managed"}, "begin")
  /\ IF disk[p] # Absent
     THEN Fail(t) /\ UNCHANGED disk
     ELSE /\ disk' = [disk EXCEPT ![p] = Damaged]
          /\ SetJob(t, [worker[t] EXCEPT !.file = p, !.pc = "write"])
          /\ UNCHANGED queue
  /\ UNCHANGED <<appVars, screen, prefs, settings, used, started>>

\* The handle was dropped for the ACL call; a failure removes the file.
ManagedSecure(t) ==
  LET p == worker[t].path IN
  /\ Live(t, {"managed"}, "secure")
  /\ \/ ~Held(p) /\ Step(t, "reopen") /\ UNCHANGED <<disk, queue>>
     \/ /\ Held(p) \/ Faults
        /\ disk' = (IF Removable(p) THEN [disk EXCEPT ![p] = Absent] ELSE disk)
        /\ worker' = [(IF Removable(p) THEN Unlinked(p) ELSE worker) EXCEPT
                         ![t].pc = "posted", ![t].ok = FALSE]
        /\ queue' = Append(queue, t)
  /\ UNCHANGED <<appVars, screen, prefs, settings, used, started>>

ManagedReopen(t) ==
  LET p == worker[t].path IN
  /\ Live(t, {"managed"}, "reopen")
  /\ IF disk[p] # Absent /\ CanOpenExclusive(p)
     THEN Post(t, [worker[t] EXCEPT !.file = p, !.ok = TRUE])
     ELSE Fail(t)
  /\ UNCHANGED <<appVars, screen, prefs, disk, settings, used, started>>

-----------------------------------------------------------------------------
(* Saving a copy of the vault outside the mutex: password and mirrors *)

\* What the thread writes: the vault as it is now, with one mirror more or less.
\* (mutant: the password change falls into the arm of the removed mirror)
SnapshotFallsThrough(kind) == [vault EXCEPT !.mirrors = IF kind = "mirror" THEN @ + 1 ELSE @ - 1]
\* (mutant: the copy is read from the file, where a favicon may be missing)
SnapshotOfFile(kind) ==
  [vault EXCEPT !.seq = disk[vault_path].vault.seq,
                !.mirrors = IF kind = "mirror" THEN @ + 1
                            ELSE IF kind = "unmirror" THEN @ - 1 ELSE @]
Snapshot(kind) ==
  CASE kind = "mirror"   -> [vault EXCEPT !.mirrors = @ + 1]
    [] kind = "unmirror" -> [vault EXCEPT !.mirrors = @ - 1]
    [] OTHER             -> vault

\* state.vault_file.take(), with copies of the vault, the key and the password.
\* The index of the mirror to remove is that of the list on the screen: when it
\* is out of range the handle goes straight back.
TakeSession(t) ==
  LET kind == worker[t].kind
      taken == [worker[t] EXCEPT !.file = vault_file, !.path = vault_path]
  IN
  /\ Live(t, {"passwd", "mirror", "unmirror"}, "begin")
  /\ IF vault = NoVault \/ key = NoId
     THEN Finish(t) /\ UNCHANGED <<queue, vault_file>>
     ELSE /\ vault_file' = NoPath
          /\ \/ kind = "unmirror" /\ Post(t, taken)
             \/ /\ ~(kind = "unmirror" /\ vault.mirrors = 0)
                /\ SetJob(t, [taken EXCEPT
                     !.pc = "open", !.vault = Snapshot(kind), !.key = key,
                     !.pass = IF kind = "passwd" THEN @ ELSE password])
                /\ UNCHANGED queue
  /\ UNCHANGED <<vault, key, password, vault_path, screen, prefs, disk, settings,
                 used, started>>

\* set_len(0) through the handle, or File::create, which truncates. When it fails
\* the file stays as it was, and the closure gets the handle.
OpenForWrite(t) ==
  LET p == IF worker[t].file # NoPath THEN worker[t].file ELSE worker[t].path
      refused == worker[t].file = NoPath /\ Held(p)
  IN
  /\ Live(t, {"create", "passwd", "mirror", "unmirror"}, "open")
  /\ \/ /\ refused \/ Faults
        /\ Post(t, worker[t])
        /\ UNCHANGED disk
     \/ /\ ~refused
        /\ disk' = [disk EXCEPT ![p] = Damaged]
        /\ Step(t, "write")
        /\ UNCHANGED queue
  /\ UNCHANGED <<appVars, screen, prefs, settings, used, started>>

\* save_vault_to_writer. Through a shared handle another writer's bytes may be
\* mixed in, and to a file removed meanwhile it changes nothing.
WriteOut(t) ==
  LET w == worker[t]
      p == IF w.file # NoPath THEN w.file ELSE w.path
      mixed == w.file = NoPath /\ (disk[p] # Damaged \/ \E u \in Slot \ {t} : WritesShared(u, p))
  IN
  /\ w.pc = "write"
  /\ w.pass # NoPassword
  /\ IF p = NoPath
     THEN UNCHANGED disk
     ELSE Written(p, Sealed(w.vault, w.key, w.pass), mixed)
  /\ IF w.kind = "managed"
     THEN SetJob(t, [w EXCEPT !.file = NoPath, !.pc = "secure"]) /\ UNCHANGED queue
     ELSE Post(t, [w EXCEPT !.ok = TRUE])
  /\ UNCHANGED <<appVars, screen, prefs, settings, used, started>>

\* The write fails after the truncation (MissingPassword, or the device). A
\* managed vault's file is removed; the other threads keep their handle and
\* hand it to their closure.
WriteFail(t) ==
  LET w == worker[t] IN
  /\ w.pc = "write"
  /\ Faults \/ w.pass = NoPassword
  /\ IF w.kind = "managed"
     THEN disk' = [disk EXCEPT ![w.path] = Absent] /\ Fail(t)
     ELSE UNCHANGED disk /\ Post(t, w)
  /\ UNCHANGED <<appVars, screen, prefs, settings, used, started>>

\* Sync Mirrors reads the file through the handle; nothing of the session changes.
SyncTake(t) ==
  /\ Live(t, {"sync"}, "begin")
  /\ IF vault = NoVault
     THEN Finish(t) /\ UNCHANGED vault_file
     ELSE /\ SetJob(t, [worker[t] EXCEPT !.file = vault_file, !.path = vault_path, !.pc = "copy"])
          /\ vault_file' = NoPath
  /\ UNCHANGED <<vault, key, password, vault_path, screen, prefs, disk, queue,
                 settings, used, started>>

SyncCopy(t) ==
  /\ Live(t, {"sync"}, "copy")
  /\ Post(t, [worker[t] EXCEPT !.ok = TRUE])
  /\ UNCHANGED <<appVars, screen, prefs, disk, settings, used, started>>

-----------------------------------------------------------------------------
(* Edits: mutate under the mutex, release it, save under it again *)

Bumped == [vault EXCEPT !.seq = @ + 1]
SessionOpen == vault # NoVault /\ key # NoId /\ vault_path # NoPath

\* A write to p fails, after the file was truncated or (not for want of a
\* password) before.
Spoiled(p) ==
  \E c \in {Damaged} \cup (IF Faults THEN {disk[p]} ELSE {}) : disk' = [disk EXCEPT ![p] = c]

\* Truncate p and write the vault of AppState with key k and password w, in one
\* critical section; ok is the result.
SaveTo(p, k, w, ok) ==
  \/ ok /\ w # NoPassword /\ Written(p, Sealed(vault, k, w), Shared(p))
  \/ ~ok /\ (Faults \/ w = NoPassword) /\ Spoiled(p)

\* File::create in place of the handle: refused while an exclusive handle is open.
SaveByPath(p, k, w, ok) ==
  IF Held(p) THEN ~ok /\ UNCHANGED disk ELSE SaveTo(p, k, w, ok)

\* save_vault_state: through the handle of AppState, or by path without one.
SaveVaultState(k, w, ok) ==
  IF vault = NoVault
  THEN ~ok /\ UNCHANGED disk
  ELSE IF vault_file # NoPath THEN SaveTo(vault_file, k, w, ok)
                              ELSE SaveByPath(vault_path, k, w, ok)

\* Every entry callback (save, delete, restore, link, unlink, import, TOTP)
\* changes the vault, counts one up and copies key and password.
EditMutate(t) ==
  /\ Live(t, {"edit", "totp"}, "begin")
  /\ IF SessionOpen
     THEN /\ vault' = Bumped
          /\ SetJob(t, [worker[t] EXCEPT !.key = key, !.pass = password, !.pc = "save"])
     ELSE Finish(t) /\ UNCHANGED vault
  /\ UNCHANGED <<key, password, vault_path, vault_file, screen, prefs, disk, queue,
                 settings, used, started>>

EditSave(t) ==
  /\ Live(t, {"edit", "totp"}, "save")
  /\ \E ok \in BOOLEAN :
       /\ SaveVaultState(worker[t].key, worker[t].pass, ok)
       /\ Post(t, [worker[t] EXCEPT !.ok = ok])
  /\ UNCHANGED <<appVars, screen, prefs, settings, used, started>>

\* fetch_website_icon: the favicon arrives, and the vault is saved by its path,
\* whatever handle is open, with the result ignored; or it never arrives.
IconFetch(t) ==
  /\ Live(t, {"icon"}, "begin")
  /\ Finish(t)
  /\ \/ UNCHANGED <<vault, disk>>
     \/ /\ SessionOpen
        /\ vault' = Bumped
        /\ IF Held(vault_path)
           THEN UNCHANGED disk
           ELSE \/ Written(vault_path, Sealed(Bumped, key, password), Shared(vault_path))
                \/ Faults /\ Spoiled(vault_path)
  /\ UNCHANGED <<key, password, vault_path, vault_file, screen, prefs, queue,
                 settings, used, started>>

-----------------------------------------------------------------------------
(* The generator-settings saver: receive, wait, take, write, put back *)

SaverReceive ==
  /\ settings /\ worker[Saver] = NoJob
  /\ SetJob(Saver, [NoJob EXCEPT !.kind = "generator", !.pc = "begin"])
  /\ settings' = FALSE
  /\ UNCHANGED <<appVars, screen, prefs, disk, queue, used, started>>

\* The messages of the last half second are drained, the latest is applied.
SaverTake ==
  /\ Live(Saver, {"generator"}, "begin")
  /\ settings' = FALSE
  /\ vault' = (IF vault = NoVault THEN vault ELSE Bumped)
  /\ IF SessionOpen
     THEN /\ SetJob(Saver, [worker[Saver] EXCEPT !.file = vault_file, !.path = vault_path,
                              !.key = key, !.pass = password, !.pc = "save"])
          /\ vault_file' = NoPath
     ELSE Finish(Saver) /\ UNCHANGED vault_file
  /\ UNCHANGED <<key, password, vault_path, screen, prefs, disk, queue, used, started>>

\* Whatever vault is open now is written through the handle taken before.
SaverWrite ==
  LET w == worker[Saver] IN
  /\ Live(Saver, {"generator"}, "save")
  /\ IF vault = NoVault
     THEN UNCHANGED disk
     ELSE \E ok \in BOOLEAN :
            IF w.file # NoPath THEN SaveTo(w.file, w.key, w.pass, ok)
                               ELSE SaveByPath(w.path, w.key, w.pass, ok)
  /\ Step(Saver, "restore")
  /\ UNCHANGED <<appVars, screen, prefs, queue, settings, used, started>>

SaverRestore ==
  /\ Live(Saver, {"generator"}, "restore")
  /\ vault_file' = (IF vault # NoVault /\ worker[Saver].file # NoPath
                    THEN worker[Saver].file ELSE vault_file)
  /\ Finish(Saver)
  /\ UNCHANGED <<vault, key, password, vault_path, screen, prefs, disk, queue,
                 settings, used, started>>

-----------------------------------------------------------------------------
(* Closures, run by the event loop in the order they were posted *)

\* vault_file gets the handle back, unless the closure owns none.
\* (mutant: also into a locked session)
ReturnedAlways(w, wanted) == IF w.file # NoPath THEN w.file ELSE vault_file
Returned(w, wanted) == IF wanted /\ w.file # NoPath THEN w.file ELSE vault_file

\* The closure of an unlock, of a new external vault, or of a new managed vault.
OpenSession(w) ==
  IF ~w.ok
  THEN UNCHANGED <<appVars, prefs, screen>>
  ELSE /\ vault' = w.vault /\ key' = w.key /\ password' = w.pass
       /\ vault_path' = (IF w.kind = "managed" THEN w.path ELSE vault_path)
       /\ vault_file' = (IF w.kind = "create" THEN vault_file ELSE w.file)
       /\ prefs' = vault_path'
       /\ screen' = "main"

SyncDone(w) ==
  /\ vault_file' = Returned(w, vault # NoVault)
  /\ UNCHANGED <<vault, key, password, vault_path, prefs, screen>>

\* Add and remove mirror put their copy of the vault in place of the current
\* one. (mutant SyncDone: the copy is dropped)
MirrorDone(w) ==
  /\ vault_file' = Returned(w, vault # NoVault)
  /\ vault' = (IF w.ok THEN w.vault ELSE vault)
  /\ UNCHANGED <<key, password, vault_path, prefs, screen>>

\* On an error the handle goes back unconditionally, on success only while a
\* vault is open; the new password is stored in either case of success.
\* (mutant MirrorDone: the copy that was written replaces the vault)
PasswdDone(w) ==
  /\ vault_file' = Returned(w, ~w.ok \/ vault # NoVault)
  /\ password' = (IF w.ok THEN w.pass ELSE password)
  /\ UNCHANGED <<vault, key, vault_path, prefs, screen>>

\* Saving a TOTP returns to the main screen, whatever the screen is now.
EditDone(w) ==
  /\ screen' = (IF w.kind = "totp" THEN "main" ELSE screen)
  /\ UNCHANGED <<appVars, prefs>>

\* The oldest closure runs; a saved account with a URL goes on to fetch its icon.
RunClosure ==
  /\ queue # <<>>
  /\ queue' = Tail(queue)
  /\ LET t == Head(queue)
         w == worker[t]
     IN /\ CASE w.kind \in {"unlock", "create", "managed"} -> OpenSession(w)
             [] w.kind = "passwd"                          -> PasswdDone(w)
             [] w.kind \in {"mirror", "unmirror"}          -> MirrorDone(w)
             [] w.kind = "sync"                            -> SyncDone(w)
             [] w.kind \in {"edit", "totp"}                -> EditDone(w)
        /\ \/ Finish(t)
           \/ /\ w.kind = "edit" /\ w.ok /\ "icon" \in Ops
              /\ SetJob(t, [NoJob EXCEPT !.kind = "icon", !.pc = "begin"])
  /\ UNCHANGED <<disk, settings, used, started>>

-----------------------------------------------------------------------------
UserStep ==
  \/ \E t \in Thread : \/ StartUnlock(t)
                       \/ StartCreate(t)
                       \/ \E p \in Path : StartManaged(t, p)
                       \/ StartPasswd(t)
                       \/ \E k \in Kind : StartPlain(t, k)
  \/ SendSettings
  \/ Lock
  \/ \E p \in Path : SelectVault(p) \/ DeleteVault(p)
  \/ Back
  \/ Close

ThreadStep(t) ==
  \/ ReadPath(t) \/ UnlockOpen(t) \/ UnlockLoad(t)
  \/ ManagedCreate(t) \/ ManagedSecure(t) \/ ManagedReopen(t)
  \/ TakeSession(t) \/ OpenForWrite(t) \/ WriteOut(t) \/ WriteFail(t)
  \/ SyncTake(t) \/ SyncCopy(t)
  \/ EditMutate(t) \/ EditSave(t) \/ IconFetch(t)

SaverStep == SaverReceive \/ SaverTake \/ SaverWrite \/ SaverRestore

Next == UserStep \/ Crash \/ (\E t \in Thread : ThreadStep(t)) \/ SaverStep \/ RunClosure

\* The program is started with some vault files present, each with its own key,
\* and with the path of one of them, or none, remembered from the last time.
Init ==
  /\ disk \in [Path -> {Absent} \cup
                       {Sealed([id |-> i, seq |-> 0, mirrors |-> 0], i, w) :
                          i \in Id, w \in Password}]
  /\ \A p, q \in Path :
       (disk[p] # Absent /\ disk[q] # Absent /\ disk[p].key = disk[q].key) => p = q
  /\ used = {disk[p].key : p \in {q \in Path : disk[q] # Absent}}
  /\ prefs \in {p \in Path : disk[p] # Absent} \cup {NoPath}
  /\ vault = NoVault /\ key = NoId /\ password = NoPassword /\ vault_file = NoPath
  /\ vault_path = prefs
  /\ screen = (IF prefs = NoPath THEN "list" ELSE "unlock")
  /\ worker = [t \in Slot |-> NoJob]
  /\ queue = <<>>
  /\ settings = FALSE
  /\ started = 0

Spec == Init /\ [][Next]_vars

-----------------------------------------------------------------------------
(* Whatever the user does while threads are running *)

TypeOK ==
  /\ vault \in VaultValue \cup {NoVault}
  /\ key \in Id \cup {NoId}
  /\ password \in Password \cup {NoPassword}
  /\ vault_path \in Path \cup {NoPath}
  /\ vault_file \in Path \cup {NoPath}
  /\ screen \in {"list", "unlock", "main"}
  /\ prefs \in Path \cup {NoPath}
  /\ disk \in [Path -> Image \cup {Absent, Damaged}]
  /\ worker \in [Slot -> Job]
  /\ queue \in Seq(Thread)
  /\ settings \in BOOLEAN
  /\ used \subseteq Id
  /\ started \in Nat

\* However the handle of a vault file moves between AppState, the threads and
\* the closures in the event loop, it has one owner, and nobody writes the file
\* through a shared handle meanwhile (open_exclusive, vault_file.take()).
HandleExclusive ==
  \A p \in Path :
    /\ \A t, u \in Slot : worker[t].file = p /\ worker[u].file = p => t = u
    /\ \A t \in Slot : vault_file = p => worker[t].file # p
    /\ Held(p) => ~Shared(p)

\* A file under an exclusive handle is not deleted, and is not removed by a
\* failed creation, while somebody relies on the handle.
HeldFileExists == \A p \in Path : Held(p) => disk[p] # Absent

\* A key in AppState is never without the password and the path that a save
\* needs: a save whose password is missing fails after it truncated the file.
SessionKeyed ==
  key # NoId => vault # NoVault /\ password # NoPassword /\ vault_path # NoPath

\* While a thread owns the handle of a file, no other thread, callback or
\* closure changes the file under it.
HandleProtectsFile ==
  [][\A t \in Slot, p \in Path :
       worker[t].file = p /\ disk'[p] # disk[p] => worker'[t] # worker[t]]_vars

-----------------------------------------------------------------------------
(* The scheduling the program relies on *)

\* A spawned thread runs on, its system calls return (an open or a write fails,
\* it never waits), and the event loop keeps draining its queue.
Fairness == /\ \A t \in Thread : WF_vars(ThreadStep(t))
            /\ WF_vars(SaverStep)
            /\ WF_vars(RunClosure)

FairSpec == Spec /\ Fairness

\* Every thread that was started runs to its end, with its closure: no early
\* return forgets to post, and none waits for a handle another one has.
JobsFinish == \A t \in Slot : (worker[t] # NoJob) ~> (worker[t] = NoJob)

\* A vault that stays locked has its file released in the end, also when the
\* lock came while a thread had the handle (5. Lock Vault, the closures of 6, 10,
\* 11, 12 and the saver put a handle back only into an open session).
\* Where every write succeeds; after one that fails see on_change_master_password.
LockReleasesFile == (<>[](vault = NoVault)) => (<>[](\A p \in Path : ~Held(p)))

-----------------------------------------------------------------------------
(* What the callbacks guarantee a user who waits for each operation to end *)

Quiet == (\A t \in Slot : worker[t] = NoJob) /\ queue = <<>> /\ ~settings

PatientNext == (Quiet /\ UserStep) \/ (\E t \in Thread : ThreadStep(t)) \/ SaverStep \/ RunClosure

\* The file of the session holds the vault as it was at number n, under the key and
\* the password, and with the mirrors, of the session.
HasVault(n) == disk[vault_path] = Sealed([vault EXCEPT !.seq = n], key, password)

\* Once a favicon could not be saved: all but that.
Lagging == "icon" \in Ops /\ vault.seq > 0 /\ HasVault(vault.seq - 1)

\* Once a write of it failed: nothing that opens, or the vault without its last edits.
Behind == disk[vault_path] = Damaged \/ \E n \in 0..vault.seq : HasVault(n)

\* Between operations the session is complete or gone. A locked one keeps neither
\* secrets nor a handle; an open one has the handle of its own path, or none, and
\* its file holds exactly the vault in memory, under the key and the password in
\* memory: locking loses nothing, and the password asked for next time is the one
\* last set. A favicon that could not be saved may be missing, the last one only.
\* After a write that failed the file may be damaged or lack edits, which the next
\* write replaces, but it never has another password or other mirrors.
SessionCoherent ==
  Quiet => IF vault = NoVault
           THEN key = NoId /\ password = NoPassword /\ vault_file = NoPath
           ELSE /\ key = vault.id /\ vault_file \in {vault_path, NoPath}
                /\ HasVault(vault.seq) \/ Lagging \/ (Faults /\ Behind)

\* "Monotonic counter for rollback protection": no step takes an update away from
\* the open vault, one of a favicon that is only in memory included, or writes a
\* file that lacks one: the copies that the threads of the password and the mirrors
\* take, write, and put in the vault's place have all that was done before them.
\* For a user who does not wait they have not: add and remove mirror then put an
\* older copy back over what was edited meanwhile.
UpdatesSurvive ==
  [][vault # NoVault =>
       /\ vault' # NoVault => vault'.id = vault.id /\ vault'.seq >= vault.seq
       /\ \A p \in Path :
            disk'[p] # disk[p] /\ disk'[p] \notin {Absent, Damaged}
              => disk'[p].vault.id = vault.id /\ disk'[p].vault.seq >= vault.seq]_vars
=============================================================================
