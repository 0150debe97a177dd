---------------------------- MODULE SessionStore ----------------------------
(***************************************************************************)
(* VaultSession implements VaultStore: the user waits for each operation,  *)
(* and the process may crash at any point of one.                          *)
(*                                                                         *)
(* What an operation in flight writes counts as stored once its closure    *)
(* has run: until then the file of a new vault counts as none, and that of *)
(* a password or mirror change as lost once it is truncated.  An edit is   *)
(* stored when it is saved, before its closure runs.                       *)
(***************************************************************************)
EXTENDS VaultSession

Creating(t) ==
  /\ worker[t].kind \in {"create", "managed"}
  /\ worker[t].pc \in {"write", "secure", "reopen"} \/ (worker[t].pc = "posted" /\ worker[t].ok)
Copying(t) ==
  /\ worker[t].kind \in {"passwd", "mirror", "unmirror"}
  /\ worker[t].pc \in {"open", "write"} \/ (worker[t].pc = "posted" /\ worker[t].ok)
Emptied(t) == Copying(t) /\ worker[t].pc # "open"
Saving(t) == worker[t].kind \in {"edit", "totp", "generator"} /\ worker[t].pc = "save"

Writers == {t \in Slot : Creating(t) \/ Copying(t) \/ Saving(t)}
Current == Sealed(vault, key, password)

storedNow ==
  [p \in Path |->
     IF \E t \in Slot : Creating(t) /\ worker[t].path = p THEN Absent
     ELSE IF \E t \in Slot : Emptied(t) /\ worker[t].path = p THEN Damaged
     ELSE disk[p]]

sessionNow == IF vault = NoVault THEN NoVault ELSE [path |-> vault_path, image |-> Current]

pendingNow ==
  IF Writers = {} THEN NoPath
  ELSE LET t == CHOOSE u \in Writers : TRUE
       IN  IF Saving(t) THEN [path |-> vault_path, image |-> Current]
           ELSE [path |-> worker[t].path, image |-> Sealed(worker[t].vault, worker[t].key, worker[t].pass)]

\* The model values of a closed session and of no path are no images of files.
ASSUME StoreAssumption ==
  /\ NoVault \notin [path : Path, image : Image]
  /\ NoPath \notin [path : Path, image : Image]

\* An operation counts the sequence or the mirrors up by one, and a favicon the
\* sequence by another one.
Bounded == [vault : [id : Id, seq : 0..2 * MaxStarts, mirrors : 0..MaxStarts], key : Id, pass : Password]

Store == INSTANCE VaultStore WITH Image <- Bounded, MayFail <- Faults, MayLag <- "icon" \in Ops,
           Nothing <- Absent, Lost <- Damaged, Closed <- NoVault, None <- NoPath,
           stored <- storedNow, session <- sessionNow, pending <- pendingNow

\* The process may end at any point; the user waits for what he started.
CrashingSpec == Init /\ [][PatientNext \/ Crash]_vars

\* Whatever is changed reaches the file as a whole before the user goes on, what is
\* opened is what was stored last, a crash costs at most the file being written, and
\* a failing write that file but nothing of the session; only a favicon may be left
\* to the next save (save_vault_state, and the threads of on_change_master_password,
\* the mirrors, the settings saver and fetch_website_icon).
StoreRefined == Store!Spec
=============================================================================
