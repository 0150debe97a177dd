------------------------------ MODULE Transfer ------------------------------
(***************************************************************************)
(* Import and export of accounts and authenticators: the threads that      *)
(* on_export_* and on_import_* spawn, the files they write and read, and   *)
(* the merge of a file into whichever vault is open when the user answers  *)
(* the file dialog.  One action is one dialog, one critical section of the *)
(* mutex or one closure; a vault stays open, is locked, another one is     *)
(* opened and entries are trashed and restored meanwhile.                  *)
(*                                                                         *)
(* A name stands for what duplicates are told by: title and user name of   *)
(* an account, issuer and account name of an authenticator.  CSV and JSON  *)
(* differ in layout only: either gives all its rows or an error. The       *)
(* settings of an authenticator are left out: to_entry drops them.         *)
(***************************************************************************)
EXTENDS Naturals, Sequences, SequencesExt

CONSTANTS
  Vault, File, Thread,
  Name, Value, \* what tells entries apart, and what their fields hold
  Calmness,    \* the behaviours of a run: TRUE calm ones, FALSE the others
  MaxStarts,   \* operations started in a behaviour (a bound)
  Start,       \* what each vault holds at first
  Given,       \* what each file holds at first
  Empty, Nul,  \* the empty text, and the text of one zero byte
  None

Kinds == {"account", "totp"}

ASSUME TransferAssumption ==
  /\ Calmness \subseteq BOOLEAN /\ MaxStarts \in Nat
  /\ None \notin Vault /\ Empty # Nul /\ {Empty, Nul} \subseteq Value

VARIABLES
  open,     \* the vault of AppState
  mem,      \* its entries
  disk,     \* the entries and the key each vault file was saved with
  files,    \* the files of the user
  job,      \* the threads
  status,   \* io-status-message
  started,  \* operations started so far
  calm      \* the user waits for a thread to end before locking or opening, and
            \* there is locked memory for each row and for the copied key
steps == <<open, mem, disk, files, job, status, started>>
vars == <<steps, calm>>

-----------------------------------------------------------------------------
(* Entries and files *)

\* SecureBuffer::from_slice keeps no length of its own.
Buffer(s) == IF s = Empty THEN Nul ELSE s

\* The entries the loops of on_export_* and do_import_* do not pass over.
Only(entries, kept) ==
  FoldLeft(LAMBDA acc, e : IF e \in kept THEN Append(acc, e) ELSE acc, <<>>, entries)
Live(entries) == Only(entries, {e \in Range(entries) : ~e.deleted})
HasLive(entries, name) == \E i \in DOMAIN entries : entries[i].name = name /\ ~entries[i].deleted

Columns == [account |-> {"name", "url", "username", "password", "note", "folder"},
            totp |-> {"name", "secret", "issuer", "algorithm", "digits", "period"}]

\* No buffer of an entry is empty. Of a file with bad rows the others can be read.
Entry == [name : Name, secret : Value \ {Empty}, note : Value \ {Empty}, deleted : BOOLEAN]
Row == [name : Name, secret : Value, note : Value]
Document == [columns : SUBSET UNION {Columns[k] : k \in Kinds}, rows : Seq(Row),
             bad : SUBSET Nat, origin : Seq(Entry) \cup {None}]

\* The program starts with vaults it has saved and files of other programs.
ASSUME FilesAssumption ==
  /\ Start \in [Vault -> [Kinds -> Seq(Entry)]]
  /\ Given \in [File -> Document] /\ \A f \in File : Given[f].origin = None

\* from_entry.
ToRow(e) == [name |-> e.name, secret |-> e.secret, note |-> e.note]
\* What export_* writes: no trash, no authenticator without a secret.
Listed(kind, entries) ==
  Only(entries, {e \in Range(entries) : ~e.deleted /\ (kind = "totp" => e.secret # Empty)})
\* (mutant: the trash is written too)
WithTrash(kind, entries) ==
  [columns |-> Columns[kind], rows |-> [i \in DOMAIN entries |-> ToRow(entries[i])], bad |-> {},
   origin |-> Live(entries)]
Exported(kind, entries) ==
  LET listed == Listed(kind, entries) IN
  [columns |-> Columns[kind], rows |-> [i \in DOMAIN listed |-> ToRow(listed[i])], bad |-> {},
   origin |-> Live(entries)]   \* origin: history, for RoundTrip

\* to_entry: a new entry, not deleted, without links.
ToEntry(row) == [name |-> row.name, secret |-> Buffer(row.secret),
                 note |-> Buffer(row.note), deleted |-> FALSE]

\* serde reads a row only if every field is there; the first bad row ends it.
\* (mutant: the reader goes on after a bad row)
ReadableRows(kind, f) == Columns[kind] \subseteq f.columns
Readable(kind, f) == f.rows = <<>> \/ (Columns[kind] \subseteq f.columns /\ f.bad = {})

\* Rows for which the allocator has no locked memory are left out.
Kept(n) ==
  IF calm THEN {[i \in 1..n |-> i]}
  ELSE {s \in UNION {[1..k -> 1..n] : k \in 0..n} : \A i, j \in DOMAIN s : i < j => s[i] < s[j]}
Parsed(f) == {[i \in DOMAIN s |-> ToEntry(f.rows[s[i]])] : s \in Kept(Len(f.rows))}

\* The loop of do_import_accounts: each row meets what the rows before it added.
\* (mutant: duplicates are looked for in the vault as it was)
MergedLate(entries, new) ==
  FoldLeft(LAMBDA acc, e : IF HasLive(entries, e.name) THEN acc ELSE Append(acc, e), entries, new)
Merged(entries, new) ==
  FoldLeft(LAMBDA acc, e : IF HasLive(acc, e.name) THEN acc ELSE Append(acc, e), entries, new)

-----------------------------------------------------------------------------
(* Threads *)

Absent == [columns |-> {}, rows |-> <<>>, bad |-> {}, origin |-> None]
Torn == [Absent EXCEPT !.bad = {1}, !.rows = <<None>>]   \* written in part
Idle == [op |-> "none", kind |-> "account", pc |-> "idle", file |-> Absent, entries |-> <<>>,
         ok |-> TRUE, key |-> None, home |-> None]
Status == [text |-> "none", kind |-> "account"]

Busy == \E t \in Thread : job[t].op # "none"
Go(t, j) == job' = [job EXCEPT ![t] = j]
To(t, pc) == Go(t, [job[t] EXCEPT !.pc = pc])
At(t, op, pc) == job[t].op = op /\ job[t].pc = pc

StartOp == started < MaxStarts /\ open # None /\ started' = started + 1
Spawn(t, op, kind, pc) == /\ job[t].op = "none"
                          /\ Go(t, [Idle EXCEPT !.op = op, !.kind = kind, !.pc = pc, !.home = open])

\* on_export_*: authenticate_user, the dialog, then the mutex.
StartExport(t, kind) == /\ StartOp /\ Spawn(t, "export", kind, "prompt")
                        /\ UNCHANGED <<open, mem, disk, files, status>>

\* Refused, or a dialog cancelled: the thread returns and says nothing.
GiveUp(t) == /\ At(t, "export", "prompt") \/ At(t, "import", "dialog")
             /\ Go(t, Idle)
             /\ UNCHANGED <<open, mem, disk, files, status, started>>

\* The vault is written under the mutex, whichever it is by now.
WriteFile(t) ==
  /\ At(t, "export", "prompt")
  /\ \E f \in File, ok \in BOOLEAN :
       LET done == ok /\ open # None IN
       /\ Go(t, [job[t] EXCEPT !.pc = "posted", !.ok = done])
       /\ \E c \in IF done THEN {Exported(job[t].kind, mem[job[t].kind])}
                   ELSE {files[f]} \cup (IF open = None THEN {} ELSE {Torn}) :
            files' = [files EXCEPT ![f] = c]
  /\ UNCHANGED <<open, mem, disk, status, started>>

StartImport(t, kind) == /\ StartOp /\ Spawn(t, "import", kind, "dialog")
                        /\ UNCHANGED <<open, mem, disk, files, status>>

ReadFile(t) ==
  /\ At(t, "import", "dialog")
  /\ \E f \in {g \in File : files[g] # Absent} :
       IF Readable(job[t].kind, files[f])
       THEN \E new \in Parsed(files[f]) :
              Go(t, [job[t] EXCEPT !.pc = "merge", !.file = files[f], !.entries = new])
       ELSE Go(t, [job[t] EXCEPT !.pc = "posted", !.ok = FALSE, !.file = files[f]])
  /\ UNCHANGED <<open, mem, disk, files, status, started>>

KeyCopies == {open} \cup (IF calm THEN {} ELSE {None})

\* do_import_*: with no vault there is nothing to save, without a copy of the
\* key nothing is saved; the thread ends without a word in both.
MergeFile(t) ==
  /\ At(t, "import", "merge")
  /\ IF open = None
     THEN Go(t, Idle) /\ UNCHANGED mem
     ELSE /\ mem' = [mem EXCEPT ![job[t].kind] = Merged(@, job[t].entries)]
          /\ \E k \in KeyCopies :
               Go(t, IF k = None THEN Idle
                     ELSE [job[t] EXCEPT !.pc = "save", !.key = k, !.home = open])
  /\ UNCHANGED <<open, disk, files, status, started>>

\* save_vault_state: whichever vault is open now, with the key copied before.
\* The handle and the vault come and go together, so its fallback never runs.
\* (mutants: the result of the save is not looked at; a failed one ends the thread)
SavedOrEnd(t, ok) ==
  /\ IF open = None THEN UNCHANGED disk
     ELSE disk' = [disk EXCEPT ![open] =
                     IF ok THEN [entries |-> mem, key |-> job[t].key] ELSE [@ EXCEPT !.key = None]]
  /\ Go(t, IF ok THEN [job[t] EXCEPT !.pc = "posted"] ELSE Idle)
SavedOr(t, ok) ==
  /\ IF open = None THEN UNCHANGED disk
     ELSE disk' = [disk EXCEPT ![open] =
                     IF ok THEN [entries |-> mem, key |-> job[t].key] ELSE [@ EXCEPT !.key = None]]
  /\ Go(t, [job[t] EXCEPT !.pc = "posted", !.ok = TRUE])
SaveVault(t, ok) ==
  /\ IF open = None THEN UNCHANGED disk
     ELSE disk' = [disk EXCEPT ![open] =
                     IF ok THEN [entries |-> mem, key |-> job[t].key] ELSE [@ EXCEPT !.key = None]]
  /\ Go(t, [job[t] EXCEPT !.pc = "posted", !.ok = ok /\ open # None])

Save(t) == /\ job[t].pc = "save"
           /\ \E ok \in BOOLEAN : SaveVault(t, ok)
           /\ UNCHANGED <<open, mem, files, status, started>>

\* The closure of finish_import, or of the export.
Text(j) == CASE j.op = "export" -> IF j.ok THEN "exported" ELSE "failed"
             [] j.op = "import" -> IF j.ok THEN "imported" ELSE IF j.key = None THEN "failed" ELSE "unsaved"
             [] OTHER -> status.text
RunClosure(t) == /\ job[t].pc = "posted"
                 /\ status' = [text |-> Text(job[t]), kind |-> job[t].kind]
                 /\ Go(t, Idle)
                 /\ UNCHANGED <<open, mem, disk, files, started>>

\* on_delete_entry outside the trash, on_restore_entry: the flag of one entry.
SetDeleted(t, op, deleted) ==
  /\ StartOp /\ job[t].op = "none"
  /\ \E kind \in Kinds : \E i \in DOMAIN mem[kind] :
       /\ mem[kind][i].deleted # deleted
       /\ mem' = [mem EXCEPT ![kind][i].deleted = deleted]
       /\ \E k \in KeyCopies :
            Go(t, IF k = None THEN Idle
                  ELSE [Idle EXCEPT !.op = op, !.kind = kind, !.pc = "save", !.key = k, !.home = open])
  /\ UNCHANGED <<open, disk, files, status>>
DeleteEntry(t) == SetDeleted(t, "trash", TRUE)
RestoreEntry(t) == SetDeleted(t, "restore", FALSE)

\* Only a file saved with its own key opens with its own password.
Unlock(v) == /\ open = None /\ disk[v].key = v /\ (calm => ~Busy)
             /\ open' = v /\ mem' = disk[v].entries
             /\ UNCHANGED <<disk, files, job, status, started>>

Lock == /\ StartOp /\ (calm => ~Busy)
        /\ open' = None /\ mem' = [k \in Kinds |-> <<>>]
        /\ UNCHANGED <<disk, files, job, status>>

-----------------------------------------------------------------------------
Init == /\ open = None /\ mem = [k \in Kinds |-> <<>>]
        /\ disk = [v \in Vault |-> [entries |-> Start[v], key |-> v]]
        /\ files = Given
        /\ job = [t \in Thread |-> Idle]
        /\ status = Status /\ started = 0
        /\ calm \in Calmness

Run(t) == MergeFile(t) \/ Save(t) \/ RunClosure(t)

Step == \/ Lock
        \/ \E v \in Vault : Unlock(v)
        \/ \E t \in Thread : \/ \E kind \in Kinds : StartExport(t, kind) \/ StartImport(t, kind)
                             \/ GiveUp(t) \/ WriteFile(t) \/ ReadFile(t) \/ Run(t)
                             \/ DeleteEntry(t) \/ RestoreEntry(t)
Next == Step /\ UNCHANGED calm

\* The threads go on by themselves once the dialogs are answered; nobody has to
\* answer one.
Spec == Init /\ [][Next]_vars /\ \A t \in Thread : WF_steps(Run(t))

-----------------------------------------------------------------------------
(* Properties *)

Ops == {"none", "export", "import", "trash", "restore"}
Texts == {"none", "exported", "imported", "unsaved", "failed"}

\* Every field has its type, and without a vault there are no entries.
TypeOK ==
  /\ open \in Vault \cup {None} /\ started \in 0..MaxStarts /\ calm \in BOOLEAN
  /\ mem \in [Kinds -> Seq(Entry)] /\ (open = None => \A k \in Kinds : mem[k] = <<>>)
  /\ disk \in [Vault -> [entries : [Kinds -> Seq(Entry)], key : Vault \cup {None}]]
  /\ files \in [File -> Document \cup {Torn}]
  /\ job \in [Thread -> [op : Ops, kind : Kinds, pc : {"idle", "prompt", "dialog", "merge", "save", "posted"},
                         file : Document \cup {Torn}, entries : Seq(Entry), ok : BOOLEAN,
                         key : Vault \cup {None}, home : Vault \cup {None}]]
  /\ \A t \in Thread : job[t].op = "none" <=> job[t].pc = "idle"
  /\ status \in [text : Texts, kind : Kinds]

\* However many imports run at once, and whatever they and their files repeat,
\* an import gives no name to a second live entry: looking for duplicates and
\* adding happen under one lock (do_import_accounts, do_import_totps).
Twins(entries) ==
  {entries[i].name : i \in {k \in DOMAIN entries : ~entries[k].deleted /\
     \E j \in DOMAIN entries \ {k} : ~entries[j].deleted /\ entries[j].name = entries[k].name}}
ImportMakesNoTwins ==
  [][\A t \in Thread, k \in Kinds : At(t, "import", "merge") /\ job'[t] # job[t]
       => Twins(mem'[k]) \subseteq Twins(mem[k])]_vars

\* A file a vault exported, imported where no entry is live and with memory for
\* each row, brings back every entry that was live when it was exported, and no
\* other, if no two of them had one name (to_entry is the inverse of from_entry,
\* and the loop of do_import_* drops nothing).
BringsBack(t) ==
  LET k == job[t].kind
      origin == job[t].file.origin
  IN (/\ At(t, "import", "merge") /\ job'[t] # job[t]
      /\ origin # None /\ Twins(origin) = {} /\ Len(job[t].entries) = Len(job[t].file.rows)
      /\ open # None /\ Live(mem[k]) = <<>> /\ mem'[k] # mem[k])
     => Live(mem'[k]) = origin
RoundTrip == [][\A t \in Thread : BringsBack(t)]_vars

\* Every field has its type, and a file with a row that cannot be read adds none of
\* its rows, in memory or on disk, not even those before the bad one.
NamesIn(entries) == {entries[i].name : i \in DOMAIN entries}
OnlyBad ==
  LET bad == {g \in File : Given[g].bad # {}}
      Names(fs) == UNION {NamesIn(Given[g].rows) : g \in fs}
  IN  Names(bad) \ (Names(File \ bad) \cup UNION {NamesIn(Start[v][k]) : v \in Vault, k \in Kinds})
BadFileAddsNothing ==
  /\ TypeOK
  /\ \A k \in Kinds : (NamesIn(mem[k]) \cup UNION {NamesIn(disk[v].entries[k]) : v \in Vault})
                      \cap OnlyBad = {}

\* To a calm user "imported" is said only of entries that are in the file of the
\* vault they were added to (finish_import, save_vault_state).
OnDisk(t) == LET v == job[t].home IN
  disk'[v].key = v /\ NamesIn(job[t].entries) \subseteq NamesIn(disk'[v].entries[job[t].kind])
ReportedIsOnDisk ==
  [][\A t \in Thread : (calm /\ At(t, "import", "save") /\ job'[t].pc = "posted" /\ job'[t].ok)
       => OnDisk(t)]_vars

\* With a vault that stays open and memory to copy its key, an import whose
\* file was read ends with a message (finish_import).
Answered == \A t \in Thread :
  (calm /\ (At(t, "import", "merge") \/ At(t, "import", "save"))) ~> At(t, "import", "posted")
=============================================================================
