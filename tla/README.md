# PASSX in TLA+

Specifications of the PASSX desktop password manager, checked with TLC and, where
it says so, proved with TLAPS. File and line references are to the repository root
(`src/ui/bridge/vault.rs` is the file the project's JSON calls
`src/src/ui/bridge/vault.rs`).

1. [The system](#1-the-system)
2. [The modules](#2-the-modules)
3. [The runs](#3-the-runs)
4. [What the code disagrees with](#4-what-the-code-disagrees-with)
5. [The proofs](#5-the-proofs)
6. [What is not modelled](#6-what-is-not-modelled)
7. [The plan](#7-the-plan)

## 1. The system

PASSX keeps accounts and authenticators (TOTPs) in encrypted vault files. A Slint
window shows them; the Rust side is a set of callbacks registered by `ui/bridge`.
A callback runs on the event loop, usually to a `thread::spawn`; the thread locks a
mutex around one `AppState`, changes it, releases the mutex for anything slow (the
key derivation takes about a second, a Windows Hello prompt as long as the user
likes), and posts a closure with `invoke_from_event_loop`, which runs on the event
loop and locks the mutex again. There is no other coordination: no queue of
operations, no "busy" flag. Whatever makes the program correct is in the order of
these critical sections, and most modules below have the same skeleton for it:
threads with a program counter and the copies they took, and a queue of closures.

### Components

| Component | State | Operations | Interacts with | Hard behaviour | Correct when | Module |
|---|---|---|---|---|---|---|
| Open vault session: `ui/bridge/vault.rs`, `state.rs`, the save paths of `entries.rs`, `icons.rs` | `AppState`: vault, master key, password, path, file handle; threads with the handle and copies they took; closures | unlock, create, lock, choose, delete, change password, mirrors, every edit's save, favicon, generator settings, close, restart | handles by move (`vault_file.take()`), files, preferences | the handle away from `AppState` during a save; copies older than what they replace; closures after a lock; failing writes; the process ending anywhere | one owner per handle, nothing written under it, the handle given back or dropped, the file holds what is in memory; for a user who waits no lost update | `VaultSession`, `SessionStore`, `VaultStore` |
| Vault files: `vault/file_lock.rs`, `vault/manager.rs` | files, share modes | exclusive open, `File::create`, `CREATE_NEW`, ACL, removal | the session's threads | the handle dropped for the ACL call; removal by path | no file removed or written under a handle | `VaultSession` |
| Vault format: `vault/format.rs` | the bytes of a file | save, load | TPM, cipher, KDF | two key modes; saves that overlap or stop half-way | what opens is what one save wrote, with its password, on its device | `VaultFormat` |
| Entries, trash, links: `ui/bridge/entries.rs`, `search.rs`, `model.rs`, `main_vault.slint`, `detail_panel.slint` | accounts, TOTPs with links and deleted marks, the filter; the window's tab, list, selection, panel, picker | delete, restore, save, import, link, unlink, search, refresh, select, pages | the session, the event loop | filter and tab are two variables; lists of several threads in any order; cascades over links | links never dangle, the list settles on the vault, the panel is true | `VaultEntries` |
| Entry dialogs, QR codes: `account_modal.slint`, `totp_modal.slint`, `main_vault.slint`, `entries.rs`, `qr_scanner.rs` | two dialogs, the link target, the last scanned code | open, fill, type, scan, save, cancel | prompts, scans and saves in threads | answers come back to whatever dialog is open | a dialog changes what it was opened for, and only what was touched | `EntryForms` |
| Clipboard, reveal and copy: `io/clipboard.rs`, `entries.rs`, `auth.rs` | clipboard, revealed password, timers | copy, clear after 10 s, reveal, hide | Windows Hello, other programs | timers of several copies, answers after the selection moved | a secret does not outlive its time | `SecretsOnScreen` |
| Secure memory: `memory/guard.rs`, `secure_alloc.rs` | locked pages | new, from_slice, clone, drop | every secret | the quota of locked pages used up in the middle of an operation | no edit, file or session lost; what was saved can be opened | `LockedMemory` |
| Import and export: `import_export.rs`, `entries.rs` | files of the user | export, import, merge | entries, session | dialogs open while the vault changes; bad rows; failed saves | a round trip gives back what was there; "imported" means saved | `Transfer` |
| Startup, updater, preferences: `main.rs`, `security/`, `runtime/`, `update.rs`, `prefs.rs` | processes, the named mutex, policies, monitor, `config.json` | relaunch, checks, update, load and save | each other, launchers | two processes around one mutex, the relaunched one while the first still runs, one that is not gone yet; a mutex that cannot be made; a save cut off | one window for each mutex; the order of checks; readable preferences | `Processes` |
| Watchdog: `session/watchdog.rs`, `security/mod.rs` | heartbeat, the wall clock | beat, look, exit | the process | whole seconds, a late watcher, a clock that is set | a stopped monitor ends the process, a running one does not | `Watchdog` |
| Session state, inactivity: `session/state.rs`, `timeout.rs` | locked flag, last activity | unlock, lock, touch, monitor | nothing: no code uses them | - | - | - |
| TPM, cryptography: `tpm/`, `crypto/` | provider | seal, unseal, encrypt, derive | format | provider absent | contract of the primitives | `VaultFormat`, ideal |
| Mirrors: `vault/mirror.rs` | copies | sync | session | the session goes on meanwhile | the handle comes back | `VaultSession` |
| Inspection of threads and modules: `anti_injection.rs`, `virtualization.rs` | - | queries of the machine | the monitor | - | - | - |
| `vault/operations.rs` | - | entry operations used by its own unit tests only | - | - | - | - |

`PROJECT.json` has the same list with the status of each, and the hazards at their
lines.

## 2. The modules

One action is one critical section of the mutex, one file operation, one file dialog
or prompt, or one closure: the points between which the code lets another thread in.

### VaultSession

`AppState` is `vault`, `key`, `password`, `vault_path`, `vault_file`; the window's
screen is `screen` (`"list"` for the launch and list screens, `"unlock"`, `"main"`
with its pages); `prefs` is the remembered path. `disk[p]` is what a vault file
holds. `worker[t]` is a spawned thread or the saver: its kind, where it is
(`pc`), and what its closure captured: the handle it took (`file`), its path, its
copy of the vault, its key and password, its result. `queue` is the event loop.

| Operation | Actions | Code |
|---|---|---|
| unlock | `StartUnlock`, `ReadPath`, `UnlockOpen`, `UnlockLoad`, closure `OpenSession` | `vault.rs` on_attempt_unlock |
| new external vault | `StartCreate`, `ReadPath`, `OpenForWrite`, `WriteOut` / `WriteFail`, `OpenSession` | on_create_new_vault_confirmed |
| new managed vault | `StartManaged`, `ManagedCreate`, `WriteOut` / `WriteFail`, `ManagedSecure`, `ManagedReopen`, `OpenSession` | on_create_managed_vault, `manager.rs` |
| change password | `StartPasswd`, `TakeSession`, `OpenForWrite`, `WriteOut` / `WriteFail`, `PasswdDone` | on_change_master_password |
| add, remove mirror | `StartPlain`, `TakeSession`, `OpenForWrite`, `WriteOut` / `WriteFail`, `MirrorDone` | on_add_mirror, on_remove_mirror |
| sync mirrors | `StartPlain`, `SyncTake`, `SyncCopy`, `SyncDone` | on_sync_mirrors |
| any entry edit | `StartPlain`, `EditMutate`, `EditSave` (`SaveVaultState`), `EditDone` | `entries.rs`, save_vault_state |
| favicon | started by `RunClosure`, `IconFetch` | `icons.rs` |
| generator settings | `SendSettings`, `SaverReceive`, `SaverTake`, `SaverWrite`, `SaverRestore` | `entries.rs`, the saver thread |
| lock, choose, back, delete, close | `Lock`, `SelectVault`, `Back`, `DeleteVault`, `Close` | `vault.rs`, the screens |
| the process ends | `Crash` | - |

A master key stands for the vault it was generated for, since a key is
drawn once for each new vault (`used`). A vault's contents are its sequence number
and its number of mirrors: an edit is told from another by the number it leaves.
A file is `Absent`, `Damaged` (truncated, or mixed by two writers) or one complete
image. That a load accepts nothing else is what `VaultFormat` shows. An exclusive
handle makes every other open fail (`FILE_SHARE_NONE`); `File::create` fails under
one, and may share the file with another `File::create`.

### VaultStore and SessionStore

`VaultStore` is the promise behind the session, without threads, handles or
closures: `stored[p]` is what can be opened, `session` the open vault and its file,
`pending` an image on its way to a file. An edit shows at once and a new password or
mirror once it is stored; a change reaches the file as a whole (`Settle`); nothing
else changes a file; a crash leaves a file as it was, or with the pending image, or
(the one that was being written) lost. A write that fails (`Fail`) leaves the file as it
was, or lost, and the session as it was; a password or mirror change may lose its file on
the way (`Empty`), which the code truncates before it derives a key.

`SessionStore` is `VaultSession` for a user who waits, with crashes
(`CrashingSpec`), and the refinement mapping. Its point is `storedNow`: once the file
is truncated for a password change or a mirror operation, it counts as lost until the
closure has run, also when its new content is written already; a file in
which a new vault is being made counts as empty; an edit counts as stored when
`save_vault_state` returns, before its closure. `StoreRefined == Store!Spec`.

### VaultFormat

One vault file, below the level at which the session sees it. `file` is a sequence
of cells: one cell per field of the format (magic, version and KDF version, which
are the same in every image, share one), and one per piece of the two fields whose
length varies. `save[w]` is what one call of `save_vault` was given, `pos[w]` the
offset of its handle; `owner` is a history variable: the call that created the
file last, as long as nobody else wrote.

| Code | Definition |
|---|---|
| `File::create` in `save_vault` | `Create`, which empties the file under whoever is writing it |
| each `write_all` of `save_vault_to_writer` | `Write`: the next cell of `Image`, at the call's own offset, over what is there or beyond the end (`Overwritten`, the gap filled with `Zero`) |
| `ok_or(MissingPassword)`, after the truncation | `Write` is not enabled without a password |
| an I/O error, the end of the process | the call takes no more steps; nothing forces one |
| `load_vault_from_reader` | `Load`: `Parses` (the header checks), `Unwrap` (both modes), `Decrypted`, the check of the mode |
| `encrypt`, `decrypt`, `derive_key`, `derive_subkey` | ideal: a ciphertext names its encryption, `decrypt` succeeds with the key, nonce, additional data, tag and every piece of it only |
| `seal_key`, `unseal_key` | a blob of fixed length that its device alone takes back |
| salts and nonces | named by the call that drew them: fresh |

A field is written whole or not at all; the write of one field that stops in its
middle leaves a value like none of another image, which the ideal primitives refuse
as they refuse a mixture. The bincode encoding of a vault is a number of pieces.
`Here` is the one machine on which the saves run; loads run on any. `VaultSession`
writes a file in one step and calls what overlapping writers leave `Damaged`;
`EndsInItsImage` and `LoadedWasSaved` are what entitles it to.

### VaultEntries

The inside of the vault the session module counts only. `accounts[a]` is
`"none"`, `"live"` or `"trashed"`; `totps` is the vector of authenticators, in the
order that decides which linked one is "first"; one that is removed leaves `Gone`, so
that the others keep their places. `filter` is
`AppState.current_filter`, `tab` the main screen's `current-filter`: two variables
for what the user takes for one thing. `selected`, `details` and `target` are the
window's selection, the panel's cached details and the picker; `shown` is the list.
A thread changes the vault (`Search`, `Delete`, `RestoreEntry`, `SaveEntry`,
`SaveTotp`, `LinkTotp`, `UnlinkTotp`), makes its list under the mutex again
(`MakeList`), and posts it (`PostList`); `RunClosure` shows it and refreshes the
panel. The refresher makes a list once a second. The vault stays open here; locking
and saving are `VaultSession`'s. Opening a menu or the confirmation dialog and
clicking in it are one step, because the rest of the window is blocked meanwhile.

### EntryForms

What `VaultEntries` abstracts from: the fields. `aform` and `tform` are the two
dialogs with the id they edit and the text in them (`touched`, `asked`, `for` and
`scans` are history: what the user typed in, what the dialog was opened for, how
often a code came in); `link` is `link-target-account-id`, `scanned` the window's
`qr-scanned-*`. `RequestEdit`, `Scan`, `SaveAccount`, `SaveTotp` and `Remove` start a
thread (`Run`), whose closure (`RunClosure`) finds the dialogs as they are by then:
`FillAccount` and `FillTotp` are the `changed` handlers of the edit ticks,
`FillScan` that of the scanned secret, `AfterSave` the closure of `on_save_totp`. A
`changed` handler is taken to run after each closure; two closures that one pass of
the event loop runs before it would make one fill of two.
`parse_otpauth_uri` chooses among a URI's label, query and raw text. `Clean` is what
it and `on_save_totp` do to a secret (no spaces, no dashes, upper case), `Buffer` what
`from_slice` makes of a text: a zero byte (`Nul`) if it is empty. A scan starts
from an open dialog only. The vault may begin with entries that no dialog lets through
(`SavedAccount`, `SavedTotp`): an import asks for no title, name or secret.

### SecretsOnScreen

`revealed` is the password in the panel, `clipboard` the text in the clipboard with
its age, and `clearers` what remains of the sleep of each clearing thread. Reveal,
Copy Password and the copy button of a code start a thread that prompts
(`Answer`), reads the entry in the vault that is open by then (`Read`) and posts; a
revealing thread sleeps and posts its hiding (`Wake`). `copy_to_clipboard` may find
the clipboard open, or fail after it has emptied it; `Clear` too may find it open,
and gives up. `Exit` ends every thread and leaves the clipboard: `orphan` says that
the thread which was to clear the text is gone. `Tick` is a second for every
sleeper.

### LockedMemory

Every `SecureBuffer` takes whole locked pages out of a quota; `new` and `from_slice`
answer `None` without a page, `clone` panics, and a panic under the mutex poisons it.
`Used` adds up the live buffers: session, vault and what each thread holds at its
point. What a save, a load, an unlocking or a password change needs on top
(`ToSave`, `ToLoad`, `ToOpen`, `ToClone`) is the largest sum of buffers alive at one
time in that code. The module keeps what each caller does without pages: an edit
goes on with an empty note (`Note`), a save goes on without the password after it
truncated the file (`Copy`, `Written`), a creation without a page is forgotten, an
unlocking or a save panics (`Poison`, then `Restart`).

### Transfer

`files` are the user's files, with their columns, rows and bad rows; `disk[v]` the
entries and the key each vault was saved with, and `open` with `mem` the vault of
`AppState`. `StartExport`, `WriteFile` and `StartImport`, `ReadFile`, `MergeFile`,
`Save`, `RunClosure` are the threads of `on_export_*` and `on_import_*`: dialog,
file, merge under the mutex, save under it again, message. `Merged` is the loop
that leaves out duplicates, `ToEntry` and `ToRow` the conversions with what
`from_slice` does to an empty text (`Buffer`). `Only` is the loops' filter as a fold,
`Kept` the rows that get locked memory; `Name` is what tells two entries apart, `Value`
what their fields hold.

### Processes

`pc[p]` is where `main` is in process `p`; `held[p]` the mutex it has a handle of,
`session[p]` its logon session, `monitor` the processes whose monitor runs, `running`
the launchers, `config` the contents of `config.json` (who set each field last, or `None` between
truncation and filling). `CheckAdmin` ... `CheckIntegrity` are the steps of `main` in
its order, `Pass` the monitor's look at the parent; `Load`, `Truncate` and `Fill` the
three writers of `config.json`; `Update`, `RemindLater`, `RestartNow` the updater's
thread and its dialog. Whatever ends a process (`End`) leaves it `"exiting"`, with its
handles, until the system has done away with it (`Gone`). `CheckInstance` is
`ensure_single_instance`: `CreateMutexA` gives a handle of the mutex also to a process
that it tells to leave; where the call fails, that for the `Local\` name, one per
session, takes its place, and where that fails too the process is let in without any.
`machine` says what the behaviour is about: a machine that is `"sound"`, one that is
`"unprotected"` (antivirus or signature may be missing), or one that is `"nameless"`
(either call of `CreateMutexA` may fail, each time it is made).

### Watchdog

The monitor stores the wall clock, in whole seconds, once per pass (`Beat`); a
watcher wakes every second, loads it (`LoadBeat`) and reads the clock (`Check`). Time is in
ticks, `R` to a second; clock and beat are kept as their difference `lag`, so that
a behaviour may go on for ever. `SetClock` sets the clock; `forward` is history:
in which of the beat and the loaded beat a forward setting is still in.

### Proof modules and MC modules

`VaultSessionProofs` (of `VaultSession` and `SessionStore`), `VaultFormatProofs`,
`VaultEntriesProofs`, `EntryFormsProofs`, `SecretsProofs`, `ProcessesProofs` (of
`Processes` and `Watchdog`, whose definitions have names of their own for that),
`LockedMemoryProofs` and `TransferProofs` hold the theorems of section 5. The MC modules hold symmetries and the values a `.cfg` cannot write.

### Users who wait

Some guarantees hold only for a user who lets one operation end before starting
the next: the code has no guard, and section 4 shows what happens to others. Each
module says what waiting means in one definition: `Quiet` in `VaultSession`
(`PatientNext`), and a constant of the behaviour elsewhere, chosen in `Init`:
`patient` in `VaultEntries`, `EntryForms` and `SecretsOnScreen`, `calm` in `Transfer`
(who also has memory for each row), `quota` in
`LockedMemory`; `machine` in `Processes` is chosen in the same way. One run explores both
kinds of behaviour, and a property that needs
the one kind says so in its first conjunct. Threads, refresher, saver and event loop
move freely in either.

## 3. The runs

All bounds are constants of the modules: `MaxStarts` (`HastyStarts` for a user who
does not wait) bounds the operations started in a behaviour, `Thread` those running
at one time, `MaxStarts` and `MaxSaves` of `Processes` the processes and the saves on
each machine, `Horizon` and
`MaxJumps` what the watchdog tells apart.

| Run | Question | Bounds |
|---|---|---|
| `session_any` | Under every interleaving, with failing writes and crashes: one owner per handle and no shared writer beside it (`HandleExclusive`); no file removed under a handle (`HeldFileExists`); a key never without vault, password and path (`SessionKeyed`); a file changes by its handle's owner only (`HandleProtectsFile`); `TypeOK` | 2 files, keys, passwords, threads, the saver; 3 starts; every operation |
| `session_patient` | Between operations the session is gone, or complete with a file that holds exactly the vault, key and password of memory, but for the last favicon (`SessionCoherent`); with crashes anywhere it implements `VaultStore` (`StoreRefined`), and no copy older than the vault is written or put in its place (`UpdatesSurvive`) | 2 files, keys, passwords; 4 starts and a favicon after each edit; no failing write |
| `session_fair` | Every thread ends and posts (`JobsFinish`); a vault that stays locked has its file released (`LockReleasesFile`) | 1 file, 2 passwords, 2 threads, 3 starts |
| `entries` | Whatever order the lists come in, the window settles on what the vault holds for the current filter (`ListSettles`); for a patient user links never dangle (`LinkTargetsExist`), the picker offers authenticators only (`PickerShowsTotps`), the panel fits its entry (`PanelTruthful`) | 1 account, 2 authenticators, 2 threads and the refresher, 6 starts (2 for a hasty user), failing saves |
| `format_mixed` | Whatever loads, at any moment, is the whole image of one call, with its password and on its device (`LoadedWasSaved`); an undisturbed save loads (`SavedLoads`); a save that ends leaves its image or nothing that loads (`EndsInItsImage`); every cell comes from a call (`TypeOK`) | 2 calls, a key of each mode, 2 passwords, 2 devices, 2 sequence numbers, content of 1 or 2 pieces |
| `forms` | The first code a dialog gets fills it (`FirstScanFills`); what is saved has a title, or a name and what cleaning leaves of a secret that was not empty (`TypeOK`); for a patient user a dialog changes what it was opened for and keeps what was not touched (`AccountAsAsked`), and links to the account it was opened for (`LinkedAsAsked`) | 2 accounts (one imported without a title) and 1 authenticator, room for one more of each, 3 starts (2 hasty), one code to scan, a dash to type |
| `secrets` | A password on the screen has something on its way that takes it out, a copied one a clearing thread (`SecretsTimed`); both go in the end (`SecretsEnd`); the panel shows a patient user no other entry's password (`PanelShowsOwn`) | 2 vaults with 2 and 1 entries, 2 threads, a timeout of 2 ticks, 6 starts (4 hasty) |
| `memory` | No step takes more pages than there are (`TypeOK`); what was written through a handle can be opened by the next process (`SavedReopens`); with pages enough neither file nor session is lost (`NothingLost`) | 3 accounts, empty notes and notes of 2 pages, 2 threads, 6 starts, quotas of 2, 13 and just enough pages |
| `transfer` | A bad row keeps its whole file out (`BadFileAddsNothing`); an import makes no twins (`ImportMakesNoTwins`); a round trip brings back what was exported (`RoundTrip`); "imported" means saved (`ReportedIsOnDisk`); every import whose file was read is answered (`Answered`) | 2 vaults, a file to export to, a foreign one with repeated names, one with a bad second row; 2 threads, 3 starts |
| `process` | One window for each mutex, and one at most where the mutex can be made (`OneWindow`); where antivirus and signature are there no check ends a process (`EndsForCause`); a process is turned away only by one that was at the same check and is not gone (`OtherInstance`); `config.json` stays readable (`PrefsReadable`) and keeps what a save is not about (`PrefsKept`) | 2 launchers, each in its session: one not trusted, which may quit, one trusted, which stays; 3 processes on a sound machine, 2 on one without antivirus or signature and on one where the mutex cannot be made; 2 saves, 1 on the second |
| `watchdog` | Only a stalled monitor, or a clock set forward, ends the process (`AlarmMeansStalled`); a stalled one is noticed within two seconds of its timeout if nobody sets the clock (`AlarmInTime`) | 4 ticks to a second, a timeout of 3 s, passes of up to 9 ticks, a delay of up to 3, 2 settings of the clock (2 s back, 4 s forward), 48 ticks |
| `trash_move` | Section 4 | 2 accounts, 1 authenticator, the operations that matter |

Where a run's list has no `TypeOK`, that module's `TypeOK` is the first conjunct of
`LinkTargetsExist`, `SecretsTimed`, `BadFileAddsNothing`, `OneWindow` or `AlarmInTime`.

*Why the bounds are enough.* A conflict over a handle needs two actors of one
file, besides the saver; that of a session that was replaced needs two files. Two
threads with a third operation afterwards, and the saver, make every pair of
operations overlap at every point, and let a third see the result. A link needs
one account and one authenticator, "the first of those linked" two. A list can be
overtaken by one other. Two calls of `save_vault` mix in every way two can, at every
offset; their wrapped keys have two lengths (a portable one is shorter than a sealed
one) and their contents two, so that the fields of one lie over other fields of the
other, and one may end before or behind the other's end. A timer can be stale for one
later copy or reveal; the second vault has an entry the first has not, so an answer
can come back to a vault without its entry. Two imports race for one name, and a
third operation sees what they left. The race for the mutex is between the process
that relaunches itself, the one it starts and a stranger: three; so is one between a
window that has closed, a start that it turns away and a start that this one turns away.
Two windows with different mutexes, or without, are two processes, and so are two
writers of `config.json`. The two launchers are enough: one on the list that quits is to
the process what one not on the list is, from then on. The dash that is typed is the
secret of which nothing is left. The quotas of
`memory` are one no vault fits, one that is used up in the middle of every kind of
operation, and `Enough`, which is computed from the largest vault: `NothingLost` is
checked at exactly that value, the least for which it claims anything. A tick of a
quarter of a second lets watcher and monitor fall on either side of a second's turn
with room between. The theorems of section 5 have no bounds.

*Fairness.* Weak fairness for each thread, the saver, the event loop, the
clearing threads and time (`Tick` in `SecretsOnScreen`), and of the import's threads
behind the file dialog. A thread waits for nothing but the mutex, which is never held
while waiting for another thread, and for system calls that return (an open or a
write fails, it does not block; the share mode makes it fail). The event loop drains
its queue as long as the window is there. Nothing is assumed of the user: prompts and
file dialogs may stay unanswered, clicks may stop. `Crash` is left out of
`session_fair`: a process that is killed finishes nothing; in `SecretsOnScreen` the
end of the process is an action, and the text it leaves in the clipboard is excepted
by name (`orphan`). `LockReleasesFile` is checked with writes that succeed, see section
4. `VaultFormat`, `EntryForms`, `LockedMemory`, `Processes`, `Watchdog` and `VaultStore`
assume no fairness: their properties are of safety. (`AlarmInTime` is one because
`Tick` is not enabled when the watcher has used up its delay.)

*Deadlock* is checked in the session runs, in `entries`, `secrets` and `trash_move`.
In the others a behaviour may stop: `format_mixed` when both calls have ended,
`process` when every process has ended, `watchdog` when it has ended the process,
`memory`, `transfer` and `forms` when the starts or the new ids are used up.

*Mutants.* Each property of a passing run has a mutant in `PROJECT.json`, a
plausible slip in the code (a forgotten early return that posts nothing, a lock
that forgets the handle, a duplicate looked for in the vault as it was before the
loop, an add dialog that keeps the id of the last edit) under which TLC finds the
property violated. Their definitions stand before the ones they replace, marked
`(mutant: ...)`.

## 4. What the code disagrees with

`trash_move` is a run whose property is a sentence of the repository, and fails. Both
trash buttons call `on_delete_entry`, which deletes for good when `current_filter` is
`"trash"` (`entries.rs:316`). Select an entry in the Trash tab, restore it from the
context menu (which keeps the selection); the panel, refreshed, offers *Move to
Trash*: pressed, it removes the live entry for good. `README.md:37`: "Deleted entries
go to trash before permanent removal." Coming back from the settings page leads
there too: the main screen starts with the Accounts tab while the filter is still
`"trash"`.

The rest was met while modelling. The modules do what the code does, and the
properties say where they except it.

- *Session.* Add Mirror and Remove Mirror put the copy of the vault taken before a
  slow write in place of the current one (`vault.rs:503`, `:592`): an edit made
  meanwhile is lost, and the sequence number falls back, which `vault/format.rs:59`
  calls a "Monotonic counter for rollback protection"; `UpdatesSurvive` is therefore
  checked for a user who waits. Sync Mirrors gives its handle to whichever vault is open when it
  ends (`vault.rs:640`). After a write that fails, a password change gives its handle
  back to a session that was locked meanwhile (`vault.rs:343`). The favicon thread saves
  by path (`icons.rs:39`) while the session holds the file, and drops the error: the
  icon waits in memory for the next edit. Every save truncates before it derives the
  key (`entries.rs:1113`).
- *Entries.* Trash an account with an authenticator, restore the authenticator,
  delete the account permanently: the live authenticator goes with it
  (`entries.rs:322`). Trashing an account takes along only the first authenticator
  linked, and a smart link can make a second.
- *Dialogs.* Editing an authenticator fills the issuer into the account field and
  the account into the issuer field (`main_vault.slint:113`). The Save button asks for a
  secret that is not empty (`totp_modal.slint:364`), and `on_save_totp` then drops its
  spaces and dashes (`entries.rs:514`): of a secret that is nothing else the authenticator
  gets a zero byte. A link target survives a
  dialog that is replaced by another (`main_vault.slint:679`), the edit id is set
  before its entry is looked up (`:96`), and scanning a code a second time, after the
  secret was typed over, fills nothing, since the scanned text does not change
  (`totp_modal.slint:29`).
- *Secrets.* A password whose prompt is answered after the selection moved is shown in
  the panel of the entry selected by then (`entries.rs:447`). The clearing thread of
  one copy clears the next one early (`clipboard.rs:85`); one that finds the clipboard
  open gives up (`:78`), and none survives the window (`main.rs:171`).
- *Memory.* Without a page for the note an edit saves an empty one (`entries.rs:199`).
  A session that created its vault has no handle and saves without a clone: with few
  pages it can write a vault that no process can open (`vault.rs:215` needs more).
- *Import and export.* Of two entries of one name an import keeps one
  (`entries.rs:1142`); an authenticator's settings are dropped (`import_export.rs:88`);
  a Chrome file names no folder (`:18`). An empty text becomes a buffer with one zero
  byte (`guard.rs:74`), which the round trip gives back as it was.
- *Process.* The parent is looked up at every pass (`invariants.rs:19`): a process whose
  launcher quits is ended. A process has its handle of the mutex until it is gone: a start
  meanwhile is turned away by one whose window is closed, or by one that was itself turned
  away (`security/mod.rs:192`, `main.rs:40`). Where `CreateMutexA` fails for the `Global\`
  name there may be one window for each session besides, and where it fails for the
  `Local\` name too any number (`security/mod.rs:202`); `config.json` is then shared by
  windows that nothing keeps apart, and `PrefsKept` excepts such a machine. A clock set forward by more than the timeout ends a process
  whose monitor runs (`watchdog.rs:39`).

## 5. The proofs

### The open session

`VaultSessionProofs` proves, for any number of files, keys, passwords and
threads, with or without faults, and from `SessionAssumption` alone (the "no
value" constants are none of the values, the saver is not one of the threads):

| Theorem | Says |
|---|---|
| `Invariance` | `Spec => []IInv` |
| `TypeCorrect` | `Spec => []TypeOK` |
| `OneOwner` | `Spec => []HandleExclusive` |
| `NoDanglingHandle` | `Spec => []HeldFileExists` |
| `KeyHasSession` | `Spec => []SessionKeyed` |
| `HandleProtects` | `Spec => HandleProtectsFile` |

`IInv == TypeOK /\ Jobs /\ Posted /\ PathKnown /\ Files /\ SessionKeyed`. None of
the properties is inductive by itself:

- `Jobs`: what a thread carries at each point: a closure that will open a session
  has a vault and a password, a thread about to write has a key. Without it a
  closure could leave a key without a vault (`SessionKeyed`), or a write could put
  no vault into a file (`TypeOK`).
- `Posted`: a closure in the event loop belongs to a posted thread and is there
  once. Without it a closure could run twice and its handle have two owners.
- `PathKnown`: wherever an unlock or a creation is under way, or a screen other
  than the list is shown, a path is set; it never becomes unset in a running
  process. `SessionKeyed` needs it for the opening closure, which keeps the path of
  `AppState` and does not bring its own.
- `Files`: exclusive and shared handles are to files that are there. A shared
  writer of a removed file loses its path, so `SharedFileExists` holds the other two
  together when a file is truncated.

Layout: a lemma about one thread's move (`MoveKeeps`, `CalmKeeps`) gives the parts
that speak of jobs and closures; `HandsKeep` and `ThreadKeeps` the files part, for
a step that changes the handles of one thread and `AppState` only; then one lemma
per action, gathered in `UserKeeps`, `ThreadStepKeeps`, `NextKeeps`. Each lemma
says what is special about its action and cites the general ones.
`HandleProtects` is an action property and follows from the types and
`HandleExclusive`, action by action.

### The session as a store

The second part of `VaultSessionProofs` proves, for a user who waits and a process that may crash
between any two steps (`CrashingSpec`), for any number of files, keys, passwords and
operations, from `SessionAssumption` and `StoreAssumption` (the values for "closed" and
"no path" are no images):

| Theorem | Says |
|---|---|
| `WaitInvariance` | `CrashingSpec => []WaitInv` |
| `SessionAlwaysCoherent` | `CrashingSpec => []SessionCoherent` |
| `UpdatesKept` | `CrashingSpec => UpdatesSurvive` |
| `SessionImplementsStore` | `CrashingSpec => StoreRefined` |

Writes may fail or not (`Faults`), favicons may be fetched or not (`"icon" \in Ops`): the
theorems hold of either, the run `session_patient` has favicons and no failing write. TLC
found the invariant and both properties to hold with failing writes too, on the same
bounds. The user waits for the favicon of an edit as he waits for the edit.

`WaitInv == IInv /\ Images /\ Session /\ (Idle \/ \E t \in Slot : Busy(t))`, on top of the
invariant above:

- `Images`: no two files hold a vault of one key. Without it the file that is unlocked
  could be taken for that of another vault.
- `Session`: a closed session keeps nothing; an open one has a key of its own, and no
  other file has an image under it.
- `Idle`, `Busy(t)`: nothing is under way and the file is the session's (`AtRest`); or
  one thread is, at a point of its operation's course. `Course` says for each kind of
  operation and each point what the file, the handle and the copies are: the file is
  `Damaged` between truncation and writing, holds the thread's image after it, and the
  session's before it and again after the closure.
- `AtRest` is where favicons and failing writes come in: the file is the session's, or it
  lacks one favicon (`Lagging`), or (with `Faults`) it is `Behind`: damaged, or the same
  vault under the same key and password with a lower sequence number. An edit that is not
  saved yet leaves it `Behind` even if no write fails, and a save that fails leaves it
  there. The file lacks one favicon only, because a favicon is fetched after a save that
  succeeded: `Editing` and `Fetching` say that the file is the session's at that point.
- `Changing` says that the copy which the thread of a password or a mirror carries has the
  vault's sequence number, until its closure has run. `UpdatesKept` needs that for the
  write and for the closure that puts the copy in place; it is preserved because no edit,
  favicon or message to the saver is under way together with such a thread.

The refinement goes action by action (`Crash` included). `storedNow` of a file is
`Absent` while a new vault is made in it, `Damaged` from the truncation for a password or
mirror change to its closure, and the file otherwise; `pendingNow` is the image on its way:

| `VaultStore` | `VaultSession` |
|---|---|
| `Open(p)` | the closure of an unlock |
| `New(p, i)` | the truncation of `OpenForWrite` or `ManagedCreate` for a new vault |
| `Prepare(i)` | `TakeSession`: a password or mirror change takes its copies |
| `Edit(i)` | `EditMutate`; `SaverTake` for the settings |
| `Late(i)` | `IconFetch`, saved or not |
| `Empty` | the truncation of `OpenForWrite` for a password or mirror change |
| `Settle` | the closure of a creation, a password or mirror change; `EditSave`, `SaverWrite` |
| `Fail` | `OpenForWrite`, `WriteFail`, `ManagedSecure`, `EditSave` and `SaverWrite` when they fail |
| `Remove(p)`, `Leave`, `Crash` | `DeleteVault`; `Lock` and the screens that close the vault; `Close` and `Crash` |

Every other step is a stutter, the writes of the threads too: what they have written
counts as stored when their closure runs.

### The vault file

`VaultFormatProofs` proves, for any number of calls, keys, passwords, machines,
sequence numbers and any size of the vault, from `FormatAssumption` (every key has
one mode, the "no value" constants are none of the values, a vault has at least one
piece):

| Theorem | Says |
|---|---|
| `FormatInvariance` | `Spec => []IInv` |
| `FormatTypeCorrect` | `Spec => []TypeOK` |
| `OnlySavedLoads` | `Spec => []LoadedWasSaved` |
| `EndsInItsImageHolds` | `Spec => EndsInItsImage` |
| `SavesLoad` | `Spec => []SavedLoads` |

`IInv == Types /\ Writers /\ Cells /\ Alone`: a call that has written has a password
and is not beyond its image (`Writers`); each cell is a zero or stands where one of
the calls wrote it (`Cells`); while a call is alone the file is exactly what it
has written (`Alone`). `LoadedWasSaved` does not follow from this by cases over the
writers, since any cell may come from any of them; the argument goes through the
file that loads:

1. The last cell is a content tag or a wrapper's, and the content must decrypt
   under a subkey: it is the tag of some call's content, and it stands at the end
   of that call's image only (`ContentCall`). So the file has that image's length.
2. The content's additional data has the salt, the mode and the sequence number:
   those cells are that call's. So are the content's pieces and its nonce.
3. The key that unwraps the master key is derived from the salt, which is the
   call's: the wrapped key, whether sealed or not, is the call's too, and so is
   the password (`WrapCall`).
4. The nonce of the wrapper and the length field agree as well: the file is the
   image, cell by cell (`LoadCall`).

Leaving the salt out of the additional data breaks step 2, and both properties:
that is their mutant. `EndsInItsImageHolds` adds that the last cell written is the
call's own tag (`LastCellIsOwn`); `SavesLoad` computes `Load` of an image.

Assumed, and not proved: the ideal primitives and fresh salts and nonces above, and
the length of what the TPM gives back (`sealing.rs:126`).

### The watchdog

The second part of `ProcessesProofs` proves, for any timeout, resolution, length of a pass, delay of the
watcher, and any settings of the clock, from `WatchdogAssumption` (the constants are
numbers; the horizon is beyond a pass):

| Theorem | Says |
|---|---|
| `WatchTypeCorrect` | `WatchSpec => []WatchTypeOK` |
| `NoFalseAlarm` | `Steady => (WatchSpec => []AlarmMeansStalled)` |
| `AlarmComesInTime` | `WatchSpec => []AlarmInTime` |

`Steady == MaxPass + Late <= Timeout * R`: a pass of the monitor and the watcher's delay
fit into the timeout, which is 3 s (`security/mod.rs:253`).
`WatchInv == WatchTypeOK /\ Age /\ SeenAge /\ AlarmMeansStalled`: `Age` relates the difference in
whole seconds, with the phase of the clock within its second, to the real age of the
beat; `SeenAge` the same for the beat the watcher has loaded, with the delay it has
left. Without the phase neither is preserved by the turn of a second. A clock set back
only makes a beat look younger (`SetBack`); one set forward marks the beat in `forward`
until the next.

`AlarmComesInTime` needs no `Steady`; its invariant is `WatchTypeOK /\ Counted /\ Awake`: the
age of the last beat against the turns of the clock since then, and the delay the
watcher has left at each look.

### Entries

`VaultEntriesProofs` proves, for any ids, threads and operations, from
`EntriesAssumption` (ids of accounts and authenticators differ, the refresher is not one
of the threads):

| Theorem | Says |
|---|---|
| `SpecIInv` | `Spec => []IInv` |
| `SpecLinkTargetsExist` | `Spec => []LinkTargetsExist` |
| `SpecPickerShowsTotps` | `Spec => []PickerShowsTotps` |
| `SpecPanelTruthful` | `Spec => []PanelTruthful` |

`IInv == Typed /\ (patient => Ordered)`. `Typed` is `TypeOK` and what every thread carries
(`Jobs`), whoever the user is. For one who waits, `OneAtATime`: besides refreshes one
thread or its closure is under way; `NewIds`: an entry that is to be added is not there
yet; `Targets`: what is linked, is to be linked or is picked for has its account;
`Picker`: an open picker's filter is that of authenticators, or its search is still to
set it; `Panel`: the selected entry is there, nothing is under way to remove it, and the
panel fits it unless the closure of a change is still to come. The last is why
`PanelTruthful` speaks of quiet states: between a change and its closure the panel is old.

### Dialogs

`EntryFormsProofs` proves, for any vault, texts and codes and any number of operations,
from `EntryFormsAssumption` (ids differ; codes are URIs or texts; the entries the vault
begins with are texts, with links to accounts; `Clean` is a function from texts to texts
that leaves the empty one as it is):

| Theorem | Says |
|---|---|
| `SpecIInv` | `Spec => []IInv` |
| `SpecTypeOK` | `Spec => []TypeOK` |
| `SpecFirstScanFills` | `Spec => FirstScanFills` |
| `SpecAccountAsAsked` | `Spec => AccountAsAsked` |
| `SpecLinkedAsAsked` | `Spec => LinkedAsAsked` |

`IInv == Types /\ Unscanned /\ (patient => Alone /\ AccountForms /\ TotpForms)`, the last three
named `Tidy`. The first two properties hold for every user: `Types` says that a thread's
form has passed the check of its Save button and that a code has a secret or is none. The
check comes before the cleaning: `TypeOK` says of a saved secret that it is what cleaning
left of a text that was not empty, or a zero byte.
`Unscanned`, that a dialog which got no code yet stands over an empty scanned text, so
that the next code is a change. The others are for a user who waits. `Alone`: a dialog
stands open by itself or, for an authenticator, with scans only; an edit, a save of an
account and a removal are alone. `AccountForms`: the form, in the dialog or in a thread,
is about the account it was filled with, and what was not touched is what that account
says; it is preserved because nothing changes an account meanwhile. `TotpForms`: a link
target is the one its dialog was opened for, and there is none without a dialog.

### Secrets

`SecretsProofs` proves, for any vaults, threads, timeout and number of operations, from
`SecretsAssumption`:

| Theorem | Says |
|---|---|
| `SpecIInv` | `Spec => []IInv` |
| `SpecSecretsTimed` | `Spec => []SecretsTimed` |
| `SpecPanelShowsOwn` | `Spec => []PanelShowsOwn` |

`IInv == Timed /\ InOrder`. `Timed == TypeOK /\ Closures /\ ShownIsHidden /\ CopiedIsCleared`: what is
shown, and what a waiting closure will show, has a hiding behind it (`HideAfter`: later
in the queue, or in the sleep of a thread); the youngest clearing thread has slept for
as long as the text is in the clipboard. `InOrder == patient => OneAtATime /\ AskedForSelected
/\ ShowsSelected /\ PanelOwn`: a patient user's one thread is about the entry that is
still selected. It holds on every page and in every vault, as locking and opening wait.

### Processes

`ProcessesProofs` proves, for any number of processes, launchers, sessions and events,
from `ProcessesAssumption` (launchers are not processes; the service is a trusted one; each
launcher is in a session, and neither the machine's mutex nor "none" is one):

| Theorem | Says |
|---|---|
| `SpecIInv` | `Spec => []IInv` |
| `SpecOneWindow` | `Spec => []OneWindow` |
| `SpecEndsForCause` | `Spec => []EndsForCause` |
| `SpecPrefsReadable` | `Spec => []PrefsReadable` |
| `SpecOtherInstance` | `Spec => OtherInstance` |
| `SpecPrefsKept` | `Spec => PrefsKept` |

`IInv == MainTypes /\ PrefTypes /\ OneHolder /\ Admission /\ EndsForCause /\ InStep`. `OneHolder`:
a process may have a handle of a mutex, the machine's or its session's, from its check for
another instance until it is gone, whatever the check said. Several may have one of the
same mutex; of those that the check let in and that are not at their end no two have, and
where the machine's mutex can be made each of them has that one. The handle of one that was
turned away or is about to end is no harm to this: it only turns others away. `Admission`:
which stages of `main` a process has passed is told by where it is; one that has a handle
was at the check as administrator, and did not end before it, which is what
`OtherInstance` says of the process that turns another away: a process that relaunched
itself has no handle. `InStep`: until `check_invariants` ends a process (`Undisturbed`),
`config.json` is empty only while a window saves it; where the machine's mutex can be made,
what a window has read of it is what was saved last. `MainTypes` keeps the processes
started finite (`IsFiniteSet(Started)`).

### Locked memory

`LockedMemoryProofs` proves, for any accounts, lengths of notes, quotas, threads and
number of operations, from `LockedMemoryAssumption` (finitely many accounts, lengths and
threads, numbers for quotas) and `NoVaultAssumption` (no vault, and a file that does not
open, are no vaults):

| Theorem | Says |
|---|---|
| `PagesInvariant` | `Spec => []IInv` |
| `PagesSuffice` | `Spec => []TypeOK` |
| `SavedVaultsReopen` | `Spec => []SavedReopens` |
| `EnoughPagesLoseNothing` | `Spec => []NothingLost` |

`IInv == Types /\ Used <= quota /\ Threads /\ Exclusive /\ SavedReopens /\ Ample`:

- `Threads`: what a thread at each point carries. A password change had room for two
  copies of the entries when it took its clone, and the quota does not shrink: that is
  why what it writes later can be opened, however full the memory is by then. While a
  vault is being opened no other thread has a copy of one.
- `Exclusive`: a vault that was opened keeps its file taken, so nobody writes it by its
  path without a clone. Without it `SavedReopens` is not preserved by `FetchIcon`.
- `Ample`: with `Enough` pages each copy of the password was made, in the session and in
  each thread; a save without one would leave a truncated file.

`Used` is a sum over the threads of sums over the accounts. The sum of a function is
shown to be the number of pairs `<<x, i>>` with `i \in 1..f[x]` (`SumIsCount`), by induction
over the subsets of its domain. From there `SumTake` (what one element contributes),
`SumMonotonic` and `SumAtMost` follow by counting, and of `Used` the steps need only how it
changes when one thread's share does (`UsedNext`). `AmpleRoom` is the argument for
`Enough`: session and threads take at most `2 + Buffers(Largest)` each (`Share`), so one subkey
and one content always fit besides.

### Import and export

`TransferProofs` proves, for any vaults, files, names, texts and threads, from
`TransferAssumption` (the empty text and the zero byte are two texts) and
`FilesAssumption` (what vaults and files hold at first has its type, and no file is
an export of this run yet):

| Theorem | Says |
|---|---|
| `TransferInvariant` | `Spec => []IInv` |
| `NoRowOfABadFile` | `Spec => []BadFileAddsNothing` |
| `NoTwinsByImport` | `Spec => ImportMakesNoTwins` |
| `ExportComesBack` | `Spec => RoundTrip` |
| `ImportedIsSaved` | `Spec => ReportedIsOnDisk` |

The loops of the export and of the import are folds over sequences. A fold is equal to the
last of a sequence of results, one for each turn of the loop (`OnlyTurns`, `MergedTurns`), and what
holds after each turn holds after the last (`Turns`). The turns of a merge give its three
lemmas: the names are those of the vault and of the file (`MergedNames`), no new twins
(`MergedTwins`), and where no entry is live it adds live entries of distinct names as
they are (`MergedBack`). `Increasing` is why an import that has as many entries as its file has
rows has all of them, in their order.

`IInv == Vaults /\ Files /\ Jobs /\ Waited /\ Shown`. `Vaults`, `Files` and `Jobs` keep the names of
unreadable files out of vaults, out of files that can be read, and out of what threads
carry; without the second an export could make such a name readable. `Jobs` also says that
an import of an exported file has that export's entries. `Waited`: a calm user's
thread ends in the vault it started in, with that vault's key, and what it has merged is
still there (an entry may have gone to the trash meanwhile, its name has not).

### Only model-checked

- Liveness (`ListSettles`, `SecretsEnd`, `JobsFinish`, `LockReleasesFile`, `Answered`): beyond
  what the provers do.
- `SessionCoherent`, `StoreRefined` and `UpdatesSurvive` are claimed only of a user who
  waits, for favicons too, see above.

Every other property of the runs is a theorem, but for `MoveOnlyTrashes`, which is false
(section 4). An induction over data is done here for a set, not for a predicate: the
elements for which a statement holds are a set, and that it is all of `0..n` (`Turns`) or
contains each subset of a finite set (`SetInduction`) is proved by taking a smallest
counterexample. Where a proof needs what a fold of the library computes, it expands the
definition down to the recursive function in `MapThenFoldSet` and shows, again by a smallest
counterexample, that this recursion has one solution. TLC checks on the same modules, on small instances,
also what is proved, and checked each inductive invariant before its proof.

## 6. What is not modelled

- `session/state.rs` and `session/timeout.rs`: nothing constructs a `SessionState` or
  calls `monitor_activity`. `vault/operations.rs` and `tpm/nonce.rs`: nothing outside
  their unit tests calls them.
- The filter and the search text a vault inherits from the one that was open before
  (`vault.rs:708`): `VaultEntries` has one vault, which stays open.
- What the monitor asks the machine (threads, modules, devices: `anti_injection.rs`,
  `virtualization.rs`, the queries of `antivirus.rs`): `Processes` takes their answer as an
  input (`machine`).
- Search text, titles' order, texts, themes, layout, status messages and the timers
  that clear them: no property distinguishes them.
- The bytes inside a field of a vault file, the bincode encoding, files of version 2
  (accepted by the loader, written by nothing), the calls of the TPM provider.
- Parsing of CSV and JSON rows (a row is readable or not), of QR images (a code is found
  or not), the updater's download.
- Cryptography: ideal, see `VaultFormat`.
- Opening a vault file to read it, or creating one, fails in `VaultSession` for want of
  sharing or because the file is there or not; other errors of the system occur only where
  `Faults` says so: in truncating, in writing and in the ACL call.
- Empty passwords: the screens do not start an operation with one.

## 7. The plan

The modules are written, and their safety properties are proved. What is left is a proof
of the liveness properties, for which the provers lack `ENABLED`, and what a session keeps
for a user who goes on while a favicon is being fetched, of which only the properties of
`session_any` are known.
