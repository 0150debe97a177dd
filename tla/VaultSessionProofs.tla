------------------------- MODULE VaultSessionProofs -------------------------
(***************************************************************************)
(* What VaultSession keeps under every interleaving, for any number of     *)
(* files, keys, passwords and threads: the types, one owner per exclusive  *)
(* handle, no handle on a missing file, and no key without what a save     *)
(* needs.  None of these is inductive alone; IInv adds what each thread's  *)
(* program counter says of the values it carries.                          *)
(*                                                                         *)
(* Then, for a user who waits for each operation: VaultSession implements  *)
(* VaultStore, with crashes at any point, writes that fail and favicons    *)
(* that are not saved.  WaitInv says where the one operation under way is, *)
(* and what the session and its file have to do with each other meanwhile. *)
(***************************************************************************)
EXTENDS SessionStore, SequenceTheorems, TLAPS

Posting == {"unlock", "create", "managed", "passwd", "mirror", "unmirror", "sync",
            "edit", "totp"}

\* What a job at each point of its kind's course carries.
JobOK(w) ==
  /\ w.kind \in {"unlock", "create", "managed", "passwd"} => w.pass # NoPassword
  /\ w.kind \in {"create", "managed"} => w.vault # NoVault /\ w.key # NoId
  /\ w.kind = "managed" => w.path # NoPath
  /\ w.kind = "managed" /\ w.pc = "write" => w.file = w.path
  /\ w.kind \in {"unlock", "create"} /\ w.pc = "open" => w.path # NoPath
  /\ w.kind = "unlock" /\ w.pc = "load" => w.file # NoPath
  /\ w.kind \in {"passwd", "mirror", "unmirror"} /\ w.pc \in {"open", "write"}
       => w.vault # NoVault /\ w.key # NoId
  /\ w.kind \in {"edit", "totp", "generator"} /\ w.pc = "save" => w.key # NoId
  /\ w.kind \in {"unlock", "create", "managed", "mirror", "unmirror"} /\ w.ok
       => w.vault # NoVault
  /\ w.pc = "write" => w.kind \in {"create", "managed", "passwd", "mirror", "unmirror"}
  /\ w.pc = "posted" => w.kind \in Posting

Jobs == \A t \in Slot : JobOK(worker[t])

\* Each closure in the event loop is that of a posted thread, and only there once.
Posted ==
  /\ \A i \in 1..Len(queue) : worker[queue[i]].pc = "posted"
  /\ \A i, j \in 1..Len(queue) : queue[i] = queue[j] => i = j

\* A thread that ends with an open session or in the main screen had a path.
PathKnown ==
  /\ screen # "list" => vault_path # NoPath
  /\ (\E t \in Slot : worker[t].kind \in {"unlock", "create", "totp"}) => vault_path # NoPath

SharedFileExists == \A p \in Path : Shared(p) => disk[p] # Absent

Files == HandleExclusive /\ HeldFileExists /\ SharedFileExists

IInv == TypeOK /\ Jobs /\ Posted /\ PathKnown /\ Files /\ SessionKeyed

-----------------------------------------------------------------------------
(* The value a step gives a thread *)

\* The fields of a thread, and the thread that does nothing.
LEMMA JobTypes ==
  /\ NoJob \in Job /\ JobOK(NoJob)
  /\ \A w \in Job : /\ w.kind \in Kind /\ w.pc \in PC
                    /\ w.path \in Path \cup {NoPath} /\ w.file \in Path \cup {NoPath}
                    /\ w.vault \in VaultValue \cup {NoVault}
                    /\ w.key \in Id \cup {NoId} /\ w.pass \in Password \cup {NoPassword}
                    /\ w.ok \in BOOLEAN
BY SessionAssumption DEF Job, NoJob, JobOK, Kind, PC

\* Thread t goes on as j, and posts its closure or not.
Moves(t, j) ==
  /\ worker[t].pc # "posted"
  /\ j \in Job /\ JobOK(j)
  /\ worker' = [worker EXCEPT ![t] = j]
  /\ \/ queue' = queue
     \/ t \in Thread /\ j.pc = "posted" /\ queue' = Append(queue, t)

\* The event loop still holds each posted closure once after one thread moved,
\* and maybe posted (invoke_from_event_loop).
LEMMA PostedKeeps ==
  ASSUME TypeOK, Posted, NEW t \in Slot, worker[t].pc # "posted",
         \A u \in Slot \ {t} : worker'[u].pc = worker[u].pc,
         \/ queue' = queue
         \/ t \in Thread /\ worker'[t].pc = "posted" /\ queue' = Append(queue, t)
  PROVE  queue' \in Seq(Thread) /\ Posted'
<1>1. queue' \in Seq(Thread)
  BY DEF TypeOK
<1>2. \A i \in 1..Len(queue) : queue[i] \in Slot \ {t}
  BY DEF TypeOK, Posted, Slot
<1>3. CASE queue' = queue
  BY <1>1, <1>2, <1>3 DEF Posted
<1>4. CASE t \in Thread /\ worker'[t].pc = "posted" /\ queue' = Append(queue, t)
  <2>1. /\ Len(queue') = Len(queue) + 1
        /\ \A i \in 1..Len(queue) : queue'[i] = queue[i]
        /\ queue'[Len(queue) + 1] = t
    BY <1>4 DEF TypeOK
  <2>2. Len(queue) \in Nat
    BY DEF TypeOK
  <2>3. \A i \in 1..Len(queue') : i \in 1..Len(queue) \/ i = Len(queue) + 1
    BY <2>1, <2>2
  <2> QED
    BY <1>1, <1>2, <1>4, <2>1, <2>2, <2>3 DEF Posted
<1> QED
  BY <1>3, <1>4

\* A thread's move keeps the parts of the invariant that speak of jobs and closures.
LEMMA MoveKeeps ==
  ASSUME TypeOK, Jobs, Posted, NEW t \in Slot, NEW j, Moves(t, j)
  PROVE  /\ worker' \in [Slot -> Job] /\ queue' \in Seq(Thread)
         /\ worker'[t] = j /\ \A u \in Slot \ {t} : worker'[u] = worker[u]
         /\ Jobs' /\ Posted'
<1>1. worker' \in [Slot -> Job]
  BY DEF TypeOK, Moves
<1>2. worker'[t] = j /\ \A u \in Slot \ {t} : worker'[u] = worker[u]
  BY DEF TypeOK, Moves
<1>3. Jobs'
  BY <1>2 DEF Jobs, Moves, JobOK
<1>4. queue' \in Seq(Thread) /\ Posted'
  BY <1>2, PostedKeeps DEF Moves
<1> QED
  BY <1>1, <1>2, <1>3, <1>4

-----------------------------------------------------------------------------
(* What a thread's step does to everything but the files *)

Calm(t, j) ==
  /\ Moves(t, j)
  /\ j.kind \in {"unlock", "create", "totp"} => j.kind = worker[t].kind \/ vault_path # NoPath
  /\ UNCHANGED <<key, password, vault_path, screen, prefs>>
  /\ vault' \in VaultValue \cup {NoVault} /\ (vault' = NoVault <=> vault = NoVault)
  /\ vault_file' \in Path \cup {NoPath}
  /\ disk' \in [Path -> Image \cup {Absent, Damaged}]
  /\ settings' \in BOOLEAN /\ used' \subseteq Id /\ started' \in Nat

\* A step of a thread that leaves the window alone keeps all but the files part.
LEMMA CalmKeeps ==
  ASSUME IInv, NEW t \in Slot, NEW j, Calm(t, j)
  PROVE  TypeOK' /\ Jobs' /\ Posted' /\ PathKnown' /\ SessionKeyed'
<1>1. /\ worker' \in [Slot -> Job] /\ queue' \in Seq(Thread)
      /\ worker'[t] = j /\ \A u \in Slot \ {t} : worker'[u] = worker[u]
      /\ Jobs' /\ Posted'
  BY MoveKeeps DEF IInv, Calm
<1>2. TypeOK'
  BY <1>1 DEF IInv, Calm, TypeOK
<1>3. PathKnown'
  BY <1>1 DEF IInv, Calm, PathKnown
<1>4. SessionKeyed'
  BY DEF IInv, Calm, SessionKeyed
<1> QED
  BY <1>1, <1>2, <1>3, <1>4

(* and what it does to the files: a handle is kept, dropped, taken from *)
(* AppState, put back or opened, and no file disappears *)

Hands(t, j) ==
  /\ worker' = [worker EXCEPT ![t] = j]
  /\ \A p \in Path : j.file = p =>
       \/ worker[t].file = p /\ vault_file' # p
       \/ vault_file = p /\ vault_file' # p
       \/ CanOpenExclusive(p) /\ vault_file' # p /\ disk'[p] # Absent
  /\ \A p \in Path : vault_file' = p =>
       vault_file = p \/ (worker[t].file = p /\ j.file # p)
  /\ \A p \in Path : j.pc = "write" /\ j.file = NoPath /\ j.path = p =>
       \/ WritesShared(t, p)
       \/ ~Held(p) /\ disk'[p] # Absent
  /\ \A p \in Path : disk'[p] = Absent => disk[p] = Absent

\* Where a handle may go in a step without a second owner: its old owner must
\* have given it up (the files part).
LEMMA HandsKeep ==
  ASSUME IInv, NEW t \in Slot, NEW j, Hands(t, j)
  PROVE  Files'
<1>1. worker'[t] = j /\ \A u \in Slot \ {t} : worker'[u] = worker[u]
  BY DEF IInv, TypeOK, Hands
<1>2. \A u \in Slot \ {t}, p \in Path :
        worker'[u].file = worker[u].file /\ (WritesShared(u, p)' <=> WritesShared(u, p))
  BY <1>1 DEF WritesShared
<1>3. \A p \in Path : WritesShared(t, p)' <=> j.pc = "write" /\ j.file = NoPath /\ j.path = p
  BY <1>1 DEF WritesShared
<1>4. HandleExclusive'
  <2> SUFFICES ASSUME NEW p \in Path
               PROVE  /\ \A a, b \in Slot : worker'[a].file = p /\ worker'[b].file = p => a = b
                      /\ \A a \in Slot : vault_file' = p => worker'[a].file # p
                      /\ Held(p)' => ~Shared(p)'
    BY DEF HandleExclusive
  <2>1. /\ \A a, b \in Slot : worker[a].file = p /\ worker[b].file = p => a = b
        /\ \A a \in Slot : vault_file = p => worker[a].file # p
        /\ Held(p) => ~Shared(p)
    BY DEF IInv, Files, HandleExclusive
  <2>2. \A a, b \in Slot : worker'[a].file = p /\ worker'[b].file = p => a = b
    BY <1>1, <2>1 DEF Hands, Held, CanOpenExclusive
  <2>3. \A a \in Slot : vault_file' = p => worker'[a].file # p
    BY <1>1, <2>1 DEF Hands, Held, CanOpenExclusive
  <2>4. Held(p)' => Held(p) \/ (CanOpenExclusive(p) /\ j.file = p)
    BY <1>1 DEF Hands, Held
  <2>5. Shared(p)' => Shared(p) \/ (~Held(p) /\ j.file = NoPath)
    BY <1>2, <1>3 DEF Hands, Shared
  <2>6. Held(p)' => ~Shared(p)'
    BY <2>1, <2>4, <2>5, SessionAssumption DEF CanOpenExclusive
  <2> QED
    BY <2>2, <2>3, <2>6
<1>5. HeldFileExists'
  BY <1>1, <1>2, <1>3 DEF IInv, Files, Hands, HeldFileExists, Held, CanOpenExclusive
<1>6. SharedFileExists'
  BY <1>1, <1>2, <1>3 DEF IInv, Files, Hands, SharedFileExists, Shared
<1> QED
  BY <1>4, <1>5, <1>6 DEF Files

\* The two together: what to show of a step of a background thread.
LEMMA ThreadKeeps ==
  ASSUME IInv, NEW t \in Slot, NEW j, Calm(t, j), Hands(t, j)
  PROVE  IInv'
BY CalmKeeps, HandsKeep DEF IInv

\* What a vault file can hold after a write or a removal.
LEMMA DiskTypes ==
  ASSUME TypeOK
  PROVE  /\ \A v \in VaultValue, k \in Id, w \in Password : Sealed(v, k, w) \in Image
         /\ \A p \in Path, c \in Image \cup {Absent, Damaged} :
              [disk EXCEPT ![p] = c] \in [Path -> Image \cup {Absent, Damaged}]
         /\ \A i \in Image : i.vault \in VaultValue /\ i.key \in Id /\ i.pass \in Password
BY DEF TypeOK, Sealed, Image

-----------------------------------------------------------------------------
(* The user's steps *)

\* Spawning a thread for a callback of the open session.
LEMMA StartKeeps ==
  ASSUME IInv, NEW t \in Thread, NEW kind, NEW w \in Password \cup {NoPassword},
         Start(t, kind, w), kind \in Kind,
         kind \in {"unlock", "passwd"} => w # NoPassword,
         kind \notin {"create", "managed"},
         screen # "list"
  PROVE  IInv'
<1> DEFINE j == [NoJob EXCEPT !.kind = kind, !.pc = "begin", !.pass = w]
<1>1. j \in Job /\ JobOK(j) /\ j.file = NoPath /\ j.kind = kind /\ j.pc = "begin"
  BY DEF Job, NoJob, JobOK, Kind, PC
<1>2. worker[t].pc = "idle" /\ worker[t].file = NoPath
  BY DEF Start, NoJob
<1> HIDE DEF j
<1>3. Moves(t, j)
  BY <1>1, <1>2 DEF Moves, Start, SetJob, j
<1>4. Calm(t, j)
  BY <1>1, <1>3 DEF Calm, Start, IInv, TypeOK, PathKnown, appVars
<1>5. Hands(t, j)
  BY <1>1, <1>3, SessionAssumption DEF Moves, Hands, Start, appVars
<1> QED
  BY <1>4, <1>5, ThreadKeeps DEF Slot

\* Spawning a thread for a new vault, with its fresh key.
LEMMA StartNewKeeps ==
  ASSUME IInv, NEW t \in Thread, NEW kind \in {"create", "managed"},
         NEW p \in Path \cup {NoPath}, StartNew(t, kind, p),
         kind = "create" => vault_path # NoPath,
         kind = "managed" => p # NoPath
  PROVE  IInv'
<1>1. PICK w \in Password, i \in Id \ used :
         /\ SetJob(t, [NoJob EXCEPT !.kind = kind, !.pc = "begin", !.path = p, !.pass = w,
                          !.key = i, !.vault = [id |-> i, seq |-> 0, mirrors |-> 0]])
         /\ used' = used \cup {i}
  BY DEF StartNew
<1> DEFINE v == [id |-> i, seq |-> 0, mirrors |-> 0]
           j == [NoJob EXCEPT !.kind = kind, !.pc = "begin", !.path = p, !.pass = w,
                   !.key = i, !.vault = v]
<1>2. v \in VaultValue
  BY DEF VaultValue
<1> HIDE DEF v
<1>3. j \in Job /\ JobOK(j) /\ j.file = NoPath /\ j.kind = kind /\ j.pc = "begin"
  BY <1>2, SessionAssumption DEF Job, NoJob, JobOK, Kind, PC
<1>4. worker[t].pc = "idle" /\ worker[t].file = NoPath
  BY DEF StartNew, NoJob
<1>5. worker' = [worker EXCEPT ![t] = j]
  BY <1>1 DEF SetJob, v
<1> HIDE DEF j
<1>6. Moves(t, j)
  BY <1>3, <1>4, <1>5 DEF Moves, StartNew
<1>7. Calm(t, j)
  BY <1>1, <1>3, <1>6 DEF Calm, StartNew, IInv, TypeOK, appVars
<1>8. Hands(t, j)
  BY <1>3, <1>6, SessionAssumption DEF Moves, Hands, StartNew, appVars
<1> QED
  BY <1>7, <1>8, ThreadKeeps DEF Slot

\* Nothing of the threads and of the files changes.
LEMMA WindowKeeps ==
  ASSUME IInv, UNCHANGED <<disk, worker, queue>>, vault_file' \in {vault_file, NoPath}
  PROVE  Jobs' /\ Posted' /\ Files'
<1>1. Jobs' /\ Posted'
  BY DEF IInv, Jobs, Posted
<1>2. \A p \in Path : (Held(p)' => Held(p)) /\ (Shared(p)' <=> Shared(p))
  BY SessionAssumption DEF Held, Shared, WritesShared
<1>3. HandleExclusive'
  BY <1>2, SessionAssumption DEF IInv, Files, HandleExclusive
<1>4. HeldFileExists' /\ SharedFileExists'
  BY <1>2 DEF IInv, Files, HeldFileExists, SharedFileExists
<1> QED
  BY <1>1, <1>3, <1>4 DEF Files

\* 5. Lock Vault drops the secrets and the handle together.
LEMMA LockKeeps == ASSUME IInv, Lock PROVE IInv'
<1>1. Jobs' /\ Posted' /\ Files'
  BY WindowKeeps DEF Lock, Cleared
<1>2. TypeOK'
  BY DEF IInv, TypeOK, Lock, Cleared
<1>3. PathKnown'
  BY DEF IInv, PathKnown, Lock, Cleared
<1>4. SessionKeyed'
  BY DEF SessionKeyed, Lock, Cleared
<1> QED
  BY <1>1, <1>2, <1>3, <1>4 DEF IInv

\* Choosing a vault changes the path only while no session is shown.
LEMMA SelectKeeps == ASSUME IInv, NEW p \in Path, SelectVault(p) PROVE IInv'
<1>1. Jobs' /\ Posted' /\ Files'
  BY WindowKeeps DEF SelectVault
<1>2. TypeOK'
  BY DEF IInv, TypeOK, SelectVault
<1>3. PathKnown'
  BY SessionAssumption DEF PathKnown, SelectVault
<1>4. SessionKeyed'
  BY SessionAssumption DEF IInv, SessionKeyed, SelectVault
<1> QED
  BY <1>1, <1>2, <1>3, <1>4 DEF IInv

\* Going back to the list forgets nothing a thread relies on.
LEMMA BackKeeps == ASSUME IInv, Back PROVE IInv'
<1>1. Jobs' /\ Posted' /\ Files'
  BY WindowKeeps DEF Back, appVars
<1>2. TypeOK'
  BY DEF IInv, TypeOK, Back, appVars
<1>3. PathKnown'
  BY DEF IInv, PathKnown, Back, appVars
<1>4. SessionKeyed'
  BY DEF IInv, SessionKeyed, Back, appVars
<1> QED
  BY <1>1, <1>2, <1>3, <1>4 DEF IInv

\* A message to the generator-settings saver.
LEMMA SendKeeps == ASSUME IInv, SendSettings PROVE IInv'
<1>1. Jobs' /\ Posted' /\ Files'
  BY WindowKeeps DEF SendSettings, appVars
<1>2. TypeOK'
  BY DEF IInv, TypeOK, SendSettings, appVars
<1>3. PathKnown'
  BY DEF IInv, PathKnown, SendSettings, appVars
<1>4. SessionKeyed'
  BY DEF IInv, SessionKeyed, SendSettings, appVars
<1> QED
  BY <1>1, <1>2, <1>3, <1>4 DEF IInv

\* After the process ended, no handle, thread or secret is left.
LEMMA RelaunchKeeps ==
  ASSUME IInv, NEW last \in Path \cup {NoPath}, Relaunch(last) PROVE IInv'
<1>1. /\ worker' \in [Slot -> Job] /\ queue' = <<>>
      /\ \A t \in Slot : worker'[t] = NoJob
  BY JobTypes DEF Relaunch
<1>2. \A p \in Path : ~Held(p)' /\ ~Shared(p)'
  BY <1>1, SessionAssumption DEF Relaunch, Cleared, Held, Shared, WritesShared, NoJob
<1>3. Files'
  BY <1>1, <1>2, SessionAssumption DEF Files, HandleExclusive, HeldFileExists, SharedFileExists, NoJob
<1>4. Jobs' /\ Posted'
  <2>1. Jobs'
    BY <1>1, JobTypes DEF Jobs
  <2>2. Len(queue') = 0
    BY <1>1
  <2> QED
    BY <2>1, <2>2 DEF Posted
<1>5. TypeOK'
  <2>1. queue' \in Seq(Thread)
    BY <1>1
  <2>2. /\ vault_path' \in Path \cup {NoPath} /\ prefs' \in Path \cup {NoPath}
        /\ screen' \in {"list", "unlock", "main"} /\ settings' \in BOOLEAN
    BY DEF Relaunch
  <2> QED
    BY <1>1, <2>1, <2>2 DEF IInv, TypeOK, Relaunch, Cleared
<1>6. PathKnown'
  BY <1>1 DEF PathKnown, Relaunch, NoJob
<1>7. SessionKeyed'
  BY DEF SessionKeyed, Relaunch, Cleared
<1> QED
  BY <1>3, <1>4, <1>5, <1>6, <1>7 DEF IInv
-----------------------------------------------------------------------------
(* The steps of a thread *)

\* A thread that fails posts its error and drops its handle.
LEMMA FailKeeps ==
  ASSUME IInv, NEW t \in Thread, Fail(t),
         worker[t].pc # "posted", worker[t].kind \in Posting,
         UNCHANGED <<appVars, screen, prefs, disk, settings, used, started>>
  PROVE  IInv'
<1> DEFINE j == [worker[t] EXCEPT !.ok = FALSE, !.file = NoPath, !.pc = "posted"]
<1>1. worker[t] \in Job /\ JobOK(worker[t])
  BY DEF IInv, TypeOK, Jobs, Slot
<1>2. /\ j \in Job /\ j.file = NoPath /\ j.pc = "posted" /\ j.ok = FALSE
      /\ j.kind = worker[t].kind /\ j.path = worker[t].path /\ j.vault = worker[t].vault
      /\ j.key = worker[t].key /\ j.pass = worker[t].pass
  BY <1>1 DEF Job, PC
<1>3. worker' = [worker EXCEPT ![t] = j] /\ queue' = Append(queue, t)
  BY <1>1 DEF Fail, Post, SetJob, Job
<1> HIDE DEF j
<1>4. Moves(t, j)
  BY <1>1, <1>2, <1>3 DEF Moves, JobOK
<1>5. Calm(t, j)
  BY <1>2, <1>4 DEF Calm, IInv, TypeOK, appVars
<1>6. Hands(t, j)
  BY <1>2, <1>4, SessionAssumption DEF Moves, Hands, appVars
<1> QED
  BY <1>5, <1>6, ThreadKeeps DEF Slot

\* The thread reads the path of AppState.
LEMMA ReadPathKeeps == ASSUME IInv, NEW t \in Thread, ReadPath(t) PROVE IInv'
<1>1. worker[t] \in Job /\ JobOK(worker[t])
  BY DEF IInv, TypeOK, Jobs, Slot
<1>2. CASE vault_path = NoPath
  BY <1>2, FailKeeps DEF ReadPath, Live, Posting
<1>3. CASE vault_path # NoPath
  <2> DEFINE j == [worker[t] EXCEPT !.path = vault_path, !.pc = "open"]
  <2>1. /\ j \in Job /\ JobOK(j) /\ j.file = worker[t].file /\ j.pc = "open"
        /\ j.kind = worker[t].kind
    BY <1>1, <1>3 DEF Job, JobOK, PC, IInv, TypeOK, ReadPath, Live
  <2>2. worker' = [worker EXCEPT ![t] = j] /\ queue' = queue /\ worker[t].pc # "posted"
    BY <1>3 DEF ReadPath, SetJob, Live
  <2> HIDE DEF j
  <2>3. Moves(t, j)
    BY <2>1, <2>2 DEF Moves
  <2>4. Calm(t, j)
    BY <2>1, <2>3 DEF Calm, IInv, TypeOK, appVars, ReadPath
  <2>5. Hands(t, j)
    BY <2>1, <2>3, SessionAssumption DEF Moves, Hands, appVars, ReadPath, IInv, Files, HandleExclusive, Slot
  <2> QED
    BY <2>4, <2>5, ThreadKeeps DEF Slot
<1> QED
  BY <1>2, <1>3

\* open_exclusive succeeds only on a file without any open handle.
LEMMA UnlockOpenKeeps == ASSUME IInv, NEW t \in Thread, UnlockOpen(t) PROVE IInv'
<1> DEFINE p == worker[t].path
<1>1. worker[t] \in Job /\ JobOK(worker[t])
  BY DEF IInv, TypeOK, Jobs, Slot
<1>2. CASE ~(disk[p] # Absent /\ CanOpenExclusive(p))
  BY <1>2, FailKeeps DEF UnlockOpen, Live, Posting
<1>3. CASE disk[p] # Absent /\ CanOpenExclusive(p)
  <2> DEFINE j == [worker[t] EXCEPT !.file = p, !.pc = "load"]
  <2>1. /\ j \in Job /\ j.file = p /\ j.pc = "load" /\ j.kind = "unlock"
        /\ worker[t].kind = "unlock"
    BY <1>1 DEF Job, PC, UnlockOpen, Live
  <2>2. worker' = [worker EXCEPT ![t] = j] /\ queue' = queue /\ worker[t].pc # "posted"
    BY <1>3 DEF UnlockOpen, SetJob, Live
  <2>3. p # NoPath
    BY <1>1 DEF JobOK, UnlockOpen, Live
  <2>4. JobOK(j)
    BY <1>1, <2>1, <2>3 DEF JobOK, Job
  <2> HIDE DEF j
  <2>5. Moves(t, j)
    BY <2>1, <2>2, <2>4 DEF Moves
  <2>6. Calm(t, j)
    BY <2>1, <2>5 DEF Calm, IInv, TypeOK, appVars, UnlockOpen
  <2>7. Hands(t, j)
    BY <1>3, <2>1, <2>5 DEF Moves, Hands, appVars, UnlockOpen, CanOpenExclusive, Held
  <2> QED
    BY <2>6, <2>7, ThreadKeeps DEF Slot
<1> QED
  BY <1>2, <1>3

\* A step that keeps or drops its handle, starts no write and removes no file.
LEMMA KeepsHandle ==
  ASSUME IInv, NEW t \in Slot, NEW j, Moves(t, j), vault_file' = vault_file,
         j.file \in {worker[t].file, NoPath}, j.pc # "write",
         \A p \in Path : disk'[p] = Absent => disk[p] = Absent
  PROVE  Hands(t, j)
BY SessionAssumption DEF Moves, Hands, IInv, Files, HandleExclusive

\* The loaded vault and the handle go to the closure.
LEMMA UnlockLoadKeeps == ASSUME IInv, NEW t \in Thread, UnlockLoad(t) PROVE IInv'
<1> DEFINE image == disk[worker[t].file]
<1>1. worker[t] \in Job /\ JobOK(worker[t])
  BY DEF IInv, TypeOK, Jobs, Slot
<1>2. worker[t].kind = "unlock" /\ worker[t].pc = "load"
  BY DEF UnlockLoad, Live
<1>3. CASE image \in {Absent, Damaged} \/ image.pass # worker[t].pass
  BY <1>2, <1>3, FailKeeps DEF UnlockLoad, Posting
<1>4. CASE ~(image \in {Absent, Damaged} \/ image.pass # worker[t].pass)
  <2>1. image \in Image
    BY <1>1, <1>2, <1>4 DEF JobOK, IInv, TypeOK, Job
  <2>2. image.vault \in VaultValue /\ image.key \in Id
    BY <2>1 DEF Image
  <2> DEFINE r == [worker[t] EXCEPT !.vault = image.vault, !.key = image.key, !.ok = TRUE]
             j == [r EXCEPT !.pc = "posted"]
  <2>3. Post(t, r)
    BY <1>4 DEF UnlockLoad
  <2>4. /\ j \in Job /\ j.file = worker[t].file /\ j.pc = "posted" /\ j.ok = TRUE
        /\ j.kind = "unlock" /\ j.vault = image.vault /\ j.key = image.key
        /\ j.pass = worker[t].pass
    BY <1>1, <1>2, <2>2 DEF Job, PC
  <2>5. worker' = [worker EXCEPT ![t] = j] /\ queue' = Append(queue, t)
    BY <2>3 DEF Post, SetJob
  <2> HIDE DEF j, r, image
  <2>6. Moves(t, j)
    BY <1>1, <1>2, <2>2, <2>4, <2>5, SessionAssumption DEF Moves, JobOK, Posting
  <2>7. Calm(t, j)
    BY <1>2, <2>4, <2>6 DEF Calm, IInv, TypeOK, appVars, UnlockLoad
  <2>8. Hands(t, j)
    BY <2>4, <2>6, KeepsHandle DEF appVars, UnlockLoad, Slot
  <2> QED
    BY <2>7, <2>8, ThreadKeeps DEF Slot
<1> QED
  BY <1>3, <1>4

\* CREATE_NEW gives the first handle of a file that did not exist.
LEMMA ManagedCreateKeeps == ASSUME IInv, NEW t \in Thread, ManagedCreate(t) PROVE IInv'
<1> DEFINE p == worker[t].path
<1>1. worker[t] \in Job /\ JobOK(worker[t])
  BY DEF IInv, TypeOK, Jobs, Slot
<1>2. worker[t].kind = "managed" /\ worker[t].pc = "begin"
  BY DEF ManagedCreate, Live
<1>3. CASE disk[p] # Absent
  BY <1>2, <1>3, FailKeeps DEF ManagedCreate, Posting
<1>4. CASE disk[p] = Absent
  <2> DEFINE j == [worker[t] EXCEPT !.file = p, !.pc = "write"]
  <2>1. /\ j \in Job /\ j.file = p /\ j.pc = "write" /\ j.kind = "managed" /\ j.path = p
        /\ j.vault = worker[t].vault /\ j.key = worker[t].key /\ j.pass = worker[t].pass
        /\ j.ok = worker[t].ok
    BY <1>1, <1>2 DEF Job, PC
  <2>2. /\ worker' = [worker EXCEPT ![t] = j] /\ queue' = queue
        /\ disk' = [disk EXCEPT ![p] = Damaged]
    BY <1>4 DEF ManagedCreate, SetJob
  <2>3. p \in Path
    BY <1>1, <1>2 DEF JobOK, Job
  <2>4. CanOpenExclusive(p)
    BY <1>4, <2>3 DEF IInv, Files, HeldFileExists, SharedFileExists, CanOpenExclusive
  <2> HIDE DEF j
  <2>5. Moves(t, j)
    BY <1>1, <1>2, <2>1, <2>2 DEF Moves, JobOK, Posting
  <2>6. Calm(t, j)
    BY <1>2, <2>1, <2>2, <2>5 DEF Calm, IInv, TypeOK, appVars, ManagedCreate
  <2>7. \A q \in Path : disk'[q] = Absent => disk[q] = Absent /\ q # p
    BY <2>2, SessionAssumption DEF IInv, TypeOK
  <2>8. Hands(t, j)
    BY <2>1, <2>3, <2>4, <2>5, <2>7, SessionAssumption
       DEF Moves, Hands, appVars, ManagedCreate, CanOpenExclusive, Held
  <2> QED
    BY <2>6, <2>8, ThreadKeeps DEF Slot
<1> QED
  BY <1>3, <1>4

\* The handle of a new managed vault, after its ACL was set.
LEMMA ManagedReopenKeeps == ASSUME IInv, NEW t \in Thread, ManagedReopen(t) PROVE IInv'
<1> DEFINE p == worker[t].path
<1>1. worker[t] \in Job /\ JobOK(worker[t])
  BY DEF IInv, TypeOK, Jobs, Slot
<1>2. worker[t].kind = "managed" /\ worker[t].pc = "reopen"
  BY DEF ManagedReopen, Live
<1>3. CASE ~(disk[p] # Absent /\ CanOpenExclusive(p))
  BY <1>2, <1>3, FailKeeps DEF ManagedReopen, Posting
<1>4. CASE disk[p] # Absent /\ CanOpenExclusive(p)
  <2> DEFINE r == [worker[t] EXCEPT !.file = p, !.ok = TRUE]
             j == [r EXCEPT !.pc = "posted"]
  <2>1. Post(t, r)
    BY <1>4 DEF ManagedReopen
  <2>2. /\ j \in Job /\ j.file = p /\ j.pc = "posted" /\ j.kind = "managed" /\ j.path = p
        /\ j.vault = worker[t].vault /\ j.key = worker[t].key /\ j.pass = worker[t].pass
    BY <1>1, <1>2 DEF Job, PC
  <2>3. worker' = [worker EXCEPT ![t] = j] /\ queue' = Append(queue, t)
    BY <2>1 DEF Post, SetJob
  <2> HIDE DEF j, r
  <2>4. Moves(t, j)
    BY <1>1, <1>2, <2>2, <2>3 DEF Moves, JobOK, Posting
  <2>5. Calm(t, j)
    BY <1>2, <2>2, <2>4 DEF Calm, IInv, TypeOK, appVars, ManagedReopen
  <2>6. Hands(t, j)
    BY <1>4, <2>2, <2>4 DEF Moves, Hands, appVars, ManagedReopen, CanOpenExclusive, Held
  <2> QED
    BY <2>5, <2>6, ThreadKeeps DEF Slot
<1> QED
  BY <1>3, <1>4
-----------------------------------------------------------------------------
(* The steps that remove a file *)

\* A shared handle to a removed file: its thread stays well-formed.
LEMMA UnlinkedJobs ==
  ASSUME IInv, NEW p \in Path, NEW u \in Slot
  PROVE  LET w == Unlinked(p)[u]
         IN  /\ w \in Job /\ JobOK(w)
             /\ w.kind = worker[u].kind /\ w.pc = worker[u].pc /\ w.file = worker[u].file
             /\ \A q \in Path : w.pc = "write" /\ w.file = NoPath /\ w.path = q
                                  => WritesShared(u, q) /\ q # p
<1> DEFINE w == Unlinked(p)[u]
<1>1. worker[u] \in Job /\ JobOK(worker[u])
  BY DEF IInv, TypeOK, Jobs
<1>2. CASE WritesShared(u, p)
  <2>1. w = [worker[u] EXCEPT !.path = NoPath]
    BY <1>2 DEF Unlinked
  <2>2. /\ w \in Job /\ w.kind = worker[u].kind /\ w.pc = "write" /\ w.file = NoPath
        /\ w.path = NoPath /\ w.vault = worker[u].vault /\ w.key = worker[u].key
        /\ w.pass = worker[u].pass /\ w.ok = worker[u].ok /\ worker[u].path = p
    BY <1>1, <1>2, <2>1 DEF Job, WritesShared
  <2> HIDE DEF w
  <2>3. JobOK(w)
    BY <1>1, <1>2, <2>2, SessionAssumption DEF JobOK, WritesShared
  <2> QED
    BY <1>2, <2>2, <2>3, SessionAssumption DEF w, WritesShared
<1>3. CASE ~WritesShared(u, p)
  <2>1. w = worker[u]
    BY <1>3 DEF Unlinked
  <2> HIDE DEF w
  <2> QED
    BY <1>1, <1>3, <2>1 DEF w, WritesShared
<1> QED
  BY <1>2, <1>3

\* Removing a file without an exclusive handle keeps the invariant.
LEMMA RemovalKeeps ==
  ASSUME IInv, NEW p \in Path, ~Held(p),
         disk' = [disk EXCEPT ![p] = Absent],
         worker' \in [Slot -> Job], Jobs', queue' \in Seq(Thread), Posted',
         \A u \in Slot : /\ worker'[u].kind = worker[u].kind
                         /\ worker'[u].file = worker[u].file
                         /\ \A q \in Path : WritesShared(u, q)' => WritesShared(u, q) /\ q # p,
         UNCHANGED <<appVars, screen, prefs, settings, used, started>>
  PROVE  IInv'
<1>1. TypeOK'
  BY DEF IInv, TypeOK, appVars
<1>2. PathKnown'
  BY DEF IInv, PathKnown, appVars
<1>3. SessionKeyed'
  BY DEF IInv, SessionKeyed, appVars
<1>4. \A q \in Path : (Held(q)' <=> Held(q)) /\ (Shared(q)' => Shared(q) /\ q # p)
  BY DEF Held, Shared, appVars
<1>5. HandleExclusive'
  BY <1>4 DEF IInv, Files, HandleExclusive, appVars
<1>6. HeldFileExists' /\ SharedFileExists'
  BY <1>4 DEF IInv, TypeOK, Files, HeldFileExists, SharedFileExists
<1> QED
  BY <1>1, <1>2, <1>3, <1>5, <1>6 DEF IInv, Files

\* Deleting a vault from the list.
LEMMA DeleteKeeps == ASSUME IInv, NEW p \in Path, DeleteVault(p) PROVE IInv'
<1>1. worker' = Unlinked(p) /\ ~Held(p) /\ disk' = [disk EXCEPT ![p] = Absent]
  BY DEF DeleteVault, Removable
<1>2. /\ worker' \in [Slot -> Job] /\ Jobs'
      /\ \A u \in Slot : /\ worker'[u].kind = worker[u].kind
                         /\ worker'[u].pc = worker[u].pc
                         /\ worker'[u].file = worker[u].file
                         /\ \A q \in Path : WritesShared(u, q)' => WritesShared(u, q) /\ q # p
  <2>1. \A u \in Slot : worker'[u] \in Job /\ JobOK(worker'[u])
    BY <1>1, UnlinkedJobs
  <2>2. worker' \in [Slot -> Job]
    BY <1>1, <2>1 DEF Unlinked
  <2> QED
    BY <1>1, <2>1, <2>2, UnlinkedJobs DEF Jobs, WritesShared
<1>3. queue' \in Seq(Thread) /\ Posted'
  BY <1>2 DEF DeleteVault, IInv, TypeOK, Posted, Slot
<1> QED
  BY <1>1, <1>2, <1>3, RemovalKeeps DEF DeleteVault

\* Setting the ACL of a new managed vault, or removing its file again.
LEMMA ManagedSecureKeeps == ASSUME IInv, NEW t \in Thread, ManagedSecure(t) PROVE IInv'
<1> DEFINE p == worker[t].path
<1>1. worker[t] \in Job /\ JobOK(worker[t]) /\ t \in Slot
  BY DEF IInv, TypeOK, Jobs, Slot
<1>2. worker[t].kind = "managed" /\ worker[t].pc = "secure" /\ p \in Path
  BY <1>1 DEF ManagedSecure, Live, JobOK, Job
<1>3. CASE Step(t, "reopen") /\ UNCHANGED <<disk, queue>>
  <2> DEFINE j == [worker[t] EXCEPT !.pc = "reopen"]
  <2>1. /\ j \in Job /\ j.file = worker[t].file /\ j.pc = "reopen" /\ j.kind = "managed"
        /\ j.path = worker[t].path /\ j.vault = worker[t].vault /\ j.key = worker[t].key
        /\ j.pass = worker[t].pass /\ j.ok = worker[t].ok
    BY <1>1, <1>2 DEF Job, PC
  <2>2. worker' = [worker EXCEPT ![t] = j]
    BY <1>3 DEF Step
  <2> HIDE DEF j
  <2>3. Moves(t, j)
    BY <1>1, <1>2, <1>3, <2>1, <2>2 DEF Moves, JobOK
  <2>4. Calm(t, j)
    BY <1>2, <1>3, <2>1, <2>3 DEF Calm, IInv, TypeOK, appVars, ManagedSecure
  <2>5. Hands(t, j)
    BY <1>1, <1>3, <2>1, <2>3, KeepsHandle DEF appVars, ManagedSecure
  <2> QED
    BY <1>1, <2>4, <2>5, ThreadKeeps
<1>4. ASSUME disk' = (IF Removable(p) THEN [disk EXCEPT ![p] = Absent] ELSE disk),
             worker' = [(IF Removable(p) THEN Unlinked(p) ELSE worker) EXCEPT
                          ![t].pc = "posted", ![t].ok = FALSE],
             queue' = Append(queue, t)
      PROVE  IInv'
  <2>1. CASE ~Removable(p)
    <3> DEFINE j == [worker[t] EXCEPT !.pc = "posted", !.ok = FALSE]
    <3>1. /\ j \in Job /\ j.file = worker[t].file /\ j.pc = "posted" /\ j.kind = "managed"
          /\ j.path = worker[t].path /\ j.vault = worker[t].vault /\ j.key = worker[t].key
          /\ j.pass = worker[t].pass /\ j.ok = FALSE
      BY <1>1, <1>2 DEF Job, PC
    <3>2. worker' = [worker EXCEPT ![t] = j]
      BY <1>1, <1>4, <2>1 DEF IInv, TypeOK, Job
    <3> HIDE DEF j
    <3>3. Moves(t, j)
      BY <1>1, <1>2, <1>4, <3>1, <3>2 DEF Moves, JobOK, Posting
    <3>4. Calm(t, j)
      BY <1>2, <1>4, <2>1, <3>1, <3>3 DEF Calm, IInv, TypeOK, appVars, ManagedSecure
    <3>5. Hands(t, j)
      BY <1>1, <1>4, <2>1, <3>1, <3>3, KeepsHandle DEF appVars, ManagedSecure
    <3> QED
      BY <1>1, <3>4, <3>5, ThreadKeeps
  <2>2. CASE Removable(p)
    <3> DEFINE W == Unlinked(p)
               j == [W[t] EXCEPT !.pc = "posted", !.ok = FALSE]
    <3>1. \A u \in Slot : /\ W[u] \in Job /\ JobOK(W[u]) /\ W[u].kind = worker[u].kind
                          /\ W[u].pc = worker[u].pc /\ W[u].file = worker[u].file
                          /\ \A q \in Path : W[u].pc = "write" /\ W[u].file = NoPath /\ W[u].path = q
                                               => WritesShared(u, q) /\ q # p
      BY <1>2, UnlinkedJobs
    <3>2. DOMAIN W = Slot
      BY DEF Unlinked
    <3>3. W \in [Slot -> Job]
      BY <3>1 DEF Unlinked
    <3> HIDE DEF W
    <3>4. W[t] \in Job /\ JobOK(W[t]) /\ W[t].kind = "managed"
      BY <1>1, <1>2, <3>1
    <3>5. /\ j \in Job /\ j.file = W[t].file /\ j.pc = "posted" /\ j.kind = "managed"
          /\ j.path = W[t].path /\ j.vault = W[t].vault /\ j.key = W[t].key
          /\ j.pass = W[t].pass /\ j.ok = FALSE
      BY <3>4 DEF Job, PC
    <3>6. worker' = [W EXCEPT ![t] = j]
      BY <1>1, <1>4, <2>2, <3>3 DEF Job, W
    <3> HIDE DEF j
    <3>7. worker' \in [Slot -> Job] /\ worker'[t] = j /\ \A u \in Slot \ {t} : worker'[u] = W[u]
      BY <1>1, <3>3, <3>5, <3>6
    <3>8. JobOK(j)
      BY <3>4, <3>5 DEF JobOK, Posting
    <3>9. Jobs'
      BY SMTT(30), <3>1, <3>7, <3>8 DEF Jobs
    <3>10. queue' \in Seq(Thread) /\ Posted'
      BY <1>1, <1>2, <1>4, <3>1, <3>5, <3>7, PostedKeeps DEF IInv
    <3>11. \A u \in Slot : /\ worker'[u].kind = worker[u].kind
                           /\ worker'[u].file = worker[u].file
                           /\ \A q \in Path : WritesShared(u, q)' => WritesShared(u, q) /\ q # p
      BY <1>1, <1>2, <3>1, <3>5, <3>7 DEF WritesShared
    <3>12. ~Held(p) /\ disk' = [disk EXCEPT ![p] = Absent]
      BY <1>4, <2>2 DEF Removable
    <3> QED
      BY <1>2, <3>7, <3>9, <3>10, <3>11, <3>12, RemovalKeeps DEF ManagedSecure
  <2> QED
    BY <2>1, <2>2
<1> QED
  BY <1>3, <1>4 DEF ManagedSecure
-----------------------------------------------------------------------------
(* The steps that take the handle of AppState, and those that write *)

\* t takes the handle of AppState and goes on as j, which starts no write.
LEMMA TakesHandle ==
  ASSUME IInv, NEW t \in Slot, NEW j, Moves(t, j), vault_file' = NoPath,
         j.file = vault_file, j.pc # "write", disk' = disk
  PROVE  Hands(t, j)
BY SessionAssumption DEF Moves, Hands

\* t ends without having posted anything.
LEMMA FinishKeeps ==
  ASSUME IInv, NEW t \in Slot, Finish(t), worker[t].pc # "posted",
         UNCHANGED <<key, password, vault_path, vault_file, screen, prefs, queue, used, started>>,
         vault' \in VaultValue \cup {NoVault}, vault' = NoVault <=> vault = NoVault,
         settings' \in BOOLEAN,
         disk' \in [Path -> Image \cup {Absent, Damaged}],
         \A p \in Path : disk'[p] = Absent => disk[p] = Absent
  PROVE  IInv'
<1>1. NoJob.kind = "none" /\ NoJob.file = NoPath /\ NoJob.pc = "idle"
  BY DEF NoJob
<1>2. Moves(t, NoJob)
  BY JobTypes DEF Moves, Finish, SetJob
<1>3. Calm(t, NoJob)
  BY <1>1, <1>2 DEF Calm, IInv, TypeOK
<1>4. Hands(t, NoJob)
  BY <1>1, <1>2, KeepsHandle
<1> QED
  BY <1>3, <1>4, ThreadKeeps

\* The copy a mirror or a password thread writes is a vault: a mirror is only
\* removed when there is one (remove_mirror returns early otherwise).
LEMMA SnapshotType ==
  ASSUME TypeOK, NEW kind \in {"passwd", "mirror", "unmirror"}, vault # NoVault,
         kind = "unmirror" => vault.mirrors # 0
  PROVE  Snapshot(kind) \in VaultValue
<1>1. vault \in VaultValue
  BY DEF TypeOK
<1>2. CASE kind = "mirror"
  <2>1. Snapshot(kind) = [vault EXCEPT !.mirrors = @ + 1]
    BY <1>2 DEF Snapshot
  <2> QED
    BY <1>1, <2>1 DEF VaultValue
<1>3. CASE kind = "unmirror"
  <2>1. Snapshot(kind) = [vault EXCEPT !.mirrors = @ - 1]
    BY <1>3 DEF Snapshot
  <2>2. vault.mirrors - 1 \in Nat
    BY <1>1, <1>3 DEF VaultValue
  <2> QED
    BY <1>1, <2>1, <2>2 DEF VaultValue
<1>4. CASE kind = "passwd"
  BY <1>1, <1>4 DEF Snapshot
<1> QED
  BY <1>2, <1>3, <1>4

\* state.vault_file.take(): the handle leaves AppState for the thread.
LEMMA TakeSessionKeeps == ASSUME IInv, NEW t \in Thread, TakeSession(t) PROVE IInv'
<1> DEFINE kind == worker[t].kind
           taken == [worker[t] EXCEPT !.file = vault_file, !.path = vault_path]
<1>1. worker[t] \in Job /\ JobOK(worker[t]) /\ t \in Slot
  BY DEF IInv, TypeOK, Jobs, Slot
<1>2. kind \in {"passwd", "mirror", "unmirror"} /\ worker[t].pc = "begin"
  BY DEF TakeSession, Live
<1>3. CASE vault = NoVault \/ key = NoId
  <2>1. Finish(t) /\ UNCHANGED <<queue, vault_file>>
    BY <1>3 DEF TakeSession
  <2> QED
    BY <1>1, <1>2, <2>1, FinishKeeps DEF TakeSession, IInv, TypeOK
<1>4. CASE ~(vault = NoVault \/ key = NoId)
  <2>1. vault_file' = NoPath /\ disk' = disk
    BY <1>4 DEF TakeSession
  <2>2. /\ taken \in Job /\ taken.file = vault_file /\ taken.kind = kind
        /\ taken.pass = worker[t].pass /\ taken.vault = worker[t].vault
        /\ taken.ok = worker[t].ok
    BY <1>1 DEF Job, IInv, TypeOK
  <2>3. CASE kind = "unmirror" /\ Post(t, taken)
    <3> DEFINE j == [taken EXCEPT !.pc = "posted"]
    <3>2. worker' = [worker EXCEPT ![t] = j] /\ queue' = Append(queue, t)
      BY <2>3 DEF Post, SetJob
    <3> HIDE DEF taken
    <3>3. /\ j \in Job /\ j.file = vault_file /\ j.pc = "posted" /\ j.kind = "unmirror"
          /\ j.vault = worker[t].vault /\ j.ok = worker[t].ok
      BY <2>2, <2>3 DEF Job, PC
    <3> HIDE DEF j
    <3>4. Moves(t, j)
      BY <1>1, <1>2, <2>3, <3>2, <3>3 DEF Moves, JobOK, Posting
    <3>5. Calm(t, j)
      BY <2>1, <3>3, <3>4 DEF Calm, IInv, TypeOK, TakeSession
    <3>6. Hands(t, j)
      BY <1>1, <2>1, <3>3, <3>4, TakesHandle
    <3> QED
      BY <1>1, <3>5, <3>6, ThreadKeeps
  <2>4. CASE /\ ~(kind = "unmirror" /\ vault.mirrors = 0)
             /\ SetJob(t, [taken EXCEPT
                  !.pc = "open", !.vault = Snapshot(kind), !.key = key,
                  !.pass = IF kind = "passwd" THEN @ ELSE password])
             /\ UNCHANGED queue
    <3> DEFINE w == IF kind = "passwd" THEN taken.pass ELSE password
               j == [taken EXCEPT !.pc = "open", !.vault = Snapshot(kind), !.key = key, !.pass = w]
    <3>1. worker' = [worker EXCEPT ![t] = j] /\ queue' = queue
      BY <2>2, <2>4 DEF SetJob, Job
    <3>2. Snapshot(kind) \in VaultValue
      BY <1>2, <1>4, <2>4, SnapshotType DEF IInv
    <3>3. w \in Password \cup {NoPassword} /\ key \in Id /\ (kind = "passwd" => w = worker[t].pass)
      BY <1>1, <1>4, <2>2 DEF Job, IInv, TypeOK
    <3> HIDE DEF taken, w, kind
    <3>4. /\ j \in Job /\ j.file = vault_file /\ j.pc = "open" /\ j.kind = kind
          /\ j.vault = Snapshot(kind) /\ j.key = key /\ j.pass = w
      BY <2>2, <3>2, <3>3 DEF Job, PC
    <3> HIDE DEF j
    <3>5. JobOK(j)
      BY <1>1, <1>2, <3>2, <3>3, <3>4, SessionAssumption DEF JobOK, kind
    <3>6. Moves(t, j)
      BY <1>2, <3>1, <3>4, <3>5 DEF Moves
    <3>7. Calm(t, j)
      BY <1>2, <2>1, <3>4, <3>6 DEF Calm, IInv, TypeOK, TakeSession
    <3>8. Hands(t, j)
      BY <1>1, <2>1, <3>4, <3>6, TakesHandle
    <3> QED
      BY <1>1, <3>7, <3>8, ThreadKeeps
  <2> QED
    BY <1>4, <2>3, <2>4 DEF TakeSession
<1> QED
  BY <1>3, <1>4

\* A thread that cannot write hands what it owns to its closure.
LEMMA PostKeeps ==
  ASSUME IInv, NEW t \in Thread, Post(t, worker[t]), worker[t].kind \in Posting,
         worker[t].pc # "posted", UNCHANGED <<appVars, screen, prefs, disk, settings, used, started>>
  PROVE  IInv'
<1> DEFINE j == [worker[t] EXCEPT !.pc = "posted"]
<1>1. worker[t] \in Job /\ JobOK(worker[t]) /\ t \in Slot
  BY DEF IInv, TypeOK, Jobs, Slot
<1>2. worker' = [worker EXCEPT ![t] = j] /\ queue' = Append(queue, t)
  BY DEF Post, SetJob
<1>3. /\ j \in Job /\ j.kind = worker[t].kind /\ j.file = worker[t].file /\ j.path = worker[t].path
      /\ j.vault = worker[t].vault /\ j.key = worker[t].key /\ j.pass = worker[t].pass
      /\ j.pc = "posted" /\ j.ok = worker[t].ok
  BY <1>1 DEF Job, PC
<1> HIDE DEF j
<1>4. Moves(t, j)
  BY <1>1, <1>2, <1>3 DEF Moves, JobOK, Posting
<1>5. Calm(t, j)
  BY <1>2, <1>3, <1>4 DEF Calm, IInv, TypeOK, appVars
<1>6. Hands(t, j)
  BY <1>1, <1>2, <1>3, <1>4, KeepsHandle DEF appVars
<1> QED
  BY <1>1, <1>5, <1>6, ThreadKeeps

\* Truncation, through the handle or by path when no exclusive handle is open.
LEMMA OpenForWriteKeeps == ASSUME IInv, NEW t \in Thread, OpenForWrite(t) PROVE IInv'
<1> DEFINE p == IF worker[t].file # NoPath THEN worker[t].file ELSE worker[t].path
<1>1. worker[t] \in Job /\ JobOK(worker[t]) /\ t \in Slot
  BY DEF IInv, TypeOK, Jobs, Slot
<1>2. /\ worker[t].kind \in {"create", "passwd", "mirror", "unmirror"}
      /\ worker[t].pc = "open"
  BY DEF OpenForWrite, Live
<1>3. CASE Post(t, worker[t]) /\ disk' = disk
  BY <1>2, <1>3, PostKeeps DEF OpenForWrite, Posting
<1>4. CASE /\ ~(worker[t].file = NoPath /\ Held(p)) /\ disk' = [disk EXCEPT ![p] = Damaged]
           /\ Step(t, "write") /\ queue' = queue
  <2> DEFINE j == [worker[t] EXCEPT !.pc = "write"]
  <2>1. /\ j \in Job /\ j.file = worker[t].file /\ j.pc = "write" /\ j.kind = worker[t].kind
        /\ j.path = worker[t].path /\ j.vault = worker[t].vault /\ j.key = worker[t].key
        /\ j.pass = worker[t].pass /\ j.ok = worker[t].ok
    BY <1>1 DEF Job, PC
  <2>2. worker' = [worker EXCEPT ![t] = j] /\ queue' = queue /\ disk' = [disk EXCEPT ![p] = Damaged]
    BY <1>4 DEF Step
  <2> HIDE DEF j
  <2>3. Moves(t, j)
    BY <1>1, <1>2, <2>1, <2>2 DEF Moves, JobOK
  <2>4. Calm(t, j)
    BY <2>1, <2>2, <2>3 DEF Calm, IInv, TypeOK, appVars, OpenForWrite
  <2>5. \A q \in Path : disk'[q] = Absent => disk[q] = Absent /\ q # p
    BY <2>2, SessionAssumption DEF IInv, TypeOK
  <2>6. Hands(t, j)
    <3>1. \A q \in Path : worker[t].file = q => vault_file # q
      BY <1>1 DEF IInv, Files, HandleExclusive
    <3> QED
      BY <1>4, <2>1, <2>3, <2>5, <3>1, SessionAssumption DEF Moves, Hands, appVars, OpenForWrite
  <2> QED
    BY <1>1, <2>4, <2>6, ThreadKeeps
<1> QED
  BY <1>3, <1>4 DEF OpenForWrite

\* The disk is of its type and no file disappeared.
Rewritten == /\ disk' \in [Path -> Image \cup {Absent, Damaged}]
             /\ \A p \in Path : disk'[p] = Absent => disk[p] = Absent

\* A completed write leaves the other files alone and this one present.
LEMMA WrittenKeeps ==
  ASSUME TypeOK, NEW p, NEW v \in VaultValue, NEW k \in Id, NEW w \in Password, NEW mixed,
         Written(p, Sealed(v, k, w), mixed)
  PROVE  Rewritten
<1>1. PICK c \in {Sealed(v, k, w)} \cup (IF mixed THEN {Damaged} ELSE {}) :
        disk' = [disk EXCEPT ![p] = c]
  BY DEF Written
<1>2. c \in Image \cup {Damaged}
  BY DiskTypes
<1> QED
  BY <1>1, <1>2, SessionAssumption DEF TypeOK, Rewritten

\* One that fails leaves this one as it was, or damaged.
LEMMA SpoiledKeeps == ASSUME TypeOK, NEW p, Spoiled(p) PROVE Rewritten
<1>1. PICK c : disk' = [disk EXCEPT ![p] = c] /\ (p \in Path => c \in {disk[p], Damaged})
  BY DEF Spoiled
<1> QED
  BY <1>1, SessionAssumption DEF TypeOK, Rewritten

\* A save in one critical section, by handle or by path.
LEMMA SaveKeeps ==
  ASSUME TypeOK, vault # NoVault, NEW p, NEW k \in Id, NEW w \in Password \cup {NoPassword},
         NEW ok \in BOOLEAN, SaveTo(p, k, w, ok) \/ SaveByPath(p, k, w, ok)
  PROVE  Rewritten
<1>1. CASE SaveTo(p, k, w, ok)
  <2>1. CASE w # NoPassword /\ Written(p, Sealed(vault, k, w), Shared(p))
    BY <2>1, WrittenKeeps DEF TypeOK
  <2>2. CASE Spoiled(p)
    BY <2>2, SpoiledKeeps
  <2> QED
    BY <1>1, <2>1, <2>2 DEF SaveTo
<1>2. CASE disk' = disk
  BY <1>2 DEF TypeOK, Rewritten
<1> QED
  BY <1>1, <1>2 DEF SaveByPath

\* The write of a copy outside the mutex ends.
LEMMA WriteOutKeeps == ASSUME IInv, NEW t \in Thread, WriteOut(t) PROVE IInv'
<1> DEFINE w == worker[t]
           p == IF w.file # NoPath THEN w.file ELSE w.path
<1>1. w \in Job /\ JobOK(w) /\ t \in Slot
  BY DEF IInv, TypeOK, Jobs, Slot
<1>2. /\ w.pc = "write" /\ w.pass \in Password
      /\ w.kind \in {"create", "managed", "passwd", "mirror", "unmirror"}
      /\ w.vault \in VaultValue /\ w.key \in Id
  BY <1>1 DEF WriteOut, JobOK, Job
<1>3. Rewritten
  <2>1. CASE disk' = disk
    BY <2>1 DEF Rewritten, IInv, TypeOK
  <2>2. CASE disk' # disk
    <3>1. PICK mixed : Written(p, Sealed(w.vault, w.key, w.pass), mixed)
      BY <2>2 DEF WriteOut
    <3> QED
      BY <1>2, <3>1, WrittenKeeps DEF IInv
  <2> QED
    BY <2>1, <2>2
<1>4. PICK j \in Job : /\ worker' = [worker EXCEPT ![t] = j]
                       /\ j.kind = w.kind /\ j.file \in {w.file, NoPath} /\ j.path = w.path
                       /\ j.vault = w.vault /\ j.key = w.key /\ j.pass = w.pass
                       /\ j.pc \in {"secure", "posted"}
                       /\ queue' = (IF j.pc = "posted" THEN Append(queue, t) ELSE queue)
  <2>1. CASE w.kind = "managed"
    <3> DEFINE j == [w EXCEPT !.file = NoPath, !.pc = "secure"]
    <3>1. worker' = [worker EXCEPT ![t] = j] /\ queue' = queue
      BY <2>1 DEF WriteOut, SetJob
    <3>2. /\ j \in Job /\ j.kind = w.kind /\ j.file = NoPath /\ j.path = w.path
          /\ j.vault = w.vault /\ j.key = w.key /\ j.pass = w.pass /\ j.pc = "secure"
      BY <1>1 DEF Job, PC
    <3> QED
      BY <3>1, <3>2
  <2>2. CASE w.kind # "managed"
    <3> DEFINE r == [w EXCEPT !.ok = TRUE]
               j == [r EXCEPT !.pc = "posted"]
    <3>1. worker' = [worker EXCEPT ![t] = j] /\ queue' = Append(queue, t)
      BY <2>2 DEF WriteOut, Post, SetJob
    <3>2. /\ j \in Job /\ j.kind = w.kind /\ j.file = w.file /\ j.path = w.path
          /\ j.vault = w.vault /\ j.key = w.key /\ j.pass = w.pass /\ j.pc = "posted"
      BY <1>1 DEF Job, PC
    <3> QED
      BY <3>1, <3>2
  <2> QED
    BY <2>1, <2>2
<1> HIDE DEF w, p
<1>5. JobOK(j)
  BY <1>1, <1>2, <1>4, SessionAssumption DEF JobOK, Posting
<1>6. Moves(t, j)
  BY <1>2, <1>4, <1>5 DEF Moves, w
<1>7. Calm(t, j)
  BY <1>3, <1>4, <1>6 DEF Calm, IInv, TypeOK, appVars, WriteOut, w, Rewritten
<1>8. Hands(t, j)
  BY <1>1, <1>3, <1>4, <1>6, KeepsHandle DEF appVars, WriteOut, w, Rewritten
<1> QED
  BY <1>1, <1>7, <1>8, ThreadKeeps

\* The write of a copy outside the mutex fails.
LEMMA WriteFailKeeps == ASSUME IInv, NEW t \in Thread, WriteFail(t) PROVE IInv'
<1> DEFINE w == worker[t]
<1>1. w \in Job /\ JobOK(w) /\ t \in Slot
  BY DEF IInv, TypeOK, Jobs, Slot
<1>2. /\ w.pc = "write"
      /\ w.kind \in {"create", "managed", "passwd", "mirror", "unmirror"}
  BY <1>1 DEF WriteFail, JobOK
<1>3. CASE w.kind # "managed"
  BY <1>2, <1>3, PostKeeps DEF WriteFail, Posting
<1>4. CASE w.kind = "managed"
  <2> DEFINE j == [w EXCEPT !.ok = FALSE, !.file = NoPath, !.pc = "posted"]
             p == w.path
  <2>1. p \in Path /\ w.file = p
    BY <1>1, <1>2, <1>4 DEF JobOK, Job
  <2>2. /\ worker' = [worker EXCEPT ![t] = j] /\ queue' = Append(queue, t)
        /\ disk' = [disk EXCEPT ![p] = Absent]
    BY <1>1, <1>4 DEF WriteFail, Fail, Post, SetJob, Job
  <2>3. /\ j \in Job /\ j.kind = w.kind /\ j.file = NoPath /\ j.path = w.path
        /\ j.vault = w.vault /\ j.key = w.key /\ j.pass = w.pass /\ j.pc = "posted" /\ j.ok = FALSE
    BY <1>1 DEF Job, PC
  <2> HIDE DEF j, w
  <2>4. Moves(t, j)
    BY <1>1, <1>2, <2>2, <2>3 DEF Moves, JobOK, Posting, w
  <2>5. Calm(t, j)
    BY <2>2, <2>3, <2>4 DEF Calm, IInv, TypeOK, appVars, WriteFail, w
  <2>6. /\ worker'[t] = j /\ \A u \in Slot \ {t} : worker'[u] = worker[u]
    BY <1>1, <2>2 DEF IInv, TypeOK
  <2>7. \A q \in Path : (Held(q)' => Held(q) /\ q # p) /\ (Shared(q)' => Shared(q) /\ q # p)
    <3>1. \A u \in Slot \ {t} : worker[u].file # p
      BY <1>1, <2>1 DEF IInv, Files, HandleExclusive, w
    <3>2. vault_file # p /\ ~Shared(p)
      BY <1>1, <2>1 DEF IInv, Files, HandleExclusive, Held, w
    <3>3. \A q \in Path : Held(q)' => Held(q) /\ q # p
      BY <2>3, <2>6, <3>1, <3>2, SessionAssumption DEF Held, appVars, WriteFail
    <3>4. \A q \in Path : Shared(q)' => Shared(q)
      BY <2>3, <2>6 DEF Shared, WritesShared
    <3> QED
      BY <3>2, <3>3, <3>4
  <2>8. HandleExclusive'
    BY <1>1, <2>3, <2>6, <2>7, SessionAssumption
       DEF IInv, Files, HandleExclusive, appVars, WriteFail
  <2>9. HeldFileExists' /\ SharedFileExists'
    BY <2>2, <2>7 DEF IInv, TypeOK, Files, HeldFileExists, SharedFileExists
  <2> QED
    BY <1>1, <2>5, <2>8, <2>9, CalmKeeps DEF IInv, Files
<1> QED
  BY <1>3, <1>4

\* Sync Mirrors takes the handle.
LEMMA SyncTakeKeeps == ASSUME IInv, NEW t \in Thread, SyncTake(t) PROVE IInv'
<1> DEFINE j == [worker[t] EXCEPT !.file = vault_file, !.path = vault_path, !.pc = "copy"]
<1>1. worker[t] \in Job /\ JobOK(worker[t]) /\ t \in Slot
  BY DEF IInv, TypeOK, Jobs, Slot
<1>2. worker[t].kind = "sync" /\ worker[t].pc = "begin"
  BY DEF SyncTake, Live
<1>3. CASE vault = NoVault
  <2>1. Finish(t) /\ UNCHANGED vault_file
    BY <1>3 DEF SyncTake
  <2> QED
    BY <1>1, <1>2, <2>1, FinishKeeps DEF SyncTake, IInv, TypeOK
<1>4. CASE vault # NoVault
  <2>1. worker' = [worker EXCEPT ![t] = j] /\ vault_file' = NoPath
    BY <1>4 DEF SyncTake, SetJob
  <2>2. /\ j \in Job /\ j.kind = "sync" /\ j.file = vault_file /\ j.pc = "copy"
    BY <1>1, <1>2 DEF Job, PC, IInv, TypeOK
  <2> HIDE DEF j
  <2>3. Moves(t, j)
    BY <1>2, <2>1, <2>2 DEF Moves, JobOK, SyncTake
  <2>4. Calm(t, j)
    BY <2>1, <2>2, <2>3 DEF Calm, IInv, TypeOK, SyncTake
  <2>5. Hands(t, j)
    BY <1>1, <2>1, <2>2, <2>3, TakesHandle DEF SyncTake
  <2> QED
    BY <1>1, <2>4, <2>5, ThreadKeeps
<1> QED
  BY <1>3, <1>4

\* Sync Mirrors has copied the file.
LEMMA SyncCopyKeeps == ASSUME IInv, NEW t \in Thread, SyncCopy(t) PROVE IInv'
<1> DEFINE r == [worker[t] EXCEPT !.ok = TRUE]
           j == [r EXCEPT !.pc = "posted"]
<1>1. worker[t] \in Job /\ JobOK(worker[t]) /\ t \in Slot
  BY DEF IInv, TypeOK, Jobs, Slot
<1>2. worker[t].kind = "sync" /\ worker[t].pc = "copy"
  BY DEF SyncCopy, Live
<1>3. worker' = [worker EXCEPT ![t] = j] /\ queue' = Append(queue, t)
  BY DEF SyncCopy, Post, SetJob
<1>4. j \in Job /\ j.kind = "sync" /\ j.file = worker[t].file /\ j.pc = "posted"
  BY <1>1, <1>2 DEF Job, PC
<1> HIDE DEF j
<1>5. Moves(t, j)
  BY <1>2, <1>3, <1>4 DEF Moves, JobOK, Posting
<1>6. Calm(t, j)
  BY <1>4, <1>5 DEF Calm, IInv, TypeOK, SyncCopy, appVars
<1>7. Hands(t, j)
  BY <1>1, <1>4, <1>5, KeepsHandle DEF SyncCopy, appVars
<1> QED
  BY <1>1, <1>6, <1>7, ThreadKeeps

\* Counting the sequence number up.
LEMMA BumpedType ==
  ASSUME TypeOK, vault # NoVault
  PROVE  Bumped \in VaultValue /\ Bumped # NoVault
<1>1. vault \in VaultValue
  BY DEF TypeOK
<1>2. Bumped \in VaultValue
  BY <1>1 DEF Bumped, VaultValue
<1> QED
  BY <1>2, SessionAssumption

\* An entry callback changes the vault and copies key and password.
LEMMA EditMutateKeeps == ASSUME IInv, NEW t \in Thread, EditMutate(t) PROVE IInv'
<1> DEFINE j == [worker[t] EXCEPT !.key = key, !.pass = password, !.pc = "save"]
<1>1. worker[t] \in Job /\ JobOK(worker[t]) /\ t \in Slot
  BY DEF IInv, TypeOK, Jobs, Slot
<1>2. worker[t].kind \in {"edit", "totp"} /\ worker[t].pc = "begin"
  BY DEF EditMutate, Live
<1>3. CASE ~SessionOpen
  <2>1. Finish(t) /\ UNCHANGED vault
    BY <1>3 DEF EditMutate
  <2> QED
    BY <1>1, <1>2, <2>1, FinishKeeps DEF EditMutate, IInv, TypeOK
<1>4. CASE SessionOpen
  <2>1. worker' = [worker EXCEPT ![t] = j] /\ vault' = Bumped
    BY <1>4 DEF EditMutate, SetJob
  <2>2. vault # NoVault /\ key # NoId
    BY <1>4 DEF SessionOpen
  <2>3. Bumped \in VaultValue /\ Bumped # NoVault
    BY <2>2, BumpedType DEF IInv
  <2>4. /\ j \in Job /\ j.kind = worker[t].kind /\ j.file = worker[t].file /\ j.pc = "save"
        /\ j.key = key
    BY <1>1 DEF Job, PC, IInv, TypeOK
  <2> HIDE DEF j
  <2>5. Moves(t, j)
    BY <1>2, <2>1, <2>2, <2>4 DEF Moves, JobOK, EditMutate
  <2>6. Calm(t, j)
    BY <2>1, <2>2, <2>3, <2>4, <2>5 DEF Calm, IInv, TypeOK, EditMutate
  <2>7. Hands(t, j)
    BY <1>1, <2>4, <2>5, KeepsHandle DEF EditMutate
  <2> QED
    BY <1>1, <2>6, <2>7, ThreadKeeps
<1> QED
  BY <1>3, <1>4

\* save_vault_state with the copied key.
LEMMA EditSaveKeeps == ASSUME IInv, NEW t \in Thread, EditSave(t) PROVE IInv'
<1>1. worker[t] \in Job /\ JobOK(worker[t]) /\ t \in Slot
  BY DEF IInv, TypeOK, Jobs, Slot
<1>2. /\ worker[t].kind \in {"edit", "totp"} /\ worker[t].pc = "save"
      /\ worker[t].key \in Id /\ worker[t].pass \in Password \cup {NoPassword}
  BY <1>1 DEF EditSave, Live, JobOK, Job
<1>3. PICK ok \in BOOLEAN : /\ SaveVaultState(worker[t].key, worker[t].pass, ok)
                            /\ Post(t, [worker[t] EXCEPT !.ok = ok])
  BY DEF EditSave
<1>4. Rewritten
  <2>1. CASE vault = NoVault
    BY <1>3, <2>1 DEF SaveVaultState, Rewritten, IInv, TypeOK
  <2>2. CASE vault # NoVault
    <3>1. PICK p : \/ SaveTo(p, worker[t].key, worker[t].pass, ok)
                   \/ SaveByPath(p, worker[t].key, worker[t].pass, ok)
      BY <1>3, <2>2 DEF SaveVaultState
    <3> QED
      BY <1>2, <2>2, <3>1, SaveKeeps DEF IInv
  <2> QED
    BY <2>1, <2>2
<1> DEFINE r == [worker[t] EXCEPT !.ok = ok]
           j == [r EXCEPT !.pc = "posted"]
<1>5. worker' = [worker EXCEPT ![t] = j] /\ queue' = Append(queue, t)
  BY <1>3 DEF Post, SetJob
<1>6. j \in Job /\ j.kind = worker[t].kind /\ j.file = worker[t].file /\ j.pc = "posted"
  BY <1>1, <1>2 DEF Job, PC
<1> HIDE DEF j
<1>7. Moves(t, j)
  BY <1>2, <1>5, <1>6 DEF Moves, JobOK, Posting
<1>8. Calm(t, j)
  BY <1>4, <1>6, <1>7 DEF Calm, IInv, TypeOK, EditSave, appVars, Rewritten
<1>9. Hands(t, j)
  BY <1>1, <1>4, <1>6, <1>7, KeepsHandle DEF EditSave, appVars, Rewritten
<1> QED
  BY <1>1, <1>8, <1>9, ThreadKeeps

\* A favicon arrives and the vault is saved by path.
LEMMA IconFetchKeeps == ASSUME IInv, NEW t \in Thread, IconFetch(t) PROVE IInv'
<1>1. t \in Slot /\ worker[t].pc # "posted" /\ Finish(t)
  BY DEF Slot, IconFetch, Live
<1>2. /\ vault' \in VaultValue \cup {NoVault} /\ (vault' = NoVault <=> vault = NoVault)
      /\ Rewritten
  <2>1. CASE UNCHANGED <<vault, disk>>
    BY <2>1 DEF Rewritten, IInv, TypeOK
  <2>2. CASE ~UNCHANGED <<vault, disk>>
    <3>1. SessionOpen /\ vault' = Bumped
      BY <2>2 DEF IconFetch
    <3>2. Bumped \in VaultValue /\ Bumped # NoVault /\ vault # NoVault
      BY <3>1, BumpedType DEF SessionOpen, IInv
    <3>3. key \in Id /\ password \in Password
      BY <3>1 DEF SessionOpen, IInv, TypeOK, SessionKeyed
    <3>4. ASSUME disk' = disk PROVE Rewritten
      BY <3>4 DEF Rewritten, IInv, TypeOK
    <3>5. ASSUME Written(vault_path, Sealed(Bumped, key, password), Shared(vault_path))
          PROVE  Rewritten
      BY <3>2, <3>3, <3>5, WrittenKeeps DEF IInv
    <3>6. ASSUME Spoiled(vault_path) PROVE Rewritten
      BY <3>6, SpoiledKeeps DEF IInv
    <3>7. Rewritten
      BY <2>2, <3>4, <3>5, <3>6 DEF IconFetch
    <3> QED
      BY <3>1, <3>2, <3>7
  <2> QED
    BY <2>1, <2>2
<1> QED
  BY <1>1, <1>2, FinishKeeps DEF IconFetch, IInv, TypeOK, Rewritten
-----------------------------------------------------------------------------
(* The generator-settings saver *)

\* The saver receives the settings.
LEMMA SaverReceiveKeeps == ASSUME IInv, SaverReceive PROVE IInv'
<1> DEFINE j == [NoJob EXCEPT !.kind = "generator", !.pc = "begin"]
<1>1. Saver \in Slot /\ worker[Saver].pc # "posted"
  BY DEF Slot, SaverReceive, NoJob
<1>2. /\ j \in Job /\ JobOK(j) /\ j.file = NoPath /\ j.kind = "generator" /\ j.pc = "begin"
  BY DEF Job, NoJob, JobOK, Kind, PC
<1>3. worker' = [worker EXCEPT ![Saver] = j] /\ queue' = queue
  BY DEF SaverReceive, SetJob
<1> HIDE DEF j
<1>4. Moves(Saver, j)
  BY <1>1, <1>2, <1>3 DEF Moves
<1>5. Calm(Saver, j)
  BY <1>2, <1>4 DEF Calm, IInv, TypeOK, SaverReceive, appVars
<1>6. Hands(Saver, j)
  BY <1>1, <1>2, <1>4, KeepsHandle DEF SaverReceive, appVars
<1> QED
  BY <1>1, <1>5, <1>6, ThreadKeeps

\* The saver takes the handle out of AppState.
LEMMA SaverTakeKeeps == ASSUME IInv, SaverTake PROVE IInv'
<1> DEFINE j == [worker[Saver] EXCEPT !.file = vault_file, !.path = vault_path,
                   !.key = key, !.pass = password, !.pc = "save"]
<1>1. worker[Saver] \in Job /\ JobOK(worker[Saver]) /\ Saver \in Slot
  BY DEF IInv, TypeOK, Jobs, Slot
<1>2. worker[Saver].kind = "generator" /\ worker[Saver].pc = "begin"
  BY DEF SaverTake, Live
<1>3. vault' \in VaultValue \cup {NoVault} /\ (vault' = NoVault <=> vault = NoVault)
  BY BumpedType DEF SaverTake, IInv, TypeOK
<1>4. CASE ~SessionOpen
  <2>1. Finish(Saver) /\ UNCHANGED vault_file
    BY <1>4 DEF SaverTake
  <2> QED
    BY <1>1, <1>2, <1>3, <2>1, FinishKeeps DEF SaverTake, IInv, TypeOK
<1>5. CASE SessionOpen
  <2>1. worker' = [worker EXCEPT ![Saver] = j] /\ vault_file' = NoPath
    BY <1>5 DEF SaverTake, SetJob
  <2>2. /\ j \in Job /\ j.kind = "generator" /\ j.file = vault_file /\ j.pc = "save"
        /\ j.key = key /\ key # NoId
    BY <1>1, <1>2, <1>5 DEF Job, PC, IInv, TypeOK, SessionOpen
  <2> HIDE DEF j
  <2>3. Moves(Saver, j)
    BY <1>2, <2>1, <2>2 DEF Moves, JobOK, SaverTake
  <2>4. Calm(Saver, j)
    BY <1>3, <2>1, <2>2, <2>3 DEF Calm, IInv, TypeOK, SaverTake
  <2>5. Hands(Saver, j)
    BY <1>1, <2>1, <2>2, <2>3, TakesHandle DEF SaverTake
  <2> QED
    BY <1>1, <2>4, <2>5, ThreadKeeps
<1> QED
  BY <1>4, <1>5

\* The saver writes whatever vault is open now.
LEMMA SaverWriteKeeps == ASSUME IInv, SaverWrite PROVE IInv'
<1> DEFINE w == worker[Saver]
           j == [w EXCEPT !.pc = "restore"]
<1>1. w \in Job /\ JobOK(w) /\ Saver \in Slot
  BY DEF IInv, TypeOK, Jobs, Slot
<1>2. /\ w.kind = "generator" /\ w.pc = "save"
      /\ w.key \in Id /\ w.pass \in Password \cup {NoPassword}
  BY <1>1 DEF SaverWrite, Live, JobOK, Job
<1>3. Rewritten
  <2>1. CASE vault = NoVault
    BY <2>1 DEF SaverWrite, Rewritten, IInv, TypeOK
  <2>2. CASE vault # NoVault
    <3>1. PICK ok, p : /\ ok \in BOOLEAN
                       /\ SaveTo(p, w.key, w.pass, ok) \/ SaveByPath(p, w.key, w.pass, ok)
      BY <2>2 DEF SaverWrite
    <3> QED
      BY <1>2, <2>2, <3>1, SaveKeeps DEF IInv
  <2> QED
    BY <2>1, <2>2
<1>4. worker' = [worker EXCEPT ![Saver] = j]
  BY DEF SaverWrite, Step
<1>5. /\ j \in Job /\ j.kind = "generator" /\ j.file = w.file /\ j.pc = "restore"
  BY <1>1, <1>2 DEF Job, PC
<1> HIDE DEF j, w
<1>6. Moves(Saver, j)
  BY <1>2, <1>4, <1>5 DEF Moves, JobOK, SaverWrite, w
<1>7. Calm(Saver, j)
  BY <1>3, <1>5, <1>6 DEF Calm, IInv, TypeOK, SaverWrite, appVars, Rewritten
<1>8. Hands(Saver, j)
  BY <1>1, <1>3, <1>5, <1>6, KeepsHandle DEF SaverWrite, appVars, Rewritten, w
<1> QED
  BY <1>1, <1>7, <1>8, ThreadKeeps

\* The saver gives the handle back to an open session, which cannot have
\* another handle of the same file meanwhile.
LEMMA SaverRestoreKeeps == ASSUME IInv, SaverRestore PROVE IInv'
<1>1. worker[Saver] \in Job /\ Saver \in Slot /\ worker[Saver].pc = "restore"
  BY DEF IInv, TypeOK, Slot, SaverRestore, Live
<1>2. NoJob.kind = "none" /\ NoJob.file = NoPath /\ NoJob.pc = "idle"
  BY DEF NoJob
<1>3. vault_file' \in {vault_file, worker[Saver].file}
  BY DEF SaverRestore
<1>4. Moves(Saver, NoJob)
  BY <1>1, JobTypes DEF Moves, SaverRestore, Finish, SetJob
<1>5. Calm(Saver, NoJob)
  BY <1>1, <1>2, <1>3, <1>4, JobTypes DEF Calm, IInv, TypeOK, SaverRestore
<1>6. Hands(Saver, NoJob)
  BY <1>2, <1>3, <1>4, SessionAssumption DEF Moves, Hands, SaverRestore
<1> QED
  BY <1>1, <1>5, <1>6, ThreadKeeps

-----------------------------------------------------------------------------
(* The closures *)

\* A closure puts its handle, its vault or its password into AppState.
LEMMA RunClosureKeeps == ASSUME IInv, RunClosure PROVE IInv'
<1> DEFINE t == Head(queue)
           w == worker[t]
<1>1. /\ t \in Thread /\ t \in Slot /\ t = queue[1] /\ Len(queue) \in Nat /\ Len(queue) >= 1
      /\ queue' \in Seq(Thread) /\ Len(queue') = Len(queue) - 1
      /\ \A i \in 1..Len(queue') : queue'[i] = queue[i + 1]
  BY DEF RunClosure, IInv, TypeOK, Slot
<1>2. w \in Job /\ JobOK(w) /\ w.pc = "posted" /\ w.kind \in Posting
  BY <1>1 DEF IInv, TypeOK, Jobs, Posted, JobOK
<1>3. PICK j \in Job : /\ JobOK(j) /\ worker' = [worker EXCEPT ![t] = j]
                       /\ j.kind \in {"none", "icon"} /\ j.file = NoPath /\ j.pc # "write"
  <2> DEFINE i == [NoJob EXCEPT !.kind = "icon", !.pc = "begin"]
  <2>1. /\ i \in Job /\ JobOK(i) /\ i.kind = "icon" /\ i.file = NoPath /\ i.pc = "begin"
    BY DEF Job, NoJob, JobOK, Kind, PC
  <2>2. /\ NoJob \in Job /\ JobOK(NoJob) /\ NoJob.kind = "none" /\ NoJob.file = NoPath
        /\ NoJob.pc = "idle"
    BY JobTypes DEF NoJob
  <2>3. worker' = [worker EXCEPT ![t] = NoJob] \/ worker' = [worker EXCEPT ![t] = i]
    BY DEF RunClosure, Finish, SetJob
  <2> HIDE DEF i
  <2> QED
    BY <2>1, <2>2, <2>3
<1>4. \/ w.kind \in {"unlock", "create", "managed"} /\ OpenSession(w)
      \/ w.kind = "passwd" /\ PasswdDone(w)
      \/ w.kind \in {"mirror", "unmirror"} /\ MirrorDone(w)
      \/ w.kind = "sync" /\ SyncDone(w)
      \/ w.kind \in {"edit", "totp"} /\ EditDone(w)
  BY <1>2 DEF RunClosure, Posting
<1>5. UNCHANGED <<disk, settings, used, started>>
  BY DEF RunClosure
<1> HIDE DEF w, t
<1>6. worker' \in [Slot -> Job] /\ worker'[t] = j /\ \A u \in Slot \ {t} : worker'[u] = worker[u]
  BY <1>1, <1>3 DEF IInv, TypeOK
<1>7. Jobs'
  BY <1>3, <1>6 DEF IInv, Jobs
<1>8. Posted'
  <2>1. \A i \in 1..Len(queue') : i + 1 \in 1..Len(queue) /\ i + 1 # 1
    BY <1>1
  <2>2. \A i \in 1..Len(queue') : queue'[i] \in Slot \ {t}
    BY <1>1, <2>1 DEF IInv, Posted, TypeOK, Slot
  <2>3. 1 \in 1..Len(queue)
    BY <1>1
  <2> QED
    BY SMTT(30), <1>1, <1>6, <2>1, <2>2, <2>3 DEF IInv, Posted
<1>9. /\ vault_file' \in {vault_file, w.file}
      /\ vault_path' \in Path \cup {NoPath} /\ (vault_path # NoPath => vault_path' # NoPath)
      /\ vault' \in VaultValue \cup {NoVault} /\ key' \in Id \cup {NoId}
      /\ password' \in Password \cup {NoPassword} /\ prefs' \in Path \cup {NoPath}
      /\ screen' \in {screen, "main"}
  BY <1>2, <1>4 DEF OpenSession, PasswdDone, MirrorDone, SyncDone, EditDone, Returned,
                    JobOK, Job, IInv, TypeOK, appVars
<1>10. vault_path' # NoPath \/ (screen' = screen /\ vault_path' = vault_path)
  BY <1>1, <1>2, <1>4 DEF OpenSession, PasswdDone, MirrorDone, SyncDone, EditDone,
                          JobOK, IInv, PathKnown, w, appVars
<1>11. TypeOK'
  BY <1>1, <1>2, <1>5, <1>6, <1>9 DEF IInv, TypeOK, Job
<1>12. PathKnown'
  BY <1>3, <1>6, <1>9, <1>10 DEF IInv, PathKnown
<1>13. SessionKeyed'
  BY <1>1, <1>2, <1>4, <1>9 DEF OpenSession, PasswdDone, MirrorDone, SyncDone, EditDone,
       JobOK, IInv, SessionKeyed, PathKnown, w, appVars
<1>14. Hands(t, j)
  BY <1>3, <1>5, <1>9, SessionAssumption DEF Hands, w
<1>15. Files'
  BY <1>1, <1>14, HandsKeep
<1> QED
  BY <1>7, <1>8, <1>11, <1>12, <1>13, <1>15 DEF IInv
-----------------------------------------------------------------------------
(* The invariant *)

\* The program starts without handles, threads and secrets.
LEMMA InitIInv == ASSUME Init PROVE IInv
<1>1. \A t \in Slot : worker[t] = NoJob
  BY DEF Init
<1> DEFINE first(i, w) == Sealed([id |-> i, seq |-> 0, mirrors |-> 0], i, w)
           Fresh == {first(i, w) : i \in Id, w \in Password}
<1>2. disk \in [Path -> Image \cup {Absent, Damaged}] /\ used \subseteq Id
  <2>1. disk \in [Path -> {Absent} \cup Fresh]
    BY SMTT(30) DEF Init
  <2>2. \A i \in Id, w \in Password : first(i, w) \in Image /\ first(i, w).key = i
    <3> SUFFICES ASSUME NEW i \in Id, NEW w \in Password
                 PROVE  first(i, w) \in Image /\ first(i, w).key = i
      OBVIOUS
    <3>1. [id |-> i, seq |-> 0, mirrors |-> 0] \in VaultValue
      BY DEF VaultValue
    <3> QED
      BY <3>1 DEF Sealed, Image
  <2> HIDE DEF first
  <2>3. Fresh \subseteq Image /\ \A c \in Fresh : c.key \in Id
    BY <2>2
  <2> HIDE DEF Fresh
  <2>4. disk \in [Path -> Image \cup {Absent, Damaged}]
    BY <2>1, <2>3
  <2>5. \A p \in Path : disk[p] # Absent => disk[p].key \in Id
    BY <2>1, <2>3
  <2>6. used = {disk[p].key : p \in {q \in Path : disk[q] # Absent}}
    BY DEF Init
  <2> QED
    BY <2>4, <2>5, <2>6
<1>3. worker \in [Slot -> Job]
  BY JobTypes DEF Init
<1>4. queue \in Seq(Thread) /\ Len(queue) = 0
  <2>1. queue = <<>>
    BY DEF Init
  <2> QED
    BY <2>1
<1>5. TypeOK
  <2>1. prefs \in Path \cup {NoPath} /\ vault_path = prefs
    BY DEF Init
  <2>2. screen \in {"list", "unlock", "main"}
    BY DEF Init
  <2>3. /\ vault = NoVault /\ key = NoId /\ password = NoPassword /\ vault_file = NoPath
        /\ settings = FALSE /\ started = 0
    BY DEF Init
  <2> QED
    BY <1>2, <1>3, <1>4, <2>1, <2>2, <2>3 DEF TypeOK
<1>6. Jobs
  BY <1>1, JobTypes DEF Jobs
<1>7. Posted
  BY <1>4 DEF Posted
<1>8. PathKnown
  BY <1>1 DEF Init, PathKnown, NoJob
<1>9. \A p \in Path : ~Held(p) /\ ~Shared(p)
  BY <1>1, SessionAssumption DEF Init, Held, Shared, WritesShared, NoJob
<1>10. Files
  BY <1>1, <1>9, SessionAssumption
     DEF Init, Files, HandleExclusive, HeldFileExists, SharedFileExists, NoJob
<1>11. SessionKeyed
  BY DEF Init, SessionKeyed
<1> QED
  BY <1>5, <1>6, <1>7, <1>8, <1>10, <1>11 DEF IInv

\* Every callback the user triggers.
LEMMA UserKeeps == ASSUME IInv, UserStep PROVE IInv'
<1>1. ASSUME NEW t \in Thread, StartUnlock(t) PROVE IInv'
  BY <1>1, StartKeeps, SessionAssumption DEF StartUnlock, Kind
<1>2. ASSUME NEW t \in Thread, StartCreate(t) PROVE IInv'
  BY <1>2, StartNewKeeps DEF StartCreate
<1>3. ASSUME NEW t \in Thread, NEW p \in Path, StartManaged(t, p) PROVE IInv'
  BY <1>3, StartNewKeeps, SessionAssumption DEF StartManaged
<1>4. ASSUME NEW t \in Thread, StartPasswd(t) PROVE IInv'
  BY <1>4, StartKeeps, SessionAssumption DEF StartPasswd, Kind
<1>5. ASSUME NEW t \in Thread, NEW k \in Kind, StartPlain(t, k) PROVE IInv'
  BY <1>5, StartKeeps DEF StartPlain
<1>6. ASSUME Close PROVE IInv'
  BY <1>6, RelaunchKeeps DEF Close, IInv, TypeOK
<1> QED
  BY <1>1, <1>2, <1>3, <1>4, <1>5, <1>6, SendKeeps, LockKeeps, SelectKeeps, DeleteKeeps,
     BackKeeps DEF UserStep

\* Every step of a spawned thread.
LEMMA ThreadStepKeeps == ASSUME IInv, NEW t \in Thread, ThreadStep(t) PROVE IInv'
BY ReadPathKeeps, UnlockOpenKeeps, UnlockLoadKeeps, ManagedCreateKeeps, ManagedSecureKeeps,
   ManagedReopenKeeps, TakeSessionKeeps, OpenForWriteKeeps, WriteOutKeeps, WriteFailKeeps,
   SyncTakeKeeps, SyncCopyKeeps, EditMutateKeeps, EditSaveKeeps, IconFetchKeeps
   DEF ThreadStep

\* Every step.
LEMMA NextKeeps == ASSUME IInv, [Next]_vars PROVE IInv'
<1>1. ASSUME Crash PROVE IInv'
  BY <1>1, RelaunchKeeps DEF Crash, IInv, TypeOK
<1>2. ASSUME SaverStep PROVE IInv'
  BY <1>2, SaverReceiveKeeps, SaverTakeKeeps, SaverWriteKeeps, SaverRestoreKeeps DEF SaverStep
<1>3. ASSUME UNCHANGED vars PROVE IInv'
  <2>1. Jobs' /\ Posted' /\ Files'
    BY <1>3, WindowKeeps DEF vars
  <2>2. TypeOK'
    BY <1>3 DEF vars, IInv, TypeOK
  <2>3. PathKnown' /\ SessionKeyed'
    BY <1>3 DEF vars, IInv, PathKnown, SessionKeyed
  <2> QED
    BY <2>1, <2>2, <2>3 DEF IInv
<1> QED
  BY <1>1, <1>2, <1>3, UserKeeps, ThreadStepKeeps, RunClosureKeeps DEF Next

\* The inductive invariant: the types, what each thread carries at each point, the
\* closures in the event loop, the known path, the files and their handles, and the key.
THEOREM Invariance == Spec => []IInv
<1>1. Init => IInv
  BY InitIInv
<1>2. IInv /\ [Next]_vars => IInv'
  BY NextKeeps
<1> QED
  BY <1>1, <1>2, PTL DEF Spec

\* The state of AppState, the threads and the files keeps its types: among others,
\* the number of mirrors never goes below zero and no closure posts without a vault.
THEOREM TypeCorrect == Spec => []TypeOK
<1>1. IInv => TypeOK
  BY DEF IInv
<1> QED
  BY <1>1, Invariance, PTL

\* However the handle of a vault file moves between AppState, the background
\* threads and the closures, it has one owner, and no shared writer meanwhile.
THEOREM OneOwner == Spec => []HandleExclusive
<1>1. IInv => HandleExclusive
  BY DEF IInv, Files
<1> QED
  BY <1>1, Invariance, PTL

\* No file under an exclusive handle is missing.
THEOREM NoDanglingHandle == Spec => []HeldFileExists
<1>1. IInv => HeldFileExists
  BY DEF IInv, Files
<1> QED
  BY <1>1, Invariance, PTL

\* The key of an open session comes with the vault, the password and the path.
THEOREM KeyHasSession == Spec => []SessionKeyed
<1>1. IInv => SessionKeyed
  BY DEF IInv
<1> QED
  BY <1>1, Invariance, PTL
-----------------------------------------------------------------------------
(* A handle protects its file *)

\* A save leaves every file alone that somebody else has exclusively.
LEMMA SaveElsewhere ==
  ASSUME IInv, NEW t \in Slot, NEW p \in Path, worker[t].file = p,
         NEW q, q # p, NEW k, NEW w, NEW ok,
         SaveTo(q, k, w, ok) \/ SaveByPath(q, k, w, ok)
  PROVE  disk'[p] = disk[p]
BY DEF IInv, TypeOK, SaveTo, SaveByPath, Written, Spoiled

\* No step of one thread changes a file another one has exclusively.
LEMMA ThreadProtects ==
  ASSUME IInv, NEW u \in Thread, ThreadStep(u), NEW t \in Slot, NEW p \in Path,
         worker[t].file = p, disk'[p] # disk[p]
  PROVE  worker'[t] # worker[t]
<1>1. /\ u \in Slot /\ Held(p) /\ disk[p] # Absent /\ vault_file # p /\ ~Shared(p)
      /\ \A v \in Slot : worker[v].file = p => v = t
      /\ worker[u] \in Job /\ JobOK(worker[u])
  BY DEF IInv, TypeOK, Jobs, Files, HeldFileExists, HandleExclusive, Held, Slot
<1>2. worker \in [Slot -> Job] /\ disk \in [Path -> Image \cup {Absent, Damaged}]
  BY DEF IInv, TypeOK
<1>3. CASE ManagedCreate(u)
  BY <1>1, <1>2, <1>3 DEF ManagedCreate
<1>4. CASE ManagedSecure(u)
  BY <1>1, <1>2, <1>4 DEF ManagedSecure, Removable
<1>5. CASE OpenForWrite(u)
  BY <1>1, <1>2, <1>5 DEF OpenForWrite, Step, Live, Job
<1>6. CASE WriteOut(u)
  <2> DEFINE w == worker[u]
             q == IF w.file # NoPath THEN w.file ELSE w.path
  <2>1. \E c : disk' = [disk EXCEPT ![q] = c]
    BY <1>2, <1>6 DEF WriteOut, Written
  <2>2. q = p
    BY <1>2, <2>1
  <2>3. u = t /\ w.pc = "write"
    BY <1>1, <1>6, <2>2 DEF WriteOut, Shared, WritesShared
  <2>4. worker'[u].pc # "write"
    BY ZenonT(60), <1>1, <1>2, <1>6 DEF WriteOut, SetJob, Post, Job
  <2> QED
    BY <2>3, <2>4
<1>7. CASE WriteFail(u)
  <2>1. worker[u].kind = "managed" /\ worker[u].path = p /\ worker[u].pc = "write"
    BY <1>2, <1>7 DEF WriteFail
  <2>2. worker[u].file = p /\ Fail(u)
    BY <1>1, <1>7, <2>1 DEF WriteFail, JobOK
  <2>3. worker'[u].pc = "posted"
    BY <1>1, <1>2, <2>2 DEF Fail, Post, SetJob, Job
  <2> QED
    BY <1>1, <2>1, <2>2, <2>3
<1>8. CASE EditSave(u)
  <2>1. PICK ok \in BOOLEAN : SaveVaultState(worker[u].key, worker[u].pass, ok)
    BY <1>8 DEF EditSave
  <2>2. PICK q : \/ SaveTo(q, worker[u].key, worker[u].pass, ok) /\ q # p
                 \/ SaveByPath(q, worker[u].key, worker[u].pass, ok)
    BY <1>1, <2>1 DEF SaveVaultState
  <2>3. CASE q # p
    BY <2>2, <2>3, SaveElsewhere
  <2>4. CASE q = p
    BY <1>1, <2>2, <2>4 DEF SaveByPath
  <2> QED
    BY <2>3, <2>4
<1>9. CASE IconFetch(u)
  BY <1>1, <1>2, <1>9 DEF IconFetch, Written, Spoiled
<1>10. CASE disk' = disk
  BY <1>10
<1> QED
  BY <1>3, <1>4, <1>5, <1>6, <1>7, <1>8, <1>9, <1>10
     DEF ThreadStep, ReadPath, UnlockOpen, UnlockLoad, ManagedReopen, TakeSession,
         SyncTake, SyncCopy, EditMutate

\* Neither does the generator-settings saver.
LEMMA SaverProtects ==
  ASSUME IInv, SaverStep, NEW t \in Slot, NEW p \in Path,
         worker[t].file = p, disk'[p] # disk[p]
  PROVE  worker'[t] # worker[t]
<1> DEFINE w == worker[Saver]
<1>1. /\ Held(p) /\ Saver \in Slot /\ worker \in [Slot -> Job]
      /\ \A v \in Slot : worker[v].file = p => v = t
  BY DEF IInv, TypeOK, Files, HandleExclusive, Held, Slot
<1>2. SaverWrite /\ vault # NoVault
  BY DEF SaverStep, SaverReceive, SaverTake, SaverWrite, SaverRestore
<1>3. PICK ok \in BOOLEAN : IF w.file # NoPath THEN SaveTo(w.file, w.key, w.pass, ok)
                                             ELSE SaveByPath(w.path, w.key, w.pass, ok)
  BY <1>2 DEF SaverWrite
<1>4. w.file = p
  <2>1. CASE w.file # NoPath
    BY <1>3, <2>1, SaveElsewhere
  <2>2. CASE w.file = NoPath
    <3>1. SaveByPath(w.path, w.key, w.pass, ok)
      BY <1>3, <2>2
    <3>2. CASE w.path = p
      BY <1>1, <3>1, <3>2 DEF SaveByPath
    <3>3. CASE w.path # p
      BY <3>1, <3>3, SaveElsewhere
    <3> QED
      BY <3>2, <3>3
  <2> QED
    BY <2>1, <2>2
<1>5. w.pc = "save" /\ worker'[Saver].pc = "restore"
  BY <1>1, <1>2 DEF SaverWrite, Live, Step, Job
<1> QED
  BY <1>1, <1>4, <1>5

\* While a thread owns the handle of a file, the file changes only by a step
\* of that thread.
THEOREM HandleProtects == Spec => HandleProtectsFile
<1> DEFINE Protects == \A t \in Slot, p \in Path :
             worker[t].file = p /\ disk'[p] # disk[p] => worker'[t] # worker[t]
<1>1. IInv /\ [Next]_vars => [Protects]_vars
  <2> SUFFICES ASSUME IInv, Next, NEW t \in Slot, NEW p \in Path,
                      worker[t].file = p, disk'[p] # disk[p]
               PROVE  worker'[t] # worker[t]
    OBVIOUS
  <2>1. CASE \E u \in Thread : ThreadStep(u)
    BY <2>1, ThreadProtects
  <2>2. CASE SaverStep
    BY <2>2, SaverProtects
  <2>3. CASE \E q \in Path : DeleteVault(q)
    BY SMTT(30), <2>3 DEF DeleteVault, Removable, Held, IInv, TypeOK
  <2>4. disk' = disk \/ (\E u \in Thread : ThreadStep(u)) \/ SaverStep
          \/ (\E q \in Path : DeleteVault(q))
    BY DEF Next, UserStep, StartUnlock, StartCreate, StartManaged, StartNew, StartPasswd,
           StartPlain, Start, SendSettings, Lock, SelectVault, Back, Close, Crash, Relaunch,
           RunClosure
  <2> QED
    BY <2>1, <2>2, <2>3, <2>4
<1> QED
  BY <1>1, Invariance, PTL DEF Spec, HandleProtectsFile
-----------------------------------------------------------------------------
(* The store *)

\* The file of the session has its vault, unless the last write of it failed or
\* its favicon could not be saved.
Holds(p) == disk[p] \notin {Absent, Damaged}
AtRest == disk[vault_path] = Current \/ Lagging \/ (Faults /\ Behind)
Result(w) == Sealed(w.vault, w.key, w.pass)
Done(w) == w.pc = "posted" /\ w.ok

\* No two files have one key, and none has more in it than operations were started,
\* of which each counts up by one, and by another one for the favicon it fetches.
Images ==
  /\ \A p \in Path : Holds(p) => /\ disk[p].key = disk[p].vault.id /\ disk[p].key \in used
                                 /\ disk[p].vault.seq <= 2 * started /\ disk[p].vault.mirrors <= started
  /\ \A p, q \in Path : Holds(p) /\ Holds(q) /\ disk[p].key = disk[q].key => p = q

\* A closed session keeps nothing; an open one has a key of its own.
Session ==
  IF vault = NoVault
  THEN key = NoId /\ password = NoPassword /\ vault_file = NoPath /\ screen # "main"
  ELSE /\ screen = "main" /\ key = vault.id /\ key \in used /\ vault_file \in {vault_path, NoPath}
       /\ vault.seq <= 2 * started /\ vault.mirrors <= started
       /\ \A p \in Path : Holds(p) /\ disk[p].key = key => p = vault_path

\* Where an operation is, and what it has done so far: an unlock,
Unlocking(w) ==
  /\ w.kind = "unlock" /\ w.pc \in {"begin", "open", "load", "posted"}
  /\ vault = NoVault
  /\ w.pc \in {"open", "load"} => w.path = vault_path
  /\ w.file = IF w.pc = "load" \/ Done(w) THEN vault_path ELSE NoPath
  /\ Done(w) => Holds(vault_path) /\ disk[vault_path] = Result(w)

\* a new vault,
Making(w) ==
  /\ \/ w.kind = "create" /\ w.pc \in {"begin", "open", "write", "posted"}
     \/ w.kind = "managed" /\ w.pc \in {"begin", "write", "secure", "reopen", "posted"}
  /\ vault = NoVault /\ screen = "list"
  /\ w.vault = [id |-> w.key, seq |-> 0, mirrors |-> 0] /\ w.key \in used
  /\ w.ok => w.pc = "posted"
  /\ w.kind = "create" => (w.pc = "begin" \/ w.path = vault_path) /\ (w.pc = "posted" => w.ok \/ Faults)
  /\ w.file = IF w.kind = "managed" /\ (w.pc = "write" \/ Done(w)) THEN w.path ELSE NoPath
  /\ w.pc = "write" => disk[w.path] = Damaged
  /\ w.pc \in {"secure", "reopen"} \/ Done(w) => disk[w.path] = Result(w)
  /\ \A p \in Path : Holds(p) /\ disk[p].key = w.key
       => p = w.path /\ w.pc \in {"secure", "reopen", "posted"}

\* a new password, a mirror more or less,
Changing(w) ==
  /\ w.kind \in {"passwd", "mirror", "unmirror"} /\ w.pc \in {"begin", "open", "write", "posted"}
  /\ w.ok => w.pc = "posted"
  /\ vault # NoVault
  /\ IF w.pc = "begin" THEN w.file = NoPath /\ vault.mirrors < started
                       ELSE w.file \in {vault_path, NoPath} /\ vault_file = NoPath
  /\ w.pc \in {"open", "write"} \/ Done(w) =>
       /\ w.path = vault_path /\ w.key = key /\ w.pass # NoPassword
       /\ w.vault \in VaultValue /\ w.vault.id = key /\ w.vault.seq = vault.seq
       /\ w.vault.seq <= 2 * started /\ w.vault.mirrors <= started
       /\ IF w.kind = "passwd" THEN w.vault = vault ELSE w.pass = password
  /\ w.pc = "write" => disk[vault_path] = Damaged
  /\ Done(w) => disk[vault_path] = Result(w)
  /\ w.pc \in {"begin", "open"} \/ (w.pc = "posted" /\ ~w.ok) => AtRest

\* a sync,
Syncing(w) ==
  /\ w.kind = "sync" /\ w.pc \in {"begin", "copy", "posted"}
  /\ vault # NoVault /\ AtRest
  /\ IF w.pc = "begin" THEN w.file = NoPath ELSE w.file \in {vault_path, NoPath} /\ vault_file = NoPath

\* an edit,
Editing(w) ==
  /\ w.kind \in {"edit", "totp"} /\ w.pc \in {"begin", "save", "posted"}
  /\ vault # NoVault /\ w.file = NoPath
  /\ vault.seq < 2 * started /\ (w.pc = "begin" => vault.seq + 1 < 2 * started)
  /\ w.pc = "save" => w.key = key /\ w.pass = password /\ Behind
  /\ w.pc # "save" => AtRest
  /\ Done(w) => disk[vault_path] = Current

\* the favicon of an entry that was saved,
Fetching(w) ==
  /\ "icon" \in Ops /\ w.kind = "icon" /\ w.pc = "begin" /\ w.file = NoPath
  /\ vault # NoVault /\ vault.seq < 2 * started
  /\ disk[vault_path] = Current

\* or the settings.
Generating(w) ==
  /\ w.kind = "generator" /\ w.pc \in {"begin", "save", "restore"}
  /\ vault # NoVault
  /\ IF w.pc = "begin" THEN w.file = NoPath /\ vault.seq < 2 * started
                       ELSE w.file \in {vault_path, NoPath} /\ vault_file = NoPath
  /\ w.pc = "save" => w.path = vault_path /\ w.key = key /\ w.pass = password /\ Behind
  /\ w.pc # "save" => AtRest

Course(w) ==
  Unlocking(w) \/ Making(w) \/ Changing(w) \/ Syncing(w) \/ Editing(w) \/ Fetching(w) \/ Generating(w)

\* One operation at a time: none, a message to the saver, or one thread.
NoneWorks == \A t \in Slot : worker[t] = NoJob
Only(t) == \A u \in Slot \ {t} : worker[u] = NoJob
Idle == /\ NoneWorks /\ queue = <<>>
        /\ vault # NoVault => AtRest
        /\ settings => vault # NoVault /\ vault.seq < 2 * started
Busy(t) == /\ Only(t) /\ ~settings
           /\ queue = IF worker[t].pc = "posted" THEN <<t>> ELSE <<>>
           /\ Course(worker[t])

WaitInv == IInv /\ Images /\ Session /\ (Idle \/ \E t \in Slot : Busy(t))

-----------------------------------------------------------------------------
(* The one thread at work *)

\* What a thread is doing tells its course.
LEMMA CourseKind ==
  ASSUME NEW w, Course(w)
  PROVE  /\ w.kind = "unlock" => Unlocking(w)
         /\ w.kind \in {"create", "managed"} => Making(w)
         /\ w.kind \in {"passwd", "mirror", "unmirror"} => Changing(w)
         /\ w.kind = "sync" => Syncing(w)
         /\ w.kind \in {"edit", "totp"} => Editing(w)
         /\ w.kind = "icon" => Fetching(w)
         /\ w.kind = "generator" => Generating(w)
         /\ w.kind \in Kind \ {"none"}
BY DEF Course, Unlocking, Making, Changing, Syncing, Editing, Fetching, Generating, Kind

\* While thread t works nobody else does, or has a handle.
LEMMA Active ==
  ASSUME WaitInv, NEW t \in Slot, worker[t] # NoJob
  PROVE  /\ Only(t) /\ ~settings /\ Course(worker[t])
         /\ queue = IF worker[t].pc = "posted" THEN <<t>> ELSE <<>>
         /\ worker[t] \in Job /\ JobOK(worker[t]) /\ worker \in [Slot -> Job]
         /\ \A p \in Path : Held(p) <=> vault_file = p \/ worker[t].file = p
         /\ \A p \in Path : Shared(p) <=> WritesShared(t, p)
         /\ \A p \in Path, u \in Slot \ {t} : ~WritesShared(u, p)
<1>1. Busy(t)
  BY DEF WaitInv, Idle, NoneWorks, Busy, Only
<1>2. \A u \in Slot \ {t} : worker[u].file = NoPath /\ worker[u].pc = "idle"
  BY <1>1 DEF Busy, Only, NoJob
<1>3. worker[t] \in Job /\ JobOK(worker[t]) /\ worker \in [Slot -> Job]
  BY DEF WaitInv, IInv, TypeOK, Jobs
<1>4. \A p \in Path, u \in Slot \ {t} : ~WritesShared(u, p)
  BY <1>2 DEF WritesShared
<1>5. \A p \in Path : Held(p) <=> vault_file = p \/ worker[t].file = p
  BY <1>2, SessionAssumption DEF Held
<1>6. \A p \in Path : Shared(p) <=> WritesShared(t, p)
  BY <1>4 DEF Shared
<1> QED
  BY <1>1, <1>3, <1>4, <1>5, <1>6 DEF Busy

\* Thread t goes on, or posts its closure.
LEMMA GoesOn ==
  ASSUME WaitInv, NEW t \in Slot, Only(t), worker' = [worker EXCEPT ![t] = worker'[t]],
         ~settings', Course(worker[t])',
         queue' = IF worker'[t].pc = "posted" THEN <<t>> ELSE <<>>
  PROVE  Busy(t)'
<1>1. Only(t)'
  BY DEF WaitInv, IInv, TypeOK, Only
<1> QED
  BY <1>1 DEF Busy

\* Thread t has run its course.
LEMMA Finished ==
  ASSUME WaitInv, NEW t \in Slot, Only(t), Finish(t), ~settings', queue' = <<>>,
         (vault # NoVault => AtRest)'
  PROVE  Idle'
<1>1. NoneWorks'
  BY DEF WaitInv, IInv, TypeOK, Only, Finish, SetJob, NoneWorks
<1> QED
  BY <1>1 DEF Idle

\* A step that writes no image and changes no session, but for its handle.
LEMMA SameSession ==
  ASSUME WaitInv, UNCHANGED <<vault, key, password, vault_path, screen, used>>,
         \A p \in Path : Holds(p)' => Holds(p) /\ disk'[p] = disk[p],
         started \in Nat /\ started' \in {started, started + 1},
         vault_file' \in {vault_file, NoPath} \/ (vault # NoVault /\ vault_file' \in {vault_path, NoPath})
  PROVE  Images' /\ Session'
<1>1. \A p \in Path : Holds(p) => disk[p].vault.seq \in Nat /\ disk[p].vault.mirrors \in Nat
  BY DEF WaitInv, IInv, TypeOK, Image, VaultValue, Holds
<1>2. Images'
  BY <1>1 DEF WaitInv, Images
<1>3. vault # NoVault => vault.seq \in Nat /\ vault.mirrors \in Nat
  BY DEF WaitInv, IInv, TypeOK, VaultValue
<1>4. Session'
  BY <1>3 DEF WaitInv, Session
<1> QED
  BY <1>2, <1>4

\* The closure of a thread that had nothing else to do is posted to an empty queue.
LEMMA PostedAlone == ASSUME queue = <<>>, NEW t, queue' = Append(queue, t) PROVE queue' = <<t>>
  OBVIOUS
-----------------------------------------------------------------------------
(* An unlock *)

\* The thread of an unlock or a new vault reads its path.
LEMMA ReadPathWaits == ASSUME WaitInv, IInv', NEW t \in Thread, ReadPath(t) PROVE WaitInv'
<1> DEFINE w == worker[t]
<1>1. /\ t \in Slot /\ w # NoJob /\ Live(t, {"unlock", "create"}, "begin") /\ vault_path # NoPath
      /\ UNCHANGED <<appVars, screen, disk, used, started, settings>>
  BY DEF ReadPath, Live, Slot, NoJob, WaitInv, IInv, PathKnown
<1>2. Images' /\ Session'
  BY <1>1, SameSession DEF appVars, Holds, WaitInv, IInv, TypeOK
<1>3. worker' = [worker EXCEPT ![t] = [w EXCEPT !.path = vault_path, !.pc = "open"]] /\ queue' = queue
  BY <1>1 DEF ReadPath, SetJob
<1>4. Course(w) /\ w \in Job /\ worker \in [Slot -> Job] /\ Only(t) /\ ~settings /\ queue = <<>>
  BY <1>1, Active DEF Live
<1>5. /\ worker'[t].kind = w.kind /\ worker'[t].pc = "open" /\ worker'[t].path = vault_path
      /\ worker'[t].file = w.file /\ worker'[t].vault = w.vault /\ worker'[t].key = w.key
      /\ worker'[t].ok = w.ok
  BY <1>1, <1>3, <1>4 DEF Job
<1>6. Course(worker[t])'
  <2>1. CASE w.kind = "unlock"
    <3>1. Unlocking(w)
      BY <1>4, <2>1, CourseKind
    <3>2. Unlocking(worker[t])'
      BY <1>1, <1>5, <2>1, <3>1 DEF Unlocking, Done, Holds, Live, appVars
    <3> QED
      BY <3>2 DEF Course
  <2>2. CASE w.kind = "create"
    <3>1. Making(w)
      BY <1>4, <2>2, CourseKind
    <3>2. Making(worker[t])'
      BY <1>1, <1>5, <2>2, <3>1 DEF Making, Done, Live, Holds, appVars
    <3> QED
      BY <3>2 DEF Course
  <2> QED
    BY <1>1, <2>1, <2>2 DEF Live
<1>7. Busy(t)'
  BY <1>1, <1>3, <1>4, <1>5, <1>6, GoesOn
<1> QED
  BY <1>1, <1>2, <1>7 DEF WaitInv

\* The file is opened exclusively, or the unlock fails.
LEMMA UnlockOpenWaits == ASSUME WaitInv, IInv', NEW t \in Thread, UnlockOpen(t) PROVE WaitInv'
<1> DEFINE w == worker[t]
<1>1. /\ t \in Slot /\ w # NoJob /\ Live(t, {"unlock"}, "open")
      /\ UNCHANGED <<appVars, screen, disk, used, started, settings>>
  BY DEF UnlockOpen, Live, Slot, NoJob
<1>2. Images' /\ Session'
  BY <1>1, SameSession DEF appVars, Holds, WaitInv, IInv, TypeOK
<1>3. Unlocking(w) /\ w \in Job /\ worker \in [Slot -> Job] /\ Only(t) /\ ~settings /\ queue = <<>>
  BY <1>1, Active, CourseKind DEF Live
<1>4. CASE worker' = [worker EXCEPT ![t] = [w EXCEPT !.file = w.path, !.pc = "load"]] /\ queue' = queue
  <2>1. worker'[t].kind = "unlock" /\ worker'[t].pc = "load" /\ worker'[t].path = w.path /\ worker'[t].file = w.path
    BY <1>1, <1>3, <1>4 DEF Job, Live
  <2>2. Unlocking(worker[t])'
    BY <1>1, <1>3, <2>1 DEF Unlocking, Done, Live, appVars
  <2> QED
    BY <1>1, <1>2, <1>3, <1>4, <2>1, <2>2, GoesOn DEF Course, WaitInv
<1>5. CASE Fail(t)
  <2>1. /\ worker' = [worker EXCEPT ![t] = worker'[t]] /\ worker'[t].kind = "unlock"
        /\ worker'[t].pc = "posted" /\ worker'[t].file = NoPath /\ ~worker'[t].ok
        /\ queue' = Append(queue, t)
    BY <1>1, <1>3, <1>5 DEF Fail, Post, SetJob, Job, Live
  <2>2. Unlocking(worker[t])'
    BY <1>1, <1>3, <2>1 DEF Unlocking, Done, appVars
  <2> QED
    BY <1>1, <1>2, <1>3, <2>1, <2>2, GoesOn, PostedAlone DEF Course, WaitInv
<1> QED
  BY <1>4, <1>5 DEF UnlockOpen, SetJob

\* The image is loaded with the password of the dialog, or the unlock fails.
LEMMA UnlockLoadWaits == ASSUME WaitInv, IInv', NEW t \in Thread, UnlockLoad(t) PROVE WaitInv'
<1> DEFINE w == worker[t]
           image == disk[w.file]
<1>1. /\ t \in Slot /\ w # NoJob /\ Live(t, {"unlock"}, "load")
      /\ UNCHANGED <<appVars, screen, disk, used, started, settings>>
  BY DEF UnlockLoad, Live, Slot, NoJob
<1>2. Images' /\ Session'
  BY <1>1, SameSession DEF appVars, Holds, WaitInv, IInv, TypeOK
<1>3. /\ Unlocking(w) /\ w \in Job /\ worker \in [Slot -> Job] /\ Only(t) /\ ~settings /\ queue = <<>>
      /\ w.file = vault_path /\ vault_path \in Path /\ disk[vault_path] \in Image \cup {Absent, Damaged}
  <2>1. Unlocking(w) /\ w \in Job /\ worker \in [Slot -> Job] /\ Only(t) /\ ~settings /\ queue = <<>> /\ JobOK(w)
    BY <1>1, Active, CourseKind DEF Live
  <2>2. w.file = vault_path
    BY <1>1, <2>1 DEF Unlocking, Live
  <2>3. vault_path \in Path
    BY <1>1, <2>1, <2>2 DEF JobOK, Live, Job
  <2> QED
    BY <2>1, <2>2, <2>3 DEF WaitInv, IInv, TypeOK
<1>4. CASE /\ image \notin {Absent, Damaged} /\ image.pass = w.pass
           /\ Post(t, [w EXCEPT !.vault = image.vault, !.key = image.key, !.ok = TRUE])
  <2>1. image = Sealed(image.vault, image.key, image.pass) /\ image.vault \in VaultValue /\ image.key \in Id
    BY <1>3, <1>4 DEF Image, Sealed
  <2>2. /\ worker' = [worker EXCEPT ![t] = worker'[t]] /\ worker'[t].kind = "unlock"
        /\ worker'[t].pc = "posted" /\ worker'[t].file = vault_path /\ worker'[t].ok
        /\ worker'[t].vault = image.vault /\ worker'[t].key = image.key /\ worker'[t].pass = image.pass
        /\ queue' = Append(queue, t)
    BY <1>1, <1>3, <1>4, <2>1 DEF Post, SetJob, Job, Live
  <2>3. Unlocking(worker[t])'
    BY <1>1, <1>3, <1>4, <2>1, <2>2 DEF Unlocking, Done, Holds, Result, Sealed, appVars
  <2> QED
    BY <1>1, <1>2, <1>3, <2>2, <2>3, GoesOn, PostedAlone DEF Course, WaitInv
<1>5. CASE Fail(t)
  <2>1. /\ worker' = [worker EXCEPT ![t] = worker'[t]] /\ worker'[t].kind = "unlock"
        /\ worker'[t].pc = "posted" /\ worker'[t].file = NoPath /\ ~worker'[t].ok
        /\ queue' = Append(queue, t)
    BY <1>1, <1>3, <1>5 DEF Fail, Post, SetJob, Job, Live
  <2>2. Unlocking(worker[t])'
    BY <1>1, <1>3, <2>1 DEF Unlocking, Done, appVars
  <2> QED
    BY <1>1, <1>2, <1>3, <2>1, <2>2, GoesOn, PostedAlone DEF Course, WaitInv
<1> QED
  BY <1>4, <1>5 DEF UnlockLoad

-----------------------------------------------------------------------------
(* A new vault *)

\* The file of a managed vault is made, or its name is taken.
LEMMA ManagedCreateWaits == ASSUME WaitInv, IInv', NEW t \in Thread, ManagedCreate(t) PROVE WaitInv'
<1> DEFINE w == worker[t]
<1>1. /\ t \in Slot /\ w # NoJob /\ Live(t, {"managed"}, "begin")
      /\ UNCHANGED <<appVars, screen, used, started, settings>>
  BY DEF ManagedCreate, Live, Slot, NoJob
<1>2. /\ Making(w) /\ w \in Job /\ JobOK(w) /\ worker \in [Slot -> Job] /\ Only(t) /\ ~settings /\ queue = <<>>
      /\ w.path \in Path /\ disk \in [Path -> Image \cup {Absent, Damaged}] /\ started \in Nat
  BY <1>1, Active, CourseKind DEF Live, JobOK, Job, WaitInv, IInv, TypeOK
<1>3. CASE disk' = disk /\ Fail(t)
  <2>1. Images' /\ Session'
    BY <1>1, <1>2, <1>3, SameSession DEF appVars, Holds
  <2>2. /\ worker' = [worker EXCEPT ![t] = worker'[t]] /\ worker'[t].kind = "managed"
        /\ worker'[t].pc = "posted" /\ worker'[t].file = NoPath /\ ~worker'[t].ok
        /\ worker'[t].path = w.path /\ worker'[t].vault = w.vault /\ worker'[t].key = w.key
        /\ queue' = Append(queue, t)
    BY <1>1, <1>2, <1>3 DEF Fail, Post, SetJob, Job, Live
  <2>3. Making(worker[t])'
    BY <1>1, <1>2, <1>3, <2>2 DEF Making, Done, Holds, Live, appVars
  <2> QED
    BY <1>1, <1>2, <2>1, <2>2, <2>3, GoesOn, PostedAlone DEF Course, WaitInv
<1>4. CASE /\ disk' = [disk EXCEPT ![w.path] = Damaged]
           /\ SetJob(t, [w EXCEPT !.file = w.path, !.pc = "write"]) /\ queue' = queue
  <2>1. Images' /\ Session'
    BY <1>1, <1>2, <1>4, SameSession DEF appVars, Holds
  <2>2. /\ worker' = [worker EXCEPT ![t] = worker'[t]] /\ worker'[t].kind = "managed"
        /\ worker'[t].pc = "write" /\ worker'[t].file = w.path
        /\ worker'[t].path = w.path /\ worker'[t].vault = w.vault /\ worker'[t].key = w.key
        /\ worker'[t].ok = w.ok
    BY <1>1, <1>2, <1>4 DEF SetJob, Job, Live
  <2>3. Making(worker[t])'
    BY <1>1, <1>2, <1>4, <2>2 DEF Making, Done, Holds, Live, appVars
  <2> QED
    BY <1>1, <1>2, <1>4, <2>1, <2>2, <2>3, GoesOn DEF Course, WaitInv
<1> QED
  BY <1>3, <1>4 DEF ManagedCreate

\* An ACL call that fails takes the new file away again.
LEMMA ManagedFails ==
  ASSUME WaitInv, NEW t \in Thread, ManagedSecure(t)
  PROVE  \/ Step(t, "reopen") /\ disk' = disk /\ queue' = queue
         \/ /\ Faults /\ worker[t].path \in Path
            /\ disk' = [disk EXCEPT ![worker[t].path] = Absent]
            /\ worker' = [worker EXCEPT ![t].pc = "posted", ![t].ok = FALSE] /\ queue' = Append(queue, t)
<1> DEFINE w == worker[t]
<1>1. /\ t \in Slot /\ w # NoJob /\ Live(t, {"managed"}, "secure")
  BY DEF ManagedSecure, Live, Slot, NoJob
<1>2. /\ Making(w) /\ w \in Job /\ JobOK(w) /\ w.path \in Path /\ worker \in [Slot -> Job]
      /\ Held(w.path) <=> vault_file = w.path \/ w.file = w.path
      /\ \A u \in Slot \ {t} : ~WritesShared(u, w.path)
  BY <1>1, Active, CourseKind DEF Live, JobOK, Job
<1>3. ~Held(w.path)
  BY <1>1, <1>2, SessionAssumption DEF Making, Live, Done, WaitInv, Session
<1>4. disk[w.path] = Result(w) /\ disk[w.path] # Absent
  <2>1. disk[w.path] = Result(w)
    BY <1>1, <1>2 DEF Making, Live
  <2>2. w.vault \in VaultValue /\ w.key \in Id /\ w.pass \in Password
    BY <1>1, <1>2 DEF JobOK, Job, Live
  <2>3. Result(w) \in Image
    BY <2>2 DEF Result, Sealed, Image
  <2> QED
    BY <2>1, <2>3, SessionAssumption
<1>5. Removable(w.path)
  BY <1>3, <1>4 DEF Removable
<1>6. \A u \in Slot : ~WritesShared(u, w.path)
  BY <1>1, <1>2 DEF WritesShared, Live
<1>7. Unlinked(w.path) = worker
  BY <1>2, <1>6 DEF Unlinked
<1> QED
  BY <1>2, <1>3, <1>5, <1>7 DEF ManagedSecure

\* The ACL of the new file is set, or the file is taken away.
LEMMA ManagedSecureWaits == ASSUME WaitInv, IInv', NEW t \in Thread, ManagedSecure(t) PROVE WaitInv'
<1> DEFINE w == worker[t]
<1>1. /\ t \in Slot /\ w # NoJob /\ Live(t, {"managed"}, "secure")
      /\ UNCHANGED <<appVars, screen, used, started, settings>>
  BY DEF ManagedSecure, Live, Slot, NoJob
<1>2. /\ Making(w) /\ w \in Job /\ JobOK(w) /\ worker \in [Slot -> Job] /\ Only(t) /\ ~settings /\ queue = <<>>
      /\ w.path \in Path /\ started \in Nat /\ disk \in [Path -> Image \cup {Absent, Damaged}]
  BY <1>1, Active, CourseKind DEF Live, JobOK, Job, WaitInv, IInv, TypeOK
<1>3. CASE Step(t, "reopen") /\ disk' = disk /\ queue' = queue
  <2>1. Images' /\ Session'
    BY <1>1, <1>2, <1>3, SameSession DEF appVars, Holds
  <2>2. /\ worker' = [worker EXCEPT ![t] = worker'[t]] /\ worker'[t].kind = "managed"
        /\ worker'[t].pc = "reopen" /\ worker'[t].file = w.file /\ worker'[t].pass = w.pass /\ worker'[t].ok = w.ok
        /\ worker'[t].path = w.path /\ worker'[t].vault = w.vault /\ worker'[t].key = w.key
    BY <1>1, <1>2, <1>3 DEF Step, Job, Live
  <2>3. Making(worker[t])'
    BY <1>1, <1>2, <1>3, <2>2 DEF Making, Done, Result, Holds, Live, appVars
  <2> QED
    BY <1>1, <1>2, <1>3, <2>1, <2>2, <2>3, GoesOn DEF Course, WaitInv
<1>4. CASE /\ disk' = [disk EXCEPT ![w.path] = Absent]
           /\ worker' = [worker EXCEPT ![t].pc = "posted", ![t].ok = FALSE] /\ queue' = Append(queue, t)
  <2>2. \A q \in Path : Holds(q)' => Holds(q) /\ disk'[q] = disk[q]
    BY <1>2, <1>4 DEF Holds
  <2>3. Images' /\ Session'
    BY <1>1, <1>2, <2>2, SameSession DEF appVars
  <2>4. /\ worker' = [worker EXCEPT ![t] = worker'[t]] /\ worker'[t].kind = "managed"
        /\ worker'[t].pc = "posted" /\ worker'[t].file = w.file /\ ~worker'[t].ok
        /\ worker'[t].path = w.path /\ worker'[t].vault = w.vault /\ worker'[t].key = w.key
    BY <1>1, <1>2, <1>4 DEF Job, Live
  <2>5. Making(worker[t])'
    BY <1>1, <1>2, <2>2, <2>4 DEF Making, Done, Holds, Live, appVars
  <2> QED
    BY <1>1, <1>2, <1>4, <2>3, <2>4, <2>5, GoesOn, PostedAlone DEF Course, WaitInv
<1> QED
  BY <1>3, <1>4, ManagedFails

\* The new vault is opened again, with an exclusive handle.
LEMMA ManagedReopens ==
  ASSUME WaitInv, NEW t \in Thread, ManagedReopen(t)
  PROVE  /\ worker[t].path \in Path /\ disk[worker[t].path] = Result(worker[t])
         /\ Post(t, [worker[t] EXCEPT !.file = worker[t].path, !.ok = TRUE])
<1> DEFINE w == worker[t]
<1>1. t \in Slot /\ w # NoJob /\ Live(t, {"managed"}, "reopen")
  BY DEF ManagedReopen, Live, Slot, NoJob
<1>2. /\ Making(w) /\ w \in Job /\ JobOK(w) /\ w.path \in Path
      /\ Held(w.path) <=> vault_file = w.path \/ w.file = w.path
      /\ Shared(w.path) <=> WritesShared(t, w.path)
  BY <1>1, Active, CourseKind DEF Live, JobOK, Job
<1>3. ~Held(w.path)
  BY <1>1, <1>2, SessionAssumption DEF Making, Live, Done, WaitInv, Session
<1>4. ~Shared(w.path)
  BY <1>1, <1>2 DEF WritesShared, Live
<1>5. disk[w.path] = Result(w) /\ disk[w.path] # Absent
  <2>1. disk[w.path] = Result(w)
    BY <1>1, <1>2 DEF Making, Live
  <2>2. w.vault \in VaultValue /\ w.key \in Id /\ w.pass \in Password
    BY <1>1, <1>2 DEF JobOK, Job, Live
  <2>3. Result(w) \in Image
    BY <2>2 DEF Result, Sealed, Image
  <2> QED
    BY <2>1, <2>3, SessionAssumption
<1> QED
  BY <1>2, <1>3, <1>4, <1>5 DEF ManagedReopen, CanOpenExclusive

\* The new file is opened again for the session.
LEMMA ManagedReopenWaits == ASSUME WaitInv, IInv', NEW t \in Thread, ManagedReopen(t) PROVE WaitInv'
<1> DEFINE w == worker[t]
<1>1. /\ t \in Slot /\ w # NoJob /\ Live(t, {"managed"}, "reopen")
      /\ UNCHANGED <<appVars, screen, disk, used, started, settings>>
  BY DEF ManagedReopen, Live, Slot, NoJob
<1>2. /\ Making(w) /\ w \in Job /\ JobOK(w) /\ worker \in [Slot -> Job] /\ Only(t) /\ ~settings /\ queue = <<>>
      /\ w.path \in Path /\ started \in Nat
  BY <1>1, Active, CourseKind DEF Live, JobOK, Job, WaitInv, IInv, TypeOK
<1>3. Post(t, [w EXCEPT !.file = w.path, !.ok = TRUE]) /\ disk[w.path] = Result(w)
  BY ManagedReopens
<1>4. Images' /\ Session'
  BY <1>1, <1>2, SameSession DEF appVars, Holds
<1>5. /\ worker' = [worker EXCEPT ![t] = worker'[t]] /\ worker'[t].kind = "managed"
      /\ worker'[t].pc = "posted" /\ worker'[t].file = w.path /\ worker'[t].pass = w.pass
      /\ worker'[t].path = w.path /\ worker'[t].vault = w.vault /\ worker'[t].key = w.key
      /\ worker'[t].ok /\ queue' = Append(queue, t)
  BY <1>1, <1>2, <1>3 DEF Post, SetJob, Job, Live
<1>6. Making(worker[t])'
  BY <1>1, <1>2, <1>3, <1>5 DEF Making, Done, Result, Holds, Live, appVars
<1> QED
  BY <1>1, <1>2, <1>4, <1>5, <1>6, GoesOn, PostedAlone DEF Course, WaitInv

-----------------------------------------------------------------------------
(* A new password, a mirror more or less *)

\* A session that is open: its vault, its key and its file.
LEMMA OpenSessionFacts ==
  ASSUME WaitInv, vault # NoVault
  PROVE  /\ vault \in VaultValue /\ key = vault.id /\ key \in Id /\ key # NoId
         /\ password \in Password /\ password # NoPassword
         /\ vault_path \in Path /\ vault_path # NoPath
         /\ vault_file \in {vault_path, NoPath} /\ screen = "main" /\ key \in used
         /\ vault.seq \in Nat /\ vault.mirrors \in Nat /\ started \in Nat
         /\ vault.seq <= 2 * started /\ vault.mirrors <= started
         /\ Current \in Image /\ Current \notin {Absent, Damaged}
         /\ SessionOpen
<1>1. /\ vault \in VaultValue /\ key = vault.id /\ key \in Id
      /\ vault.seq \in Nat /\ vault.mirrors \in Nat /\ started \in Nat
  BY DEF WaitInv, IInv, TypeOK, Session, VaultValue
<1>2. key # NoId
  BY <1>1, SessionAssumption
<1>3. password \in Password /\ vault_path \in Path /\ vault_path # NoPath /\ password # NoPassword
  BY <1>2 DEF WaitInv, IInv, TypeOK, SessionKeyed
<1>4. Current \in Image
  BY <1>1, <1>3 DEF Current, Sealed, Image
<1> QED
  BY <1>1, <1>2, <1>3, <1>4, SessionAssumption DEF WaitInv, Session, SessionOpen

\* A thread takes the handle and its copies of the session.
LEMMA TakeSessionWaits == ASSUME WaitInv, IInv', NEW t \in Thread, TakeSession(t) PROVE WaitInv'
<1> DEFINE w == worker[t]
           taken == [w EXCEPT !.file = vault_file, !.path = vault_path]
           j == [taken EXCEPT !.pc = "open", !.vault = Snapshot(w.kind), !.key = key,
                              !.pass = IF w.kind = "passwd" THEN @ ELSE password]
<1>1. /\ t \in Slot /\ w # NoJob /\ w.kind \in {"passwd", "mirror", "unmirror"} /\ w.pc = "begin"
      /\ UNCHANGED <<vault, key, password, vault_path, screen, disk, used, started, settings>>
  BY DEF TakeSession, Live, Slot, NoJob
<1>2. /\ Changing(w) /\ w \in Job /\ JobOK(w) /\ worker \in [Slot -> Job] /\ Only(t) /\ ~settings /\ queue = <<>>
  BY <1>1, Active, CourseKind
<1>3. vault # NoVault /\ ~w.ok /\ vault.mirrors < started /\ AtRest
  BY <1>1, <1>2 DEF Changing, Done
<1>4. vault_file' = NoPath /\ \/ Post(t, taken)
                              \/ /\ ~(w.kind = "unmirror" /\ vault.mirrors = 0)
                                 /\ SetJob(t, j) /\ queue' = queue
  BY <1>3, OpenSessionFacts DEF TakeSession
<1>5. Images' /\ Session'
  BY <1>1, <1>4, SameSession, OpenSessionFacts, <1>3 DEF Holds
<1>6. CASE Post(t, taken)
  <2>1. /\ worker' = [worker EXCEPT ![t] = worker'[t]] /\ worker'[t].kind = w.kind
        /\ worker'[t].pc = "posted" /\ worker'[t].file = vault_file /\ worker'[t].ok = w.ok
        /\ worker'[t].vault = w.vault /\ queue' = Append(queue, t)
    BY <1>1, <1>2, <1>6 DEF Post, SetJob, Job
  <2>3. Changing(worker[t])'
    BY <1>1, <1>2, <1>3, <1>4, <2>1, OpenSessionFacts DEF Changing, Done, AtRest, Behind, Lagging, HasVault, Current
  <2> QED
    BY <1>1, <1>2, <1>5, <2>1, <2>3, GoesOn, PostedAlone DEF Course, WaitInv
<1>7. CASE ~(w.kind = "unmirror" /\ vault.mirrors = 0) /\ SetJob(t, j) /\ queue' = queue
  <2>1. /\ Snapshot(w.kind) \in VaultValue /\ Snapshot(w.kind).id = key
        /\ Snapshot(w.kind).seq = vault.seq /\ Snapshot(w.kind).mirrors <= started
        /\ w.kind = "passwd" => Snapshot(w.kind) = vault
    BY <1>1, <1>3, <1>7, OpenSessionFacts DEF Snapshot, VaultValue
  <2>2. /\ worker' = [worker EXCEPT ![t] = worker'[t]] /\ worker'[t].kind = w.kind
        /\ worker'[t].pc = "open" /\ worker'[t].file = vault_file /\ worker'[t].path = vault_path
        /\ worker'[t].vault = Snapshot(w.kind) /\ worker'[t].key = key /\ worker'[t].ok = w.ok
        /\ worker'[t].pass = IF w.kind = "passwd" THEN w.pass ELSE password
    BY <1>1, <1>2, <1>7 DEF SetJob, Job
  <2>3. worker'[t].pass # NoPassword
    BY <1>1, <1>2, <1>3, <2>2, OpenSessionFacts DEF JobOK
  <2>4. Changing(worker[t])'
    BY <1>1, <1>2, <1>3, <1>4, <2>1, <2>2, <2>3, OpenSessionFacts DEF Changing, Done, AtRest, Behind, Lagging, HasVault, Current
  <2> QED
    BY <1>1, <1>2, <1>5, <1>7, <2>2, <2>4, GoesOn DEF Course, WaitInv
<1> QED
  BY <1>4, <1>6, <1>7

\* What is truncated is the file of the vault, through the handle or by its path,
\* unless that fails.
LEMMA OpensForWrite ==
  ASSUME WaitInv, NEW t \in Thread, OpenForWrite(t)
  PROVE  LET w == worker[t] IN
         /\ w.path = vault_path /\ w.path \in Path
         /\ \/ disk' = [disk EXCEPT ![w.path] = Damaged] /\ Step(t, "write") /\ queue' = queue
            \/ Faults /\ Post(t, w) /\ disk' = disk
<1> DEFINE w == worker[t]
           p == IF w.file # NoPath THEN w.file ELSE w.path
<1>1. t \in Slot /\ w # NoJob /\ w.kind \in {"create", "passwd", "mirror", "unmirror"} /\ w.pc = "open"
  BY DEF OpenForWrite, Live, Slot, NoJob
<1>2. /\ Making(w) \/ Changing(w)
      /\ w \in Job /\ JobOK(w) /\ \A q \in Path : Held(q) <=> vault_file = q \/ w.file = q
  BY <1>1, Active, CourseKind
<1>3. p = w.path /\ p = vault_path /\ p \in Path
  <2>1. CASE w.kind = "create"
    BY <1>1, <1>2, <2>1 DEF Making, Changing, JobOK, Job, Done
  <2>2. CASE w.kind # "create"
    BY <1>1, <1>2, <2>2, OpenSessionFacts DEF Making, Changing
  <2> QED
    BY <2>1, <2>2
<1>4. ~(w.file = NoPath /\ Held(p))
  <2>1. w.kind = "create" => vault_file = NoPath
    BY <1>1, <1>2 DEF Making, Changing, WaitInv, Session
  <2>2. w.kind # "create" => vault_file = NoPath
    BY <1>1, <1>2 DEF Making, Changing
  <2> QED
    BY <1>2, <1>3, <2>1, <2>2, SessionAssumption
<1> QED
  BY <1>3, <1>4 DEF OpenForWrite

\* The write of a copy fails, and the session's file is as it was or truncated.
LEMMA PostWaits ==
  ASSUME WaitInv, IInv', Faults, NEW t \in Thread, Post(t, worker[t]), worker[t].pc \in {"open", "write"},
         worker[t].kind \in {"create", "passwd", "mirror", "unmirror"},
         UNCHANGED <<appVars, screen, disk, used, started, settings>>
  PROVE  WaitInv'
<1> DEFINE w == worker[t]
<1>1. t \in Slot /\ w # NoJob
  BY DEF Slot, NoJob
<1>2. /\ Making(w) \/ Changing(w)
      /\ w \in Job /\ JobOK(w) /\ worker \in [Slot -> Job] /\ Only(t) /\ ~settings /\ queue = <<>>
  BY <1>1, Active, CourseKind
<1>3. Images' /\ Session'
  BY <1>1, SameSession DEF appVars, Holds, WaitInv, IInv, TypeOK
<1>4. /\ worker' = [worker EXCEPT ![t] = worker'[t]] /\ worker'[t].kind = w.kind
      /\ worker'[t].pc = "posted" /\ worker'[t].file = w.file /\ worker'[t].ok = w.ok
      /\ worker'[t].path = w.path /\ worker'[t].vault = w.vault /\ worker'[t].key = w.key
      /\ queue' = Append(queue, t)
  BY <1>1, <1>2 DEF Post, SetJob, Job
<1>5. ~w.ok
  BY <1>1, <1>2 DEF Making, Changing
<1>6. CASE Making(w)
  <2>1. Making(worker[t])'
    BY <1>1, <1>2, <1>4, <1>5, <1>6 DEF Making, Done, Holds, appVars
  <2> QED
    BY <1>1, <1>2, <1>3, <1>4, <2>1, GoesOn, PostedAlone DEF Course, WaitInv
<1>7. CASE Changing(w)
  <2>1. AtRest /\ vault # NoVault /\ vault_file = NoPath /\ w.file \in {vault_path, NoPath}
    BY <1>7 DEF Changing, AtRest, Behind, Lagging, HasVault
  <2>2. AtRest'
    BY <2>1 DEF AtRest, Behind, Lagging, HasVault, Current, appVars
  <2>3. Changing(worker[t])'
    BY <1>1, <1>4, <1>5, <1>7, <2>1, <2>2 DEF Changing, Done, appVars
  <2> QED
    BY <1>1, <1>2, <1>3, <1>4, <2>3, GoesOn, PostedAlone DEF Course, WaitInv
<1> QED
  BY <1>2, <1>6, <1>7

\* The file is truncated.
LEMMA TruncateWaits ==
  ASSUME WaitInv, IInv', NEW t \in Thread, OpenForWrite(t), Step(t, "write"), queue' = queue,
         disk' = [disk EXCEPT ![worker[t].path] = Damaged]
  PROVE  WaitInv'
<1> DEFINE w == worker[t]
<1>1. /\ t \in Slot /\ w # NoJob /\ w.kind \in {"create", "passwd", "mirror", "unmirror"} /\ w.pc = "open"
      /\ UNCHANGED <<appVars, screen, used, started, settings>>
  BY DEF OpenForWrite, Live, Slot, NoJob
<1>2. /\ Making(w) \/ Changing(w)
      /\ w \in Job /\ JobOK(w) /\ worker \in [Slot -> Job] /\ Only(t) /\ ~settings /\ queue = <<>>
      /\ disk \in [Path -> Image \cup {Absent, Damaged}] /\ started \in Nat
  BY <1>1, Active, CourseKind DEF WaitInv, IInv, TypeOK
<1>3. /\ w.path = vault_path /\ w.path \in Path
      /\ disk' = [disk EXCEPT ![w.path] = Damaged] /\ Step(t, "write") /\ queue' = queue
  BY OpensForWrite
<1>4. Images' /\ Session'
  BY <1>1, <1>2, <1>3, SameSession DEF appVars, Holds
<1>5. /\ worker' = [worker EXCEPT ![t] = worker'[t]] /\ worker'[t].kind = w.kind
      /\ worker'[t].pc = "write" /\ worker'[t].file = w.file /\ worker'[t].pass = w.pass
      /\ worker'[t].path = w.path /\ worker'[t].vault = w.vault /\ worker'[t].key = w.key
      /\ worker'[t].ok = w.ok
  BY <1>1, <1>2, <1>3 DEF Step, Job
<1>6. Course(worker[t])'
  <2>1. CASE Making(w)
    <3>1. Making(worker[t])'
      BY <1>1, <1>2, <1>3, <1>5, <2>1 DEF Making, Done, Holds, appVars
    <3> QED
      BY <3>1 DEF Course
  <2>2. CASE Changing(w)
    <3>1. Changing(worker[t])'
      BY <1>1, <1>2, <1>3, <1>5, <2>2 DEF Changing, Done, appVars
    <3> QED
      BY <3>1 DEF Course
  <2> QED
    BY <1>2, <2>1, <2>2
<1> QED
  BY <1>1, <1>2, <1>3, <1>4, <1>5, <1>6, GoesOn DEF WaitInv

\* Either way the user waits for the end of the change.
LEMMA OpenForWriteWaits == ASSUME WaitInv, IInv', NEW t \in Thread, OpenForWrite(t) PROVE WaitInv'
<1>1. CASE Step(t, "write") /\ queue' = queue /\ disk' = [disk EXCEPT ![worker[t].path] = Damaged]
  BY <1>1, TruncateWaits
<1>2. CASE Faults /\ Post(t, worker[t]) /\ disk' = disk
  BY <1>2, PostWaits DEF OpenForWrite, Live
<1> QED
  BY <1>1, <1>2, OpensForWrite

\* A file gets the image of the vault whose key no other file has.
LEMMA ImageWritten ==
  ASSUME WaitInv, UNCHANGED <<used, started>>, NEW p \in Path, NEW i \in Image, disk' = [disk EXCEPT ![p] = i],
         i.key = i.vault.id, i.key \in used, i.vault.seq <= 2 * started, i.vault.mirrors <= started,
         \A q \in Path : Holds(q) /\ disk[q].key = i.key => q = p
  PROVE  /\ Images'
         /\ \A q \in Path : Holds(q)' => Holds(q) \/ q = p
         /\ \A q \in Path \ {p} : disk'[q] = disk[q]
<1>1. disk'[p] = i /\ \A q \in Path \ {p} : disk'[q] = disk[q]
  BY DEF WaitInv, IInv, TypeOK
<1> QED
  BY <1>1, SessionAssumption DEF WaitInv, Images, Holds

\* The session stays as it is while its own file, or that of a new key, is written.
LEMMA SessionWritten ==
  ASSUME WaitInv, UNCHANGED <<vault, key, password, vault_path, vault_file, screen, used, started>>,
         NEW p \in Path, \A q \in Path \ {p} : disk'[q] = disk[q], vault # NoVault => p = vault_path
  PROVE  Session'
BY DEF WaitInv, Session, Holds

\* The image goes to a file that nobody else writes.
LEMMA WritesOut ==
  ASSUME WaitInv, NEW t \in Thread, WriteOut(t)
  PROVE  LET w == worker[t] IN
         /\ Making(w) \/ Changing(w)
         /\ w.path \in Path /\ w.path # NoPath /\ (vault # NoVault => w.path = vault_path)
         /\ disk[w.path] = Damaged /\ disk' = [disk EXCEPT ![w.path] = Result(w)]
<1> DEFINE w == worker[t]
           p == IF w.file # NoPath THEN w.file ELSE w.path
<1>1. t \in Slot /\ w # NoJob /\ w.pc = "write"
  BY DEF WriteOut, Slot, NoJob
<1>2. /\ Making(w) \/ Changing(w)
      /\ w \in Job /\ JobOK(w) /\ \A q \in Path, u \in Slot \ {t} : ~WritesShared(u, q)
  BY <1>1, Active, CourseKind DEF JobOK
<1>3. p = w.path /\ p \in Path /\ p # NoPath /\ disk[p] = Damaged /\ (vault # NoVault => p = vault_path)
  <2>1. CASE Making(w)
    BY <1>1, <1>2, <2>1, SessionAssumption DEF Making, JobOK, Job, Done, WaitInv, IInv, PathKnown
  <2>2. CASE Changing(w)
    BY <1>1, <1>2, <2>2, OpenSessionFacts DEF Changing
  <2> QED
    BY <1>2, <2>1, <2>2
<1> QED
  BY <1>2, <1>3 DEF WriteOut, Written, Result

\* The thread goes on to secure a managed vault, or posts its closure.
LEMMA WriterMoves ==
  ASSUME WaitInv, NEW t \in Thread, WriteOut(t)
  PROVE  LET w == worker[t] IN
         /\ worker' = [worker EXCEPT ![t] = worker'[t]] /\ worker'[t].kind = w.kind /\ worker'[t].pass = w.pass
         /\ worker'[t].path = w.path /\ worker'[t].vault = w.vault /\ worker'[t].key = w.key
         /\ IF w.kind = "managed"
            THEN worker'[t].pc = "secure" /\ worker'[t].file = NoPath /\ worker'[t].ok = w.ok /\ queue' = queue
            ELSE /\ worker'[t].pc = "posted" /\ worker'[t].file = w.file /\ worker'[t].ok
                 /\ queue' = Append(queue, t)
<1> DEFINE w == worker[t]
           secure == [w EXCEPT !.file = NoPath, !.pc = "secure"]
           done == [[w EXCEPT !.ok = TRUE] EXCEPT !.pc = "posted"]
<1>1. t \in Slot /\ w \in Job /\ worker \in [Slot -> Job]
  BY DEF Slot, WaitInv, IInv, TypeOK
<1>2. IF w.kind = "managed" THEN worker' = [worker EXCEPT ![t] = secure] /\ queue' = queue
                            ELSE worker' = [worker EXCEPT ![t] = done] /\ queue' = Append(queue, t)
  BY DEF WriteOut, Post, SetJob
<1>3. /\ secure.kind = w.kind /\ secure.pc = "secure" /\ secure.file = NoPath /\ secure.pass = w.pass
      /\ secure.path = w.path /\ secure.vault = w.vault /\ secure.key = w.key /\ secure.ok = w.ok
  BY <1>1 DEF Job
<1>4. /\ done.kind = w.kind /\ done.pc = "posted" /\ done.file = w.file /\ done.pass = w.pass
      /\ done.path = w.path /\ done.vault = w.vault /\ done.key = w.key /\ done.ok
  BY <1>1 DEF Job
<1> HIDE DEF secure, done
<1>5. worker'[t] = IF w.kind = "managed" THEN secure ELSE done
  BY <1>1, <1>2
<1> QED
  BY <1>2, <1>3, <1>4, <1>5

\* The image is written.
LEMMA WriteOutWaits == ASSUME WaitInv, IInv', NEW t \in Thread, WriteOut(t) PROVE WaitInv'
<1> DEFINE w == worker[t]
           p == w.path
<1>1. /\ t \in Slot /\ w # NoJob /\ w.pc = "write"
      /\ UNCHANGED <<appVars, screen, used, started, settings>>
  BY DEF WriteOut, Slot, NoJob
<1>2. /\ Making(w) \/ Changing(w)
      /\ w \in Job /\ JobOK(w) /\ worker \in [Slot -> Job] /\ Only(t) /\ ~settings /\ queue = <<>>
      /\ disk \in [Path -> Image \cup {Absent, Damaged}] /\ started \in Nat
  BY <1>1, Active, CourseKind DEF WaitInv, IInv, TypeOK, JobOK
<1>3. p \in Path /\ p # NoPath /\ disk[p] = Damaged /\ (vault # NoVault => p = vault_path)
  BY WritesOut
<1>4. /\ Result(w) \in Image /\ Result(w).key = Result(w).vault.id /\ Result(w).key \in used
      /\ Result(w).vault.seq <= 2 * started /\ Result(w).vault.mirrors <= started
      /\ \A q \in Path : Holds(q) /\ disk[q].key = Result(w).key => q = p
  <2>1. w.pass \in Password
    BY <1>1, <1>2 DEF Making, Changing, JobOK, Job
  <2>2. CASE Making(w)
    <3>1. w.key \in Id /\ w.vault \in VaultValue /\ w.vault.id = w.key /\ w.vault.seq = 0 /\ w.vault.mirrors = 0
      BY <1>2, <2>2 DEF Making, JobOK, Job
    <3> QED
      BY <1>1, <1>2, <1>3, <2>1, <2>2, <3>1 DEF Making, Result, Sealed, Image
  <2>3. CASE Changing(w)
    <3>1. w.key = key /\ key \in Id /\ w.vault \in VaultValue /\ w.vault.id = w.key
      BY <1>1, <2>3, OpenSessionFacts DEF Changing
    <3>2. \A q \in Path : Holds(q) /\ disk[q].key = key => q = vault_path
      BY <2>3 DEF Changing, WaitInv, Session
    <3> QED
      BY <1>1, <1>3, <2>1, <2>3, <3>1, <3>2, OpenSessionFacts DEF Changing, Result, Sealed, Image
  <2> QED
    BY <1>2, <2>2, <2>3
<1>5. disk' = [disk EXCEPT ![p] = Result(w)]
  BY WritesOut
<1>6. Images' /\ (\A q \in Path : Holds(q)' => Holds(q) \/ q = p) /\ \A q \in Path \ {p} : disk'[q] = disk[q]
  BY <1>1, <1>3, <1>4, <1>5, ImageWritten
<1>7. Session'
  BY <1>1, <1>3, <1>6, SessionWritten DEF appVars
<1>8. disk'[p] = Result(w)
  BY <1>2, <1>3, <1>5
<1>9. CASE w.kind = "managed"
  <2>1. Making(w)
    BY <1>2, <1>9 DEF Changing
  <2>2. /\ worker' = [worker EXCEPT ![t] = worker'[t]] /\ worker'[t].kind = "managed"
        /\ worker'[t].pc = "secure" /\ worker'[t].file = NoPath /\ worker'[t].pass = w.pass
        /\ worker'[t].path = w.path /\ worker'[t].vault = w.vault /\ worker'[t].key = w.key
        /\ worker'[t].ok = w.ok /\ queue' = queue
    BY <1>9, WriterMoves
  <2>3. Making(worker[t])'
    BY <1>1, <1>3, <1>6, <1>8, <2>1, <2>2 DEF Making, Done, Result, appVars, Holds
  <2> QED
    BY <1>1, <1>2, <1>6, <1>7, <2>2, <2>3, GoesOn DEF Course, WaitInv
<1>10. CASE w.kind # "managed"
  <2>1. /\ worker' = [worker EXCEPT ![t] = worker'[t]] /\ worker'[t].kind = w.kind
        /\ worker'[t].pc = "posted" /\ worker'[t].file = w.file /\ worker'[t].pass = w.pass
        /\ worker'[t].path = w.path /\ worker'[t].vault = w.vault /\ worker'[t].key = w.key
        /\ worker'[t].ok /\ queue' = Append(queue, t)
    BY <1>10, WriterMoves
  <2>2. CASE Making(w)
    <3>1. Making(worker[t])'
      BY <1>1, <1>3, <1>6, <1>8, <1>10, <2>1, <2>2 DEF Making, Done, Result, appVars, Holds
    <3> QED
      BY <1>1, <1>2, <1>6, <1>7, <2>1, <3>1, GoesOn, PostedAlone DEF Course, WaitInv
  <2>3. CASE Changing(w)
    <3>1. Changing(worker[t])'
      BY <1>1, <1>3, <1>8, <2>1, <2>3, OpenSessionFacts DEF Changing, Done, Result, appVars
    <3> QED
      BY <1>1, <1>2, <1>6, <1>7, <2>1, <3>1, GoesOn, PostedAlone DEF Course, WaitInv
  <2> QED
    BY <1>2, <2>2, <2>3
<1> QED
  BY <1>9, <1>10

\* A write that fails takes the file of a managed vault away, and leaves that of
\* the session damaged.
LEMMA WriteFailWaits == ASSUME WaitInv, IInv', NEW t \in Thread, WriteFail(t) PROVE WaitInv'
<1> DEFINE w == worker[t]
<1>1. /\ t \in Slot /\ w # NoJob /\ w.pc = "write"
      /\ UNCHANGED <<appVars, screen, used, started, settings>>
  BY DEF WriteFail, Slot, NoJob
<1>2. /\ Making(w) \/ Changing(w)
      /\ w \in Job /\ JobOK(w) /\ worker \in [Slot -> Job] /\ Only(t) /\ ~settings /\ queue = <<>>
      /\ disk \in [Path -> Image \cup {Absent, Damaged}] /\ started \in Nat
  BY <1>1, Active, CourseKind DEF WaitInv, IInv, TypeOK, JobOK
<1>3. Faults
  BY <1>1, <1>2 DEF WriteFail, Making, Changing, JobOK
<1>4. CASE w.kind = "managed"
  <2>1. disk' = [disk EXCEPT ![w.path] = Absent] /\ Fail(t) /\ Making(w)
    BY <1>2, <1>4 DEF WriteFail, Changing
  <2>2. \A q \in Path : Holds(q)' => Holds(q) /\ disk'[q] = disk[q]
    BY <1>2, <2>1 DEF Holds
  <2>3. Images' /\ Session'
    BY <1>1, <1>2, <2>2, SameSession DEF appVars
  <2>4. /\ worker' = [worker EXCEPT ![t] = worker'[t]] /\ worker'[t].kind = "managed"
        /\ worker'[t].pc = "posted" /\ worker'[t].file = NoPath /\ ~worker'[t].ok
        /\ worker'[t].path = w.path /\ worker'[t].vault = w.vault /\ worker'[t].key = w.key
        /\ queue' = Append(queue, t)
    BY <1>1, <1>2, <1>4, <2>1 DEF Fail, Post, SetJob, Job
  <2>5. Making(worker[t])'
    BY <1>1, <1>2, <2>1, <2>2, <2>4 DEF Making, Done, Holds, appVars
  <2> QED
    BY <1>1, <1>2, <2>3, <2>4, <2>5, GoesOn, PostedAlone DEF Course, WaitInv
<1>5. CASE w.kind # "managed"
  <2>1. disk' = disk /\ Post(t, w) /\ w.kind \in {"create", "passwd", "mirror", "unmirror"}
    BY <1>2, <1>5 DEF WriteFail, Making, Changing
  <2> QED
    BY <1>1, <1>3, <2>1, PostWaits
<1> QED
  BY <1>4, <1>5

-----------------------------------------------------------------------------
(* A sync, an edit, the settings *)

\* A sync takes the handle.
LEMMA SyncTakeWaits == ASSUME WaitInv, IInv', NEW t \in Thread, SyncTake(t) PROVE WaitInv'
<1> DEFINE w == worker[t]
<1>1. /\ t \in Slot /\ w # NoJob /\ w.kind = "sync" /\ w.pc = "begin"
      /\ UNCHANGED <<vault, key, password, vault_path, screen, disk, queue, used, started, settings>>
  BY DEF SyncTake, Live, Slot, NoJob
<1>2. Syncing(w) /\ w \in Job /\ worker \in [Slot -> Job] /\ Only(t) /\ ~settings /\ queue = <<>>
  BY <1>1, Active, CourseKind
<1>3. vault # NoVault /\ AtRest
  BY <1>2 DEF Syncing
<1>4. vault_file' = NoPath /\ SetJob(t, [w EXCEPT !.file = vault_file, !.path = vault_path, !.pc = "copy"])
  BY <1>3 DEF SyncTake
<1>5. Images' /\ Session'
  BY <1>1, <1>3, <1>4, SameSession, OpenSessionFacts DEF Holds
<1>6. /\ worker' = [worker EXCEPT ![t] = worker'[t]] /\ worker'[t].kind = "sync"
      /\ worker'[t].pc = "copy" /\ worker'[t].file = vault_file
  BY <1>1, <1>2, <1>4 DEF SetJob, Job
<1>7. Syncing(worker[t])'
  BY <1>1, <1>3, <1>4, <1>6, OpenSessionFacts DEF Syncing, AtRest, Behind, Lagging, HasVault, Current
<1> QED
  BY <1>1, <1>2, <1>5, <1>6, <1>7, GoesOn DEF Course, WaitInv

\* A sync has read the file.
LEMMA SyncCopyWaits == ASSUME WaitInv, IInv', NEW t \in Thread, SyncCopy(t) PROVE WaitInv'
<1> DEFINE w == worker[t]
<1>1. /\ t \in Slot /\ w # NoJob /\ w.kind = "sync" /\ w.pc = "copy"
      /\ UNCHANGED <<appVars, screen, disk, used, started, settings>>
  BY DEF SyncCopy, Live, Slot, NoJob
<1>2. Syncing(w) /\ w \in Job /\ worker \in [Slot -> Job] /\ Only(t) /\ ~settings /\ queue = <<>>
  BY <1>1, Active, CourseKind
<1>3. Images' /\ Session'
  BY <1>1, SameSession DEF appVars, Holds, WaitInv, IInv, TypeOK
<1>4. /\ worker' = [worker EXCEPT ![t] = worker'[t]] /\ worker'[t].kind = "sync"
      /\ worker'[t].pc = "posted" /\ worker'[t].file = w.file /\ queue' = Append(queue, t)
  BY <1>1, <1>2 DEF SyncCopy, Post, SetJob, Job
<1>5. Syncing(worker[t])'
  BY <1>1, <1>2, <1>4 DEF Syncing, AtRest, Behind, Lagging, HasVault, Current, appVars
<1> QED
  BY <1>1, <1>2, <1>3, <1>4, <1>5, GoesOn, PostedAlone DEF Course, WaitInv

\* The vault is counted up in memory; no file changes.
LEMMA SessionBumped ==
  ASSUME WaitInv, vault # NoVault, vault.seq < 2 * started, vault' = Bumped,
         UNCHANGED <<key, password, vault_path, screen, disk, used, started>>,
         vault_file' \in {vault_file, NoPath}
  PROVE  /\ Images' /\ Session'
         /\ vault' \in VaultValue /\ vault' # NoVault /\ vault'.id = vault.id
<1>1. /\ vault' \in VaultValue /\ vault'.id = vault.id /\ vault'.seq = vault.seq + 1
      /\ vault'.mirrors = vault.mirrors /\ vault' # NoVault
  BY OpenSessionFacts, SessionAssumption DEF Bumped, VaultValue
<1>2. Images'
  BY DEF WaitInv, Images, Holds
<1>3. Session'
  BY <1>1, OpenSessionFacts DEF WaitInv, Session, Holds
<1> QED
  BY <1>1, <1>2, <1>3

\* The file lags behind the vault that is counted up.
LEMMA BumpedBehind ==
  ASSUME vault \in VaultValue, vault' = Bumped, AtRest, UNCHANGED <<key, password, vault_path, disk>>
  PROVE  Behind'
<1>1. vault.seq \in Nat /\ vault = [vault EXCEPT !.seq = vault.seq] /\ vault'.seq = vault.seq + 1
      /\ \A n \in Nat : [vault' EXCEPT !.seq = n] = [vault EXCEPT !.seq = n]
  BY DEF Bumped, VaultValue
<1>2. CASE disk[vault_path] = Damaged
  BY <1>2 DEF Behind
<1>3. ASSUME NEW n \in 0..vault.seq, HasVault(n) PROVE Behind'
  <2>1. n \in 0..vault'.seq /\ n \in Nat
    BY <1>1
  <2>2. HasVault(n)'
    BY <1>1, <1>3, <2>1 DEF HasVault
  <2> QED
    BY <2>1, <2>2 DEF Behind
<1>4. CASE disk[vault_path] = Current
  <2>1. vault.seq \in 0..vault.seq /\ HasVault(vault.seq)
    BY <1>1, <1>4 DEF Current, HasVault
  <2> QED
    BY <1>3, <2>1
<1>5. CASE Lagging
  <2>1. vault.seq - 1 \in 0..vault.seq /\ HasVault(vault.seq - 1)
    BY <1>1, <1>5 DEF Lagging
  <2> QED
    BY <1>3, <2>1
<1> QED
  BY <1>2, <1>3, <1>4, <1>5 DEF AtRest, Behind

\* An edit counts the vault up in memory.
LEMMA EditMutateWaits == ASSUME WaitInv, IInv', NEW t \in Thread, EditMutate(t) PROVE WaitInv'
<1> DEFINE w == worker[t]
<1>1. /\ t \in Slot /\ w # NoJob /\ w.kind \in {"edit", "totp"} /\ w.pc = "begin"
      /\ UNCHANGED <<key, password, vault_path, vault_file, screen, disk, queue, used, started, settings>>
  BY DEF EditMutate, Live, Slot, NoJob
<1>2. Editing(w) /\ w \in Job /\ worker \in [Slot -> Job] /\ Only(t) /\ ~settings /\ queue = <<>>
  BY <1>1, Active, CourseKind
<1>3. vault # NoVault /\ vault.seq + 1 < 2 * started
  BY <1>1, <1>2 DEF Editing
<1>4. vault' = Bumped /\ SetJob(t, [w EXCEPT !.key = key, !.pass = password, !.pc = "save"])
  BY <1>3, OpenSessionFacts DEF EditMutate
<1>5. Images' /\ Session' /\ vault' # NoVault /\ vault'.seq = vault.seq + 1
  BY <1>1, <1>3, <1>4, SessionBumped, OpenSessionFacts DEF Bumped, VaultValue
<1>6. /\ worker' = [worker EXCEPT ![t] = worker'[t]] /\ worker'[t].kind = w.kind
      /\ worker'[t].pc = "save" /\ worker'[t].file = w.file
      /\ worker'[t].key = key /\ worker'[t].pass = password
  BY <1>1, <1>2, <1>4 DEF SetJob, Job
<1>7. Behind'
  BY <1>1, <1>2, <1>3, <1>4, BumpedBehind, OpenSessionFacts DEF Editing
<1>8. Editing(worker[t])'
  BY <1>1, <1>2, <1>3, <1>5, <1>6, <1>7, OpenSessionFacts DEF Editing, Done
<1> QED
  BY <1>1, <1>2, <1>5, <1>6, <1>8, GoesOn DEF Course, WaitInv

\* A save puts the vault in memory into the session's file, through either handle,
\* or fails and leaves it damaged or as it was.
LEMMA SaveRests ==
  ASSUME WaitInv, vault # NoVault, NEW t \in Slot, worker[t] # NoJob, worker[t].pc = "save",
         NEW ok \in BOOLEAN,
         \/ SaveTo(vault_path, key, password, ok)
         \/ ~Held(vault_path) /\ SaveByPath(vault_path, key, password, ok), Behind,
         UNCHANGED <<vault, key, password, vault_path, vault_file, screen, used, started>>
  PROVE  /\ Images' /\ Session' /\ AtRest' /\ (ok => disk'[vault_path] = Current)
         /\ \/ disk' = [disk EXCEPT ![vault_path] = Current]
            \/ Faults /\ \E c \in {disk[vault_path], Damaged} : disk' = [disk EXCEPT ![vault_path] = c]
<1>1. SaveTo(vault_path, key, password, ok)
  BY DEF SaveByPath
<1>2. ~Shared(vault_path)
  BY Active, OpenSessionFacts DEF WritesShared
<1>3. \/ disk' = [disk EXCEPT ![vault_path] = Current]
      \/ ~ok /\ Faults /\ \E c \in {disk[vault_path], Damaged} : disk' = [disk EXCEPT ![vault_path] = c]
  <2>1. CASE ok
    BY <1>1, <1>2, <2>1 DEF SaveTo, Written, Current
  <2>2. CASE ~ok
    BY <1>1, <2>2, OpenSessionFacts DEF SaveTo, Spoiled
  <2> QED
    BY <2>1, <2>2
<1>4. CASE disk' = [disk EXCEPT ![vault_path] = Current]
  <2>1. Current.key = key /\ Current.vault = vault
    BY DEF Current, Sealed
  <2>2. \A q \in Path : Holds(q) /\ disk[q].key = Current.key => q = vault_path
    BY <2>1 DEF WaitInv, Session
  <2>3. Images' /\ \A q \in Path \ {vault_path} : disk'[q] = disk[q]
    BY <1>4, <2>1, <2>2, ImageWritten, OpenSessionFacts
  <2>4. Session'
    BY <2>3, SessionWritten, OpenSessionFacts
  <2>5. AtRest' /\ disk'[vault_path] = Current
    BY <1>4, OpenSessionFacts DEF AtRest, Behind, Lagging, HasVault, Current, WaitInv, IInv, TypeOK
  <2> QED
    BY <1>3, <2>3, <2>4, <2>5
<1>5. CASE ~ok /\ Faults /\ \E c \in {disk[vault_path], Damaged} : disk' = [disk EXCEPT ![vault_path] = c]
  <2>1. PICK c \in {disk[vault_path], Damaged} : disk' = [disk EXCEPT ![vault_path] = c]
    BY <1>5
  <2>2. \A q \in Path : disk'[q] = IF q = vault_path THEN c ELSE disk[q]
    BY <2>1, OpenSessionFacts DEF WaitInv, IInv, TypeOK
  <2>3. Images' /\ Session'
    BY <2>1, <2>2, SameSession, OpenSessionFacts DEF Holds
  <2>4. AtRest'
    BY <1>5, <2>1, <2>2, OpenSessionFacts DEF AtRest, Behind, Lagging, HasVault
  <2> QED
    BY <1>3, <1>5, <2>3, <2>4
<1> QED
  BY <1>3, <1>4, <1>5

\* An edit is saved.
LEMMA EditSaveWaits == ASSUME WaitInv, IInv', NEW t \in Thread, EditSave(t) PROVE WaitInv'
<1> DEFINE w == worker[t]
<1>1. /\ t \in Slot /\ w # NoJob /\ w.kind \in {"edit", "totp"} /\ w.pc = "save"
      /\ UNCHANGED <<appVars, screen, used, started, settings>>
  BY DEF EditSave, Live, Slot, NoJob
<1>2. Editing(w) /\ w \in Job /\ worker \in [Slot -> Job] /\ Only(t) /\ ~settings /\ queue = <<>>
      /\ \A q \in Path : Held(q) <=> vault_file = q \/ w.file = q
  BY <1>1, Active, CourseKind
<1>3. vault # NoVault /\ w.key = key /\ w.pass = password /\ w.file = NoPath /\ Behind
      /\ vault.seq < 2 * started
  BY <1>1, <1>2 DEF Editing
<1>4. PICK ok \in BOOLEAN : SaveVaultState(key, password, ok) /\ Post(t, [w EXCEPT !.ok = ok])
  BY <1>3 DEF EditSave
<1>5. \/ SaveTo(vault_path, key, password, ok)
      \/ ~Held(vault_path) /\ SaveByPath(vault_path, key, password, ok)
  BY <1>2, <1>3, <1>4, OpenSessionFacts DEF SaveVaultState
<1>6. Images' /\ Session' /\ AtRest' /\ (ok => disk'[vault_path] = Current)
  BY <1>1, <1>3, <1>5, SaveRests DEF appVars
<1>7. /\ worker' = [worker EXCEPT ![t] = worker'[t]] /\ worker'[t].kind = w.kind
      /\ worker'[t].pc = "posted" /\ worker'[t].file = NoPath /\ worker'[t].ok = ok
      /\ queue' = Append(queue, t)
  BY <1>1, <1>2, <1>3, <1>4 DEF Post, SetJob, Job
<1>8. Editing(worker[t])'
  BY <1>1, <1>3, <1>6, <1>7 DEF Editing, Done, Current, appVars
<1> QED
  BY <1>1, <1>2, <1>6, <1>7, <1>8, GoesOn, PostedAlone DEF Course, WaitInv

\* A favicon that arrives counts the vault up, and is in the file or not.
LEMMA IconFetchMoves ==
  ASSUME WaitInv, NEW t \in Thread, IconFetch(t)
  PROVE  /\ t \in Slot /\ worker[t] # NoJob /\ Only(t) /\ ~settings /\ queue = <<>>
         /\ Fetching(worker[t]) /\ Finish(t)
         /\ UNCHANGED <<key, password, vault_path, vault_file, screen, prefs, queue, settings, used, started>>
         /\ \/ UNCHANGED <<vault, disk>>
            \/ /\ vault' = Bumped
               /\ \E c \in {Sealed(Bumped, key, password), disk[vault_path]} \cup (IF Faults THEN {Damaged} ELSE {}) :
                    disk' = [disk EXCEPT ![vault_path] = c]
<1>1. /\ t \in Slot /\ worker[t] # NoJob /\ worker[t].kind = "icon" /\ worker[t].pc = "begin" /\ Finish(t)
      /\ UNCHANGED <<key, password, vault_path, vault_file, screen, prefs, queue, settings, used, started>>
  BY DEF IconFetch, Live, Slot, NoJob
<1>2. Only(t) /\ ~settings /\ queue = <<>> /\ Fetching(worker[t])
  BY <1>1, Active, CourseKind
<1>3. ~Shared(vault_path)
  BY <1>1, <1>2, Active, OpenSessionFacts DEF WritesShared, Fetching
<1>4. UNCHANGED disk => disk' = [disk EXCEPT ![vault_path] = disk[vault_path]]
  BY DEF WaitInv, IInv, TypeOK
<1>5. \/ UNCHANGED <<vault, disk>>
      \/ vault' = Bumped /\ UNCHANGED disk
      \/ vault' = Bumped /\ Written(vault_path, Sealed(Bumped, key, password), Shared(vault_path))
      \/ vault' = Bumped /\ Faults /\ Spoiled(vault_path)
  BY DEF IconFetch
<1>6. ASSUME Written(vault_path, Sealed(Bumped, key, password), Shared(vault_path))
      PROVE  disk' = [disk EXCEPT ![vault_path] = Sealed(Bumped, key, password)]
  BY <1>3, <1>6 DEF Written
<1>7. ASSUME Spoiled(vault_path)
      PROVE  \E c \in {disk[vault_path], Damaged} : disk' = [disk EXCEPT ![vault_path] = c]
  BY <1>7 DEF Spoiled
<1> QED
  BY <1>1, <1>2, <1>4, <1>5, <1>6, <1>7

\* A favicon is fetched.
LEMMA IconFetchWaits == ASSUME WaitInv, IInv', NEW t \in Thread, IconFetch(t) PROVE WaitInv'
<1>1. /\ t \in Slot /\ Only(t) /\ ~settings /\ queue = <<>> /\ Fetching(worker[t]) /\ Finish(t)
      /\ UNCHANGED <<key, password, vault_path, vault_file, screen, queue, settings, used, started>>
  BY IconFetchMoves
<1>2. vault # NoVault /\ vault.seq < 2 * started /\ disk[vault_path] = Current /\ "icon" \in Ops
  BY <1>1 DEF Fetching
<1>3. CASE UNCHANGED <<vault, disk>>
  <2>1. Images' /\ Session'
    BY <1>1, <1>3, SameSession DEF Holds, WaitInv, IInv, TypeOK
  <2>2. AtRest'
    BY <1>1, <1>2, <1>3 DEF AtRest, Current
  <2> QED
    BY <1>1, <2>1, <2>2, Finished DEF WaitInv
<1>4. ASSUME NEW c \in {Sealed(Bumped, key, password), disk[vault_path]} \cup (IF Faults THEN {Damaged} ELSE {}),
             vault' = Bumped, disk' = [disk EXCEPT ![vault_path] = c]
      PROVE  WaitInv'
  <2>1. /\ vault' \in VaultValue /\ vault'.id = vault.id /\ vault'.seq = vault.seq + 1
        /\ vault'.mirrors = vault.mirrors /\ vault' # NoVault
    BY <1>2, <1>4, OpenSessionFacts, SessionAssumption DEF Bumped, VaultValue
  <2>2. \A q \in Path : disk'[q] = IF q = vault_path THEN c ELSE disk[q]
    BY <1>4 DEF WaitInv, IInv, TypeOK
  <2>3. Images'
    <3>1. CASE c = Sealed(Bumped, key, password)
      <4>1. c = Sealed(vault', key, password)
        BY <1>4, <3>1
      <4>2. c \in Image /\ c.key = key /\ c.vault = vault'
        BY <1>2, <2>1, <4>1, OpenSessionFacts DEF Sealed, Image
      <4>3. \A q \in Path : Holds(q) /\ disk[q].key = c.key => q = vault_path
        BY <1>2, <4>2 DEF WaitInv, Session
      <4>4. c.key = c.vault.id /\ c.key \in used /\ c.vault.seq <= 2 * started /\ c.vault.mirrors <= started
        BY <1>2, <2>1, <4>2, OpenSessionFacts
      <4>5. vault_path \in Path /\ UNCHANGED <<used, started>>
        BY <1>1, <1>2, OpenSessionFacts
      <4> QED
        BY <1>4, <4>2, <4>3, <4>4, <4>5, ImageWritten
    <3>2. CASE c = disk[vault_path] \/ c = Damaged
      BY <1>1, <2>2, <3>2 DEF WaitInv, Images, Holds
    <3> QED
      BY <1>4, <3>1, <3>2
  <2>4. Session'
    <3>1. \A q \in Path : Holds(q)' /\ disk'[q].key = key => q = vault_path
      BY <1>2, <2>2 DEF WaitInv, Session, Holds
    <3> QED
      BY <1>1, <1>2, <2>1, <3>1, OpenSessionFacts DEF WaitInv, Session
  <2>5. AtRest'
    <3>1. disk'[vault_path] = c
      BY <1>2, <2>2, OpenSessionFacts
    <3>2. CASE c = Sealed(Bumped, key, password)
      BY <1>1, <1>4, <3>1, <3>2 DEF AtRest, Current
    <3>3. CASE c = disk[vault_path]
      <4>1. vault'.seq - 1 = vault.seq /\ vault'.seq > 0
        BY <1>2, <2>1, OpenSessionFacts
      <4>2. [vault' EXCEPT !.seq = vault.seq] = vault
        BY <1>2, <1>4, OpenSessionFacts DEF Bumped, VaultValue
      <4>3. disk'[vault_path'] = Sealed([vault' EXCEPT !.seq = vault'.seq - 1], key', password')
        BY <1>1, <1>2, <3>1, <3>3, <4>1, <4>2 DEF Current
      <4>4. Lagging'
        BY <1>2, <4>1, <4>3 DEF Lagging, HasVault
      <4> QED
        BY <4>4 DEF AtRest
    <3>4. CASE Faults /\ c = Damaged
      BY <1>1, <3>1, <3>4 DEF AtRest, Behind
    <3> QED
      BY <1>4, <3>2, <3>3, <3>4
  <2> QED
    BY <1>1, <2>3, <2>4, <2>5, Finished DEF WaitInv
<1> QED
  BY <1>3, <1>4, IconFetchMoves

\* The saver wakes up.
LEMMA SaverReceiveWaits == ASSUME WaitInv, IInv', SaverReceive PROVE WaitInv'
<1>1. /\ Saver \in Slot /\ settings /\ ~settings'
      /\ UNCHANGED <<appVars, screen, disk, queue, used, started>>
  BY DEF SaverReceive, Slot
<1>2. Idle
  BY <1>1 DEF WaitInv, Busy
<1>3. Images' /\ Session'
  BY <1>1, SameSession DEF appVars, Holds, WaitInv, IInv, TypeOK
<1>4. /\ worker' = [worker EXCEPT ![Saver] = worker'[Saver]] /\ worker'[Saver].kind = "generator"
      /\ worker'[Saver].pc = "begin" /\ worker'[Saver].file = NoPath
  BY <1>1 DEF SaverReceive, SetJob, NoJob, WaitInv, IInv, TypeOK
<1>5. Generating(worker[Saver])'
  BY <1>1, <1>2, <1>4 DEF Generating, Idle, AtRest, Behind, Lagging, HasVault, Current, appVars
<1>6. Only(Saver)
  BY <1>2 DEF Idle, NoneWorks, Only
<1> QED
  BY <1>1, <1>2, <1>3, <1>4, <1>5, <1>6, GoesOn DEF Idle, Course, WaitInv

\* The saver applies the settings and takes the handle.
LEMMA SaverTakeWaits == ASSUME WaitInv, IInv', SaverTake PROVE WaitInv'
<1> DEFINE w == worker[Saver]
<1>1. /\ Saver \in Slot /\ w # NoJob /\ w.kind = "generator" /\ w.pc = "begin" /\ ~settings'
      /\ UNCHANGED <<key, password, vault_path, screen, disk, queue, used, started>>
  BY DEF SaverTake, Live, Slot, NoJob
<1>2. Generating(w) /\ w \in Job /\ worker \in [Slot -> Job] /\ Only(Saver) /\ queue = <<>>
  BY <1>1, Active, CourseKind
<1>3. vault # NoVault /\ vault.seq < 2 * started
  BY <1>1, <1>2 DEF Generating
<1>4. /\ vault' = Bumped /\ vault_file' = NoPath
      /\ SetJob(Saver, [w EXCEPT !.file = vault_file, !.path = vault_path,
                          !.key = key, !.pass = password, !.pc = "save"])
  BY <1>3, OpenSessionFacts DEF SaverTake
<1>5. Images' /\ Session' /\ vault' # NoVault
  BY <1>1, <1>3, <1>4, SessionBumped
<1>6. /\ worker' = [worker EXCEPT ![Saver] = worker'[Saver]] /\ worker'[Saver].kind = "generator"
      /\ worker'[Saver].pc = "save" /\ worker'[Saver].file = vault_file /\ worker'[Saver].path = vault_path
      /\ worker'[Saver].key = key /\ worker'[Saver].pass = password
  BY <1>1, <1>2, <1>4 DEF SetJob, Job
<1>7. Behind'
  BY <1>1, <1>2, <1>3, <1>4, BumpedBehind, OpenSessionFacts DEF Generating
<1>8. Generating(worker[Saver])'
  BY <1>1, <1>3, <1>4, <1>5, <1>6, <1>7, OpenSessionFacts DEF Generating
<1> QED
  BY <1>1, <1>2, <1>5, <1>6, <1>8, GoesOn DEF Course, WaitInv

\* The saver writes the vault.
LEMMA SaverWriteWaits == ASSUME WaitInv, IInv', SaverWrite PROVE WaitInv'
<1> DEFINE w == worker[Saver]
<1>1. /\ Saver \in Slot /\ w # NoJob /\ w.kind = "generator" /\ w.pc = "save"
      /\ UNCHANGED <<appVars, screen, queue, used, started, settings>>
  BY DEF SaverWrite, Live, Slot, NoJob
<1>2. Generating(w) /\ w \in Job /\ worker \in [Slot -> Job] /\ Only(Saver) /\ ~settings /\ queue = <<>>
      /\ \A q \in Path : Held(q) <=> vault_file = q \/ w.file = q
  BY <1>1, Active, CourseKind
<1>3. /\ vault # NoVault /\ w.key = key /\ w.pass = password /\ w.path = vault_path
      /\ w.file \in {vault_path, NoPath} /\ vault_file = NoPath /\ Behind
  BY <1>1, <1>2 DEF Generating
<1>4. PICK ok \in BOOLEAN : IF w.file # NoPath THEN SaveTo(w.file, key, password, ok)
                                             ELSE SaveByPath(vault_path, key, password, ok)
  BY <1>3 DEF SaverWrite
<1>5. \/ SaveTo(vault_path, key, password, ok)
      \/ ~Held(vault_path) /\ SaveByPath(vault_path, key, password, ok)
  BY <1>2, <1>3, <1>4, OpenSessionFacts
<1>6. Images' /\ Session' /\ AtRest'
  BY <1>1, <1>3, <1>5, SaveRests DEF appVars
<1>7. /\ worker' = [worker EXCEPT ![Saver] = worker'[Saver]] /\ worker'[Saver].kind = "generator"
      /\ worker'[Saver].pc = "restore" /\ worker'[Saver].file = w.file
  BY <1>1, <1>2 DEF SaverWrite, Step, Job
<1>8. Generating(worker[Saver])'
  BY <1>1, <1>3, <1>6, <1>7 DEF Generating, appVars
<1> QED
  BY <1>1, <1>2, <1>6, <1>7, <1>8, GoesOn DEF Course, WaitInv

\* The saver puts the handle back.
LEMMA SaverRestoreWaits == ASSUME WaitInv, IInv', SaverRestore PROVE WaitInv'
<1> DEFINE w == worker[Saver]
<1>1. /\ Saver \in Slot /\ w # NoJob /\ w.kind = "generator" /\ w.pc = "restore" /\ Finish(Saver)
      /\ UNCHANGED <<vault, key, password, vault_path, screen, disk, queue, used, started, settings>>
  BY DEF SaverRestore, Live, Slot, NoJob
<1>2. Generating(w) /\ Only(Saver) /\ ~settings /\ queue = <<>>
  BY <1>1, Active, CourseKind
<1>3. vault # NoVault /\ AtRest /\ w.file \in {vault_path, NoPath} /\ vault_file' \in {vault_file, w.file}
  BY <1>1, <1>2 DEF Generating, SaverRestore
<1>4. Images' /\ Session'
  BY <1>1, <1>3, SameSession, OpenSessionFacts DEF Holds
<1>5. (vault # NoVault => AtRest)'
  BY <1>1, <1>3 DEF AtRest, Behind, Lagging, HasVault, Current
<1> QED
  BY <1>1, <1>2, <1>4, <1>5, Finished DEF WaitInv

-----------------------------------------------------------------------------
(* Closures *)

\* A closure that opens the vault it holds opens what its file holds.
LEMMA SessionOpens ==
  ASSUME WaitInv, NEW w, NEW p \in Path, w.vault \in VaultValue,
         Holds(p), disk[p] = Result(w), vault' = w.vault, key' = w.key, password' = w.pass,
         vault_path' = p, vault_file' \in {p, NoPath}, screen' = "main",
         UNCHANGED <<disk, used, started>>
  PROVE  Images' /\ Session' /\ AtRest' /\ vault' # NoVault
<1>1. /\ disk[p].key = disk[p].vault.id /\ disk[p].key \in used
      /\ disk[p].vault.seq <= 2 * started /\ disk[p].vault.mirrors <= started
      /\ \A q \in Path : Holds(q) /\ disk[q].key = disk[p].key => q = p
  BY DEF WaitInv, Images
<1>2. disk[p].vault = vault' /\ disk[p].key = key'
  BY DEF Result, Sealed
<1>3. Images'
  BY DEF WaitInv, Images, Holds
<1>4. vault' # NoVault
  BY SessionAssumption
<1>5. Session'
  BY <1>1, <1>2, <1>4 DEF Session, Holds
<1>6. AtRest'
  BY DEF AtRest, Behind, Lagging, HasVault, Current, Result
<1> QED
  BY <1>3, <1>4, <1>5, <1>6

\* A closure that leaves the session open, maybe with its handle back.
LEMMA SessionStays ==
  ASSUME WaitInv, vault # NoVault, UNCHANGED <<key, vault_path, screen, disk, used, started>>,
         vault' \in VaultValue, vault'.id = key, vault'.seq <= 2 * started, vault'.mirrors <= started,
         vault_file' \in {vault_path, NoPath}
  PROVE  Images' /\ Session' /\ vault' # NoVault
<1>1. Images'
  BY DEF WaitInv, Images, Holds
<1>2. vault' # NoVault
  BY SessionAssumption
<1>3. Session'
  BY <1>2 DEF WaitInv, Session, Holds
<1> QED
  BY <1>1, <1>2, <1>3

\* What is left to do for an edited entry.
Fetch == [NoJob EXCEPT !.kind = "icon", !.pc = "begin"]

\* The closure that runs is that of the one thread at work.
LEMMA ClosureOfOne ==
  ASSUME WaitInv, RunClosure
  PROVE  \E t \in Slot :
           LET w == worker[t] IN
           /\ w # NoJob /\ w.pc = "posted" /\ Only(t) /\ ~settings /\ Course(w) /\ w \in Job /\ JobOK(w)
           /\ queue' = <<>> /\ UNCHANGED <<disk, settings, used, started>>
           /\ Finish(t) \/ (w.kind = "edit" /\ w.ok /\ "icon" \in Ops /\ SetJob(t, Fetch))
           /\ CASE w.kind \in {"unlock", "create", "managed"} -> OpenSession(w)
                [] w.kind = "passwd"                          -> PasswdDone(w)
                [] w.kind \in {"mirror", "unmirror"}          -> MirrorDone(w)
                [] w.kind = "sync"                            -> SyncDone(w)
                [] w.kind \in {"edit", "totp"}                -> EditDone(w)
<1>1. PICK t \in Slot : Busy(t)
  BY DEF WaitInv, Idle, RunClosure
<1>2. worker[t].pc = "posted" /\ queue = <<t>>
  BY <1>1 DEF Busy, RunClosure
<1>3. Head(queue) = t /\ Tail(queue) = <<>>
  BY <1>2
<1>4. worker[t] # NoJob
  BY <1>2 DEF NoJob
<1> QED
  BY <1>1, <1>2, <1>3, <1>4, Active DEF RunClosure, Fetch

\* The closures of an unlock and of a new vault open what the file holds, or nothing.
LEMMA OpenSessionWaits ==
  ASSUME WaitInv, NEW w, Course(w), w \in Job, JobOK(w), w.pc = "posted",
         w.kind \in {"unlock", "create", "managed"}, OpenSession(w), UNCHANGED <<disk, used, started>>,
         w.kind \in {"unlock", "create"} => vault_path # NoPath
  PROVE  Images' /\ Session' /\ (vault # NoVault => AtRest)'
<1>1. CASE ~w.ok
  <2>1. Images' /\ Session'
    BY <1>1, SameSession DEF OpenSession, appVars, Holds, WaitInv, IInv, TypeOK
  <2>2. vault = NoVault
    BY CourseKind DEF Unlocking, Making
  <2> QED
    BY <1>1, <2>1, <2>2 DEF OpenSession, appVars
<1>2. CASE w.ok
  <2> DEFINE p == IF w.kind = "managed" THEN w.path ELSE vault_path
  <2>1. p \in Path /\ Holds(p) /\ disk[p] = Result(w) /\ w.vault \in VaultValue
        /\ (IF w.kind = "create" THEN vault_file ELSE w.file) \in {p, NoPath}
    <3>1. CASE w.kind = "unlock"
      <4>1. Unlocking(w) /\ w.file = vault_path
        BY <1>2, <3>1, CourseKind DEF Unlocking, Done
      <4>2. w.vault \in VaultValue
        BY <1>2, <3>1 DEF JobOK, Job
      <4>3. vault_path \in Path
        BY <3>1 DEF WaitInv, IInv, TypeOK
      <4> QED
        BY <1>2, <3>1, <4>1, <4>2, <4>3 DEF Unlocking, Done
    <3>2. CASE w.kind \in {"create", "managed"}
      <4>1. Making(w) /\ disk[w.path] = Result(w) /\ p = w.path /\ vault_file = NoPath /\ w.file \in {w.path, NoPath}
        BY <1>2, <3>2, CourseKind DEF Making, Done, WaitInv, Session
      <4>2. w.vault \in VaultValue /\ w.key \in Id /\ w.pass \in Password
        BY <1>2, <3>2 DEF JobOK, Job
      <4>3. Result(w) \in Image
        BY <4>2 DEF Result, Sealed, Image
      <4>4. p \in Path
        <5>1. CASE w.kind = "create"
          BY <4>1, <5>1 DEF WaitInv, IInv, TypeOK
        <5>2. CASE w.kind = "managed"
          BY <4>1, <5>2 DEF JobOK, Job
        <5> QED
          BY <3>2, <5>1, <5>2
      <4> QED
        BY <3>2, <4>1, <4>2, <4>3, <4>4, SessionAssumption DEF Holds
    <3> QED
      BY <3>1, <3>2
  <2>2. /\ vault' = w.vault /\ key' = w.key /\ password' = w.pass /\ vault_path' = p
        /\ vault_file' = (IF w.kind = "create" THEN vault_file ELSE w.file) /\ screen' = "main"
    BY <1>2 DEF OpenSession
  <2> HIDE DEF p
  <2> QED
    BY <2>1, <2>2, SessionOpens
<1> QED
  BY <1>1, <1>2 DEF Job

\* The event loop runs the closure of the thread that posted.
LEMMA RunClosureWaits == ASSUME WaitInv, IInv', RunClosure PROVE WaitInv'
<1>1. PICK t \in Slot :
           LET w == worker[t] IN
           /\ w # NoJob /\ w.pc = "posted" /\ Only(t) /\ ~settings /\ Course(w) /\ w \in Job /\ JobOK(w)
           /\ queue' = <<>> /\ UNCHANGED <<disk, settings, used, started>>
           /\ Finish(t) \/ (w.kind = "edit" /\ w.ok /\ "icon" \in Ops /\ SetJob(t, Fetch))
           /\ CASE w.kind \in {"unlock", "create", "managed"} -> OpenSession(w)
                [] w.kind = "passwd"                          -> PasswdDone(w)
                [] w.kind \in {"mirror", "unmirror"}          -> MirrorDone(w)
                [] w.kind = "sync"                            -> SyncDone(w)
                [] w.kind \in {"edit", "totp"}                -> EditDone(w)
  BY ClosureOfOne
<1> DEFINE w == worker[t]
<1>2. Images' /\ Session' /\ (vault # NoVault => AtRest)'
  <2>1. CASE w.kind \in {"unlock", "create", "managed"}
    <3>1. w.kind \in {"unlock", "create"} => vault_path # NoPath
      BY DEF WaitInv, IInv, PathKnown
    <3>2. OpenSession(w)
      BY <1>1, <2>1
    <3> QED
      BY <1>1, <2>1, <3>1, <3>2, OpenSessionWaits
  <2>2. CASE w.kind \in {"passwd", "mirror", "unmirror"}
    <3>1. Changing(w) /\ vault # NoVault /\ vault_file = NoPath /\ w.file \in {vault_path, NoPath}
      BY <1>1, <2>2, CourseKind DEF Changing
    <3>2. /\ w.ok => /\ disk[vault_path] = Sealed(w.vault, key, w.pass) /\ w.vault \in VaultValue /\ w.vault.id = key
                     /\ w.vault.seq <= 2 * started /\ w.vault.mirrors <= started
                     /\ IF w.kind = "passwd" THEN w.vault = vault ELSE w.pass = password
          /\ ~w.ok => AtRest
      BY <1>1, <3>1 DEF Changing, Done, Result
    <3>3. CASE w.kind = "passwd"
      <4>1. PasswdDone(w)
        BY <1>1, <3>3
      <4>2. /\ vault' = vault /\ key' = key /\ vault_path' = vault_path /\ screen' = screen
            /\ vault_file' \in {vault_path, NoPath} /\ password' = (IF w.ok THEN w.pass ELSE password)
        BY <3>1, <4>1 DEF PasswdDone, Returned
      <4>3. Images' /\ Session'
        BY <1>1, <3>1, <4>2, SessionStays, OpenSessionFacts
      <4> QED
        BY <1>1, <3>2, <3>3, <4>2, <4>3 DEF AtRest, Behind, Lagging, HasVault, Current
    <3>4. CASE w.kind \in {"mirror", "unmirror"}
      <4>1. MirrorDone(w)
        BY <1>1, <3>4
      <4>2. /\ vault' = (IF w.ok THEN w.vault ELSE vault) /\ key' = key /\ vault_path' = vault_path
            /\ screen' = screen /\ vault_file' \in {vault_path, NoPath} /\ password' = password
        BY <3>1, <4>1 DEF MirrorDone, Returned
      <4>3. vault' \in VaultValue /\ vault'.id = key /\ vault'.seq <= 2 * started /\ vault'.mirrors <= started
        BY <3>1, <3>2, <4>2, OpenSessionFacts
      <4>4. Images' /\ Session'
        BY <1>1, <3>1, <4>2, <4>3, SessionStays
      <4> QED
        BY <1>1, <3>2, <3>4, <4>2, <4>4 DEF AtRest, Behind, Lagging, HasVault, Current
    <3> QED
      BY <2>2, <3>3, <3>4
  <2>3. CASE w.kind = "sync"
    <3>1. Syncing(w) /\ vault # NoVault /\ AtRest /\ vault_file = NoPath /\ w.file \in {vault_path, NoPath}
      BY <1>1, <2>3, CourseKind DEF Syncing
    <3>2. SyncDone(w)
      BY <1>1, <2>3
    <3>3. Images' /\ Session'
      BY <1>1, <3>1, <3>2, SessionStays, OpenSessionFacts DEF SyncDone, Returned
    <3> QED
      BY <1>1, <3>1, <3>2, <3>3 DEF AtRest, Behind, Lagging, HasVault, Current, SyncDone
  <2>4. CASE w.kind \in {"edit", "totp"}
    <3>1. Editing(w) /\ vault # NoVault /\ AtRest
      BY <1>1, <2>4, CourseKind DEF Editing
    <3>2. EditDone(w)
      BY <1>1, <2>4
    <3>3. UNCHANGED <<vault, key, password, vault_path, vault_file>> /\ screen' = screen
      BY <3>1, <3>2, OpenSessionFacts DEF EditDone, appVars
    <3>4. Images' /\ Session'
      BY <1>1, <3>1, <3>3, SessionStays, OpenSessionFacts
    <3> QED
      BY <1>1, <3>1, <3>3, <3>4 DEF AtRest, Behind, Lagging, HasVault, Current
  <2>5. w.kind \notin {"generator", "icon"}
    BY <1>1, CourseKind DEF Generating, Fetching
  <2> QED
    BY <1>1, <2>1, <2>2, <2>3, <2>4, <2>5, CourseKind DEF Kind
<1>3. CASE Finish(t)
  BY <1>1, <1>2, <1>3, Finished DEF WaitInv
<1>4. CASE w.kind = "edit" /\ w.ok /\ "icon" \in Ops /\ SetJob(t, Fetch)
  <2>1. /\ worker' = [worker EXCEPT ![t] = worker'[t]] /\ worker'[t].kind = "icon"
        /\ worker'[t].pc = "begin" /\ worker'[t].file = NoPath
    BY <1>4 DEF SetJob, Fetch, NoJob, WaitInv, IInv, TypeOK
  <2>2. Editing(w) /\ UNCHANGED <<vault, key, password, vault_path>>
    BY <1>1, <1>4, CourseKind DEF EditDone, appVars
  <2>3. Fetching(worker[t])'
    BY <1>1, <1>4, <2>1, <2>2 DEF Editing, Fetching, Done, Current
  <2> QED
    BY <1>1, <1>2, <2>1, <2>3, GoesOn DEF Course, WaitInv
<1> QED
  BY <1>1, <1>3, <1>4

-----------------------------------------------------------------------------
(* What the user does once nothing is under way *)

\* Then no thread works and no message waits.
LEMMA QuietIdle == ASSUME WaitInv, Quiet PROVE Idle /\ ~settings
<1>1. ASSUME NEW t \in Slot, Busy(t) PROVE FALSE
  <2>1. worker[t].kind # "none"
    BY <1>1, CourseKind DEF Busy
  <2> QED
    BY <2>1 DEF Quiet, NoJob
<1> QED
  BY <1>1 DEF WaitInv, Quiet

\* The screen tells whether a vault is open.
LEMMA ScreenTells == ASSUME WaitInv PROVE screen = "main" <=> vault # NoVault
  BY DEF WaitInv, Session

\* A started thread takes what it needs of the session later.
LEMMA StartWaits ==
  ASSUME WaitInv, Quiet, IInv', NEW t, NEW k \in Kind, NEW w, Start(t, k, w),
         \/ k = "unlock" /\ screen = "unlock"
         \/ k \in {"passwd", "mirror", "unmirror", "sync", "edit", "totp"} /\ screen = "main"
  PROVE  WaitInv'
<1>1. /\ t \in Slot /\ worker \in [Slot -> Job] /\ started \in Nat /\ started' = started + 1
      /\ UNCHANGED <<appVars, screen, disk, queue, settings, used>>
      /\ worker' = [worker EXCEPT ![t] = [NoJob EXCEPT !.kind = k, !.pc = "begin", !.pass = w]]
  BY DEF Start, SetJob, Slot, WaitInv, IInv, TypeOK
<1>2. Idle /\ ~settings /\ queue = <<>> /\ Only(t)
  BY QuietIdle DEF Idle, NoneWorks, Only
<1>3. /\ worker'[t].kind = k /\ worker'[t].pc = "begin" /\ worker'[t].file = NoPath /\ ~worker'[t].ok
      /\ worker' = [worker EXCEPT ![t] = worker'[t]]
  BY <1>1 DEF NoJob
<1>4. Images' /\ Session'
  BY <1>1, SameSession DEF appVars, Holds
<1>5. Course(worker[t])'
  <2>1. CASE k = "unlock" /\ screen = "unlock"
    <3>1. Unlocking(worker[t])'
      BY <1>1, <1>3, <2>1, ScreenTells DEF Unlocking, Done, appVars
    <3> QED
      BY <3>1 DEF Course
  <2>2. CASE k \in {"passwd", "mirror", "unmirror", "sync", "edit", "totp"} /\ screen = "main"
    <3>1. /\ vault' # NoVault /\ AtRest' /\ vault'.seq + 1 < 2 * started' /\ vault'.mirrors < started'
          /\ vault.seq \in Nat /\ vault.mirrors \in Nat
      BY <1>1, <1>2, <2>2, ScreenTells, OpenSessionFacts DEF Idle, AtRest, Behind, Lagging, HasVault, Current, appVars
    <3>2. k \in {"passwd", "mirror", "unmirror"} => Changing(worker[t])'
      BY <1>3, <3>1 DEF Changing, Done, AtRest
    <3>3. k = "sync" => Syncing(worker[t])'
      BY <1>3, <3>1 DEF Syncing
    <3>4. k \in {"edit", "totp"} => Editing(worker[t])'
      BY <1>1, <1>3, <3>1 DEF Editing, Done, appVars
    <3> QED
      BY <2>2, <3>2, <3>3, <3>4 DEF Course
  <2> QED
    BY <2>1, <2>2
<1> QED
  BY <1>1, <1>2, <1>3, <1>4, <1>5, GoesOn DEF WaitInv

\* A new vault gets a key that no file has.
LEMMA StartNewWaits ==
  ASSUME WaitInv, Quiet, IInv', NEW t \in Thread, NEW k \in {"create", "managed"}, NEW p, StartNew(t, k, p)
  PROVE  WaitInv'
<1>1. PICK w \in Password, i \in Id \ used :
        /\ worker' = [worker EXCEPT ![t] = [NoJob EXCEPT !.kind = k, !.pc = "begin", !.path = p, !.pass = w,
                                       !.key = i, !.vault = [id |-> i, seq |-> 0, mirrors |-> 0]]]
        /\ used' = used \cup {i}
  BY DEF StartNew, SetJob
<1>2. /\ t \in Slot /\ worker \in [Slot -> Job] /\ started \in Nat /\ started' = started + 1
      /\ screen = "list" /\ UNCHANGED <<appVars, screen, disk, queue, settings>>
  BY DEF StartNew, Slot, WaitInv, IInv, TypeOK
<1>3. Idle /\ ~settings /\ queue = <<>> /\ Only(t) /\ vault = NoVault
  BY <1>2, QuietIdle, ScreenTells DEF Idle, NoneWorks, Only
<1>4. /\ worker'[t].kind = k /\ worker'[t].pc = "begin" /\ worker'[t].file = NoPath /\ ~worker'[t].ok
      /\ worker'[t].key = i /\ worker'[t].vault = [id |-> i, seq |-> 0, mirrors |-> 0]
      /\ worker' = [worker EXCEPT ![t] = worker'[t]]
  BY <1>1, <1>2 DEF NoJob
<1>5. \A q \in Path : Holds(q) => disk[q].vault.seq \in Nat /\ disk[q].vault.mirrors \in Nat
  BY DEF WaitInv, IInv, TypeOK, Image, VaultValue, Holds
<1>6. Images'
  BY <1>1, <1>2, <1>5 DEF WaitInv, Images, Holds
<1>7. Session'
  BY <1>2, <1>3 DEF WaitInv, Session, appVars
<1>8. Making(worker[t])'
  BY <1>1, <1>2, <1>3, <1>4 DEF Making, Done, Holds, WaitInv, Images, appVars
<1> QED
  BY <1>2, <1>3, <1>4, <1>6, <1>7, <1>8, GoesOn DEF WaitInv, Course

\* The other callbacks and the end of the process leave no thread at work.
LEMMA WindowWaits ==
  ASSUME WaitInv, Quiet, IInv', SendSettings \/ Lock \/ Back \/ \E p \in Path : SelectVault(p) \/ DeleteVault(p)
  PROVE  WaitInv'
<1>1. Idle /\ ~settings /\ queue = <<>> /\ started \in Nat
  BY QuietIdle DEF Idle, WaitInv, IInv, TypeOK
<1>2. CASE SendSettings
  <2>1. Images' /\ Session'
    BY <1>1, <1>2, SameSession DEF SendSettings, appVars, Holds
  <2>2. vault # NoVault /\ vault.seq < 2 * started'
    BY <1>1, <1>2, ScreenTells, OpenSessionFacts DEF SendSettings
  <2>3. Idle'
    BY <1>1, <1>2, <2>2 DEF SendSettings, Idle, NoneWorks, AtRest, Behind, Lagging, HasVault, Current, appVars
  <2> QED
    BY <2>1, <2>3 DEF WaitInv
<1>3. CASE Lock
  BY <1>1, <1>3 DEF Lock, Cleared, WaitInv, Images, Session, Idle, NoneWorks, Holds
<1>4. CASE Back
  BY <1>1, <1>4, ScreenTells DEF Back, WaitInv, Images, Session, Idle, NoneWorks, Holds, appVars
<1>5. CASE \E p \in Path : SelectVault(p)
  BY <1>1, <1>5, ScreenTells DEF SelectVault, WaitInv, Images, Session, Idle, NoneWorks, Holds
<1>6. ASSUME NEW p \in Path, DeleteVault(p) PROVE WaitInv'
  <2>1. /\ screen = "list" /\ vault = NoVault /\ disk' = [disk EXCEPT ![p] = Absent] /\ worker' = Unlinked(p)
        /\ UNCHANGED <<appVars, screen, queue, settings, used, started>>
    BY <1>6, ScreenTells DEF DeleteVault
  <2>2. NoneWorks'
    <3>1. \A t \in Slot : worker[t] = NoJob /\ NoJob.pc # "write"
      BY <1>1 DEF Idle, NoneWorks, NoJob
    <3>2. \A t \in Slot : worker'[t] = NoJob
      BY <2>1, <3>1 DEF Unlinked, WritesShared
    <3> QED
      BY <3>2 DEF NoneWorks
  <2>3. \A q \in Path : Holds(q)' => Holds(q) /\ disk'[q] = disk[q]
    BY <2>1 DEF Holds, WaitInv, IInv, TypeOK
  <2>4. Images' /\ Session'
    BY <1>1, <2>1, <2>3, SameSession DEF appVars
  <2> QED
    BY <1>1, <2>1, <2>2, <2>4 DEF WaitInv, Idle, appVars
<1> QED
  BY <1>2, <1>3, <1>4, <1>5, <1>6

\* The end of the process leaves no thread at work.
LEMMA RelaunchWaits == ASSUME WaitInv, IInv', NEW last, Relaunch(last) PROVE WaitInv'
<1>1. NoneWorks' /\ queue' = <<>> /\ ~settings' /\ vault' = NoVault
  BY DEF Relaunch, Cleared, NoneWorks
<1> QED
  BY <1>1 DEF Relaunch, Cleared, WaitInv, Images, Session, Idle, Holds

-----------------------------------------------------------------------------
(* Every step *)

\* Each callback of the user who waits keeps WaitInv,
LEMMA UserWaits == ASSUME WaitInv, Quiet, IInv', UserStep PROVE WaitInv'
<1>1. ASSUME NEW t \in Thread, StartUnlock(t) PROVE WaitInv'
  <2>1. PICK w : Start(t, "unlock", w) /\ screen = "unlock"
    BY <1>1 DEF StartUnlock
  <2> QED
    BY <2>1, StartWaits DEF Kind
<1>2. ASSUME NEW t \in Thread, StartCreate(t) PROVE WaitInv'
  BY <1>2, StartNewWaits DEF StartCreate
<1>3. ASSUME NEW t \in Thread, NEW p \in Path, StartManaged(t, p) PROVE WaitInv'
  BY <1>3, StartNewWaits DEF StartManaged
<1>4. ASSUME NEW t \in Thread, StartPasswd(t) PROVE WaitInv'
  <2>1. PICK w : Start(t, "passwd", w) /\ screen = "main"
    BY <1>4 DEF StartPasswd
  <2> QED
    BY <2>1, StartWaits DEF Kind
<1>5. ASSUME NEW t \in Thread, NEW k \in Kind, StartPlain(t, k) PROVE WaitInv'
  BY <1>5, StartWaits DEF StartPlain
<1>6. ASSUME Close PROVE WaitInv'
  BY <1>6, RelaunchWaits DEF Close
<1> QED
  BY <1>1, <1>2, <1>3, <1>4, <1>5, <1>6, WindowWaits DEF UserStep

\* and so does each step of a thread,
LEMMA ThreadWaits == ASSUME WaitInv, IInv', NEW t \in Thread, ThreadStep(t) PROVE WaitInv'
  BY ReadPathWaits, UnlockOpenWaits, UnlockLoadWaits, ManagedCreateWaits, ManagedSecureWaits, ManagedReopenWaits,
     TakeSessionWaits, OpenForWriteWaits, WriteOutWaits, WriteFailWaits, SyncTakeWaits, SyncCopyWaits,
     EditMutateWaits, EditSaveWaits, IconFetchWaits
  DEF ThreadStep

\* and of the saver.
LEMMA SaverWaits == ASSUME WaitInv, IInv', SaverStep PROVE WaitInv'
  BY SaverReceiveWaits, SaverTakeWaits, SaverWriteWaits, SaverRestoreWaits DEF SaverStep

\* WaitInv holds at the start.
LEMMA InitWaits == ASSUME Init PROVE WaitInv
<1>1. IInv
  BY InitIInv
<1>2. ASSUME NEW p \in Path, Holds(p)
      PROVE  /\ disk[p].key = disk[p].vault.id /\ disk[p].key \in used /\ disk[p].vault.seq = 0
             /\ disk[p].vault.mirrors = 0
  <2> DEFINE Made == {Sealed([id |-> i, seq |-> 0, mirrors |-> 0], i, w) : i \in Id, w \in Password}
  <2>1. PICK i \in Id, w \in Password : disk[p] = Sealed([id |-> i, seq |-> 0, mirrors |-> 0], i, w)
    <3>1. disk \in [Path -> {Absent} \cup Made]
      BY DEF Init
    <3>2. disk[p] \in Made
      <4> HIDE DEF Made
      <4> QED
        BY <1>2, <3>1 DEF Holds
    <3> QED
      BY <3>2
  <2>2. disk[p].key = i /\ disk[p].vault = [id |-> i, seq |-> 0, mirrors |-> 0]
    BY <2>1 DEF Sealed
  <2>3. disk[p].key \in used
    BY <1>2 DEF Init, Holds
  <2> QED
    BY <2>2, <2>3
<1>3. Images
  BY <1>2 DEF Init, Images, Holds
<1>4. Session
  BY DEF Init, Session
<1>5. Idle
  BY DEF Init, Idle, NoneWorks
<1> QED
  BY <1>1, <1>3, <1>4, <1>5 DEF WaitInv

\* The steps of a user who waits, and a crash.
LEMMA StepWaits == ASSUME WaitInv, [PatientNext \/ Crash]_vars PROVE WaitInv'
<1>1. IInv'
  BY NextKeeps DEF WaitInv, PatientNext, Next
<1>2. CASE Crash
  BY <1>1, <1>2, RelaunchWaits DEF Crash
<1>3. CASE PatientNext
  BY <1>1, <1>3, UserWaits, ThreadWaits, SaverWaits, RunClosureWaits DEF PatientNext
<1>4. CASE UNCHANGED vars
  <2>1. Images' /\ Session'
    BY <1>4 DEF vars, WaitInv, Images, Session, Holds
  <2>2. Idle => Idle'
    BY <1>4 DEF vars, Idle, NoneWorks, AtRest, Behind, Lagging, HasVault, Current
  <2>3. ASSUME NEW t \in Slot, Busy(t) PROVE Busy(t)'
    <3>1. Behind' = Behind /\ AtRest' = AtRest
      BY <1>4 DEF vars, AtRest, Behind, Lagging, HasVault, Current
    <3>2. Course(worker[t])'
      BY <1>4, <2>3, <3>1 DEF vars, Busy, Course, Unlocking, Making, Changing, Syncing, Editing,
                              Fetching, Generating, Current, Holds, Done, Result
    <3> QED
      BY <1>4, <2>3, <3>2 DEF vars, Busy, Only
  <2> QED
    BY <1>1, <2>1, <2>2, <2>3 DEF WaitInv
<1> QED
  BY <1>2, <1>3, <1>4

\* WaitInv holds of every state of a user who waits, crashes included
\* (the callbacks of ui/bridge/vault.rs and their threads and closures).
THEOREM WaitInvariance == CrashingSpec => []WaitInv
<1>1. Init => WaitInv
  BY InitWaits
<1>2. WaitInv /\ [PatientNext \/ Crash]_vars => WaitInv'
  BY StepWaits
<1> QED
  BY <1>1, <1>2, PTL DEF CrashingSpec

\* Between operations the session is complete or gone: a locked one keeps neither
\* secrets nor a handle, an open one has in its file exactly the vault, key and
\* password in memory, but for one favicon, or for edits whose write failed
\* (5. Lock Vault, save_vault_state, the closures of 6 to 12, fetch_website_icon).
THEOREM SessionAlwaysCoherent == CrashingSpec => []SessionCoherent
<1>1. WaitInv => SessionCoherent
  <2>1. ASSUME WaitInv, vault # NoVault, disk[vault_path] = Current PROVE HasVault(vault.seq)
    <3>1. [vault EXCEPT !.seq = vault.seq] = vault
      BY <2>1, OpenSessionFacts DEF VaultValue
    <3> QED
      BY <2>1, <3>1 DEF HasVault, Current
  <2> QED
    BY <2>1, QuietIdle DEF WaitInv, Session, SessionCoherent, Idle, AtRest
<1> QED
  BY <1>1, WaitInvariance, PTL

-----------------------------------------------------------------------------
(* Updates survive a user who waits *)

\* A vault with all that was done to the one that is open.
AsNew(v) == v.id = vault.id /\ v.seq >= vault.seq

Kept == vault # NoVault =>
          /\ vault' # NoVault => AsNew(vault')
          /\ \A p \in Path : disk'[p] # disk[p] /\ disk'[p] \notin {Absent, Damaged} => AsNew(disk'[p].vault)

\* The open vault itself, counted up or not.
LEMMA NewIsAsNew == ASSUME WaitInv, vault # NoVault PROVE AsNew(vault) /\ AsNew(Bumped)
BY OpenSessionFacts DEF AsNew, Bumped, VaultValue

\* A step that writes one file keeps what was done, if the file gets all of it, is
\* damaged, is removed, or stays as it was.
LEMMA FileKept ==
  ASSUME WaitInv, vault' \in {vault, Bumped, NoVault}, NEW p, NEW c, disk' = [disk EXCEPT ![p] = c],
         c \in {Absent, Damaged, disk[p]} \/ (vault # NoVault => AsNew(c.vault))
  PROVE  Kept
<1>1. \A q \in Path : disk'[q] = IF q = p THEN c ELSE disk[q]
  BY DEF WaitInv, IInv, TypeOK
<1>2. vault # NoVault /\ vault' # NoVault => AsNew(vault')
  BY NewIsAsNew
<1> QED
  BY <1>1, <1>2 DEF Kept

\* So does one that writes none,
LEMMA NothingWritten == ASSUME WaitInv, vault' \in {vault, Bumped, NoVault}, UNCHANGED disk PROVE Kept
BY NewIsAsNew DEF Kept

\* a save of the open vault,
LEMMA SaveKept ==
  ASSUME WaitInv, UNCHANGED vault, NEW p, NEW k, NEW w, NEW ok, SaveTo(p, k, w, ok)
  PROVE  Kept
<1>1. PICK c \in {Sealed(vault, k, w), Damaged, disk[p]} : disk' = [disk EXCEPT ![p] = c]
  BY DEF SaveTo, Written, Spoiled
<1>2. Sealed(vault, k, w).vault = vault
  BY DEF Sealed
<1> QED
  BY <1>1, <1>2, FileKept, NewIsAsNew

\* a favicon,
LEMMA IconKept == ASSUME WaitInv, NEW t \in Thread, IconFetch(t) PROVE Kept
<1>1. \/ UNCHANGED <<vault, disk>>
      \/ /\ vault' = Bumped
         /\ \E c \in {Sealed(Bumped, key, password), disk[vault_path]} \cup (IF Faults THEN {Damaged} ELSE {}) :
              disk' = [disk EXCEPT ![vault_path] = c]
  BY IconFetchMoves
<1>2. Sealed(Bumped, key, password).vault = Bumped
  BY DEF Sealed
<1> QED
  BY <1>1, <1>2, FileKept, NothingWritten, NewIsAsNew

\* the copy that the thread of a password or a mirror writes, which was taken when
\* nothing else was under way,
LEMMA CopyKept == ASSUME WaitInv, NEW t \in Thread, WriteOut(t) PROVE Kept
<1> DEFINE w == worker[t]
<1>1. w.pc = "write" /\ UNCHANGED vault
  BY DEF WriteOut, appVars
<1>2. (Making(w) \/ Changing(w)) /\ disk' = [disk EXCEPT ![w.path] = Result(w)]
  BY WritesOut
<1>3. vault # NoVault => AsNew(w.vault)
  BY <1>1, <1>2, OpenSessionFacts DEF Making, Changing, AsNew
<1>4. Result(w).vault = w.vault
  BY DEF Result, Sealed
<1> QED
  BY <1>1, <1>2, <1>3, <1>4, FileKept

\* each other step of a thread,
LEMMA ThreadKept == ASSUME WaitInv, NEW t \in Thread, ThreadStep(t) PROVE Kept
<1>1. CASE EditSave(t)
  <2>1. UNCHANGED vault /\ \E ok \in BOOLEAN : SaveVaultState(worker[t].key, worker[t].pass, ok)
    BY <1>1 DEF EditSave, appVars
  <2> QED
    BY <2>1, SaveKept, NothingWritten DEF SaveVaultState, SaveByPath
<1>2. CASE ManagedCreate(t)
  BY <1>2, FileKept, NothingWritten DEF ManagedCreate, appVars
<1>3. CASE ManagedSecure(t)
  BY <1>3, FileKept, NothingWritten DEF ManagedSecure, appVars
<1>4. CASE OpenForWrite(t)
  BY <1>4, FileKept, NothingWritten DEF OpenForWrite, appVars
<1>5. CASE WriteFail(t)
  BY <1>5, FileKept, NothingWritten DEF WriteFail, appVars
<1>6. CASE \/ ReadPath(t) \/ UnlockOpen(t) \/ UnlockLoad(t) \/ ManagedReopen(t) \/ TakeSession(t)
           \/ SyncTake(t) \/ SyncCopy(t) \/ EditMutate(t)
  BY <1>6, NothingWritten DEF ReadPath, UnlockOpen, UnlockLoad, ManagedReopen, TakeSession, SyncTake,
     SyncCopy, EditMutate, appVars
<1> QED
  BY <1>1, <1>2, <1>3, <1>4, <1>5, <1>6, IconKept, CopyKept DEF ThreadStep

\* of the saver,
LEMMA SaverKept == ASSUME WaitInv, SaverStep PROVE Kept
<1>1. CASE SaverWrite
  <2>1. UNCHANGED vault
    BY <1>1 DEF SaverWrite, appVars
  <2> QED
    BY <1>1, <2>1, SaveKept, NothingWritten DEF SaverWrite, SaveByPath
<1>2. CASE SaverReceive \/ SaverTake \/ SaverRestore
  BY <1>2, NothingWritten DEF SaverReceive, SaverTake, SaverRestore, appVars
<1> QED
  BY <1>1, <1>2 DEF SaverStep

\* of the user,
LEMMA UserKept == ASSUME WaitInv, UserStep \/ Crash PROVE Kept
<1>1. ASSUME NEW p \in Path, DeleteVault(p) PROVE Kept
  BY <1>1, FileKept DEF DeleteVault, appVars
<1>2. (UNCHANGED disk /\ vault' \in {vault, NoVault}) \/ \E p \in Path : DeleteVault(p)
  BY DEF UserStep, StartUnlock, StartCreate, StartManaged, StartNew, StartPasswd, StartPlain, Start,
     SendSettings, Lock, Cleared, SelectVault, Back, Close, Crash, Relaunch, appVars
<1> QED
  BY <1>1, <1>2, NothingWritten

\* and each closure: a vault is opened over none, and the copy with a mirror more or
\* less has what the vault has.
LEMMA ClosureKept == ASSUME WaitInv, RunClosure PROVE Kept
<1>1. PICK t \in Slot :
           LET w == worker[t] IN
           /\ w # NoJob /\ w.pc = "posted" /\ Only(t) /\ ~settings /\ Course(w) /\ w \in Job /\ JobOK(w)
           /\ queue' = <<>> /\ UNCHANGED <<disk, settings, used, started>>
           /\ Finish(t) \/ (w.kind = "edit" /\ w.ok /\ "icon" \in Ops /\ SetJob(t, Fetch))
           /\ CASE w.kind \in {"unlock", "create", "managed"} -> OpenSession(w)
                [] w.kind = "passwd"                          -> PasswdDone(w)
                [] w.kind \in {"mirror", "unmirror"}          -> MirrorDone(w)
                [] w.kind = "sync"                            -> SyncDone(w)
                [] w.kind \in {"edit", "totp"}                -> EditDone(w)
  BY ClosureOfOne
<1> DEFINE w == worker[t]
<1>2. w.kind \in Posting
  BY <1>1 DEF JobOK, Posted
<1>3. CASE w.kind \in {"unlock", "create", "managed"}
  BY <1>1, <1>3, CourseKind DEF Unlocking, Making, Kept
<1>4. CASE w.kind \in {"mirror", "unmirror"}
  <2>1. Changing(w) /\ vault' = (IF w.ok THEN w.vault ELSE vault)
    BY <1>1, <1>4, CourseKind DEF MirrorDone
  <2>2. w.ok => AsNew(w.vault)
    BY <1>1, <2>1, OpenSessionFacts DEF Changing, Done, AsNew
  <2> QED
    BY <1>1, <2>1, <2>2, NewIsAsNew DEF Kept
<1>5. CASE w.kind \in {"passwd", "sync", "edit", "totp"}
  BY <1>1, <1>5, NothingWritten DEF PasswdDone, SyncDone, EditDone, appVars
<1> QED
  BY <1>2, <1>3, <1>4, <1>5 DEF Posting

\* Nothing takes an update away from the open vault or its file, crashes included, of
\* a user who waits: the copies that the threads of the password and of the mirrors
\* make are as new as the vault when they are written and when they replace it
\* (take() and the closures of 6, 10 and 11 in vault.rs, the saver, fetch_website_icon).
THEOREM UpdatesKept == CrashingSpec => UpdatesSurvive
<1>1. WaitInv /\ [PatientNext \/ Crash]_vars => [Kept]_vars
  BY ThreadKept, SaverKept, UserKept, ClosureKept DEF PatientNext
<1>2. UpdatesSurvive <=> [][Kept]_vars
  BY PTL DEF UpdatesSurvive, Kept, AsNew
<1> QED
  BY <1>1, <1>2, WaitInvariance, PTL DEF CrashingSpec

-----------------------------------------------------------------------------
(* The store that the one thread at work shows *)

Writes(t) == Creating(t) \/ Copying(t) \/ Saving(t)

\* What is stored, and on its way, according to where thread t is.
ViewOf(t) ==
  /\ Creating(t) => /\ storedNow = [disk EXCEPT ![worker[t].path] = Absent]
                    /\ pendingNow = [path |-> worker[t].path, image |-> Result(worker[t])]
  /\ Copying(t) => /\ storedNow = IF worker[t].pc = "open" THEN disk ELSE [disk EXCEPT ![worker[t].path] = Damaged]
                   /\ pendingNow = [path |-> worker[t].path, image |-> Result(worker[t])]
  /\ Saving(t) => storedNow = disk /\ pendingNow = [path |-> vault_path, image |-> Current]
  /\ ~Writes(t) => storedNow = disk /\ pendingNow = NoPath

Viewed == TypeOK => \A t \in Slot : Only(t) => ViewOf(t)

\* While the other threads do nothing, t tells what the store shows.
LEMMA View == Viewed
<1> SUFFICES ASSUME NEW t \in Slot, TypeOK, Only(t) PROVE ViewOf(t)
  BY DEF Viewed
<1>1. \A u \in Slot : u # t => ~Creating(u) /\ ~Copying(u) /\ ~Saving(u)
  BY DEF Only, NoJob, Creating, Copying, Saving
<1>2. disk = [p \in Path |-> disk[p]]
  BY DEF TypeOK
<1>3. Writers = IF Writes(t) THEN {t} ELSE {}
  BY <1>1 DEF Writers, Writes
<1>4. Writes(t) => (CHOOSE u \in Writers : TRUE) = t
  BY <1>3
<1>5. Creating(t) => ~Copying(t) /\ ~Saving(t)
  BY DEF Creating, Copying, Saving
<1>6. Copying(t) => ~Saving(t)
  BY DEF Copying, Saving
<1>7. CASE Creating(t)
  <2>1. storedNow = [disk EXCEPT ![worker[t].path] = Absent]
    BY <1>1, <1>2, <1>5, <1>7 DEF storedNow, Emptied
  <2>2. pendingNow = [path |-> worker[t].path, image |-> Result(worker[t])]
    BY <1>3, <1>4, <1>5, <1>7 DEF pendingNow, Writes, Result
  <2> QED
    BY <1>5, <1>7, <2>1, <2>2 DEF Writes, ViewOf
<1>8. CASE Copying(t)
  <2>1. storedNow = IF worker[t].pc = "open" THEN disk ELSE [disk EXCEPT ![worker[t].path] = Damaged]
    BY <1>1, <1>2, <1>5, <1>8 DEF storedNow, Emptied
  <2>2. pendingNow = [path |-> worker[t].path, image |-> Result(worker[t])]
    BY <1>3, <1>4, <1>6, <1>8 DEF pendingNow, Writes, Result
  <2> QED
    BY <1>5, <1>6, <1>8, <2>1, <2>2 DEF Writes, ViewOf
<1>9. CASE ~Creating(t) /\ ~Copying(t)
  <2>1. storedNow = disk
    BY <1>1, <1>2, <1>9 DEF storedNow, Emptied
  <2>2. Saving(t) => pendingNow = [path |-> vault_path, image |-> Current]
    BY <1>3, <1>4 DEF pendingNow, Writes
  <2>3. ~Saving(t) => pendingNow = NoPath
    BY <1>3, <1>9 DEF pendingNow, Writes
  <2> QED
    BY <1>9, <2>1, <2>2, <2>3 DEF Writes, ViewOf
<1> QED
  BY <1>7, <1>8, <1>9

\* The same of the next state.
LEMMA ViewNext == Viewed'
BY View, PTL

IdleViewed == TypeOK /\ NoneWorks => storedNow = disk /\ pendingNow = NoPath

\* With no thread at work everything is in the files.
LEMMA ViewIdle == IdleViewed
<1> SUFFICES ASSUME TypeOK, NoneWorks PROVE storedNow = disk /\ pendingNow = NoPath
  BY DEF IdleViewed
<1>1. Saver \in Slot /\ Only(Saver) /\ ~Writes(Saver)
  <2>1. Saver \in Slot /\ worker[Saver].kind = "none"
    BY DEF Slot, NoneWorks, NoJob
  <2> QED
    BY <2>1 DEF NoneWorks, Only, Writes, Creating, Copying, Saving
<1>2. ViewOf(Saver)
  BY <1>1, View DEF Viewed
<1> QED
  BY <1>1, <1>2 DEF ViewOf

\* The same of the next state.
LEMMA ViewIdleNext == IdleViewed'
BY ViewIdle, PTL

\* A step of t that writes nothing before and after shows nothing.
LEMMA Unseen ==
  ASSUME TypeOK, TypeOK', NEW t \in Slot, Only(t), Only(t)', ~Writes(t), ~Writes(t)',
         UNCHANGED <<vault, key, password, vault_path, disk>>
  PROVE  UNCHANGED Store!storeVars
<1>1. ViewOf(t) /\ ViewOf(t)'
  BY View, ViewNext DEF Viewed
<1>2. UNCHANGED <<storedNow, pendingNow>>
  BY <1>1 DEF ViewOf
<1>3. UNCHANGED sessionNow
  BY DEF sessionNow, Current
<1> QED
  BY <1>2, <1>3 DEF Store!storeVars

\* Nor does what happens to the file while it is being written.
LEMMA StillWriting ==
  ASSUME TypeOK, TypeOK', NEW t \in Slot, Only(t), Only(t)',
         (Creating(t) /\ Creating(t)') \/ (Emptied(t) /\ Emptied(t)'),
         worker'[t].path = worker[t].path, Result(worker'[t]) = Result(worker[t]),
         UNCHANGED <<vault, key, password, vault_path>>,
         \A p \in Path \ {worker[t].path} : disk'[p] = disk[p]
  PROVE  UNCHANGED Store!storeVars
<1>1. ViewOf(t) /\ ViewOf(t)' /\ Current' = Current
  BY View, ViewNext DEF Viewed, Current
<1>2. disk \in [Path -> Image \cup {Absent, Damaged}] /\ disk' \in [Path -> Image \cup {Absent, Damaged}]
  BY DEF TypeOK
<1>3. UNCHANGED <<storedNow, pendingNow>>
  BY <1>1, <1>2 DEF ViewOf, Emptied
<1>4. UNCHANGED sessionNow
  BY <1>1 DEF sessionNow
<1> QED
  BY <1>3, <1>4 DEF Store!storeVars

\* While t works alone it still does so after its step.
LEMMA StillOnly ==
  ASSUME TypeOK, NEW t \in Slot, Only(t), worker' = [worker EXCEPT ![t] = worker'[t]]
  PROVE  Only(t)'
BY DEF TypeOK, Only

\* A thread that fails posts a closure that opens nothing.
LEMMA FailMoves ==
  ASSUME TypeOK, NEW t \in Slot, Fail(t)
  PROVE  /\ worker' = [worker EXCEPT ![t] = worker'[t]] /\ worker'[t].kind = worker[t].kind
         /\ worker'[t].pc = "posted" /\ ~worker'[t].ok
BY DEF TypeOK, Fail, Post, SetJob, Job

\* An unlock reads, and so does a new vault until its file is opened.
LEMMA UnlockUnseen ==
  ASSUME WaitInv, IInv', NEW t \in Thread, ReadPath(t) \/ UnlockOpen(t) \/ UnlockLoad(t)
  PROVE  UNCHANGED Store!storeVars
<1> DEFINE w == worker[t]
<1>1. /\ t \in Slot /\ w # NoJob /\ w.kind \in {"unlock", "create"} /\ w.pc \in {"begin", "open", "load"}
      /\ (w.kind = "create" => w.pc = "begin") /\ UNCHANGED <<vault, key, password, vault_path, disk>>
  BY DEF ReadPath, UnlockOpen, UnlockLoad, Live, Slot, NoJob, appVars
<1>2. TypeOK /\ TypeOK' /\ Only(t) /\ w \in Job /\ worker \in [Slot -> Job] /\ vault_path # NoPath
  BY <1>1, Active DEF WaitInv, IInv, TypeOK, PathKnown
<1>3. worker' = [worker EXCEPT ![t] = worker'[t]] /\ worker'[t].kind = w.kind
  <2>1. CASE Fail(t)
    BY <1>1, <1>2, <2>1, FailMoves
  <2>2. CASE ReadPath(t) /\ ~Fail(t)
    <3> DEFINE j == [w EXCEPT !.path = vault_path, !.pc = "open"]
    <3>1. worker' = [worker EXCEPT ![t] = j]
      BY <1>2, <2>2 DEF ReadPath, SetJob
    <3>2. j.kind = w.kind
      BY <1>2 DEF Job
    <3> HIDE DEF j
    <3> QED
      BY <1>1, <1>2, <3>1, <3>2
  <2>3. CASE UnlockOpen(t) /\ ~Fail(t)
    <3> DEFINE j == [w EXCEPT !.file = w.path, !.pc = "load"]
    <3>1. worker' = [worker EXCEPT ![t] = j]
      BY <2>3 DEF UnlockOpen, SetJob
    <3>2. j.kind = w.kind
      BY <1>2 DEF Job
    <3> HIDE DEF j
    <3> QED
      BY <1>1, <1>2, <3>1, <3>2
  <2>4. CASE UnlockLoad(t) /\ ~Fail(t)
    <3> DEFINE image == disk[w.file]
               j == [[w EXCEPT !.vault = image.vault, !.key = image.key, !.ok = TRUE] EXCEPT !.pc = "posted"]
    <3>1. worker' = [worker EXCEPT ![t] = j]
      BY <2>4 DEF UnlockLoad, Post, SetJob
    <3>2. j.kind = w.kind
      BY <1>2 DEF Job
    <3> HIDE DEF j
    <3> QED
      BY <1>1, <1>2, <3>1, <3>2
  <2> QED
    BY <2>1, <2>2, <2>3, <2>4
<1>4. w.kind = "create" => worker'[t].pc = "open"
  BY ZenonT(60), <1>1, <1>2 DEF ReadPath, UnlockOpen, UnlockLoad, Live, SetJob, Job
<1>5. ~Writes(t) /\ ~Writes(t)'
  BY <1>1, <1>3, <1>4 DEF Writes, Creating, Copying, Saving
<1> QED
  BY <1>1, <1>2, <1>3, <1>5, StillOnly, Unseen

\* A new file begins a new vault.
LEMMA NewSeen ==
  ASSUME WaitInv, IInv', NEW t \in Slot, Making(worker[t]), Only(t), Only(t)', ~Writes(t), Creating(t)',
         NEW p \in Path, disk' = [disk EXCEPT ![p] = Damaged], worker'[t].path = p,
         Result(worker'[t]) = Result(worker[t]), Result(worker[t]) \in Bounded,
         ~(worker[t].pc \in {"secure", "reopen", "posted"}),
         UNCHANGED <<vault, key, password, vault_path>>
  PROVE  Store!New(p, Result(worker[t]))
<1> DEFINE i == Result(worker[t])
<1>1. ViewOf(t) /\ ViewOf(t)'
  BY View, ViewNext DEF Viewed, WaitInv, IInv
<1>2. storedNow = disk /\ pendingNow = NoPath
  BY <1>1 DEF ViewOf
<1>3. storedNow' = [storedNow EXCEPT ![p] = Absent] /\ pendingNow' = [path |-> p, image |-> i]
  BY <1>1, <1>2 DEF ViewOf, WaitInv, IInv, TypeOK
<1>4. vault = NoVault /\ i.key = worker[t].key
  BY DEF Making, Result, Sealed
<1>5. sessionNow = NoVault /\ sessionNow' = sessionNow
  BY <1>4 DEF sessionNow, Current
<1>6. \A q \in Path : storedNow[q] \notin {Absent, Damaged} => storedNow[q].key # i.key
  BY <1>2, <1>4 DEF Making, Holds
<1> QED
  BY <1>2, <1>3, <1>5, <1>6 DEF Store!New, Store!At

HasResult(w) ==
  \/ w.kind \in {"create", "managed"}
  \/ w.kind \in {"passwd", "mirror", "unmirror"} /\ w.pc \in {"open", "write"}

Captured ==
  WaitInv /\ started <= MaxStarts => \A t \in Slot : HasResult(worker[t]) => Result(worker[t]) \in Bounded

\* What a thread captured or made is an image.
LEMMA ResultBounded == Captured
<1> SUFFICES ASSUME WaitInv, started <= MaxStarts, NEW t \in Slot, HasResult(worker[t])
             PROVE  Result(worker[t]) \in Bounded
  BY DEF Captured
<1> DEFINE w == worker[t]
<1>0. w # NoJob
  BY DEF HasResult, NoJob
<1>1. w \in Job /\ JobOK(w) /\ started \in Nat /\ MaxStarts \in Nat
  BY <1>0, SessionAssumption, Active DEF WaitInv, IInv, TypeOK
<1>2. CASE w.kind \in {"create", "managed"}
  <2>1. Making(w) /\ w.pass \in Password /\ w.key \in Id
    BY <1>0, <1>1, <1>2, Active, CourseKind DEF JobOK, Job
  <2> QED
    BY <1>1, <2>1 DEF Making, Result, Sealed, Bounded
<1>3. CASE w.kind \in {"passwd", "mirror", "unmirror"} /\ w.pc \in {"open", "write"}
  <2>1. Changing(w) /\ vault # NoVault
    BY <1>0, <1>3, Active, CourseKind DEF Changing
  <2>2. w.pass \in Password /\ w.key \in Id /\ w.vault \in VaultValue
        /\ w.vault.seq \in 0..2 * MaxStarts /\ w.vault.mirrors \in 0..MaxStarts
    BY <1>1, <1>3, <2>1, OpenSessionFacts DEF Changing, Job, VaultValue
  <2> QED
    BY <2>2 DEF Result, Sealed, Bounded, VaultValue
<1> QED
  BY <1>2, <1>3 DEF HasResult

\* The same of the next state.
LEMMA ResultBoundedNext == Captured'
BY ResultBounded, PTL

\* What is bounded is an image.
LEMMA BoundedAreImages == Bounded \subseteq Image
BY SessionAssumption DEF Bounded, Image, VaultValue

\* What was on its way is lost: the file is damaged, or a new one is taken away.
LEMMA Fails ==
  ASSUME Faults, NEW p \in Path, NEW i \in Image, pendingNow = [path |-> p, image |-> i], pendingNow' = NoPath,
         \/ \E c \in {storedNow[p], Damaged} : storedNow' = [storedNow EXCEPT ![p] = c]
         \/ storedNow' = [storedNow EXCEPT ![p] = Absent] /\ sessionNow = NoVault,
         UNCHANGED <<vault, key, password, vault_path>>
  PROVE  Store!Next
<1>1. pendingNow # NoPath
  BY StoreAssumption
<1>2. sessionNow' = sessionNow
  BY DEF sessionNow, Current
<1>3. pendingNow.path = p
  OBVIOUS
<1>4. Store!Fail
  BY <1>1, <1>2, <1>3 DEF Store!Fail
<1> QED
  BY <1>4 DEF Store!Next

\* So is a new vault that cannot be written or secured.
LEMMA CreatingFails ==
  ASSUME WaitInv, IInv', Faults, NEW t \in Slot, worker[t] # NoJob, Creating(t), ~Writes(t)', Only(t)',
         worker[t].path \in Path,
         \/ disk' = [disk EXCEPT ![worker[t].path] = Absent]
         \/ disk' = [disk EXCEPT ![worker[t].path] = Damaged],
         UNCHANGED <<vault, key, password, vault_path>>
  PROVE  Store!Next
<1> DEFINE w == worker[t]
<1>1. Only(t) /\ Making(w) /\ w \in Job /\ JobOK(w) /\ TypeOK /\ TypeOK'
  BY Active, CourseKind DEF Creating, WaitInv, IInv
<1>2. ViewOf(t) /\ ViewOf(t)'
  BY <1>1, View, ViewNext DEF Viewed
<1>3. /\ pendingNow = [path |-> w.path, image |-> Result(w)] /\ pendingNow' = NoPath
      /\ storedNow = [disk EXCEPT ![w.path] = Absent] /\ storedNow' = disk'
  BY <1>2 DEF ViewOf
<1>4. storedNow' = [storedNow EXCEPT ![w.path] = Damaged] \/ storedNow' = [storedNow EXCEPT ![w.path] = Absent]
  BY <1>1, <1>3 DEF TypeOK
<1>5. sessionNow = NoVault
  BY <1>1 DEF Making, sessionNow
<1>6. w.vault \in VaultValue /\ w.key \in Id /\ w.pass \in Password
  BY <1>1 DEF JobOK, Job, Creating
<1>7. Result(w) \in Image
  BY <1>6 DEF Result, Sealed, Image
<1> QED
  BY <1>3, <1>4, <1>5, <1>7, Fails

\* The file of a managed vault is a new one of the store.
LEMMA ManagedCreateSeen ==
  ASSUME WaitInv, IInv', started <= MaxStarts, NEW t \in Thread, ManagedCreate(t)
  PROVE  Store!Next \/ UNCHANGED Store!storeVars
<1> DEFINE w == worker[t]
<1>1. /\ t \in Slot /\ w # NoJob /\ w.kind = "managed" /\ w.pc = "begin"
      /\ UNCHANGED <<vault, key, password, vault_path>>
  BY DEF ManagedCreate, Live, Slot, NoJob, appVars
<1>2. /\ TypeOK /\ TypeOK' /\ Only(t) /\ w \in Job /\ worker \in [Slot -> Job] /\ Making(w) /\ w.path \in Path
      /\ ~Writes(t)
  BY <1>1, Active, CourseKind DEF WaitInv, IInv, TypeOK, JobOK, Job, Writes, Creating, Copying, Saving
<1>3. CASE disk' = disk /\ Fail(t)
  <2>1. worker' = [worker EXCEPT ![t] = worker'[t]] /\ ~Writes(t)'
    BY <1>1, <1>2, <1>3, FailMoves DEF Writes, Creating, Copying, Saving
  <2> QED
    BY <1>1, <1>2, <1>3, <2>1, StillOnly, Unseen
<1>4. CASE /\ disk' = [disk EXCEPT ![w.path] = Damaged]
           /\ SetJob(t, [w EXCEPT !.file = w.path, !.pc = "write"])
  <2>1. /\ worker' = [worker EXCEPT ![t] = worker'[t]] /\ worker'[t].kind = "managed" /\ worker'[t].pc = "write"
        /\ worker'[t].path = w.path /\ worker'[t].vault = w.vault /\ worker'[t].key = w.key
        /\ worker'[t].pass = w.pass
    BY <1>1, <1>2, <1>4 DEF SetJob, Job
  <2>2. Creating(t)' /\ Result(worker'[t]) = Result(w)
    BY <2>1 DEF Creating, Result
  <2>3. Result(w) \in Bounded
    BY <1>1, ResultBounded DEF Captured, HasResult
  <2>4. Store!New(w.path, Result(w))
    BY <1>1, <1>2, <1>4, <2>1, <2>2, <2>3, StillOnly, NewSeen
  <2> QED
    BY <1>2, <2>3, <2>4 DEF Store!Next
<1> QED
  BY <1>3, <1>4 DEF ManagedCreate

\* Securing and opening it again shows nothing, unless it cannot be secured.
LEMMA ManagedSeen ==
  ASSUME WaitInv, IInv', NEW t \in Thread, ManagedSecure(t) \/ ManagedReopen(t)
  PROVE  Store!Next \/ UNCHANGED Store!storeVars
<1> DEFINE w == worker[t]
<1>1. /\ t \in Slot /\ w # NoJob /\ w.kind = "managed" /\ w.pc \in {"secure", "reopen"}
      /\ UNCHANGED <<vault, key, password, vault_path>>
  BY DEF ManagedSecure, ManagedReopen, Live, Slot, NoJob, appVars
<1>2. TypeOK /\ TypeOK' /\ Only(t) /\ w \in Job /\ worker \in [Slot -> Job] /\ Creating(t)
  BY <1>1, Active DEF WaitInv, IInv, TypeOK, Creating
<1> DEFINE GoesOnWell ==
             /\ disk' = disk /\ worker' = [worker EXCEPT ![t] = worker'[t]] /\ worker'[t].kind = "managed"
             /\ worker'[t].pc = "reopen" \/ (worker'[t].pc = "posted" /\ worker'[t].ok)
             /\ worker'[t].path = w.path /\ worker'[t].vault = w.vault /\ worker'[t].key = w.key
             /\ worker'[t].pass = w.pass
           FailsNow ==
             /\ Faults /\ w.path \in Path /\ disk' = [disk EXCEPT ![w.path] = Absent]
             /\ worker' = [worker EXCEPT ![t].pc = "posted", ![t].ok = FALSE]
<1>3. GoesOnWell \/ FailsNow
  <2>1. CASE ManagedSecure(t)
    <3>1. (Step(t, "reopen") /\ disk' = disk) \/ FailsNow
      BY <2>1, ManagedFails
    <3> QED
      BY <1>1, <1>2, <3>1 DEF Step, Job
  <2>2. CASE ManagedReopen(t)
    <3>1. Post(t, [w EXCEPT !.file = w.path, !.ok = TRUE]) /\ disk' = disk
      BY <2>2, ManagedReopens DEF ManagedReopen
    <3> QED
      BY <1>1, <1>2, <3>1 DEF Post, SetJob, Job
  <2> QED
    BY <2>1, <2>2
<1>4. CASE GoesOnWell
  <2>1. Creating(t)' /\ Result(worker'[t]) = Result(w)
    BY <1>4 DEF Creating, Result
  <2> QED
    BY <1>1, <1>2, <1>4, <2>1, StillOnly, StillWriting
<1>5. CASE FailsNow
  <2>1. worker' = [worker EXCEPT ![t] = worker'[t]] /\ worker'[t].kind = "managed"
        /\ worker'[t].pc = "posted" /\ ~worker'[t].ok
    BY <1>1, <1>2, <1>5 DEF Job
  <2>2. ~Writes(t)' /\ Only(t)'
    BY <1>1, <1>2, <2>1, StillOnly DEF Writes, Creating, Copying, Saving
  <2> QED
    BY <1>1, <1>2, <1>5, <2>2, CreatingFails
<1> QED
  BY <1>3, <1>4, <1>5

\* A change that cannot be written, before the file is truncated or after.
LEMMA ChangingFails ==
  ASSUME WaitInv, IInv', started <= MaxStarts, Faults, NEW t \in Thread, Post(t, worker[t]), disk' = disk,
         worker[t].kind \in {"passwd", "mirror", "unmirror"}, worker[t].pc \in {"open", "write"},
         UNCHANGED <<vault, key, password, vault_path>>
  PROVE  Store!Next
<1> DEFINE w == worker[t]
<1>1. t \in Slot /\ w # NoJob /\ Copying(t)
  BY DEF Slot, NoJob, Copying
<1>2. TypeOK /\ TypeOK' /\ Only(t) /\ w \in Job /\ worker \in [Slot -> Job] /\ Changing(w)
  BY <1>1, Active, CourseKind DEF WaitInv, IInv, TypeOK
<1>3. ~w.ok /\ vault # NoVault /\ w.path = vault_path /\ (w.pc = "write" => disk[vault_path] = Damaged)
  BY <1>2 DEF Changing
<1>4. /\ worker' = [worker EXCEPT ![t] = worker'[t]] /\ worker'[t].kind = w.kind
      /\ worker'[t].pc = "posted" /\ ~worker'[t].ok
  BY <1>1, <1>2, <1>3 DEF Post, SetJob, Job
<1>5. ~Writes(t)' /\ Only(t)'
  BY <1>1, <1>2, <1>4, StillOnly DEF Writes, Creating, Copying, Saving
<1>6. ViewOf(t) /\ ViewOf(t)'
  BY <1>1, <1>2, <1>5, View, ViewNext DEF Viewed
<1>7. vault_path \in Path
  BY <1>3, OpenSessionFacts
<1>8. pendingNow = [path |-> vault_path, image |-> Result(w)] /\ pendingNow' = NoPath /\ storedNow' = disk
  BY <1>1, <1>3, <1>5, <1>6 DEF ViewOf
<1>9. storedNow = disk
  BY <1>1, <1>2, <1>3, <1>6, <1>7 DEF ViewOf, TypeOK
<1>10. storedNow' = [storedNow EXCEPT ![vault_path] = storedNow[vault_path]]
  BY <1>2, <1>8, <1>9 DEF TypeOK
<1>11. Result(w) \in Image
  BY <1>1, ResultBounded, BoundedAreImages DEF Captured, HasResult
<1> QED
  BY <1>7, <1>8, <1>10, <1>11, Fails

\* Truncating starts a new vault, or risks the file that is being changed.
LEMMA TruncateSeen ==
  ASSUME WaitInv, IInv', started <= MaxStarts, NEW t \in Thread, OpenForWrite(t),
         Step(t, "write"), disk' = [disk EXCEPT ![worker[t].path] = Damaged]
  PROVE  Store!Next
<1> DEFINE w == worker[t]
<1>1. /\ t \in Slot /\ w # NoJob /\ w.kind \in {"create", "passwd", "mirror", "unmirror"} /\ w.pc = "open"
      /\ UNCHANGED <<vault, key, password, vault_path>>
  BY DEF OpenForWrite, Live, Slot, NoJob, appVars
<1>2. TypeOK /\ TypeOK' /\ Only(t) /\ w \in Job /\ worker \in [Slot -> Job]
  BY <1>1, Active DEF WaitInv, IInv, TypeOK
<1>3. w.path \in Path
  BY OpensForWrite
<1>4. /\ worker' = [worker EXCEPT ![t] = worker'[t]] /\ worker'[t].kind = w.kind /\ worker'[t].pc = "write"
      /\ worker'[t].path = w.path /\ worker'[t].vault = w.vault /\ worker'[t].key = w.key
      /\ worker'[t].pass = w.pass
  BY <1>1, <1>2, <1>3 DEF Step, Job
<1>5. Result(worker'[t]) = Result(w)
  BY <1>4 DEF Result
<1>6. CASE w.kind = "create"
  <2>1. Making(w) /\ ~Writes(t) /\ Creating(t)'
    BY <1>1, <1>4, <1>6, Active, CourseKind DEF Writes, Creating, Copying, Saving
  <2>2. Result(w) \in Bounded
    BY <1>1, <1>6, ResultBounded DEF Captured, HasResult
  <2>3. Store!New(w.path, Result(w))
    BY <1>1, <1>2, <1>3, <1>4, <1>5, <2>1, <2>2, StillOnly, NewSeen
  <2> QED
    BY <1>3, <2>2, <2>3 DEF Store!Next
<1>7. CASE w.kind # "create"
  <2>1. Copying(t) /\ Copying(t)' /\ Only(t)'
    BY <1>1, <1>2, <1>4, <1>7, StillOnly DEF Copying
  <2>2. ViewOf(t) /\ ViewOf(t)'
    BY <1>1, <1>2, <2>1, View, ViewNext DEF Viewed
  <2>3. /\ pendingNow = [path |-> w.path, image |-> Result(w)] /\ pendingNow' = pendingNow
        /\ storedNow' = [storedNow EXCEPT ![w.path] = Damaged]
    BY <1>1, <1>2, <1>3, <1>4, <1>5, <2>1, <2>2 DEF ViewOf, TypeOK
  <2>4. Result(w) \in Bounded
    BY <1>1, <1>7, ResultBounded DEF Captured, HasResult
  <2>5. Result(w) \in Image
    BY <2>4, BoundedAreImages
  <2>6. Changing(w) /\ vault # NoVault
    BY <1>1, <1>7, Active, CourseKind DEF Changing
  <2>7. sessionNow = [path |-> vault_path, image |-> Current] /\ sessionNow' = sessionNow
    BY <1>1, <2>6 DEF sessionNow, Current
  <2>8. sessionNow # NoVault /\ pendingNow # NoPath
    BY <1>3, <2>3, <2>5, <2>6, <2>7, OpenSessionFacts, StoreAssumption
  <2>9. Store!Empty
    BY <2>3, <2>7, <2>8 DEF Store!Empty
  <2> QED
    BY <2>9 DEF Store!Next
<1> QED
  BY <1>6, <1>7

\* A new vault whose file cannot be opened leaves nothing behind.
LEMMA OpenForWriteSeen ==
  ASSUME WaitInv, IInv', started <= MaxStarts, NEW t \in Thread, OpenForWrite(t)
  PROVE  Store!Next \/ UNCHANGED Store!storeVars
<1> DEFINE w == worker[t]
<1>1. /\ t \in Slot /\ w # NoJob /\ w.kind \in {"create", "passwd", "mirror", "unmirror"} /\ w.pc = "open"
      /\ UNCHANGED <<vault, key, password, vault_path>>
  BY DEF OpenForWrite, Live, Slot, NoJob, appVars
<1>2. CASE Step(t, "write") /\ disk' = [disk EXCEPT ![w.path] = Damaged]
  BY <1>2, TruncateSeen
<1>3. CASE Faults /\ Post(t, w) /\ disk' = disk
  <2>1. CASE w.kind # "create"
    BY <1>1, <1>3, <2>1, ChangingFails
  <2>2. CASE w.kind = "create"
    <3>1. Only(t) /\ w \in Job /\ worker \in [Slot -> Job] /\ Making(w) /\ TypeOK /\ TypeOK'
      BY <1>1, <2>2, Active, CourseKind DEF WaitInv, IInv, TypeOK
    <3>2. ~w.ok
      BY <1>1, <3>1 DEF Making
    <3>3. /\ worker' = [worker EXCEPT ![t] = worker'[t]] /\ worker'[t].kind = w.kind
          /\ worker'[t].pc = "posted" /\ ~worker'[t].ok
      BY <1>1, <1>3, <3>1, <3>2 DEF Post, SetJob, Job
    <3>4. ~Writes(t) /\ ~Writes(t)' /\ Only(t)'
      BY <1>1, <2>2, <3>1, <3>3, StillOnly DEF Writes, Creating, Copying, Saving
    <3> QED
      BY <1>1, <1>3, <3>1, <3>4, Unseen
  <2> QED
    BY <2>1, <2>2
<1> QED
  BY <1>2, <1>3, OpensForWrite

\* What is written counts once the closure has run.
LEMMA WriteOutUnseen ==
  ASSUME WaitInv, IInv', NEW t \in Thread, WriteOut(t)
  PROVE  UNCHANGED Store!storeVars
<1> DEFINE w == worker[t]
<1>1. /\ t \in Slot /\ w # NoJob /\ w.pc = "write" /\ UNCHANGED <<vault, key, password, vault_path>>
  BY DEF WriteOut, Slot, NoJob, appVars
<1>2. /\ TypeOK /\ TypeOK' /\ Only(t) /\ JobOK(w)
  BY <1>1, Active DEF WaitInv, IInv, TypeOK
<1>3. w.path \in Path /\ disk' = [disk EXCEPT ![w.path] = Result(w)]
  BY WritesOut
<1>4. \A p \in Path \ {w.path} : disk'[p] = disk[p]
  BY <1>2, <1>3 DEF TypeOK
<1>5. /\ worker' = [worker EXCEPT ![t] = worker'[t]] /\ worker'[t].kind = w.kind
      /\ worker'[t].path = w.path /\ Result(worker'[t]) = Result(w)
      /\ IF w.kind = "managed" THEN worker'[t].pc = "secure" ELSE worker'[t].pc = "posted" /\ worker'[t].ok
  BY WriterMoves DEF Result
<1>6. (Creating(t) /\ Creating(t)') \/ (Emptied(t) /\ Emptied(t)')
  BY <1>1, <1>2, <1>5 DEF Creating, Copying, Emptied, JobOK
<1> QED
  BY <1>1, <1>2, <1>4, <1>5, <1>6, StillOnly, StillWriting

\* A write that fails is one of the store.
LEMMA WriteFailSeen ==
  ASSUME WaitInv, WaitInv', started <= MaxStarts, NEW t \in Thread, WriteFail(t)
  PROVE  Store!Next
<1> DEFINE w == worker[t]
<1>1. /\ t \in Slot /\ w # NoJob /\ w.pc = "write" /\ UNCHANGED <<vault, key, password, vault_path>>
  BY DEF WriteFail, Slot, NoJob, appVars
<1>2. /\ TypeOK /\ TypeOK' /\ Only(t) /\ w \in Job /\ worker \in [Slot -> Job] /\ JobOK(w) /\ IInv'
      /\ Making(w) \/ Changing(w)
  BY <1>1, Active, CourseKind DEF WaitInv, IInv, TypeOK, JobOK
<1>3. Faults /\ ~w.ok
  BY <1>1, <1>2 DEF WriteFail, Making, Changing, JobOK
<1>4. CASE Making(w)
  <2>1. w.kind \in {"create", "managed"} /\ w.path \in Path /\ disk[w.path] = Damaged /\ Creating(t)
    BY <1>1, <1>2, <1>4 DEF Making, Creating, JobOK, Job, WaitInv, IInv, TypeOK, PathKnown
  <2>2. \/ w.kind = "managed" /\ disk' = [disk EXCEPT ![w.path] = Absent] /\ Fail(t)
        \/ w.kind = "create" /\ disk' = [disk EXCEPT ![w.path] = Damaged] /\ Post(t, w)
    <3>1. disk = [disk EXCEPT ![w.path] = Damaged]
      BY <1>2, <2>1 DEF TypeOK
    <3> QED
      BY <2>1, <3>1 DEF WriteFail
  <2>3. /\ worker' = [worker EXCEPT ![t] = worker'[t]] /\ worker'[t].kind = w.kind
        /\ worker'[t].pc = "posted" /\ ~worker'[t].ok
    <3>1. CASE Fail(t)
      BY <1>1, <1>2, <3>1, FailMoves
    <3>2. CASE Post(t, w)
      BY <1>1, <1>2, <1>3, <3>2 DEF Post, SetJob, Job
    <3> QED
      BY <2>2, <3>1, <3>2
  <2>4. ~Writes(t)' /\ Only(t)'
    BY <1>1, <1>2, <2>3, StillOnly DEF Writes, Creating, Copying, Saving
  <2> QED
    BY <1>1, <1>2, <1>3, <2>1, <2>2, <2>4, CreatingFails
<1>5. CASE Changing(w)
  <2>1. w.kind \in {"passwd", "mirror", "unmirror"} /\ disk' = disk /\ Post(t, w)
    BY <1>5 DEF Changing, WriteFail
  <2> QED
    BY <1>1, <1>2, <1>3, <2>1, ChangingFails
<1> QED
  BY <1>2, <1>4, <1>5

\* A change of the password or of the mirrors is on its way from the moment the
\* handle is taken; a mirror that is not there changes nothing.
LEMMA TakeSessionSeen ==
  ASSUME WaitInv, IInv', WaitInv', started <= MaxStarts, NEW t \in Thread, TakeSession(t)
  PROVE  Store!Next \/ UNCHANGED Store!storeVars
<1> DEFINE w == worker[t]
           taken == [w EXCEPT !.file = vault_file, !.path = vault_path]
           j == [taken EXCEPT !.pc = "open", !.vault = Snapshot(w.kind), !.key = key,
                              !.pass = IF w.kind = "passwd" THEN @ ELSE password]
<1>1. /\ t \in Slot /\ w # NoJob /\ w.kind \in {"passwd", "mirror", "unmirror"} /\ w.pc = "begin"
      /\ UNCHANGED <<vault, key, password, vault_path, disk, started>>
  BY DEF TakeSession, Live, Slot, NoJob
<1>2. /\ TypeOK /\ TypeOK' /\ Only(t) /\ w \in Job /\ worker \in [Slot -> Job] /\ Changing(w) /\ ~Writes(t)
      /\ MaxStarts \in Nat
  BY <1>1, SessionAssumption, Active, CourseKind DEF WaitInv, IInv, TypeOK, Writes, Creating, Copying, Saving
<1>3. vault # NoVault /\ ~w.ok
  BY <1>1, <1>2 DEF Changing
<1>4. Post(t, taken) \/ SetJob(t, j)
  BY <1>3, OpenSessionFacts DEF TakeSession
<1>5. CASE Post(t, taken)
  <2>1. worker' = [worker EXCEPT ![t] = worker'[t]] /\ worker'[t].pc = "posted" /\ worker'[t].ok = w.ok
    BY <1>1, <1>2, <1>5 DEF Post, SetJob, Job
  <2>2. ~Writes(t)'
    BY <1>3, <2>1 DEF Writes, Creating, Copying, Saving
  <2> QED
    BY <1>1, <1>2, <2>1, <2>2, StillOnly, Unseen
<1>6. CASE SetJob(t, j)
  <2>1. /\ worker' = [worker EXCEPT ![t] = worker'[t]] /\ worker'[t].kind = w.kind
        /\ worker'[t].pc = "open" /\ worker'[t].path = vault_path /\ worker'[t].key = key
    BY <1>1, <1>2, <1>6 DEF SetJob, Job
  <2>2. Copying(t)' /\ Only(t)'
    BY <1>1, <1>2, <2>1, StillOnly DEF Copying
  <2> DEFINE i == Result(worker'[t])
  <2>3. i \in Bounded /\ i.key = key
    <3>1. HasResult(worker'[t])
      BY <1>1, <2>1 DEF HasResult
    <3>2. i \in Bounded
      BY <1>1, <3>1, ResultBoundedNext DEF Captured
    <3> QED
      BY <2>1, <3>2 DEF Result, Sealed
  <2>4. ViewOf(t) /\ ViewOf(t)'
    BY <1>1, <1>2, <2>2, View, ViewNext DEF Viewed
  <2>5. storedNow = disk /\ pendingNow = NoPath
    BY <1>2, <2>4 DEF ViewOf
  <2>6. storedNow' = disk /\ pendingNow' = [path |-> vault_path, image |-> i]
    <3>1. disk' = disk
      BY <1>1
    <3> QED
      BY <2>1, <2>2, <2>4, <3>1 DEF ViewOf
  <2>7. sessionNow = [path |-> vault_path, image |-> Current] /\ sessionNow' = sessionNow /\ Current.key = key
    BY <1>1, <1>3 DEF sessionNow, Current, Sealed
  <2>8. sessionNow # NoVault
    BY <1>3, <2>7, OpenSessionFacts, StoreAssumption
  <2>9. Store!Prepare(i)
    BY <2>3, <2>5, <2>6, <2>7, <2>8 DEF Store!Prepare, Store!Resting, Store!SameKey, Store!At
  <2> QED
    BY <2>3, <2>9 DEF Store!Next
<1> QED
  BY <1>4, <1>5, <1>6

\* A sync only moves the handle, and so does the end of a save of the settings.
LEMMA HandleUnseen ==
  ASSUME WaitInv, IInv', NEW t \in Slot,
         (t \in Thread /\ (SyncTake(t) \/ SyncCopy(t))) \/ (t = Saver /\ (SaverReceive \/ SaverRestore))
  PROVE  UNCHANGED Store!storeVars
<1> DEFINE w == worker[t]
<1>1. UNCHANGED <<vault, key, password, vault_path, disk>>
  BY DEF SyncTake, SyncCopy, SaverReceive, SaverRestore, appVars
<1>2. TypeOK /\ TypeOK' /\ worker \in [Slot -> Job]
  BY DEF WaitInv, IInv, TypeOK
<1>3. CASE t \in Thread /\ (SyncTake(t) \/ SyncCopy(t))
  <2>1. w # NoJob /\ w.kind = "sync"
    BY <1>3 DEF SyncTake, SyncCopy, Live, NoJob
  <2>2. worker' = [worker EXCEPT ![t] = worker'[t]] /\ worker'[t].kind \in {"sync", "none"}
    <3>1. CASE SyncTake(t)
      <4>1. vault # NoVault
        BY <2>1, Active, CourseKind DEF Syncing
      <4>2. SetJob(t, [w EXCEPT !.file = vault_file, !.path = vault_path, !.pc = "copy"])
        BY <3>1, <4>1 DEF SyncTake
      <4> QED
        BY <1>2, <2>1, <4>2 DEF SetJob, Job
    <3>2. CASE SyncCopy(t)
      BY <1>2, <2>1, <3>2 DEF SyncCopy, Post, SetJob, Job
    <3> QED
      BY <1>3, <3>1, <3>2
  <2>3. Only(t) /\ ~Writes(t) /\ ~Writes(t)'
    BY <2>1, <2>2, Active DEF Writes, Creating, Copying, Saving
  <2> QED
    BY <1>1, <1>2, <2>2, <2>3, StillOnly, Unseen
<1>4. CASE t = Saver /\ SaverReceive
  <2>1. Idle /\ w.kind = "none"
    BY <1>4 DEF SaverReceive, WaitInv, Busy, NoJob
  <2>2. worker' = [worker EXCEPT ![t] = worker'[t]] /\ worker'[t].kind = "generator" /\ worker'[t].pc = "begin"
    BY <1>2, <1>4 DEF SaverReceive, SetJob, NoJob
  <2>3. Only(t) /\ ~Writes(t) /\ ~Writes(t)'
    BY <2>1, <2>2 DEF Idle, NoneWorks, Only, Writes, Creating, Copying, Saving
  <2> QED
    BY <1>1, <1>2, <2>2, <2>3, StillOnly, Unseen
<1>5. CASE t = Saver /\ SaverRestore
  <2>1. w # NoJob /\ w.kind = "generator" /\ w.pc = "restore"
    BY <1>5 DEF SaverRestore, Live, NoJob
  <2>2. worker' = [worker EXCEPT ![t] = worker'[t]] /\ worker'[t].kind = "none"
    BY <1>2, <1>5 DEF SaverRestore, Finish, SetJob, NoJob
  <2>3. Only(t) /\ ~Writes(t) /\ ~Writes(t)'
    BY <2>1, <2>2, Active DEF Writes, Creating, Copying, Saving
  <2> QED
    BY <1>1, <1>2, <2>2, <2>3, StillOnly, Unseen
<1> QED
  BY <1>3, <1>4, <1>5

\* An edit shows in the session before it is saved.
LEMMA EditSeen ==
  ASSUME WaitInv, WaitInv', started <= MaxStarts, NEW t \in Slot, worker[t] # NoJob, ~Writes(t), Saving(t)',
         worker' = [worker EXCEPT ![t] = worker'[t]], vault # NoVault, vault' = Bumped,
         UNCHANGED <<key, password, vault_path, disk, started>>
  PROVE  Store!Next
<1>1. TypeOK /\ TypeOK' /\ Only(t) /\ Only(t)'
  BY Active, StillOnly DEF WaitInv, IInv
<1>2. ViewOf(t) /\ ViewOf(t)'
  BY <1>1, View, ViewNext DEF Viewed
<1>3. /\ storedNow = disk /\ pendingNow = NoPath
      /\ storedNow' = storedNow /\ pendingNow' = [path |-> vault_path, image |-> Current']
  BY <1>2 DEF ViewOf
<1>4. /\ vault' # NoVault /\ vault' \in VaultValue /\ vault'.id = vault.id /\ vault'.seq = vault.seq + 1
      /\ vault'.mirrors = vault.mirrors
  BY OpenSessionFacts, SessionAssumption DEF Bumped, VaultValue
<1>5. vault'.seq <= 2 * started
  BY <1>4, OpenSessionFacts, SessionAssumption DEF WaitInv, Session
<1>6. Current' \in Bounded /\ Current'.key = key /\ Current.key = key
  BY <1>4, <1>5, OpenSessionFacts, SessionAssumption DEF Current, Sealed, Bounded, VaultValue
<1>7. /\ sessionNow = [path |-> vault_path, image |-> Current]
      /\ sessionNow' = [path |-> vault_path, image |-> Current']
  BY <1>4 DEF sessionNow
<1>8. sessionNow # NoVault
  BY <1>7, OpenSessionFacts, StoreAssumption
<1>9. Store!Edit(Current')
  BY <1>3, <1>6, <1>7, <1>8 DEF Store!Edit, Store!Resting, Store!SameKey, Store!At
<1> QED
  BY <1>6, <1>9 DEF Store!Next

\* An edit of the entries,
LEMMA EditMutateSeen ==
  ASSUME WaitInv, WaitInv', started <= MaxStarts, NEW t \in Thread, EditMutate(t)
  PROVE  Store!Next
<1> DEFINE w == worker[t]
<1>1. /\ t \in Slot /\ w # NoJob /\ w.kind \in {"edit", "totp"} /\ w.pc = "begin"
      /\ UNCHANGED <<key, password, vault_path, disk, started>>
  BY DEF EditMutate, Live, Slot, NoJob
<1>2. Editing(w) /\ w \in Job /\ worker \in [Slot -> Job]
  BY <1>1, Active, CourseKind
<1>3. vault # NoVault /\ vault' = Bumped /\ SetJob(t, [w EXCEPT !.key = key, !.pass = password, !.pc = "save"])
  BY <1>2, OpenSessionFacts DEF EditMutate, Editing
<1>4. worker' = [worker EXCEPT ![t] = worker'[t]] /\ worker'[t].kind = w.kind /\ worker'[t].pc = "save"
  BY <1>1, <1>2, <1>3 DEF SetJob, Job
<1>5. ~Writes(t) /\ Saving(t)'
  BY <1>1, <1>4 DEF Writes, Creating, Copying, Saving
<1> QED
  BY <1>1, <1>3, <1>4, <1>5, EditSeen

\* and one of the settings.
LEMMA SaverTakeSeen ==
  ASSUME WaitInv, WaitInv', started <= MaxStarts, SaverTake
  PROVE  Store!Next
<1> DEFINE w == worker[Saver]
<1>1. /\ Saver \in Slot /\ w # NoJob /\ w.kind = "generator" /\ w.pc = "begin"
      /\ UNCHANGED <<key, password, vault_path, disk, started>>
  BY DEF SaverTake, Live, Slot, NoJob
<1>2. Generating(w) /\ w \in Job /\ worker \in [Slot -> Job]
  BY <1>1, Active, CourseKind
<1>3. /\ vault # NoVault /\ vault' = Bumped
      /\ SetJob(Saver, [w EXCEPT !.file = vault_file, !.path = vault_path,
                          !.key = key, !.pass = password, !.pc = "save"])
  BY <1>2, OpenSessionFacts DEF SaverTake, Generating
<1>4. worker' = [worker EXCEPT ![Saver] = worker'[Saver]] /\ worker'[Saver].kind = w.kind /\ worker'[Saver].pc = "save"
  BY <1>1, <1>2, <1>3 DEF SetJob, Job
<1>5. ~Writes(Saver) /\ Saving(Saver)'
  BY <1>1, <1>4 DEF Writes, Creating, Copying, Saving
<1> QED
  BY <1>1, <1>3, <1>4, <1>5, EditSeen

\* What was on its way is in the file, and in the session.
LEMMA Settles ==
  ASSUME NEW i, vault' # NoVault, Current' = i, pendingNow = [path |-> vault_path', image |-> i],
         storedNow' = [storedNow EXCEPT ![vault_path'] = i], pendingNow' = NoPath,
         vault_path' \in Path, i \in Image
  PROVE  Store!Next
<1>1. pendingNow # NoPath
  BY StoreAssumption
<1>2. sessionNow' = pendingNow
  BY DEF sessionNow
<1>3. pendingNow.path = vault_path' /\ pendingNow.image = i
  OBVIOUS
<1>4. Store!Settle
  BY <1>1, <1>2, <1>3 DEF Store!Settle
<1> QED
  BY <1>4 DEF Store!Next

\* The save of an edit, or its failure.
LEMMA SaveSeen ==
  ASSUME WaitInv, WaitInv', NEW t \in Slot, worker[t] # NoJob, Saving(t), ~Writes(t)',
         worker' = [worker EXCEPT ![t] = worker'[t]], vault # NoVault,
         \/ disk' = [disk EXCEPT ![vault_path] = Current]
         \/ Faults /\ \E c \in {disk[vault_path], Damaged} : disk' = [disk EXCEPT ![vault_path] = c],
         UNCHANGED <<vault, key, password, vault_path>>
  PROVE  Store!Next
<1>1. TypeOK /\ TypeOK' /\ Only(t) /\ Only(t)'
  BY Active, StillOnly DEF WaitInv, IInv
<1>2. ViewOf(t) /\ ViewOf(t)' /\ Current' = Current
  BY <1>1, View, ViewNext DEF Viewed, Current
<1>3. /\ pendingNow = [path |-> vault_path, image |-> Current] /\ pendingNow' = NoPath
      /\ storedNow = disk /\ storedNow' = disk'
  BY <1>2 DEF ViewOf
<1>4. CASE disk' = [disk EXCEPT ![vault_path] = Current]
  BY <1>2, <1>3, <1>4, Settles, OpenSessionFacts
<1>5. CASE Faults /\ \E c \in {disk[vault_path], Damaged} : disk' = [disk EXCEPT ![vault_path] = c]
  BY <1>2, <1>3, <1>5, Fails, OpenSessionFacts
<1> QED
  BY <1>4, <1>5

\* An edit that is saved,
LEMMA EditSaveSeen ==
  ASSUME WaitInv, WaitInv', NEW t \in Thread, EditSave(t)
  PROVE  Store!Next
<1> DEFINE w == worker[t]
<1>1. /\ t \in Slot /\ w # NoJob /\ w.kind \in {"edit", "totp"} /\ w.pc = "save"
      /\ UNCHANGED <<vault, key, password, vault_path, vault_file, screen, used, started>>
  BY DEF EditSave, Live, Slot, NoJob, appVars
<1>2. Editing(w) /\ w \in Job /\ worker \in [Slot -> Job] /\ \A q \in Path : Held(q) <=> vault_file = q \/ w.file = q
  BY <1>1, Active, CourseKind
<1>3. vault # NoVault /\ w.key = key /\ w.pass = password /\ w.file = NoPath /\ Behind
  BY <1>1, <1>2 DEF Editing
<1>4. PICK ok \in BOOLEAN : SaveVaultState(key, password, ok) /\ Post(t, [w EXCEPT !.ok = ok])
  BY <1>3 DEF EditSave
<1>5. \/ SaveTo(vault_path, key, password, ok)
      \/ ~Held(vault_path) /\ SaveByPath(vault_path, key, password, ok)
  BY <1>2, <1>3, <1>4, OpenSessionFacts DEF SaveVaultState
<1>6. \/ disk' = [disk EXCEPT ![vault_path] = Current]
      \/ Faults /\ \E c \in {disk[vault_path], Damaged} : disk' = [disk EXCEPT ![vault_path] = c]
  BY <1>1, <1>3, <1>5, SaveRests
<1>7. worker' = [worker EXCEPT ![t] = worker'[t]] /\ worker'[t].kind = w.kind /\ worker'[t].pc = "posted"
  BY <1>1, <1>2, <1>4 DEF Post, SetJob, Job
<1>8. Saving(t) /\ ~Writes(t)'
  BY <1>1, <1>7 DEF Writes, Creating, Copying, Saving
<1> QED
  BY <1>1, <1>3, <1>6, <1>7, <1>8, SaveSeen

\* and settings that are.
LEMMA SaverWriteSeen ==
  ASSUME WaitInv, WaitInv', SaverWrite
  PROVE  Store!Next
<1> DEFINE w == worker[Saver]
<1>1. /\ Saver \in Slot /\ w # NoJob /\ w.kind = "generator" /\ w.pc = "save"
      /\ UNCHANGED <<vault, key, password, vault_path, vault_file, screen, used, started>>
  BY DEF SaverWrite, Live, Slot, NoJob, appVars
<1>2. Generating(w) /\ w \in Job /\ worker \in [Slot -> Job] /\ \A q \in Path : Held(q) <=> vault_file = q \/ w.file = q
  BY <1>1, Active, CourseKind
<1>3. /\ vault # NoVault /\ w.key = key /\ w.pass = password /\ w.path = vault_path
      /\ w.file \in {vault_path, NoPath} /\ vault_file = NoPath /\ Behind
  BY <1>1, <1>2 DEF Generating
<1>4. PICK ok \in BOOLEAN : IF w.file # NoPath THEN SaveTo(w.file, key, password, ok)
                                             ELSE SaveByPath(vault_path, key, password, ok)
  BY <1>3 DEF SaverWrite
<1>5. \/ SaveTo(vault_path, key, password, ok)
      \/ ~Held(vault_path) /\ SaveByPath(vault_path, key, password, ok)
  BY <1>2, <1>3, <1>4, OpenSessionFacts
<1>6. \/ disk' = [disk EXCEPT ![vault_path] = Current]
      \/ Faults /\ \E c \in {disk[vault_path], Damaged} : disk' = [disk EXCEPT ![vault_path] = c]
  BY <1>1, <1>3, <1>5, SaveRests
<1>7. worker' = [worker EXCEPT ![Saver] = worker'[Saver]] /\ worker'[Saver].kind = w.kind /\ worker'[Saver].pc = "restore"
  BY <1>1, <1>2 DEF SaverWrite, Step, Job
<1>8. Saving(Saver) /\ ~Writes(Saver)'
  BY <1>1, <1>7 DEF Writes, Creating, Copying, Saving
<1> QED
  BY <1>1, <1>3, <1>6, <1>7, <1>8, SaveSeen

\* A favicon is stored, or left for the next save.
LEMMA IconFetchSeen ==
  ASSUME WaitInv, WaitInv', started <= MaxStarts, NEW t \in Thread, IconFetch(t)
  PROVE  Store!Next \/ UNCHANGED Store!storeVars
<1>1. /\ t \in Slot /\ Only(t) /\ Fetching(worker[t]) /\ Finish(t)
      /\ UNCHANGED <<key, password, vault_path, started>>
  BY IconFetchMoves
<1>2. TypeOK /\ TypeOK' /\ worker' = [worker EXCEPT ![t] = NoJob]
  BY <1>1 DEF WaitInv, IInv, Finish, SetJob
<1>3. Only(t)' /\ ~Writes(t) /\ ~Writes(t)'
  BY <1>1, <1>2 DEF TypeOK, Only, Writes, Creating, Copying, Saving, Fetching, NoJob
<1>4. CASE UNCHANGED <<vault, disk>>
  BY <1>1, <1>2, <1>3, <1>4, Unseen
<1>5. ASSUME NEW c \in {Sealed(Bumped, key, password), disk[vault_path]} \cup (IF Faults THEN {Damaged} ELSE {}),
             vault' = Bumped, disk' = [disk EXCEPT ![vault_path] = c]
      PROVE  Store!Next
  <2>1. vault # NoVault /\ "icon" \in Ops /\ vault.seq < 2 * started
    BY <1>1 DEF Fetching
  <2>2. storedNow = disk /\ pendingNow = NoPath /\ storedNow' = disk' /\ pendingNow' = NoPath
    BY <1>1, <1>2, <1>3, View, ViewNext DEF Viewed, ViewOf
  <2>3. /\ vault' # NoVault /\ vault' \in VaultValue /\ vault'.id = vault.id /\ vault'.seq = vault.seq + 1
        /\ vault'.mirrors = vault.mirrors
    BY <1>5, <2>1, OpenSessionFacts, SessionAssumption DEF Bumped, VaultValue
  <2>4. Current' \in Bounded /\ Current'.key = key /\ Current.key = key
    <3>1. vault'.seq \in 0..2 * MaxStarts /\ vault'.mirrors \in 0..MaxStarts
      BY <2>1, <2>3, OpenSessionFacts, SessionAssumption
    <3>2. key' = key /\ password' = password /\ key \in Id /\ password \in Password
      BY <1>1, <2>1, OpenSessionFacts
    <3> QED
      BY <2>3, <3>1, <3>2 DEF Current, Sealed, Bounded, VaultValue
  <2>5. /\ sessionNow = [path |-> vault_path, image |-> Current]
        /\ sessionNow' = [path |-> vault_path, image |-> Current']
    BY <1>1, <2>1, <2>3 DEF sessionNow
  <2>6. sessionNow # NoVault
    BY <2>1, <2>5, OpenSessionFacts, StoreAssumption
  <2>7. c \in {Current', storedNow[vault_path]} \cup (IF Faults THEN {Damaged} ELSE {})
    BY <1>1, <1>5, <2>2 DEF Current
  <2>8. /\ sessionNow.path = vault_path /\ sessionNow.image = Current
        /\ sessionNow' = [sessionNow EXCEPT !.image = Current']
    BY <2>5
  <2>9. storedNow' = [storedNow EXCEPT ![sessionNow.path] = c] /\ pendingNow' = pendingNow
    BY <1>5, <2>2, <2>8
  <2>10. Store!Resting /\ Store!SameKey(Current')
    BY <2>2, <2>4, <2>6, <2>8 DEF Store!Resting, Store!SameKey
  <2>11. Store!Late(Current')
    BY <2>1, <2>7, <2>8, <2>9, <2>10 DEF Store!Late
  <2> QED
    BY <2>4, <2>11 DEF Store!Next
<1> QED
  BY <1>4, <1>5, IconFetchMoves

\* A closure stores what its thread wrote, or opens what its thread read.
LEMMA RunClosureSeen ==
  ASSUME WaitInv, WaitInv', RunClosure
  PROVE  Store!Next \/ UNCHANGED Store!storeVars
<1>1. PICK t \in Slot :
           LET w == worker[t] IN
           /\ w # NoJob /\ w.pc = "posted" /\ Only(t) /\ ~settings /\ Course(w) /\ w \in Job /\ JobOK(w)
           /\ queue' = <<>> /\ UNCHANGED <<disk, settings, used, started>>
           /\ Finish(t) \/ (w.kind = "edit" /\ w.ok /\ "icon" \in Ops /\ SetJob(t, Fetch))
           /\ CASE w.kind \in {"unlock", "create", "managed"} -> OpenSession(w)
                [] w.kind = "passwd"                          -> PasswdDone(w)
                [] w.kind \in {"mirror", "unmirror"}          -> MirrorDone(w)
                [] w.kind = "sync"                            -> SyncDone(w)
                [] w.kind \in {"edit", "totp"}                -> EditDone(w)
  BY ClosureOfOne
<1> DEFINE w == worker[t]
<1>2. /\ TypeOK /\ TypeOK' /\ Only(t)' /\ disk' = disk /\ disk \in [Path -> Image \cup {Absent, Damaged}]
      /\ ViewOf(t) /\ storedNow' = disk /\ pendingNow' = NoPath /\ ~Writes(t)'
  <2>1. TypeOK /\ TypeOK' /\ disk' = disk /\ disk \in [Path -> Image \cup {Absent, Damaged}] /\ worker \in [Slot -> Job]
    BY <1>1 DEF WaitInv, IInv, TypeOK
  <2>2. worker'[t] \in {NoJob, Fetch} /\ \A u \in Slot \ {t} : worker'[u] = NoJob
    BY <1>1, <2>1 DEF Finish, SetJob, Only
  <2>3. Only(t)'
    BY <2>2 DEF Only
  <2>4. ~Writes(t)'
    <3>1. NoJob.kind = "none" /\ Fetch.kind = "icon"
      BY DEF NoJob, Fetch
    <3>2. worker'[t].kind \in {"none", "icon"}
      BY <2>2, <3>1
    <3> QED
      BY <3>2 DEF Writes, Creating, Copying, Saving
  <2>5. ViewOf(t)
    BY <1>1, <2>1, View DEF Viewed
  <2>6. storedNow' = disk' /\ pendingNow' = NoPath
    BY <2>1, <2>3, <2>4, ViewNext DEF Viewed, ViewOf
  <2> QED
    BY <2>1, <2>3, <2>4, <2>5, <2>6
<1>3. CASE ~w.ok \/ w.kind \in {"sync", "edit", "totp"}
  <2>1. ~Writes(t)
    BY <1>1, <1>3 DEF Writes, Creating, Copying, Saving
  <2>2. UNCHANGED <<vault, key, password, vault_path>>
    <3>1. CASE w.kind \in {"unlock", "create", "managed"}
      BY <1>1, <1>3, <3>1 DEF OpenSession, appVars
    <3>2. CASE w.kind = "passwd"
      BY <1>1, <1>3, <3>2 DEF PasswdDone
    <3>3. CASE w.kind \in {"mirror", "unmirror"}
      BY <1>1, <1>3, <3>3 DEF MirrorDone
    <3>4. CASE w.kind = "sync"
      BY <1>1, <3>4 DEF SyncDone
    <3>5. CASE w.kind \in {"edit", "totp"}
      BY <1>1, <3>5 DEF EditDone, appVars
    <3>6. w.kind \notin {"generator", "icon"}
      BY <1>1, CourseKind DEF Generating, Fetching
    <3> QED
      BY <1>1, <3>1, <3>2, <3>3, <3>4, <3>5, <3>6, CourseKind DEF Kind
  <2> QED
    BY <1>1, <1>2, <2>1, <2>2, Unseen
<1>4. CASE w.ok /\ w.kind = "unlock"
  <2>1. Unlocking(w) /\ OpenSession(w) /\ w.vault \in VaultValue
    BY <1>1, <1>4, CourseKind DEF JobOK, Job
  <2>2. vault = NoVault /\ disk[vault_path] = Result(w) /\ Holds(vault_path)
    BY <1>1, <1>4, <2>1 DEF Unlocking, Done
  <2>3. vault_path \in Path
    BY <1>4 DEF WaitInv, IInv, TypeOK, PathKnown
  <2>4. vault' = w.vault /\ key' = w.key /\ password' = w.pass /\ vault_path' = vault_path
    BY <1>4, <2>1 DEF OpenSession
  <2>5. vault' # NoVault
    BY <2>1, <2>4, SessionAssumption
  <2>6. Current' = disk[vault_path]
    BY <2>2, <2>4 DEF Current, Result
  <2>7. sessionNow = NoVault /\ sessionNow' = [path |-> vault_path, image |-> disk[vault_path]]
    BY <2>2, <2>4, <2>5, <2>6 DEF sessionNow
  <2>8. ~Writes(t)
    BY <1>4 DEF Writes, Creating, Copying, Saving
  <2>9. storedNow = disk /\ pendingNow = NoPath
    BY <1>2, <2>8 DEF ViewOf
  <2>10. Store!Open(vault_path)
    BY <1>2, <2>2, <2>7, <2>9 DEF Store!Open, Store!At, Holds
  <2> QED
    BY <2>3, <2>10 DEF Store!Next
<1>5. CASE w.ok /\ w.kind \in {"create", "managed"}
  <2>1. Making(w) /\ OpenSession(w) /\ w.vault \in VaultValue /\ w.key \in Id /\ w.pass \in Password
    BY <1>1, <1>5, CourseKind DEF JobOK, Job
  <2>2. disk[w.path] = Result(w) /\ Creating(t)
    BY <1>1, <1>5, <2>1 DEF Making, Done, Creating
  <2>3. vault' = w.vault /\ key' = w.key /\ password' = w.pass /\ vault_path' = w.path
    BY <1>1, <1>5, <2>1 DEF OpenSession, Making
  <2>4. vault' # NoVault
    BY <2>1, <2>3, SessionAssumption
  <2>5. w.path \in Path
    <3>1. CASE w.kind = "create"
      BY <1>1, <2>1, <3>1 DEF Making, WaitInv, IInv, TypeOK, PathKnown
    <3>2. CASE w.kind = "managed"
      BY <1>1, <3>2 DEF JobOK, Job
    <3> QED
      BY <1>5, <3>1, <3>2
  <2>6. Current' = Result(w) /\ Result(w) \in Image
    BY <2>1, <2>3 DEF Current, Result, Sealed, Image
  <2>7. pendingNow = [path |-> w.path, image |-> Result(w)] /\ storedNow' = [storedNow EXCEPT ![w.path] = Result(w)]
    BY <1>2, <2>2, <2>5 DEF ViewOf
  <2> QED
    BY <1>2, <2>3, <2>4, <2>5, <2>6, <2>7, Settles
<1>6. CASE w.ok /\ w.kind \in {"passwd", "mirror", "unmirror"}
  <2>1. Changing(w) /\ vault # NoVault /\ Copying(t)
    BY <1>1, <1>6, CourseKind DEF Changing, Copying
  <2>2. /\ disk[vault_path] = Result(w) /\ w.path = vault_path /\ w.key = key /\ w.vault \in VaultValue
        /\ IF w.kind = "passwd" THEN w.vault = vault ELSE w.pass = password
    BY <1>1, <1>6, <2>1 DEF Changing, Done
  <2>3. vault' = w.vault /\ key' = key /\ password' = w.pass /\ vault_path' = vault_path
    <3>1. CASE w.kind = "passwd"
      BY <1>1, <1>6, <2>2, <3>1 DEF PasswdDone
    <3>2. CASE w.kind \in {"mirror", "unmirror"}
      BY <1>1, <1>6, <2>2, <3>2 DEF MirrorDone
    <3> QED
      BY <1>6, <3>1, <3>2
  <2>4. vault' # NoVault /\ Current' = Result(w)
    BY <2>2, <2>3, SessionAssumption DEF Current, Result
  <2>5. w.pass \in Password /\ key \in Id /\ vault_path \in Path
    BY <1>1, <1>6, <2>1, OpenSessionFacts DEF Changing, Done, Job
  <2>6. Result(w) \in Image
    BY <2>2, <2>5 DEF Result, Sealed, Image
  <2>7. pendingNow = [path |-> vault_path, image |-> Result(w)] /\ storedNow' = [storedNow EXCEPT ![vault_path] = Result(w)]
    BY <1>2, <2>1, <2>2, <2>5 DEF ViewOf
  <2> QED
    BY <1>2, <2>3, <2>4, <2>5, <2>6, <2>7, Settles
<1>7. w.kind \notin {"generator", "icon"}
  BY <1>1, CourseKind DEF Generating, Fetching
<1> QED
  BY <1>1, <1>3, <1>4, <1>5, <1>6, <1>7, CourseKind DEF Kind

\* When the process ends, the file being written is what it was, lost, or written.
LEMMA RelaunchSeen ==
  ASSUME WaitInv, WaitInv', NEW last, Relaunch(last)
  PROVE  Store!Next
<1>1. TypeOK /\ TypeOK' /\ NoneWorks' /\ disk' = disk /\ vault' = NoVault
  BY DEF WaitInv, IInv, Relaunch, Cleared, NoneWorks
<1>2. storedNow' = disk /\ pendingNow' = NoPath /\ sessionNow' = NoVault
  BY <1>1, ViewIdleNext DEF IdleViewed, sessionNow
<1>3. \/ storedNow = disk
      \/ /\ pendingNow # NoPath
         /\ \E i \in {pendingNow.image, Damaged} : disk = [storedNow EXCEPT ![pendingNow.path] = i]
  <2>1. CASE Idle
    BY <1>1, <2>1, ViewIdle DEF IdleViewed, Idle
  <2>2. ASSUME NEW t \in Slot, Busy(t)
        PROVE  \/ storedNow = disk
               \/ /\ pendingNow # NoPath
                  /\ \E i \in {pendingNow.image, Damaged} : disk = [storedNow EXCEPT ![pendingNow.path] = i]
    <3> DEFINE w == worker[t]
    <3>1. Course(w) /\ Only(t) /\ JobOK(w) /\ w \in Job
      BY <2>2 DEF Busy, WaitInv, IInv, TypeOK, Jobs
    <3>2. ViewOf(t)
      BY <1>1, <3>1, View DEF Viewed
    <3>3. CASE Creating(t)
      <4>1. Making(w)
        BY <3>1, <3>3, CourseKind DEF Creating
      <4>2. disk[w.path] \in {Result(w), Damaged}
        BY <3>3, <4>1 DEF Creating, Making, Done
      <4>3. w.path \in Path
        <5>1. CASE w.kind = "create"
          BY <3>3, <4>1, <5>1 DEF Creating, Making, WaitInv, IInv, TypeOK, PathKnown
        <5>2. CASE w.kind = "managed"
          BY <3>1, <5>2 DEF JobOK, Job
        <5> QED
          BY <3>3, <5>1, <5>2 DEF Creating
      <4>4. storedNow = [disk EXCEPT ![w.path] = Absent] /\ pendingNow = [path |-> w.path, image |-> Result(w)]
        BY <3>2, <3>3 DEF ViewOf
      <4>5. disk = [storedNow EXCEPT ![w.path] = disk[w.path]]
        BY <1>1, <4>3, <4>4 DEF TypeOK
      <4>6. Result(w) \in Image
        BY <3>1, <3>3, <4>1 DEF Creating, Making, JobOK, Job, Result, Sealed, Image
      <4>7. pendingNow # NoPath
        BY <4>3, <4>4, <4>6, StoreAssumption
      <4> QED
        BY <4>2, <4>4, <4>5, <4>7
    <3>4. CASE Copying(t)
      <4>1. Changing(w) /\ vault # NoVault /\ vault_path \in Path
        BY <3>1, <3>4, CourseKind, OpenSessionFacts DEF Copying, Changing
      <4>2. w.path = vault_path /\ (w.pc # "open" => disk[w.path] \in {Result(w), Damaged})
        BY <3>4, <4>1 DEF Copying, Changing, Done
      <4>3. /\ storedNow = IF w.pc = "open" THEN disk ELSE [disk EXCEPT ![w.path] = Damaged]
            /\ pendingNow = [path |-> w.path, image |-> Result(w)]
        BY <3>2, <3>4 DEF ViewOf
      <4>5. disk = [storedNow EXCEPT ![w.path] = disk[w.path]]
        BY <1>1, <4>1, <4>2, <4>3 DEF TypeOK
      <4>6. Result(w) \in Image
        BY <3>1, <3>4, <4>1, OpenSessionFacts DEF Copying, Changing, Done, Job, Result, Sealed, Image
      <4>7. pendingNow # NoPath
        BY <4>1, <4>2, <4>3, <4>6, StoreAssumption
      <4> QED
        BY <4>2, <4>3, <4>5, <4>7
    <3>5. CASE Saving(t) \/ ~Writes(t)
      BY <3>2, <3>5 DEF ViewOf
    <3> QED
      BY <3>3, <3>4, <3>5 DEF Writes
  <2> QED
    BY <2>1, <2>2 DEF WaitInv
<1>4. Store!Crash
  BY <1>2, <1>3 DEF Store!Crash
<1> QED
  BY <1>4 DEF Store!Next

\* While nothing is under way, starting a thread shows nothing.
LEMMA StartUnseen ==
  ASSUME WaitInv, Quiet, IInv', NEW t \in Thread, NEW k,
         (\E w : Start(t, k, w)) \/ (\E p : StartNew(t, k, p))
  PROVE  UNCHANGED Store!storeVars
<1>1. /\ t \in Slot /\ TypeOK /\ TypeOK' /\ UNCHANGED <<vault, key, password, vault_path, disk>>
      /\ worker \in [Slot -> Job]
  BY DEF Start, StartNew, Slot, WaitInv, IInv, TypeOK, appVars
<1>2. Only(t) /\ worker[t].kind = "none"
  BY <1>1, QuietIdle DEF Idle, NoneWorks, Only, NoJob
<1>3. worker' = [worker EXCEPT ![t] = worker'[t]] /\ worker'[t].pc = "begin"
  <2>1. ASSUME NEW w, Start(t, k, w)
        PROVE  worker' = [worker EXCEPT ![t] = [NoJob EXCEPT !.kind = k, !.pc = "begin", !.pass = w]]
    BY <2>1 DEF Start, SetJob
  <2>2. ASSUME NEW p, StartNew(t, k, p)
        PROVE  \E w \in Password, i \in Id :
                 worker' = [worker EXCEPT ![t] =
                   [NoJob EXCEPT !.kind = k, !.pc = "begin", !.path = p, !.pass = w,
                                 !.key = i, !.vault = [id |-> i, seq |-> 0, mirrors |-> 0]]]
    BY <2>2 DEF StartNew, SetJob
  <2> QED
    BY ZenonT(60), <1>1, <2>1, <2>2 DEF NoJob
<1>4. ~Writes(t) /\ ~Writes(t)'
  BY <1>2, <1>3 DEF Writes, Creating, Copying, Saving
<1> QED
  BY <1>1, <1>2, <1>3, <1>4, StillOnly, Unseen

\* Of the other callbacks a lock leaves the vault, a deletion removes one.
LEMMA WindowSeen ==
  ASSUME WaitInv, Quiet, WaitInv', SendSettings \/ Lock \/ Back \/ \E p \in Path : SelectVault(p) \/ DeleteVault(p)
  PROVE  Store!Next \/ UNCHANGED Store!storeVars
<1>1. TypeOK /\ TypeOK' /\ Idle /\ NoneWorks
  BY QuietIdle DEF Idle, WaitInv, IInv
<1>2. storedNow = disk /\ pendingNow = NoPath
  BY <1>1, ViewIdle DEF IdleViewed
<1>3. ASSUME worker' = worker PROVE storedNow' = disk' /\ pendingNow' = NoPath
  <2>1. NoneWorks'
    BY <1>1, <1>3 DEF NoneWorks
  <2> QED
    BY <1>1, <2>1, ViewIdleNext DEF IdleViewed
<1>4. CASE SendSettings \/ Back \/ \E p \in Path : SelectVault(p)
  <2>1. UNCHANGED <<vault, key, password, disk, worker>> /\ (vault = NoVault \/ vault_path' = vault_path)
    BY <1>4, ScreenTells DEF SendSettings, Back, SelectVault, appVars
  <2> QED
    BY <1>2, <1>3, <2>1 DEF Store!storeVars, sessionNow, Current
<1>5. CASE Lock
  <2>1. vault # NoVault /\ vault' = NoVault /\ worker' = worker /\ disk' = disk
    BY <1>5, ScreenTells DEF Lock, Cleared
  <2>2. sessionNow # NoVault /\ sessionNow' = NoVault
    BY <2>1, OpenSessionFacts, StoreAssumption DEF sessionNow
  <2>3. Store!Leave
    BY <1>2, <1>3, <2>1, <2>2 DEF Store!Leave, Store!Resting
  <2> QED
    BY <2>3 DEF Store!Next
<1>6. ASSUME NEW p \in Path, DeleteVault(p) PROVE Store!Next
  <2>1. vault = NoVault /\ vault' = NoVault /\ disk' = [disk EXCEPT ![p] = Absent] /\ worker' = Unlinked(p)
    BY <1>6, ScreenTells DEF DeleteVault, appVars
  <2>2. \A t \in Slot : worker[t] = NoJob /\ NoJob.pc # "write"
    BY <1>1 DEF NoneWorks, NoJob
  <2>3. NoneWorks'
    BY <2>1, <2>2 DEF Unlinked, WritesShared, NoneWorks
  <2>4. storedNow' = disk' /\ pendingNow' = NoPath
    BY <1>1, <2>3, ViewIdleNext DEF IdleViewed
  <2>5. sessionNow = NoVault /\ sessionNow' = NoVault
    BY <2>1 DEF sessionNow
  <2>6. Store!Remove(p)
    BY <1>2, <2>1, <2>4, <2>5 DEF Store!Remove
  <2> QED
    BY <2>6 DEF Store!Next
<1> QED
  BY <1>4, <1>5, <1>6

\* What the user does.
LEMMA UserSeen ==
  ASSUME WaitInv, Quiet, WaitInv', UserStep
  PROVE  Store!Next \/ UNCHANGED Store!storeVars
<1>1. ASSUME NEW t \in Thread, StartUnlock(t) \/ StartPasswd(t) \/ \E k \in Kind : StartPlain(t, k)
      PROVE  UNCHANGED Store!storeVars
  BY <1>1, StartUnseen DEF StartUnlock, StartPasswd, StartPlain, WaitInv
<1>2. ASSUME NEW t \in Thread, StartCreate(t) \/ \E p \in Path : StartManaged(t, p)
      PROVE  UNCHANGED Store!storeVars
  BY <1>2, StartUnseen DEF StartCreate, StartManaged, WaitInv
<1>3. ASSUME Close PROVE Store!Next
  BY <1>3, RelaunchSeen DEF Close
<1> QED
  BY <1>1, <1>2, <1>3, WindowSeen DEF UserStep

\* What a thread does.
LEMMA ThreadSeen ==
  ASSUME WaitInv, WaitInv', started <= MaxStarts, NEW t \in Thread, ThreadStep(t)
  PROVE  Store!Next \/ UNCHANGED Store!storeVars
<1>1. IInv' /\ t \in Slot
  BY DEF WaitInv, Slot
<1> QED
  BY <1>1, UnlockUnseen, ManagedCreateSeen, ManagedSeen, TakeSessionSeen, OpenForWriteSeen, WriteOutUnseen,
     WriteFailSeen, HandleUnseen, EditMutateSeen, EditSaveSeen, IconFetchSeen
  DEF ThreadStep

\* What the saver of the settings does.
LEMMA SaverSeen ==
  ASSUME WaitInv, WaitInv', started <= MaxStarts, SaverStep
  PROVE  Store!Next \/ UNCHANGED Store!storeVars
<1>1. IInv' /\ Saver \in Slot
  BY DEF WaitInv, Slot
<1> QED
  BY <1>1, HandleUnseen, SaverTakeSeen, SaverWriteSeen DEF SaverStep

\* At first every file holds what it was left with.
LEMMA InitSeen == ASSUME Init PROVE Store!Init
<1>1. TypeOK /\ NoneWorks
  <2>1. TypeOK
    BY InitIInv DEF IInv
  <2>2. NoneWorks
    BY DEF Init, NoneWorks
  <2> QED
    BY <2>1, <2>2
<1>2. storedNow = disk /\ pendingNow = NoPath
  BY <1>1, ViewIdle DEF IdleViewed
<1>3. sessionNow = NoVault
  BY DEF Init, sessionNow
<1>4. disk \in [Path -> Bounded \cup {Absent}]
  <2>1. \A i \in Id, w \in Password : Sealed([id |-> i, seq |-> 0, mirrors |-> 0], i, w) \in Bounded
    BY SessionAssumption DEF Sealed, Bounded
  <2> DEFINE Made == {Sealed([id |-> i, seq |-> 0, mirrors |-> 0], i, w) : i \in Id, w \in Password}
  <2>2. disk \in [Path -> {Absent} \cup Made]
    BY DEF Init
  <2>3. ASSUME NEW x \in Made PROVE x \in Bounded
    <3>1. PICK i \in Id, w \in Password : x = Sealed([id |-> i, seq |-> 0, mirrors |-> 0], i, w)
      BY <2>3
    <3> QED
      BY <2>1, <3>1
  <2> HIDE DEF Made
  <2> QED
    BY <2>2, <2>3
<1> QED
  BY <1>2, <1>3, <1>4 DEF Store!Init

\* No more operations are started than the bound.
LEMMA StartsBounded ==
  ASSUME started \in Nat, started <= MaxStarts, [PatientNext \/ Crash]_vars
  PROVE  started' <= MaxStarts
<1>1. ASSUME InUse("generator") \/ (\E k : InUse(k)), started' = started + 1 PROVE started' <= MaxStarts
  BY <1>1, SessionAssumption DEF InUse
<1>2. CASE UserStep
  BY <1>1, <1>2 DEF UserStep, StartUnlock, StartCreate, StartManaged, StartPasswd, StartPlain, Start, StartNew,
     SendSettings, Lock, SelectVault, DeleteVault, Back, Close, Relaunch
<1>3. CASE SaverStep \/ RunClosure \/ Crash
  BY <1>3 DEF SaverStep, SaverReceive, SaverTake, SaverWrite, SaverRestore, RunClosure, Crash, Relaunch
<1>4. ASSUME NEW t \in Thread, ThreadStep(t) PROVE started' <= MaxStarts
  BY <1>4 DEF ThreadStep, ReadPath, UnlockOpen, UnlockLoad, ManagedCreate, ManagedSecure, ManagedReopen,
     TakeSession, OpenForWrite, WriteOut, WriteFail, SyncTake, SyncCopy, EditMutate, EditSave, IconFetch
<1> QED
  BY <1>2, <1>3, <1>4 DEF PatientNext, vars

\* Every step is one of the store or shows nothing.
LEMMA StepSeen ==
  ASSUME WaitInv, WaitInv', started <= MaxStarts, [PatientNext \/ Crash]_vars
  PROVE  [Store!Next]_(Store!storeVars)
<1>1. CASE Crash
  BY <1>1, RelaunchSeen DEF Crash
<1>2. CASE PatientNext
  BY <1>2, UserSeen, ThreadSeen, SaverSeen, RunClosureSeen DEF PatientNext
<1>3. CASE UNCHANGED vars
  BY <1>3 DEF vars, Store!storeVars, storedNow, sessionNow, pendingNow, Writers, Creating, Copying, Emptied, Saving, Current
<1> QED
  BY <1>1, <1>2, <1>3

\* Whatever is changed reaches the file as a whole before the user goes on, what is
\* opened is what was stored last, a crash costs at most the file being written, and a
\* failing write that file but nothing of the session; only a favicon may be left to
\* the next save: the session implements the store (save_vault_state, and the threads
\* of on_change_master_password, the mirrors, the settings saver and fetch_website_icon).
THEOREM SessionImplementsStore == CrashingSpec => StoreRefined
<1>1. Init => Store!Init /\ started <= MaxStarts
  <2>1. Init => started <= MaxStarts
    BY SessionAssumption DEF Init
  <2> QED
    BY <2>1, InitSeen
<1>2. WaitInv /\ started <= MaxStarts /\ [PatientNext \/ Crash]_vars => (started <= MaxStarts)'
  BY StartsBounded DEF WaitInv, IInv, TypeOK
<1>3. WaitInv /\ WaitInv' /\ started <= MaxStarts /\ [PatientNext \/ Crash]_vars => [Store!Next]_(Store!storeVars)
  BY StepSeen
<1> QED
  BY <1>1, <1>2, <1>3, WaitInvariance, PTL DEF CrashingSpec, StoreRefined, Store!Spec
=============================================================================
