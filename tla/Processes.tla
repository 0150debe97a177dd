----------------------------- MODULE Processes -----------------------------
(***************************************************************************)
(* The processes of the application: main.rs from the relaunch as          *)
(* administrator to the window, the checks that end a process on the way,  *)
(* the named mutex that keeps it to one instance and lives as long as a    *)
(* process has a handle of it, the monitor thread that looks at the parent *)
(* process every pass, the updater, and config.json, which every window    *)
(* loads, changes and saves.                                               *)
(*                                                                         *)
(* One action is one step of main, one pass of the monitor, or one file    *)
(* operation of the event loop.  The other checks of the monitor look at   *)
(* the machine, not at this program's state, and find nothing here.        *)
(***************************************************************************)
EXTENDS Naturals, FiniteSets

CONSTANTS
  Process,       \* processes
  Launcher,      \* programs that start them
  Trusted,       \* launchers on the list of check_invariants
  Service,       \* the service that starts elevated processes
  Session,       \* logon sessions
  SessionOf,     \* the session each launcher runs in
  Machine,       \* the machines of a run, see Machines
  MaxStarts,     \* processes started in a behaviour on each machine (a bound)
  MaxSaves,      \* saves of config.json in a behaviour on each machine (a bound)
  None

Field == {"theme", "vault"}

\* A sound machine has an antivirus and the signature, and makes the mutex it is asked
\* for; the first two may be missing, or the last may fail.
Machines == {"sound", "unprotected", "nameless"}

ASSUME ProcessesAssumption ==
  /\ Trusted \subseteq Launcher /\ Service \in Trusted
  /\ Process \cap Launcher = {} /\ None \notin Process \cup Launcher
  /\ None \notin [Field -> Process \cup {Service}]
  /\ SessionOf \in [Launcher -> Session] /\ "Global" \notin Session \cup {None} /\ None \notin Session
  /\ Machine \subseteq Machines
  /\ MaxStarts \in [Machine -> Nat] /\ MaxSaves \in [Machine -> Nat]

VARIABLES
  pc,        \* where main is in each process
  why,       \* what ended it
  elevated,  \* whether it runs as administrator
  parent,    \* what the system names as its parent
  session,   \* the session it runs in
  policy,    \* whether it may start no child processes
  held,      \* the PASSX_SINGLE_INSTANCE_MUTEX it has a handle of: "Global", its session's, or None
  monitor,   \* processes whose monitor thread runs
  updater,   \* the update thread of each window
  running,   \* launchers still running
  config,    \* config.json: who set each field last, or None while it is written
  latest,    \* history: who saved each field last
  own,       \* the theme and the vault path each window has
  pref,      \* the load and save under way in each event loop
  saves,     \* saves so far
  machine    \* the machine of this behaviour
origin == <<elevated, parent, session>>
mainVars == <<pc, why, elevated, parent, session, policy, held, monitor>>
prefVars == <<config, latest, own, pref, saves>>
vars == <<pc, why, elevated, parent, session, policy, held, monitor, updater, running,
          config, latest, own, pref, saves, machine>>

PCs == {"none", "admin", "antivirus", "policies", "instance", "monitor",
        "integrity", "window", "exiting", "gone"}
Default == [f \in Field |-> Service]
Calm == [at |-> "idle", field |-> "theme", copy |-> Default]

MayStart == Cardinality({p \in Process : pc[p] # "none"}) < MaxStarts[machine]

Alive(x) == IF x \in Process THEN pc[x] \notin {"none", "gone"} ELSE x \in running

-----------------------------------------------------------------------------
(* main *)

To(p, next) == pc' = [pc EXCEPT ![p] = next]

\* process::exit, or the return of main: the threads stop, what they still do first
\* changes nothing here.
End(p, reason) == /\ To(p, "exiting")
                  /\ why' = [why EXCEPT ![p] = reason]
                  /\ monitor' = monitor \ {p}

\* The system frees what the process had and closes its handles.
Gone(p) ==
  /\ pc[p] = "exiting" /\ To(p, "gone")
  /\ held' = [held EXCEPT ![p] = None] /\ policy' = [policy EXCEPT ![p] = FALSE]
  /\ elevated' = [elevated EXCEPT ![p] = FALSE] /\ parent' = [parent EXCEPT ![p] = None]
  /\ session' = [session EXCEPT ![p] = None] /\ updater' = [updater EXCEPT ![p] = "off"]
  /\ own' = [own EXCEPT ![p] = Default] /\ pref' = [pref EXCEPT ![p] = Calm]
  /\ UNCHANGED <<why, monitor, running, config, latest, saves>>

Launch(p, l, admin) ==
  /\ pc[p] = "none" /\ MayStart /\ l \in running
  /\ To(p, "admin")
  /\ elevated' = [elevated EXCEPT ![p] = admin]
  /\ parent' = [parent EXCEPT ![p] = l]
  /\ session' = [session EXCEPT ![p] = SessionOf[l]]
  /\ UNCHANGED <<why, policy, held, monitor, updater, running, prefVars>>

\* main behind is_admin. (mutant: the policies are set here already)
AdmittedHardened(p) == /\ elevated[p] /\ To(p, "antivirus")
                       /\ policy' = [policy EXCEPT ![p] = TRUE]
                       /\ UNCHANGED <<why, origin, held, monitor>>
Admitted(p) == /\ elevated[p] /\ To(p, "antivirus")
               /\ UNCHANGED <<why, origin, policy, held, monitor>>

Refused(p) == /\ ~elevated[p]
              /\ End(p, "refused") /\ UNCHANGED <<origin, policy, held>>

\* relaunch_as_admin: the new process starts while this one exits.
Elevate(p, q) == /\ ~elevated[p] /\ pc[q] = "none" /\ MayStart
                 /\ pc' = [pc EXCEPT ![p] = "exiting", ![q] = "admin"]
                 /\ why' = [why EXCEPT ![p] = "relaunched"]
                 /\ elevated' = [elevated EXCEPT ![q] = TRUE]
                 /\ parent' = [parent EXCEPT ![q] = Service]
                 /\ session' = [session EXCEPT ![q] = session[p]]
                 /\ UNCHANGED <<policy, monitor>>
\* (mutant: the mutex is made before the relaunch)
RelaunchedHolding(p) == /\ \E q \in Process : Elevate(p, q)
                        /\ held' = [held EXCEPT ![p] = "Global"]
Relaunched(p) == (\E q \in Process : Elevate(p, q)) /\ UNCHANGED held

CheckAdmin(p) == /\ pc[p] = "admin"
                 /\ Admitted(p) \/ Refused(p) \/ Relaunched(p)
                 /\ UNCHANGED <<updater, running, prefVars>>

\* check_antivirus_availability asks PowerShell, a child process.
CheckAntivirus(p) ==
  /\ pc[p] = "antivirus"
  /\ \E found \in {~policy[p]} \cup (IF machine = "unprotected" THEN {FALSE} ELSE {}) :
       IF found THEN To(p, "policies") /\ UNCHANGED <<why, monitor>> ELSE End(p, "antivirus")
  /\ UNCHANGED <<origin, policy, held, updater, running, prefVars>>

\* enable_process_mitigation_policies: from here on no child process starts.
EnablePolicies(p) ==
  /\ pc[p] = "policies" /\ To(p, "instance")
  /\ policy' = [policy EXCEPT ![p] = TRUE]
  /\ UNCHANGED <<why, origin, held, monitor, updater, running, prefVars>>

\* CreateMutexA opens the mutex or makes it, says which, and gives a handle either way.
\* (mutant: whether it existed is not asked)
Opened(name) == TRUE
Created(name) == \A q \in Process : held[q] # name

\* The mutex p gets a handle of: the one of the machine, if the call fails the one of
\* its session, and if that fails too none, which lets p in.
Obtained(p) == {"Global"} \cup (IF machine = "nameless" THEN {session[p], None} ELSE {})

CheckInstance(p) ==
  /\ pc[p] = "instance"
  /\ \E name \in Obtained(p) :
       /\ held' = [held EXCEPT ![p] = name]
       /\ IF name = None \/ Created(name) THEN To(p, "monitor") /\ UNCHANGED <<why, monitor>>
          ELSE End(p, "instance")
  /\ UNCHANGED <<origin, policy, updater, running, prefVars>>

StartMonitor(p) ==
  /\ pc[p] = "monitor" /\ To(p, "integrity")
  /\ monitor' = monitor \cup {p}
  /\ UNCHANGED <<why, origin, policy, held, updater, running, prefVars>>

\* verify_self_integrity, and ui::run up to the event loop: the window takes
\* what it needs from config.json, or the defaults if it cannot be read.
CheckIntegrity(p) ==
  /\ pc[p] = "integrity"
  /\ \/ /\ To(p, "window")
        /\ own' = [own EXCEPT ![p] = IF config = None THEN Default ELSE config]
        /\ updater' = [updater EXCEPT ![p] = "check"]
        /\ UNCHANGED <<why, monitor>>
     \/ machine = "unprotected" /\ End(p, "integrity") /\ UNCHANGED <<own, updater>>
  /\ UNCHANGED <<origin, policy, held, running, config, latest, pref, saves>>

\* check_invariants: a parent that has ended has no name.
Pass(p) ==
  /\ p \in monitor
  /\ ~(Alive(parent[p]) /\ parent[p] \in Trusted)
  /\ End(p, "parent")
  /\ UNCHANGED <<origin, policy, held, updater, running, prefVars>>

LauncherQuits(l) ==
  /\ l \in running \ {Service}
  /\ running' = running \ {l}
  /\ UNCHANGED <<mainVars, updater, prefVars>>

-----------------------------------------------------------------------------
(* The window: the updater and config.json *)

\* The thread finds nothing, fails, or has downloaded and shows its window.
Update(p) == /\ pc[p] = "window" /\ updater[p] = "check"
             /\ \E next \in {"off", "dialog"} : updater' = [updater EXCEPT ![p] = next]
             /\ UNCHANGED <<mainVars, running, prefVars>>

RemindLater(p) == /\ pc[p] = "window" /\ updater[p] = "dialog"
                  /\ updater' = [updater EXCEPT ![p] = "off"]
                  /\ UNCHANGED <<mainVars, running, prefVars>>

\* Restart Now is a callback: the event loop is not saving. (mutant: a thread)
AnyTime(p) == TRUE
InEventLoop(p) == pref[p].at = "idle"
RestartNow(p) == /\ pc[p] = "window" /\ updater[p] = "dialog" /\ InEventLoop(p)
                 /\ End(p, "restart")
                 /\ UNCHANGED <<origin, policy, held, updater, running, prefVars>>

\* Another vault file is chosen, to be opened or created; nothing is saved.
Choose(p) == /\ pc[p] = "window" /\ pref[p].at = "idle"
             /\ own' = [own EXCEPT ![p].vault = p]
             /\ UNCHANGED <<mainVars, updater, running, config, latest, pref, saves>>

\* AppPrefs::load by on_save_theme, an unlock, or the close of the window.
Load(p, field) ==
  /\ pc[p] = "window" /\ pref[p].at = "idle" /\ saves < MaxSaves[machine]
  /\ pref' = [pref EXCEPT ![p] = [at |-> "loaded", field |-> field,
                                  copy |-> IF config = None THEN Default ELSE config]]
  /\ saves' = saves + 1
  /\ UNCHANGED <<mainVars, updater, running, config, latest, own>>

\* fs::write truncates the file and then fills it.
Truncate(p) ==
  /\ pc[p] = "window" /\ pref[p].at = "loaded"
  /\ config' = None
  /\ pref' = [pref EXCEPT ![p].at = "writing"]
  /\ UNCHANGED <<mainVars, updater, running, latest, own, saves>>

\* The close of the window saves the window's own theme and path, and main
\* returns; the others save what was loaded, with one field set.
\* (mutant: nothing is loaded first)
FreshValues(p) == IF pref[p].field = "close" THEN own[p]
                  ELSE [Default EXCEPT ![pref[p].field] = p]
Saved(p) == IF pref[p].field = "close" THEN own[p]
            ELSE [pref[p].copy EXCEPT ![pref[p].field] = p]

Fill(p) ==
  /\ pc[p] = "window" /\ pref[p].at = "writing"
  /\ config' = Saved(p)
  /\ pref' = [pref EXCEPT ![p] = Calm]
  /\ IF pref[p].field = "close"
     THEN End(p, "closed") /\ latest' = own[p] /\ UNCHANGED own
     ELSE /\ latest' = [latest EXCEPT ![pref[p].field] = p]
          /\ own' = [own EXCEPT ![p][pref[p].field] = p]
          /\ UNCHANGED <<pc, why, monitor>>
  /\ UNCHANGED <<origin, policy, held, updater, running, saves>>

-----------------------------------------------------------------------------
Init ==
  /\ pc = [p \in Process |-> "none"] /\ why = [p \in Process |-> "none"]
  /\ elevated = [p \in Process |-> FALSE] /\ parent = [p \in Process |-> None]
  /\ session = [p \in Process |-> None]
  /\ policy = [p \in Process |-> FALSE] /\ held = [p \in Process |-> None] /\ monitor = {}
  /\ updater = [p \in Process |-> "off"] /\ running = Launcher
  /\ config = Default /\ latest = Default /\ own = [p \in Process |-> Default]
  /\ pref = [p \in Process |-> Calm] /\ saves = 0 /\ machine \in Machine

Main(p) == CheckAdmin(p) \/ Gone(p) \/ CheckAntivirus(p) \/ EnablePolicies(p)
           \/ CheckInstance(p) \/ StartMonitor(p) \/ CheckIntegrity(p)
Loop(p) == Truncate(p) \/ Fill(p)

Step ==
  \/ \E p \in Process :
       \/ \E l \in Launcher, admin \in BOOLEAN : Launch(p, l, admin)
       \/ Main(p) \/ Pass(p) \/ Choose(p) \/ Update(p) \/ RemindLater(p) \/ RestartNow(p)
       \/ \E field \in Field \cup {"close"} : Load(p, field)
       \/ Loop(p)
  \/ \E l \in Launcher : LauncherQuits(l)
Next == Step /\ UNCHANGED machine

Spec == Init /\ [][Next]_vars

-----------------------------------------------------------------------------
(* Properties *)

Windows == {p \in Process : pc[p] = "window"}

\* Every field has its type; who has a handle passed the check for an instance and
\* is not gone.
TypeOK ==
  /\ pc \in [Process -> PCs]
  /\ \A p \in Process : (why[p] = "none") <=> (pc[p] \notin {"exiting", "gone"})
  /\ parent \in [Process -> Launcher \cup {None}] /\ session \in [Process -> Session \cup {None}]
  /\ \A p \in Process :
       /\ held[p] \in {"Global", session[p], None}
       /\ held[p] # None => pc[p] \in {"monitor", "integrity", "window", "exiting"}
  /\ monitor \subseteq {p \in Process : pc[p] \in {"integrity", "window"}}
  /\ config \in [Field -> Process \cup {Service}] \cup {None}
  /\ saves \in 0..MaxSaves[machine]

\* Every field has its type; and "Single instance": however starts, relaunches, exits
\* and failing calls interleave, no two windows have the same mutex, and there is one
\* window at most where the call for the machine's mutex does not fail. Where it does,
\* the code lets in one window more per session, and any number where both calls fail
\* (ensure_single_instance).
OneWindow ==
  /\ TypeOK
  /\ \A p, q \in Windows : held[p] = held[q] => p = q \/ held[p] = None
  /\ machine # "nameless" => Cardinality(Windows) <= 1

\* No step of the start undoes what a later one needs: where antivirus and signature
\* are there no process is ended by a check of the machine (main: the antivirus is
\* asked for through a child process before child processes are forbidden).
EndsForCause == \A p \in Process : why[p] \in {"antivirus", "integrity"} => machine = "unprotected"

\* A process is turned away as a second instance only by another one that was at this
\* check itself, as administrator, and still has the handle it got there: so never by
\* the one it was relaunched from, however long that takes to exit. It may be one that
\* has closed its window or was turned away, and is not gone yet.
OtherInstance == [][\A p \in Process :
  (why'[p] = "instance" /\ why[p] # "instance")
  => \E q \in Process \ {p} :
       /\ held[q] = held'[p] /\ held[q] # None
       /\ elevated[q] /\ why[q] \notin {"refused", "relaunched", "antivirus"}]_vars

\* check_invariants has ended no process, in the middle of a save or elsewhere.
Undisturbed == \A p \in Process : why[p] # "parent"

\* "Reload to get latest (if modified elsewhere, though single instance guards
\* this)": a save keeps what it was not asked to change at what was saved last,
\* by whichever process; a window that closes chooses no theme (on_close_requested,
\* on_save_theme). Where the mutex is not made, nothing guards it.
PrefsKept == [][\A p \in Process :
  (Undisturbed /\ machine # "nameless" /\ pref[p].at = "writing" /\ pref'[p].at = "idle")
  => \A f \in IF pref[p].field = "close" THEN {"theme"} ELSE Field \ {pref[p].field} :
       config'[f] = latest[f]]_vars

\* No other end of a process, the restart for an update among them, comes in the
\* middle of a save, and the next process can read config.json, also where several
\* windows save it.
PrefsReadable ==
  Undisturbed /\ config = None => \E p \in Process : pc[p] = "window" /\ pref[p].at = "writing"
=============================================================================
