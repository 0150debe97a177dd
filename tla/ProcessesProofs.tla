--------------------------- MODULE ProcessesProofs ---------------------------
(***************************************************************************)
(* What Processes keeps for any number of processes, launchers, sessions   *)
(* and events: one window per mutex, no process ended by a check of a      *)
(* sound machine or turned away by itself, and a config.json that no save  *)
(* empties or, where the mutex is made, sets back.                         *)
(*                                                                         *)
(* The second part is about Watchdog: for any timeout, tick and delay, a   *)
(* stalled monitor is noticed in time, and nothing else is an alarm.       *)
(***************************************************************************)
EXTENDS Processes, Watchdog, FiniteSetTheorems, TLAPS

Reason == {"none", "refused", "relaunched", "antivirus", "instance", "integrity",
           "parent", "restart", "closed"}
Values == [Field -> Process \cup {Service}]
Save == [at : {"idle", "loaded", "writing"}, field : Field \cup {"close"}, copy : Values]

Started == {p \in Process : pc[p] # "none"}
Holding == {"monitor", "integrity", "window"}

MainTypes ==
  /\ pc \in [Process -> PCs] /\ why \in [Process -> Reason]
  /\ \A p \in Process : (why[p] = "none") <=> (pc[p] \notin {"exiting", "gone"})
  /\ elevated \in [Process -> BOOLEAN] /\ policy \in [Process -> BOOLEAN]
  /\ parent \in [Process -> Launcher \cup {None}] /\ session \in [Process -> Session \cup {None}]
  /\ held \in [Process -> Session \cup {"Global", None}]
  /\ monitor \subseteq {p \in Process : pc[p] \in {"integrity", "window"}}
  /\ IsFiniteSet(Started)

PrefTypes ==
  /\ config \in Values \cup {None} /\ latest \in Values
  /\ own \in [Process -> Values] /\ pref \in [Process -> Save]
  /\ machine \in Machine /\ saves \in 0..MaxSaves[machine]

\* A process has a handle from the check for an instance until it is gone, whatever
\* that check said; of those it let in, no two have the same mutex.
OneHolder ==
  /\ \A p \in Process : held[p] # None => pc[p] \in Holding \cup {"exiting"}
                                          /\ held[p] \in {"Global", session[p]}
  /\ \A p, q \in Process :
       pc[p] \in Holding /\ pc[q] \in Holding /\ held[p] = held[q] => p = q \/ held[p] = None
  /\ machine # "nameless" => \A p \in Process : pc[p] \in Holding => held[p] = "Global"

\* What the steps of main before this one have made sure of.
Admission ==
  \A p \in Process :
    /\ pc[p] \in Holding \cup {"antivirus", "policies", "instance"} => elevated[p]
    /\ pc[p] \in {"none", "admin", "antivirus", "policies"} => ~policy[p]
    /\ held[p] # None => elevated[p] /\ why[p] \notin {"refused", "relaunched", "antivirus"}

\* Until check_invariants ends a process, only windows load and save, and config.json
\* is empty only while one does. Where the mutex is made, what a window has in its
\* hands is what was saved last.
InStep ==
  Undisturbed =>
    /\ \A p \in Process : pref[p].at # "idle" => pc[p] = "window"
    /\ config = None => \E p \in Process : pref[p].at = "writing"
    /\ machine # "nameless" =>
         /\ \A p \in Process : pref[p].at # "idle" => pref[p].copy = latest
         /\ \A p \in Process : pc[p] = "window" => own[p]["theme"] = latest["theme"]
         /\ config \in {latest, None}

IInv == MainTypes /\ PrefTypes /\ OneHolder /\ Admission /\ EndsForCause /\ InStep
-----------------------------------------------------------------------------
(* main *)

MainInv == MainTypes /\ OneHolder /\ Admission

\* A step that starts at most one more process leaves finitely many.
LEMMA StartedKeeps ==
  ASSUME IsFiniteSet(Started), NEW x, \A q \in Process \ {x} : pc'[q] # "none" => pc[q] # "none"
  PROVE  IsFiniteSet(Started)'
<1>1. IsFiniteSet(Started \cup {x})
  BY FS_AddElement
<1>2. Started' \subseteq Started \cup {x}
  BY DEF Started
<1> QED
  BY <1>1, <1>2, FS_Subset

\* A process that ends keeps the handle it has, or gets one in the same step (End).
LEMMA EndKeepsMain ==
  ASSUME MainInv, NEW p \in Process, pc[p] \notin {"none", "exiting", "gone"},
         NEW reason \in Reason \ {"none"}, End(p, reason),
         UNCHANGED <<elevated, parent, session, policy, machine>>,
         \/ held' = held /\ (held[p] # None => reason \notin {"refused", "relaunched", "antivirus"})
         \/ /\ reason \notin {"refused", "relaunched", "antivirus"} /\ elevated[p]
            /\ \E name \in {"Global", session[p], None} : held' = [held EXCEPT ![p] = name]
  PROVE  MainInv'
<1>0. held' \in [Process -> Session \cup {"Global", None}]
  BY DEF MainInv, MainTypes
<1>1. MainTypes'
  <2>1. IsFiniteSet(Started)'
    BY StartedKeeps DEF MainInv, MainTypes, End, To
  <2>2. /\ pc' = [pc EXCEPT ![p] = "exiting"] /\ why' = [why EXCEPT ![p] = reason]
        /\ monitor' = monitor \ {p}
    BY DEF End, To
  <2>3. monitor' \subseteq {q \in Process : pc'[q] \in {"integrity", "window"}}
    BY <2>2 DEF MainInv, MainTypes
  <2>4. pc' \in [Process -> PCs] /\ why' \in [Process -> Reason]
    BY <2>2 DEF MainInv, MainTypes, PCs
  <2>5. \A q \in Process : (why'[q] = "none") <=> (pc'[q] \notin {"exiting", "gone"})
    BY <2>2 DEF MainInv, MainTypes
  <2>6. /\ elevated' \in [Process -> BOOLEAN] /\ policy' \in [Process -> BOOLEAN]
        /\ parent' \in [Process -> Launcher \cup {None}] /\ session' \in [Process -> Session \cup {None}]
    BY DEF MainInv, MainTypes
  <2> QED
    BY <1>0, <2>1, <2>3, <2>4, <2>5, <2>6, Zenon DEF MainTypes
<1>2. pc' = [pc EXCEPT ![p] = "exiting"] /\ why' = [why EXCEPT ![p] = reason]
  BY DEF End, To
<1>3. \A q \in Process \ {p} : held'[q] = held[q]
  BY DEF MainInv, MainTypes
<1>4. held'[p] \in {held[p], "Global", session[p], None}
  BY DEF MainInv, MainTypes
<1>5. OneHolder'
  BY <1>2, <1>3, <1>4 DEF MainInv, MainTypes, OneHolder, Holding
<1>6. held'[p] # None => elevated[p] /\ reason \notin {"refused", "relaunched", "antivirus"}
  BY DEF MainInv, Admission
<1>7. Admission'
  BY <1>2, <1>3, <1>6 DEF MainInv, MainTypes, Admission, Holding
<1> QED
  BY <1>1, <1>5, <1>7 DEF MainInv

\* A step of main that starts and ends nothing: p goes on to next, with or without
\* the policies, a handle or the monitor.
LEMMA MoveKeepsMain ==
  ASSUME MainInv, NEW p \in Process, NEW next \in PCs \ {"none", "admin", "exiting", "gone"},
         pc[p] \notin {"none", "exiting", "gone"},
         To(p, next), UNCHANGED <<why, elevated, parent, session, machine>>,
         policy' = policy \/ (policy' = [policy EXCEPT ![p] = TRUE] /\ next \in {"instance"} \cup Holding),
         next \in Holding \cup {"antivirus", "policies", "instance"} => elevated[p],
         next \in {"antivirus", "policies"} => ~policy[p],
         monitor' \in {monitor, monitor \cup {p}}, p \in monitor' => next \in {"integrity", "window"},
         \/ held' = held /\ (next \in Holding <=> pc[p] \in Holding)
         \/ /\ next \in Holding
            /\ \E name \in {"Global", session[p], None} :
                 /\ held' = [held EXCEPT ![p] = name] /\ (name = None \/ Created(name))
                 /\ machine # "nameless" => name = "Global"
  PROVE  MainInv'
<1>0. held' \in [Process -> Session \cup {"Global", None}]
  BY DEF MainInv, MainTypes
<1>1. MainTypes'
  <2>1. IsFiniteSet(Started)'
    BY StartedKeeps DEF MainInv, MainTypes, To
  <2>2. pc' = [pc EXCEPT ![p] = next] /\ next \notin {"exiting", "gone"}
    BY DEF To
  <2>3. monitor' \subseteq {q \in Process : pc'[q] \in {"integrity", "window"}}
    BY <2>2 DEF MainInv, MainTypes
  <2>4. pc' \in [Process -> PCs] /\ policy' \in [Process -> BOOLEAN]
    BY <2>2 DEF MainInv, MainTypes
  <2>5. \A q \in Process : (why'[q] = "none") <=> (pc'[q] \notin {"exiting", "gone"})
    BY <2>2 DEF MainInv, MainTypes
  <2>6. /\ why' \in [Process -> Reason] /\ elevated' \in [Process -> BOOLEAN]
        /\ parent' \in [Process -> Launcher \cup {None}] /\ session' \in [Process -> Session \cup {None}]
    BY DEF MainInv, MainTypes
  <2> QED
    BY <1>0, <2>1, <2>3, <2>4, <2>5, <2>6, Zenon DEF MainTypes
<1>2. pc' = [pc EXCEPT ![p] = next]
  BY DEF To
<1>3. OneHolder'
  <2>1. CASE held' = held /\ (next \in Holding <=> pc[p] \in Holding)
    BY <1>2, <2>1 DEF MainInv, MainTypes, OneHolder, Holding
  <2>2. ASSUME next \in Holding, NEW name \in {"Global", session[p], None},
               held' = [held EXCEPT ![p] = name], name = None \/ Created(name),
               machine # "nameless" => name = "Global"
        PROVE  OneHolder'
    <3>1. \A q \in Process \ {p} : held'[q] = held[q] /\ pc'[q] = pc[q]
      BY <1>2, <2>2 DEF MainInv, MainTypes
    <3>2. held'[p] = name /\ pc'[p] = next
      BY <1>2, <2>2 DEF MainInv, MainTypes
    <3>3. name # None => \A q \in Process : held[q] # name
      BY <2>2 DEF Created
    <3> QED
      BY <2>2, <3>1, <3>2, <3>3 DEF MainInv, OneHolder
  <2> QED
    BY <2>1, <2>2
<1>4. Admission'
  <2>1. \A q \in Process : held'[q] # None => elevated[q] /\ why[q] \notin {"refused", "relaunched", "antivirus"}
    <3>1. why[p] = "none"
      BY DEF MainInv, MainTypes
    <3> QED
      BY <3>1 DEF MainInv, MainTypes, Admission
  <2>2. CASE policy' = policy
    BY <1>2, <2>1, <2>2 DEF MainInv, MainTypes, Admission, Holding
  <2>3. CASE policy' = [policy EXCEPT ![p] = TRUE] /\ next \in {"instance"} \cup Holding
    BY <1>2, <2>1, <2>3 DEF MainInv, MainTypes, Admission, Holding
  <2> QED
    BY <2>2, <2>3
<1> QED
  BY <1>1, <1>3, <1>4 DEF MainInv

\* A process is started, by a launcher or by one that was not elevated and exits.
LEMMA StartKeepsMain ==
  ASSUME MainInv, NEW p \in Process, NEW q \in Process, pc[q] = "none",
         \/ pc' = [pc EXCEPT ![q] = "admin"] /\ why' = why
         \/ /\ pc[p] = "admin" /\ pc' = [pc EXCEPT ![p] = "exiting", ![q] = "admin"]
            /\ why' = [why EXCEPT ![p] = "relaunched"],
         NEW admin \in BOOLEAN, elevated' = [elevated EXCEPT ![q] = admin],
         NEW l \in Launcher, parent' = [parent EXCEPT ![q] = l],
         NEW s \in Session \cup {None}, session' = [session EXCEPT ![q] = s],
         UNCHANGED <<policy, held, monitor, machine>>
  PROVE  MainInv'
<1>1. MainTypes'
  <2>1. IsFiniteSet(Started)'
    BY StartedKeeps DEF MainInv, MainTypes
  <2> QED
    BY <2>1 DEF MainInv, MainTypes, PCs, Reason
<1>2. held[q] = None /\ (pc[p] = "admin" => held[p] = None)
  BY DEF MainInv, OneHolder, Holding
<1>3. OneHolder'
  BY <1>2 DEF MainInv, MainTypes, OneHolder, Holding
<1>4. Admission'
  BY <1>2 DEF MainInv, MainTypes, Admission, Holding
<1> QED
  BY <1>1, <1>3, <1>4 DEF MainInv

\* A process that is gone has nothing.
LEMMA GoneKeepsMain ==
  ASSUME MainInv, NEW p \in Process, Gone(p), UNCHANGED machine PROVE MainInv'
<1>1. pc[p] = "exiting" /\ pc' = [pc EXCEPT ![p] = "gone"] /\ UNCHANGED <<why, monitor>>
  BY DEF Gone, To
<1>2. /\ elevated' = [elevated EXCEPT ![p] = FALSE] /\ policy' = [policy EXCEPT ![p] = FALSE]
      /\ parent' = [parent EXCEPT ![p] = None] /\ session' = [session EXCEPT ![p] = None]
      /\ held' = [held EXCEPT ![p] = None]
  BY DEF Gone
<1>3. MainTypes'
  <2>1. IsFiniteSet(Started)'
    BY <1>1, StartedKeeps DEF MainInv, MainTypes
  <2> QED
    BY <1>1, <1>2, <2>1 DEF MainInv, MainTypes, PCs, Reason
<1>4. OneHolder'
  BY <1>1, <1>2 DEF MainInv, MainTypes, OneHolder, Holding
<1>5. Admission'
  BY <1>1, <1>2 DEF MainInv, MainTypes, Admission, Holding
<1> QED
  BY <1>3, <1>4, <1>5 DEF MainInv

\* Every step keeps what main, the mutex and the monitor have to do with each other.
LEMMA StepKeepsMain == ASSUME MainInv, [Next]_vars PROVE MainInv'
<1> USE DEF PCs, Reason, Holding, origin
<1>1. ASSUME NEW p \in Process, NEW l \in Launcher, NEW admin \in BOOLEAN, Launch(p, l, admin), UNCHANGED machine
      PROVE  MainInv'
  <2>1. SessionOf[l] \in Session
    BY ProcessesAssumption
  <2> QED
    BY <1>1, <2>1, StartKeepsMain DEF Launch, To
<1>2. ASSUME NEW p \in Process, CheckAdmin(p), UNCHANGED machine PROVE MainInv'
  <2>0. p \notin monitor /\ held[p] = None
    BY <1>2 DEF CheckAdmin, MainInv, MainTypes, OneHolder
  <2>1. CASE Admitted(p)
    BY <1>2, <2>0, <2>1, MoveKeepsMain DEF CheckAdmin, Admitted, MainInv, Admission
  <2>2. CASE Refused(p)
    BY <1>2, <2>0, <2>2, EndKeepsMain DEF CheckAdmin, Refused
  <2>3. ASSUME NEW q \in Process, Elevate(p, q), UNCHANGED held PROVE MainInv'
    <3>1. session[p] \in Session \cup {None} /\ Service \in Launcher
      BY ProcessesAssumption DEF MainInv, MainTypes
    <3> QED
      BY <1>2, <2>3, <3>1, StartKeepsMain DEF CheckAdmin, Elevate
  <2> QED
    BY <1>2, <2>1, <2>2, <2>3 DEF CheckAdmin, Relaunched
<1>3. ASSUME NEW p \in Process, Gone(p), UNCHANGED machine PROVE MainInv'
  BY <1>3, GoneKeepsMain
<1>4. ASSUME NEW p \in Process, CheckAntivirus(p), UNCHANGED machine PROVE MainInv'
  <2>0. p \notin monitor /\ held[p] = None
    BY <1>4 DEF CheckAntivirus, MainInv, MainTypes, OneHolder
  <2>1. CASE End(p, "antivirus")
    BY <1>4, <2>0, <2>1, EndKeepsMain DEF CheckAntivirus
  <2>2. CASE To(p, "policies") /\ UNCHANGED <<why, monitor>>
    BY <1>4, <2>0, <2>2, MoveKeepsMain DEF CheckAntivirus, MainInv, Admission
  <2> QED
    BY <1>4, <2>1, <2>2 DEF CheckAntivirus
<1>5. ASSUME NEW p \in Process, EnablePolicies(p), UNCHANGED machine PROVE MainInv'
  <2>0. p \notin monitor
    BY <1>5 DEF EnablePolicies, MainInv, MainTypes
  <2> QED
    BY <1>5, <2>0, MoveKeepsMain DEF EnablePolicies, MainInv, Admission
<1>6. ASSUME NEW p \in Process, CheckInstance(p), UNCHANGED machine PROVE MainInv'
  <2>1. PICK name \in Obtained(p) :
          /\ held' = [held EXCEPT ![p] = name]
          /\ IF name = None \/ Created(name) THEN To(p, "monitor") /\ UNCHANGED <<why, monitor>>
             ELSE End(p, "instance")
    BY <1>6 DEF CheckInstance
  <2>2. name \in {"Global", session[p], None} /\ (machine # "nameless" => name = "Global")
    BY DEF Obtained
  <2>3. pc[p] = "instance" /\ elevated[p] /\ p \notin monitor
        /\ UNCHANGED <<elevated, parent, session, policy>>
    BY <1>6 DEF CheckInstance, MainInv, MainTypes, Admission
  <2>4. CASE name = None \/ Created(name)
    BY <1>6, <2>1, <2>2, <2>3, <2>4, MoveKeepsMain
  <2>5. CASE ~(name = None \/ Created(name))
    BY <1>6, <2>1, <2>2, <2>3, <2>5, EndKeepsMain
  <2> QED
    BY <2>4, <2>5
<1>7. ASSUME NEW p \in Process, StartMonitor(p), UNCHANGED machine PROVE MainInv'
  BY <1>7, MoveKeepsMain DEF StartMonitor, MainInv, Admission
<1>8. ASSUME NEW p \in Process, CheckIntegrity(p), UNCHANGED machine PROVE MainInv'
  <2>1. CASE End(p, "integrity")
    BY <1>8, <2>1, EndKeepsMain DEF CheckIntegrity
  <2>2. CASE To(p, "window") /\ UNCHANGED <<why, monitor>>
    BY <1>8, <2>2, MoveKeepsMain DEF CheckIntegrity, MainInv, Admission
  <2> QED
    BY <1>8, <2>1, <2>2 DEF CheckIntegrity
<1>9. ASSUME NEW p \in Process, Pass(p), UNCHANGED machine PROVE MainInv'
  <2>1. pc[p] \in {"integrity", "window"}
    BY <1>9 DEF Pass, MainInv, MainTypes
  <2> QED
    BY <1>9, <2>1, EndKeepsMain DEF Pass
<1>10. ASSUME NEW p \in Process, RestartNow(p), UNCHANGED machine PROVE MainInv'
  BY <1>10, EndKeepsMain DEF RestartNow
<1>11. ASSUME NEW p \in Process, Fill(p), End(p, "closed"), UNCHANGED machine PROVE MainInv'
  BY <1>11, EndKeepsMain DEF Fill
<1>12. CASE UNCHANGED <<mainVars, machine>>
  BY <1>12 DEF mainVars, MainInv, MainTypes, OneHolder, Admission, Started
<1> HIDE DEF PCs, Reason, Holding
<1>13. ASSUME NEW p \in Process, Fill(p) \/ Truncate(p) \/ Update(p) \/ RemindLater(p) \/ Choose(p),
              UNCHANGED machine
       PROVE  MainInv'
  <2>1. Fill(p) => End(p, "closed") \/ UNCHANGED mainVars
    BY DEF Fill, mainVars
  <2>2. ~Fill(p) => UNCHANGED mainVars
    BY <1>13 DEF Truncate, Update, RemindLater, Choose, mainVars
  <2> QED
    BY <1>11, <1>12, <1>13, <2>1, <2>2
<1>14. ASSUME NEW p \in Process, NEW field \in Field \cup {"close"}, Load(p, field), UNCHANGED machine
       PROVE  MainInv'
  BY <1>12, <1>14 DEF Load
<1>15. ASSUME NEW l \in Launcher, LauncherQuits(l), UNCHANGED machine PROVE MainInv'
  BY <1>12, <1>15 DEF LauncherQuits
<1>16. ASSUME UNCHANGED vars PROVE MainInv'
  BY <1>12, <1>16 DEF vars, mainVars
<1>17. ASSUME NEW p \in Process, Main(p) \/ Loop(p), UNCHANGED machine PROVE MainInv'
  BY <1>2, <1>3, <1>4, <1>5, <1>6, <1>7, <1>8, <1>13, <1>17, Zenon DEF Main, Loop
<1>18. ASSUME Step, UNCHANGED machine PROVE MainInv'
  BY <1>1, <1>9, <1>10, <1>13, <1>14, <1>15, <1>17, <1>18, Zenon DEF Step
<1> QED
  BY <1>16, <1>18 DEF Next

\* A process ends once, turned away only by CheckInstance for the mutex another has a
\* handle of, and by a check of the machine only where antivirus or signature may be
\* missing: the antivirus is asked for while the process may still start a child.
LEMMA EndsOnce ==
  ASSUME MainInv, [Next]_vars, NEW p \in Process
  PROVE  \/ why'[p] = why[p]
         \/ /\ why[p] = "none"
            /\ why'[p] \in {"antivirus", "integrity"} => machine = "unprotected"
            /\ why'[p] = "instance" => /\ pc[p] = "instance" /\ held'[p] # None
                                       /\ \E r \in Process : held[r] = held'[p]
            /\ why'[p] # "parent" => pref[p].at = "idle" \/ pc[p] # "window" \/ Fill(p)
<1> DEFINE Goal == \/ why'[p] = why[p]
                   \/ /\ why[p] = "none"
                      /\ why'[p] \in {"antivirus", "integrity"} => machine = "unprotected"
                      /\ why'[p] = "instance" => /\ pc[p] = "instance" /\ held'[p] # None
                                                 /\ \E r \in Process : held[r] = held'[p]
                      /\ why'[p] # "parent" => pref[p].at = "idle" \/ pc[p] # "window" \/ Fill(p)
<1>1. ASSUME UNCHANGED why PROVE Goal
  BY <1>1
<1>2. ASSUME NEW q \in Process, NEW reason, why' = [why EXCEPT ![q] = reason],
             pc[q] \notin {"none", "exiting", "gone"},
             reason \in {"antivirus", "integrity"} => machine = "unprotected",
             reason = "instance" => /\ pc[q] = "instance" /\ held'[q] # None
                                    /\ \E r \in Process : held[r] = held'[q],
             reason # "parent" => pref[q].at = "idle" \/ pc[q] # "window" \/ Fill(q)
      PROVE  Goal
  <2>1. \A r \in Process : why'[r] = IF r = q THEN reason ELSE why[r]
    BY <1>2 DEF MainInv, MainTypes
  <2>2. why[q] = "none" \/ pc[q] = "none"
    BY <1>2 DEF MainInv, MainTypes
  <2>3. CASE p = q
    BY <1>2, <2>1, <2>2, <2>3
  <2> QED
    BY <2>1, <2>3
<1> HIDE DEF Goal
<1>3. ASSUME NEW q \in Process, CheckAdmin(q) PROVE Goal
  <2>1. pc[q] = "admin"
    BY <1>3 DEF CheckAdmin
  <2>2. CASE UNCHANGED why
    BY <1>1, <2>2
  <2>3. ASSUME NEW reason \in {"refused", "relaunched"}, why' = [why EXCEPT ![q] = reason] PROVE Goal
    BY <1>2, <2>1, <2>3
  <2> QED
    BY <1>3, <2>2, <2>3 DEF CheckAdmin, Admitted, Refused, Relaunched, Elevate, End
<1>4. ASSUME NEW q \in Process, CheckAntivirus(q) PROVE Goal
  <2>1. ~policy[q] /\ policy[q] \in BOOLEAN /\ pc[q] = "antivirus"
    BY <1>4 DEF CheckAntivirus, MainInv, MainTypes, Admission
  <2>2. End(q, "antivirus") => machine = "unprotected"
    <3>1. PICK found \in {~policy[q]} \cup (IF machine = "unprotected" THEN {FALSE} ELSE {}) :
            IF found THEN To(q, "policies") /\ UNCHANGED <<why, monitor>> ELSE End(q, "antivirus")
      BY <1>4 DEF CheckAntivirus
    <3>2. machine # "unprotected" => found
      BY <2>1
    <3>3. To(q, "policies") /\ End(q, "antivirus") => FALSE
      BY DEF To, End, MainInv, MainTypes
    <3> QED
      BY <3>1, <3>2, <3>3
  <2>3. CASE UNCHANGED why
    BY <1>1, <2>3
  <2>4. CASE End(q, "antivirus")
    BY <1>2, <2>1, <2>2, <2>4 DEF End
  <2> QED
    BY <1>4, <2>3, <2>4 DEF CheckAntivirus
<1>5. ASSUME NEW q \in Process, CheckInstance(q) PROVE Goal
  <2>1. PICK name \in Obtained(q) :
          /\ held' = [held EXCEPT ![q] = name]
          /\ IF name = None \/ Created(name) THEN To(q, "monitor") /\ UNCHANGED <<why, monitor>>
             ELSE End(q, "instance")
    BY <1>5 DEF CheckInstance
  <2>2. pc[q] = "instance" /\ held'[q] = name
    BY <1>5, <2>1 DEF CheckInstance, MainInv, MainTypes
  <2>3. CASE name = None \/ Created(name)
    BY <1>1, <2>1, <2>3
  <2>4. CASE ~(name = None \/ Created(name))
    <3>1. name # None /\ \E r \in Process : held[r] = held'[q]
      BY <2>2, <2>4 DEF Created
    <3> QED
      BY <1>2, <2>1, <2>2, <2>4, <3>1 DEF End
  <2> QED
    BY <2>3, <2>4
<1>6. ASSUME NEW q \in Process, CheckIntegrity(q) PROVE Goal
  BY <1>1, <1>2, <1>6 DEF CheckIntegrity, End
<1>7. ASSUME NEW q \in Process, Gone(q) \/ EnablePolicies(q) \/ StartMonitor(q) PROVE Goal
  <2>1. UNCHANGED why
    BY <1>7 DEF Gone, EnablePolicies, StartMonitor
  <2> QED
    BY <1>1, <2>1
<1>8. ASSUME NEW q \in Process, Pass(q) PROVE Goal
  <2>1. pc[q] \in {"integrity", "window"}
    BY <1>8 DEF Pass, MainInv, MainTypes
  <2> QED
    BY <1>2, <1>8, <2>1 DEF Pass, End
<1>9. ASSUME NEW q \in Process, RestartNow(q) PROVE Goal
  BY <1>2, <1>9 DEF RestartNow, InEventLoop, End
<1>10. ASSUME NEW q \in Process, Fill(q) PROVE Goal
  <2>1. pc[q] = "window" /\ (End(q, "closed") \/ UNCHANGED why)
    BY <1>10 DEF Fill
  <2> QED
    BY <1>1, <1>2, <1>10, <2>1 DEF End
<1>11. ASSUME NEW q \in Process, \/ Choose(q) \/ Update(q) \/ RemindLater(q) \/ Truncate(q)
                                 \/ \E field \in Field \cup {"close"} : Load(q, field)
                                 \/ \E l \in Launcher, admin \in BOOLEAN : Launch(q, l, admin)
       PROVE Goal
  <2>1. UNCHANGED why
    BY <1>11 DEF Choose, Update, RemindLater, Truncate, Load, Launch, mainVars
  <2> QED
    BY <1>1, <2>1
<1>12. ASSUME NEW l \in Launcher, LauncherQuits(l) PROVE Goal
  BY <1>1, <1>12 DEF LauncherQuits, mainVars
<1>13. ASSUME UNCHANGED vars PROVE Goal
  BY <1>1, <1>13 DEF vars
<1>14. ASSUME NEW q \in Process, Main(q) \/ Loop(q) PROVE Goal
  BY <1>3, <1>4, <1>5, <1>6, <1>7, <1>10, <1>11, <1>14, Zenon DEF Main, Loop
<1>15. ASSUME Step PROVE Goal
  BY <1>8, <1>9, <1>11, <1>12, <1>14, <1>15, Zenon DEF Step
<1>16. Goal
  BY <1>13, <1>15 DEF Next
<1> QED
  BY <1>16 DEF Goal
-----------------------------------------------------------------------------
(* config.json *)

PrefInv == PrefTypes /\ InStep

\* check_invariants, once it has ended a process, has ended one from then on.
LEMMA UndisturbedBefore ==
  ASSUME MainInv, [Next]_vars, Undisturbed' PROVE Undisturbed
<1> SUFFICES ASSUME NEW p \in Process, why[p] = "parent" PROVE FALSE
  BY DEF Undisturbed
<1>1. why'[p] = why[p]
  BY EndsOnce
<1> QED
  BY <1>1 DEF Undisturbed

\* The window saves what Saved says it does: one field more than was loaded.
LEMMA SavedValues ==
  ASSUME PrefTypes, NEW p \in Process
  PROVE  /\ Saved(p) \in Values
         /\ pref[p].field # "close" =>
              /\ pref[p].field \in Field
              /\ [latest EXCEPT ![pref[p].field] = p] \in Values
              /\ [own[p] EXCEPT ![pref[p].field] = p] \in Values
<1>1. own[p] \in Values /\ latest \in Values /\ pref[p].copy \in Values
       /\ pref[p].field \in Field \cup {"close"}
  BY DEF PrefTypes, Save
<1> QED
  BY <1>1 DEF Saved, Values

\* A step that loads and saves nothing, and opens no window, ends one only if it is
\* not saving, or by check_invariants.
LEMMA QuietKeepsPrefs ==
  ASSUME PrefInv, UNCHANGED prefVars, UNCHANGED machine, Undisturbed' => Undisturbed,
         \A p \in Process : pc'[p] = "window" => pc[p] = "window",
         Undisturbed' => \A p \in Process :
           pc[p] = "window" /\ pc'[p] # "window" => pref[p].at = "idle"
  PROVE  PrefInv'
<1>1. PrefTypes'
  BY DEF PrefInv, PrefTypes, prefVars
<1>2. InStep'
  <2> SUFFICES ASSUME Undisturbed' PROVE InStep'
    BY DEF InStep
  <2>1. UNCHANGED <<config, latest, own, pref, machine>>
    BY DEF prefVars
  <2>2. \A p \in Process : pref'[p].at # "idle" => pc'[p] = "window"
    BY <2>1 DEF PrefInv, InStep
  <2> QED
    BY <2>1, <2>2 DEF PrefInv, InStep
<1> QED
  BY <1>1, <1>2 DEF PrefInv

\* What a step of main, a pass or a restart does to the windows.
LEMMA WindowsOf ==
  ASSUME MainInv, NEW p \in Process, NEW next \in PCs \ {"window"}, To(p, next), NEW q \in Process
  PROVE  /\ pc'[q] = "window" => pc[q] = "window"
         /\ pc[q] = "window" /\ pc'[q] # "window" => q = p
BY DEF MainInv, MainTypes, To

\* One window where the mutex is made: every other process is somewhere else.
LEMMA OnlyWindow ==
  ASSUME MainInv, machine # "nameless",
         NEW p \in Process, pc[p] \in Holding, NEW q \in Process, pc[q] \in Holding
  PROVE  p = q
<1>1. held[p] = held[q] /\ held[p] # None
  BY ProcessesAssumption DEF MainInv, OneHolder
<1> QED
  BY <1>1 DEF MainInv, OneHolder

\* A step keeps what is known of the preferences.
LEMMA StepKeepsPrefs ==
  ASSUME MainInv, PrefInv, [Next]_vars PROVE PrefInv'
<1> USE DEF PCs
<1>1. Undisturbed' => Undisturbed
  BY UndisturbedBefore
<1>2. ASSUME UNCHANGED <<prefVars, machine>>,
             UNCHANGED pc \/ \E p \in Process, next \in PCs \ {"window"} :
                               To(p, next) /\ (pc[p] = "window" => pref[p].at = "idle" \/ ~Undisturbed')
      PROVE  PrefInv'
  <2>1. CASE UNCHANGED pc
    BY <1>1, <1>2, <2>1, QuietKeepsPrefs
  <2>2. ASSUME NEW p \in Process, NEW next \in PCs \ {"window"}, To(p, next),
               pc[p] = "window" => pref[p].at = "idle" \/ ~Undisturbed'
        PROVE  PrefInv'
    <3>1. \A q \in Process : /\ pc'[q] = "window" => pc[q] = "window"
                             /\ pc[q] = "window" /\ pc'[q] # "window" => q = p
      BY <2>2, WindowsOf
    <3> QED
      BY <1>1, <1>2, <2>2, <3>1, QuietKeepsPrefs
  <2> QED
    BY <1>2, <2>1, <2>2
<1>3. ASSUME NEW p \in Process, CheckAdmin(p), UNCHANGED machine PROVE PrefInv'
  <2>1. CASE Relaunched(p)
    <3>1. \A q \in Process : (pc'[q] = "window") <=> (pc[q] = "window")
      BY <1>3, <2>1 DEF CheckAdmin, Relaunched, Elevate, MainInv, MainTypes
    <3> QED
      BY <1>1, <1>3, <3>1, QuietKeepsPrefs DEF CheckAdmin
  <2>2. CASE Admitted(p) \/ Refused(p)
    BY <1>2, <1>3, <2>2 DEF CheckAdmin, Admitted, Refused, End
  <2> QED
    BY <1>3, <2>1, <2>2 DEF CheckAdmin
<1>4. ASSUME NEW p \in Process, \/ CheckAntivirus(p) \/ EnablePolicies(p)
                                \/ CheckInstance(p) \/ StartMonitor(p),
             UNCHANGED machine
      PROVE  PrefInv'
  <2>1. UNCHANGED prefVars /\ pc[p] # "window" /\ \E next \in PCs \ {"window"} : To(p, next)
    BY <1>4 DEF CheckAntivirus, EnablePolicies, CheckInstance, StartMonitor, End
  <2> QED
    BY <1>2, <1>4, <2>1
<1>18. ASSUME NEW p \in Process, Gone(p), UNCHANGED machine PROVE PrefInv'
  <2>1. /\ pc[p] = "exiting" /\ pc' = [pc EXCEPT ![p] = "gone"]
        /\ own' = [own EXCEPT ![p] = Default] /\ pref' = [pref EXCEPT ![p] = Calm]
        /\ UNCHANGED <<config, latest, saves, machine>>
    BY <1>18 DEF Gone, To
  <2>2. Default \in Values /\ Calm \in Save /\ Calm.at = "idle"
    BY DEF Default, Calm, Values, Save, Field
  <2>3. PrefTypes'
    BY <2>1, <2>2 DEF PrefInv, PrefTypes
  <2>4. InStep'
    <3> SUFFICES ASSUME Undisturbed' PROVE InStep'
      BY DEF InStep
    <3>1. \A q \in Process : \/ q # p /\ pref'[q] = pref[q] /\ own'[q] = own[q] /\ pc'[q] = pc[q]
                             \/ q = p /\ pref'[q].at = "idle" /\ pc'[q] = "gone"
      BY <2>1, <2>2 DEF PrefInv, PrefTypes, MainInv, MainTypes
    <3>2. pref[p].at = "idle"
      BY <1>1, <2>1 DEF PrefInv, InStep
    <3>3. config' = None => \E q \in Process : pref'[q].at = "writing"
      <4> SUFFICES ASSUME config = None PROVE \E q \in Process : pref'[q].at = "writing"
        BY <2>1
      <4>1. PICK q \in Process : pref[q].at = "writing"
        BY <1>1 DEF PrefInv, InStep
      <4> QED
        BY <3>1, <3>2, <4>1
    <3> QED
      BY <1>1, <2>1, <3>1, <3>3 DEF PrefInv, InStep
  <2> QED
    BY <2>3, <2>4 DEF PrefInv
<1>5. ASSUME NEW p \in Process, CheckIntegrity(p), UNCHANGED machine PROVE PrefInv'
  <2>1. pc[p] = "integrity" /\ UNCHANGED <<config, latest, pref, saves>>
    BY <1>5 DEF CheckIntegrity
  <2>2. CASE End(p, "integrity") /\ UNCHANGED own
    BY <1>2, <1>5, <2>1, <2>2 DEF End, prefVars
  <2>3. CASE To(p, "window") /\ own' = [own EXCEPT ![p] = IF config = None THEN Default ELSE config]
    <3>1. PrefTypes'
      <4>1. Default \in Values
        BY DEF Default, Values
      <4> QED
        BY <1>5, <2>1, <2>3, <4>1 DEF PrefInv, PrefTypes
    <3>2. machine # "nameless" => \A q \in Process : pc[q] # "window"
      BY <2>1, OnlyWindow DEF Holding
    <3>3. machine # "nameless" => \A q \in Process : pc'[q] = "window" => q = p
      BY <2>3, <3>2 DEF MainInv, MainTypes, To
    <3>4. Undisturbed /\ machine # "nameless"
            => config = latest /\ config # None /\ \A q \in Process : pref[q].at = "idle"
      BY <3>2, ProcessesAssumption DEF PrefInv, PrefTypes, InStep, Save, Values
    <3>5. Undisturbed' /\ machine # "nameless" => own'[p] = latest
      BY <1>1, <2>3, <3>4, ProcessesAssumption DEF PrefInv, PrefTypes, Values
    <3>6. Undisturbed => \A q \in Process : pref[q].at # "idle" => q # p /\ pc[q] = "window"
      BY <2>1 DEF PrefInv, InStep
    <3>7. \A q \in Process : q # p => pc'[q] = pc[q]
      BY <2>3 DEF MainInv, MainTypes, To
    <3>8. InStep'
      BY <1>1, <1>5, <2>1, <3>3, <3>4, <3>5, <3>6, <3>7 DEF PrefInv, InStep
    <3> QED
      BY <3>1, <3>8 DEF PrefInv
  <2> QED
    BY <1>5, <2>2, <2>3 DEF CheckIntegrity
<1>6. ASSUME NEW p \in Process, Pass(p), UNCHANGED machine PROVE PrefInv'
  <2>1. ~Undisturbed'
    BY <1>6 DEF Pass, End, Undisturbed, MainInv, MainTypes
  <2> QED
    BY <1>2, <1>6, <2>1 DEF Pass, End
<1>7. ASSUME NEW p \in Process, RestartNow(p), UNCHANGED machine PROVE PrefInv'
  BY <1>2, <1>7 DEF RestartNow, InEventLoop, End
<1>8. ASSUME NEW p \in Process, Update(p) \/ RemindLater(p), UNCHANGED machine PROVE PrefInv'
  BY <1>2, <1>8 DEF Update, RemindLater, mainVars
<1>9. ASSUME NEW l \in Launcher, LauncherQuits(l), UNCHANGED machine PROVE PrefInv'
  BY <1>2, <1>9 DEF LauncherQuits, mainVars
<1>10. ASSUME NEW p \in Process, NEW l \in Launcher, NEW admin \in BOOLEAN, Launch(p, l, admin), UNCHANGED machine
       PROVE  PrefInv'
  BY <1>2, <1>10 DEF Launch
<1>11. ASSUME NEW p \in Process, Choose(p), UNCHANGED machine PROVE PrefInv'
  <2>1. /\ own' \in [Process -> Values]
        /\ \A q \in Process : own'[q]["theme"] = own[q]["theme"]
    BY <1>11 DEF Choose, PrefInv, PrefTypes, Values, Field
  <2>2. UNCHANGED <<pc, why, config, latest, pref, saves, machine>>
    BY <1>11 DEF Choose, mainVars
  <2> QED
    BY <2>1, <2>2 DEF PrefInv, PrefTypes, InStep, Undisturbed
<1>12. ASSUME NEW p \in Process, NEW field \in Field \cup {"close"}, Load(p, field), UNCHANGED machine
       PROVE  PrefInv'
  <2> DEFINE copy == IF config = None THEN Default ELSE config
  <2>1. UNCHANGED <<pc, why, config, latest, own, machine>> /\ saves' = saves + 1
        /\ pc[p] = "window" /\ pref[p].at = "idle" /\ saves < MaxSaves[machine]
        /\ pref' = [pref EXCEPT ![p] = [at |-> "loaded", field |-> field, copy |-> copy]]
    BY <1>12 DEF Load, mainVars
  <2>2. copy \in Values
    BY DEF PrefInv, PrefTypes, Default, Values
  <2>3. saves' \in 0..MaxSaves[machine]
    BY <2>1, ProcessesAssumption DEF PrefInv, PrefTypes
  <2>4. [at |-> "loaded", field |-> field, copy |-> copy] \in Save
    BY <1>12, <2>2 DEF Save
  <2>5. PrefTypes'
    BY <2>1, <2>3, <2>4 DEF PrefInv, PrefTypes
  <2>6. Undisturbed /\ machine # "nameless" => copy = latest
    <3>1. Undisturbed /\ machine # "nameless" => \A q \in Process : pref[q].at # "writing"
      BY <2>1, OnlyWindow DEF PrefInv, InStep, Holding
    <3> QED
      BY <3>1, ProcessesAssumption DEF PrefInv, PrefTypes, InStep, Values
  <2>7. InStep'
    BY <1>1, <2>1, <2>6 DEF PrefInv, PrefTypes, InStep
  <2> QED
    BY <2>5, <2>7 DEF PrefInv
<1>13. ASSUME NEW p \in Process, Truncate(p), UNCHANGED machine PROVE PrefInv'
  <2>1. UNCHANGED <<pc, why, latest, own, saves, machine>> /\ config' = None
        /\ pc[p] = "window"
    BY <1>13 DEF Truncate, mainVars
  <2>2. /\ pref' \in [Process -> Save] /\ pref'[p].at = "writing"
        /\ \A q \in Process : pref'[q].copy = pref[q].copy /\ (q # p => pref'[q] = pref[q])
    <3>1. pref[p] \in Save
      BY DEF PrefInv, PrefTypes
    <3> DEFINE w == [pref[p] EXCEPT !.at = "writing"]
    <3>2. w \in Save /\ w.at = "writing" /\ w.copy = pref[p].copy
      BY <3>1 DEF Save
    <3>3. pref' = [pref EXCEPT ![p] = w]
      BY <1>13 DEF Truncate
    <3> HIDE DEF w
    <3> QED
      BY <3>2, <3>3 DEF PrefInv, PrefTypes
  <2>3. PrefTypes'
    BY <2>1, <2>2 DEF PrefInv, PrefTypes
  <2>4. pref[p].at # "idle"
    BY <1>13 DEF Truncate
  <2>5. InStep'
    BY <1>1, <2>1, <2>2, <2>4 DEF PrefInv, InStep
  <2> QED
    BY <2>3, <2>5 DEF PrefInv
<1>14. ASSUME NEW p \in Process, Fill(p), UNCHANGED machine PROVE PrefInv'
  <2>1. pc[p] = "window" /\ pref[p].at = "writing" /\ config' = Saved(p)
        /\ pref' = [pref EXCEPT ![p] = Calm] /\ saves' = saves
    BY <1>14 DEF Fill
  <2>2. Calm \in Save /\ Calm.at = "idle"
    BY DEF Calm, Save, Default, Values, Field
  <2>3. PrefTypes'
    BY <1>14, <2>1, <2>2, SavedValues DEF Fill, PrefInv, PrefTypes
  <2>4. \A q \in Process : pref'[q].at = "idle" \/ (q # p /\ pref'[q] = pref[q])
    BY <2>1, <2>2 DEF PrefInv, PrefTypes
  <2>5. Undisturbed /\ machine # "nameless" => \A q \in Process : pref'[q].at = "idle"
    BY <2>1, <2>4, OnlyWindow DEF PrefInv, InStep, Holding
  <2>9. Undisturbed => \A q \in Process : pref'[q].at # "idle" => pc'[q] = "window"
    <3>1. \A q \in Process : q # p => pc'[q] = pc[q]
      BY <1>14 DEF Fill, End, To, MainInv, MainTypes
    <3> QED
      BY <2>4, <3>1 DEF PrefInv, InStep
  <2>6. config' # None /\ (Undisturbed /\ machine # "nameless" => config' = latest')
    BY <1>14, <2>1, SavedValues, ProcessesAssumption DEF Fill, Saved, PrefInv, InStep, Values
  <2>7. Undisturbed /\ machine # "nameless"
          => \A q \in Process : pc'[q] = "window" => own'[q]["theme"] = latest'["theme"]
    <3> SUFFICES ASSUME Undisturbed, machine # "nameless"
                 PROVE  \A q \in Process : pc'[q] = "window" => own'[q]["theme"] = latest'["theme"]
      OBVIOUS
    <3>1. \A q \in Process : pc'[q] = "window" => q = p /\ pc[q] = "window" /\ pref[p].field # "close"
      BY <1>14, <2>1, OnlyWindow DEF Fill, End, To, MainInv, MainTypes, Holding
    <3>2. pref[p].field # "close" => own'[p] = [own[p] EXCEPT ![pref[p].field] = p]
      BY <1>14 DEF Fill, PrefInv, PrefTypes
    <3>3. pref[p].field # "close" => latest' = [latest EXCEPT ![pref[p].field] = p]
      BY <1>14 DEF Fill
    <3>4. own[p] \in Values /\ latest \in Values /\ (Undisturbed => own[p]["theme"] = latest["theme"])
      BY <2>1 DEF PrefInv, PrefTypes, InStep
    <3>5. Undisturbed /\ pref[p].field # "close" => own'[p]["theme"] = latest'["theme"]
      BY <3>2, <3>3, <3>4 DEF Values, Field
    <3> SUFFICES ASSUME NEW q \in Process, pc'[q] = "window"
                 PROVE  own'[q]["theme"] = latest'["theme"]
      OBVIOUS
    <3>6. q = p /\ pref[p].field # "close"
      BY <3>1
    <3> QED
      BY <3>5, <3>6
  <2>8. InStep'
    BY <1>1, <1>14, <2>5, <2>6, <2>7, <2>9 DEF InStep
  <2> QED
    BY <2>3, <2>8 DEF PrefInv
<1>15. ASSUME UNCHANGED vars PROVE PrefInv'
  BY <1>2, <1>15 DEF vars, prefVars
<1>16. ASSUME NEW p \in Process, Main(p) \/ Loop(p), UNCHANGED machine PROVE PrefInv'
  BY <1>3, <1>4, <1>5, <1>13, <1>14, <1>16, <1>18, Zenon DEF Main, Loop
<1>17. ASSUME Step, UNCHANGED machine PROVE PrefInv'
  BY <1>6, <1>7, <1>8, <1>9, <1>10, <1>11, <1>12, <1>16, <1>17, Zenon DEF Step
<1> QED
  BY <1>15, <1>17 DEF Next
-----------------------------------------------------------------------------
(* The theorems *)

\* The invariant in its three parts.
LEMMA IInvParts == IInv <=> MainInv /\ PrefInv /\ EndsForCause
BY DEF IInv, MainInv, PrefInv

\* It holds when the processes start,
LEMMA InitIInv == Init => IInv
<1> SUFFICES ASSUME Init PROVE IInv
  OBVIOUS
<1>1. MainTypes
  <2>1. Started = {}
    BY DEF Init, Started
  <2>2. IsFiniteSet(Started)
    BY <2>1, FS_EmptySet
  <2> QED
    BY <2>2 DEF Init, MainTypes, PCs, Reason
<1>2. Default \in Values /\ Calm \in Save
  BY DEF Default, Calm, Values, Save, Field
<1>3. PrefTypes
  BY <1>2, ProcessesAssumption DEF Init, PrefTypes
<1>4. OneHolder /\ Admission /\ EndsForCause
  BY DEF Init, OneHolder, Admission, EndsForCause, Holding
<1>5. InStep
  BY <1>2, ProcessesAssumption DEF Init, InStep, Calm, Values
<1> QED
  BY <1>1, <1>3, <1>4, <1>5 DEF IInv

\* and every step keeps it.
LEMMA NextIInv == IInv /\ [Next]_vars => IInv'
<1> SUFFICES ASSUME IInv, [Next]_vars PROVE IInv'
  OBVIOUS
<1>1. MainInv' /\ PrefInv'
  BY IInvParts, StepKeepsMain, StepKeepsPrefs
<1>2. EndsForCause'
  <2>1. machine' = machine
    BY DEF Next, vars
  <2> QED
    BY <2>1, IInvParts, EndsOnce DEF EndsForCause
<1> QED
  BY <1>1, <1>2 DEF IInv, MainInv, PrefInv

\* IInv, for any number of processes, launchers and events.
THEOREM SpecIInv == Spec => []IInv
BY InitIInv, NextIInv, PTL DEF Spec

\* Every field has its type, no two windows have the same mutex, and there is at most
\* one where the machine's is made, however starts, relaunches and ends interleave;
\* where it is not, each session's mutex lets in one, and none any number
\* (ensure_single_instance).
THEOREM SpecOneWindow == Spec => []OneWindow
<1>1. IInv => OneWindow
  <2> SUFFICES ASSUME IInv PROVE OneWindow
    OBVIOUS
  <2>1. TypeOK
    BY DEF IInv, MainTypes, PrefTypes, OneHolder, TypeOK, Holding, Values
  <2>2. \A p, q \in Windows : held[p] = held[q] => p = q \/ held[p] = None
    BY DEF IInv, OneHolder, Holding, Windows
  <2>3. ASSUME machine # "nameless" PROVE Cardinality(Windows) <= 1
    <3>1. \A p, q \in Windows : p = q
      BY <2>3, IInvParts, OnlyWindow DEF Holding, Windows
    <3>2. CASE Windows = {}
      BY <3>2, FS_EmptySet
    <3>3. ASSUME NEW p \in Windows PROVE Cardinality(Windows) <= 1
      <4>1. Windows = {p}
        BY <3>1, <3>3
      <4>2. Cardinality(Windows) = 1
        BY <4>1, FS_Singleton
      <4> QED
        BY <4>2
    <3> QED
      BY <3>2, <3>3
  <2> QED
    BY <2>1, <2>2, <2>3 DEF OneWindow
<1> QED
  BY <1>1, SpecIInv, PTL

\* Where antivirus and signature are there no check of the machine ends a process.
THEOREM SpecEndsForCause == Spec => []EndsForCause
<1>1. IInv => EndsForCause
  BY DEF IInv
<1> QED
  BY <1>1, SpecIInv, PTL

\* A process is turned away only by another one that was at the check for an instance
\* itself and is not gone yet: never by the one it was relaunched from, which has no
\* handle, however long that takes to exit (relaunch_as_admin, ensure_single_instance).
THEOREM SpecOtherInstance == Spec => OtherInstance
<1>1. IInv /\ [Next]_vars =>
        [\A p \in Process : (why'[p] = "instance" /\ why[p] # "instance")
           => \E q \in Process \ {p} :
                /\ held[q] = held'[p] /\ held[q] # None
                /\ elevated[q] /\ why[q] \notin {"refused", "relaunched", "antivirus"}]_vars
  <2> SUFFICES ASSUME IInv, [Next]_vars, NEW p \in Process, why'[p] = "instance", why[p] # "instance"
               PROVE  \E q \in Process \ {p} :
                        /\ held[q] = held'[p] /\ held[q] # None
                        /\ elevated[q] /\ why[q] \notin {"refused", "relaunched", "antivirus"}
    OBVIOUS
  <2>1. PICK q \in Process : pc[p] = "instance" /\ held[q] = held'[p] /\ held[q] # None
    BY IInvParts, EndsOnce
  <2>2. held[p] = None
    BY <2>1 DEF IInv, OneHolder, Holding
  <2> QED
    BY <2>1, <2>2 DEF IInv, Admission
<1> QED
  BY <1>1, SpecIInv, PTL DEF Spec, OtherInstance

\* config.json is unreadable only while a window is filling it, unless
\* check_invariants has ended a process.
THEOREM SpecPrefsReadable == Spec => []PrefsReadable
<1>1. IInv => PrefsReadable
  BY DEF IInv, InStep, PrefsReadable
<1> QED
  BY <1>1, SpecIInv, PTL

\* A save under way ends with Fill.
LEMMA SaveEnds ==
  ASSUME PrefTypes, InStep, Undisturbed, Next,
         NEW p \in Process, pref[p].at = "writing", pref'[p].at = "idle"
  PROVE  Fill(p)
<1>1. pref' # pref
  OBVIOUS
<1>2. ASSUME NEW q \in Process, \/ Main(q) /\ ~Gone(q)
                                \/ Pass(q) \/ Choose(q) \/ Update(q) \/ RemindLater(q) \/ RestartNow(q)
      PROVE  pref' = pref
  BY <1>2 DEF Main, CheckAdmin, CheckAntivirus, EnablePolicies, CheckInstance, StartMonitor,
              CheckIntegrity, Pass, Choose, Update, RemindLater, RestartNow, prefVars
<1>9. ASSUME NEW q \in Process, Gone(q) PROVE FALSE
  <2>1. q # p
    BY <1>9 DEF Gone, InStep
  <2> QED
    BY <1>9, <2>1 DEF Gone, PrefTypes
<1>3. ASSUME NEW q \in Process, NEW l \in Launcher, NEW admin \in BOOLEAN, Launch(q, l, admin) \/ LauncherQuits(l)
      PROVE  pref' = pref
  BY <1>3 DEF Launch, LauncherQuits, prefVars
<1>4. ASSUME NEW q \in Process, NEW field, Load(q, field) PROVE FALSE
  BY <1>4 DEF Load, PrefTypes
<1>5. ASSUME NEW q \in Process, Truncate(q) PROVE FALSE
  <2>1. q # p
    BY <1>5 DEF Truncate
  <2> QED
    BY <1>5, <2>1 DEF Truncate, PrefTypes
<1>6. ASSUME NEW q \in Process, Fill(q) PROVE q = p
  BY <1>6 DEF Fill, PrefTypes
<1>7. Process # {} /\ Step
  BY DEF Next
<1>8. \E q \in Process : Fill(q)
  BY <1>1, <1>2, <1>3, <1>4, <1>5, <1>7, <1>9, Zenon DEF Step, Loop
<1> QED
  BY <1>6, <1>8

\* A save sets no other field back: what it does not change is what was saved last,
\* where the mutex is made.
THEOREM SpecPrefsKept == Spec => PrefsKept
<1>1. IInv /\ [Next]_vars =>
        [\A p \in Process :
           (Undisturbed /\ machine # "nameless" /\ pref[p].at = "writing" /\ pref'[p].at = "idle")
           => \A f \in IF pref[p].field = "close" THEN {"theme"} ELSE Field \ {pref[p].field} :
                config'[f] = latest[f]]_vars
  <2> SUFFICES ASSUME IInv, Next, NEW p \in Process,
                      Undisturbed, machine # "nameless", pref[p].at = "writing", pref'[p].at = "idle",
                      NEW f \in IF pref[p].field = "close" THEN {"theme"} ELSE Field \ {pref[p].field}
               PROVE  config'[f] = latest[f]
    OBVIOUS
  <2>1. Fill(p)
    BY SaveEnds DEF IInv
  <2>2. config' = Saved(p) /\ pc[p] = "window"
    BY <2>1 DEF Fill
  <2>3. own[p]["theme"] = latest["theme"] /\ pref[p].copy = latest /\ latest \in Values
    BY <2>2 DEF IInv, InStep, PrefTypes
  <2> QED
    BY <2>2, <2>3 DEF Saved, Values
<1> QED
  BY <1>1, SpecIInv, PTL DEF Spec, PrefsKept

-----------------------------------------------------------------------------
(* The watchdog: AlarmMeansStalled for any timeout, resolution, delay of the watcher and
   ways to set the clock, as long as a pass of the monitor and the watcher's delay fit
   into the timeout; and AlarmInTime without that. *)

Steady == MaxPass + Late <= Timeout * R

\* In ticks, a beat is never older by a clock that was not set forward than it is,
\* and one second less a tick; what the watcher loaded is not older than a pass and
\* its delay.
Age == ~stalled => /\ since <= MaxPass
                   /\ "lag" \notin forward => lag * R + phase <= since + R - 1
SeenAge == ~stalled /\ watcher = "loaded" /\ "seen" \notin forward
             => seen * R + phase + slack <= MaxPass + Late + R - 1
WatchInv == WatchTypeOK /\ Age /\ SeenAge /\ AlarmMeansStalled

\* A second has R ticks.
LEMMA NextSecond == ASSUME NEW n \in Int, R \in Nat PROVE (n + 1) * R = n * R + R
  OBVIOUS

\* A clock set back shows no more than before.
LEMMA SetBack == ASSUME NEW n \in Int, NEW d \in Int, d <= 0, R \in Nat PROVE (n + d) * R <= n * R
<1>1. (n + d) * R = n * R + d * R
  OBVIOUS
<1>2. d * R <= 0
  OBVIOUS
<1>3. n * R \in Int /\ d * R \in Int
  OBVIOUS
<1> QED
  BY <1>1, <1>2, <1>3

\* Ticks that fit into the timeout are no more than its seconds.
LEMMA InTime == ASSUME NEW n \in Int, R \in Nat \ {0}, Timeout \in Nat, n * R <= Timeout * R + R - 1
                PROVE n <= Timeout
  OBVIOUS

\* The invariant holds at the start.
LEMMA InitWatchInv == WatchInit => WatchInv
<1> SUFFICES ASSUME WatchInit PROVE WatchInv
  OBVIOUS
<1>1. WatchTypeOK
  <2>1. stalled \in BOOLEAN /\ ended \in BOOLEAN
    BY Zenon DEF WatchInit
  <2>2. /\ phase \in 0..(R - 1) /\ lag \in Int /\ since \in 0..Horizon /\ seen \in Int
        /\ left \in 0..R /\ slack \in 0..Late /\ jumps \in 0..MaxJumps
        /\ watcher \in {"asleep", "loaded"} /\ forward \subseteq {"lag", "seen"}
    BY WatchdogAssumption DEF WatchInit
  <2> QED
    BY <2>1, <2>2, Zenon DEF WatchTypeOK
<1>2. Age
  BY WatchdogAssumption DEF WatchInit, Age
<1> QED
  BY <1>1, <1>2 DEF WatchInit, WatchInv, SeenAge, AlarmMeansStalled

\* Ticks, threads and clocks keep their types.
LEMMA StepType == WatchTypeOK /\ [WatchNext]_watchVars => WatchTypeOK'
<1> SUFFICES ASSUME WatchTypeOK, [WatchNext]_watchVars PROVE WatchTypeOK'
  OBVIOUS
<1> USE WatchdogAssumption DEF WatchTypeOK
<1>1. CASE Beat
  BY <1>1 DEF Beat
<1>2. CASE Stall
  BY <1>2 DEF Stall
<1>3. CASE LoadBeat
  BY <1>3 DEF LoadBeat
<1>4. CASE Check
  BY <1>4 DEF Check, Overdue
<1>5. CASE Tick
  BY <1>5 DEF Tick
<1>6. ASSUME NEW d \in Jumps, SetClock(d) PROVE WatchTypeOK'
  BY <1>6 DEF SetClock
<1>7. CASE UNCHANGED watchVars
  BY <1>7 DEF watchVars
<1> QED
  BY <1>1, <1>2, <1>3, <1>4, <1>5, <1>6, <1>7 DEF WatchNext

\* What the clock says of the beat's age, through whole seconds and a clock set back.
LEMMA StepAge == ASSUME Steady, WatchTypeOK, Age, [WatchNext]_watchVars PROVE Age'
<1> DEFINE Bound == since <= MaxPass /\ ("lag" \notin forward => lag * R + phase <= since + R - 1)
<1> SUFFICES ASSUME ~stalled' PROVE Bound'
  BY DEF Age
<1> USE WatchdogAssumption DEF WatchTypeOK, Age
<1>1. CASE Beat
  BY <1>1 DEF Beat
<1>2. CASE Stall
  BY <1>2 DEF Stall
<1>3. CASE LoadBeat
  BY <1>3 DEF LoadBeat
<1>4. CASE Check
  BY <1>4 DEF Check
<1>5. CASE Tick
  <2>1. ~stalled /\ since < MaxPass /\ since' = since + 1 /\ forward' = forward
    BY <1>5 DEF Tick
  <2>2. CASE phase = R - 1
    <3>1. phase' = 0 /\ lag' = lag + 1
      BY <1>5, <2>1, <2>2 DEF Tick
    <3> QED
      BY <2>1, <2>2, <3>1, NextSecond
  <2>3. CASE phase # R - 1
    <3>1. phase' = phase + 1 /\ lag' = lag
      BY <1>5, <2>1, <2>3 DEF Tick
    <3> QED
      BY <2>1, <3>1
  <2> QED
    BY <2>2, <2>3
<1>6. ASSUME NEW d \in Jumps, SetClock(d) PROVE Bound'
  <2>1. lag' = lag + d /\ phase' = phase /\ since' = since /\ ~stalled /\ d \in Int
    BY <1>6 DEF SetClock
  <2>2. CASE d <= 0
    <3>1. (lag + d) * R <= lag * R
      BY <2>1, <2>2, SetBack
    <3>2. forward' = forward
      BY <1>6, <2>2 DEF SetClock
    <3> QED
      BY <2>1, <3>1, <3>2
  <2>3. CASE d > 0
    <3>1. "lag" \in forward'
      BY <1>6, <2>1, <2>3 DEF SetClock
    <3> QED
      BY <2>1, <3>1
  <2> QED
    BY <2>1, <2>2, <2>3
<1>7. CASE UNCHANGED watchVars
  BY <1>7 DEF watchVars
<1> QED
  BY <1>1, <1>2, <1>3, <1>4, <1>5, <1>6, <1>7 DEF WatchNext

\* The same of what the watcher holds, while it waits to look at the clock.
LEMMA StepSeenAge == ASSUME Steady, WatchTypeOK, Age, SeenAge, [WatchNext]_watchVars PROVE SeenAge'
<1> DEFINE Bound == seen * R + phase + slack <= MaxPass + Late + R - 1
<1> SUFFICES ASSUME ~stalled', watcher' = "loaded", "seen" \notin forward' PROVE Bound'
  BY DEF SeenAge
<1> USE WatchdogAssumption DEF WatchTypeOK, Age, SeenAge
<1>1. CASE Beat
  BY <1>1 DEF Beat
<1>2. CASE Stall
  BY <1>2 DEF Stall
<1>3. CASE LoadBeat
  <2>1. seen' = lag /\ phase' = phase /\ slack' = slack /\ ~stalled /\ "lag" \notin forward
    BY <1>3 DEF LoadBeat
  <2>2. lag * R + phase <= MaxPass + R - 1
    BY <2>1
  <2> QED
    BY <2>1, <2>2
<1>4. CASE Check
  BY <1>4 DEF Check
<1>5. CASE Tick
  <2>1. ~stalled /\ watcher = "loaded" /\ slack' = slack - 1 /\ "seen" \notin forward
    BY <1>5 DEF Tick
  <2>2. CASE phase = R - 1
    <3>1. phase' = 0 /\ seen' = seen + 1
      BY <1>5, <2>1, <2>2 DEF Tick
    <3> QED
      BY <2>1, <2>2, <3>1, NextSecond
  <2>3. CASE phase # R - 1
    <3>1. phase' = phase + 1 /\ seen' = seen
      BY <1>5, <2>1, <2>3 DEF Tick
    <3> QED
      BY <2>1, <3>1
  <2> QED
    BY <2>2, <2>3
<1>6. ASSUME NEW d \in Jumps, SetClock(d) PROVE Bound'
  <2>1. seen' = seen + d /\ phase' = phase /\ slack' = slack /\ ~stalled /\ watcher = "loaded" /\ d \in Int
    BY <1>6 DEF SetClock
  <2>2. d <= 0 /\ "seen" \notin forward
    BY <1>6, <2>1 DEF SetClock
  <2>3. (seen + d) * R <= seen * R
    BY <2>1, <2>2, SetBack
  <2> QED
    BY <2>1, <2>2, <2>3
<1>7. CASE UNCHANGED watchVars
  BY <1>7 DEF watchVars
<1> QED
  BY <1>1, <1>2, <1>3, <1>4, <1>5, <1>6, <1>7 DEF WatchNext

\* Only Check ends the process, and what it holds of a live monitor is in time.
LEMMA StepAlarm == ASSUME Steady, WatchTypeOK, SeenAge, AlarmMeansStalled, [WatchNext]_watchVars PROVE AlarmMeansStalled'
<1>1. CASE Check
  <2> SUFFICES ASSUME ended', ~stalled, "seen" \notin forward PROVE FALSE
    BY <1>1 DEF Check, AlarmMeansStalled
  <2>1. seen * R + phase + slack <= MaxPass + Late + R - 1
    BY <1>1 DEF Check, SeenAge
  <2>2. seen * R <= Timeout * R + R - 1
    BY <2>1, WatchdogAssumption DEF WatchTypeOK, Steady
  <2>3. seen <= Timeout
    BY <2>2, WatchdogAssumption, InTime DEF WatchTypeOK
  <2> QED
    BY <1>1, <2>3, WatchdogAssumption DEF Check, Overdue, WatchTypeOK
<1>2. CASE ~Check
  BY <1>2, Zenon DEF WatchNext, Beat, Stall, LoadBeat, Tick, SetClock, watchVars, AlarmMeansStalled
<1> QED
  BY <1>1, <1>2

\* The state keeps its types, whatever the clock does (Watchdog, start_watcher).
THEOREM WatchTypeCorrect == WatchSpec => []WatchTypeOK
<1>1. WatchInit => WatchTypeOK
  BY InitWatchInv DEF WatchInv
<1> QED
  BY <1>1, StepType, PTL DEF WatchSpec

\* A monitor whose passes and whose watcher's delay fit into the timeout is never
\* taken for a suspended one, in whole seconds and wherever the clock is set, but
\* for one set forward between a beat and the look at it (start_watcher,
\* panic_action).
THEOREM NoFalseAlarm == Steady => (WatchSpec => []AlarmMeansStalled)
<1> SUFFICES ASSUME Steady PROVE WatchSpec => []AlarmMeansStalled
  OBVIOUS
<1>1. Steady
  OBVIOUS
<1>2. WatchInv /\ [WatchNext]_watchVars => WatchInv'
  BY <1>1, StepType, StepAge, StepSeenAge, StepAlarm DEF WatchInv
<1>3. WatchInv => AlarmMeansStalled
  BY DEF WatchInv
<1> QED
  BY InitWatchInv, <1>2, <1>3, PTL DEF WatchSpec

-----------------------------------------------------------------------------
(* The alarm comes in time *)

\* Of a clock that was not set: it counts every second of the beat's age but for the
\* one under way, what the watcher loaded is not younger than the beat, and after a
\* look that found it in time the next look is at most a second and the delay away.
Counted == jumps = 0 =>
  /\ lag >= 0 /\ since <= lag * R + R - 1
  /\ since < Horizon => since <= lag * R + phase
  /\ watcher = "loaded" => seen >= lag
Awake == /\ watcher = "loaded" => left = 0
         /\ ~ended /\ jumps = 0 => since + left + slack <= (Timeout + 2) * R + Late
TimeInv == WatchTypeOK /\ Counted /\ Awake

\* More seconds have more ticks.
LEMMA Seconds == ASSUME NEW n \in Int, NEW m \in Int, n <= m, R \in Nat PROVE n * R <= m * R
<1> DEFINE d == n - m
<1>1. d \in Int /\ d <= 0 /\ m + d = n
  OBVIOUS
<1> HIDE DEF d
<1>2. (m + d) * R <= m * R
  BY <1>1, SetBack
<1>3. n * R = (m + d) * R
  BY <1>1, Zenon
<1> QED
  BY <1>2, <1>3, Zenon

\* A tick that a watcher waits for is one of its delay.
LEMMA TickWaited == ASSUME NEW a \in Int, NEW b \in Int, NEW c \in Int, c <= a + 1
                    PROVE c + 0 + (b - 1) <= a + b
  OBVIOUS

\* The timeout and the two seconds that rounding may add.
LEMMA TwoSeconds == Timeout * R \in Nat /\ (Timeout + 2) * R = Timeout * R + R + R
<1>1. Timeout \in Int /\ Timeout + 1 \in Int /\ R \in Nat
  BY WatchdogAssumption
<1>2. (Timeout + 1) * R = Timeout * R + R
  BY <1>1, NextSecond, Zenon
<1>3. ((Timeout + 1) + 1) * R = (Timeout + 1) * R + R
  BY <1>1, NextSecond, Zenon
<1>4. Timeout + 2 = (Timeout + 1) + 1 /\ Timeout * R \in Nat
  BY WatchdogAssumption
<1> QED
  BY <1>1, <1>2, <1>3, <1>4

\* A step keeps the count of the seconds since the last beat,
LEMMA StepCounted == ASSUME WatchTypeOK, Counted, [WatchNext]_watchVars PROVE Counted'
<1> SUFFICES ASSUME jumps' = 0
             PROVE  /\ lag' >= 0 /\ since' <= lag' * R + R - 1
                    /\ since' < Horizon => since' <= lag' * R + phase'
                    /\ watcher' = "loaded" => seen' >= lag'
  BY DEF Counted
<1> USE WatchdogAssumption DEF WatchTypeOK, Counted
<1>1. CASE Beat
  BY <1>1 DEF Beat
<1>2. CASE Stall
  BY <1>2 DEF Stall
<1>3. CASE LoadBeat
  BY <1>3 DEF LoadBeat
<1>4. CASE Check
  BY <1>4 DEF Check
<1>5. CASE Tick
  <2>1. PICK x \in Int : x = lag * R
    OBVIOUS
  <2>2. /\ jumps = 0 /\ lag >= 0 /\ since <= x + R - 1
        /\ since < Horizon => since <= x + phase
        /\ watcher = "loaded" => seen >= lag
    BY <1>5, <2>1 DEF Tick
  <2>3. /\ watcher' = watcher
        /\ watcher = "loaded" => seen' = seen + IF phase = R - 1 THEN 1 ELSE 0
    BY <1>5 DEF Tick
  <2>4. CASE since < Horizon /\ phase = R - 1
    <3>1. phase' = 0 /\ lag' = lag + 1 /\ since' = since + 1
      BY <1>5, <2>4 DEF Tick
    <3>2. lag' * R = x + R
      BY <2>1, <3>1, NextSecond
    <3> HIDE DEF Counted
    <3> QED
      BY <2>2, <2>3, <2>4, <3>1, <3>2
  <2>5. CASE since < Horizon /\ phase # R - 1
    <3>1. phase' = phase + 1 /\ lag' = lag /\ since' = since + 1
      BY <1>5, <2>5 DEF Tick
    <3>2. lag' * R = x
      BY <2>1, <3>1
    <3> HIDE DEF Counted
    <3> QED
      BY <2>2, <2>3, <2>5, <3>1, <3>2
  <2>6. CASE since = Horizon
    <3>1. lag' = lag /\ since' = since
      BY <1>5, <2>6 DEF Tick
    <3>2. lag' * R = x
      BY <2>1, <3>1
    <3> HIDE DEF Counted
    <3> QED
      BY <2>2, <2>3, <2>6, <3>1, <3>2
  <2> QED
    BY <2>4, <2>5, <2>6
<1>6. ASSUME NEW d \in Jumps, SetClock(d) PROVE FALSE
  BY <1>6 DEF SetClock
<1>7. CASE UNCHANGED watchVars
  BY <1>7 DEF watchVars
<1> QED
  BY <1>1, <1>2, <1>3, <1>4, <1>5, <1>6, <1>7 DEF WatchNext

\* and that the watcher wakes in time.
LEMMA StepAwake == ASSUME WatchTypeOK, Counted, Awake, [WatchNext]_watchVars PROVE Awake'
<1> DEFINE Most == (Timeout + 2) * R + Late
<1>0. Most \in Int /\ Most >= R + Late /\ Most = Timeout * R + R + R + Late /\ Timeout * R \in Nat
  BY TwoSeconds, WatchdogAssumption
<1> HIDE DEF Most
<1> SUFFICES ASSUME TRUE
             PROVE  /\ watcher' = "loaded" => left' = 0
                    /\ ~ended' /\ jumps' = 0 => since' + left' + slack' <= Most
  BY DEF Awake, Most
<1>a. /\ watcher = "loaded" => left = 0
      /\ ~ended /\ jumps = 0 => since + left + slack <= Most
  BY DEF Awake, Most
<1>b. Most \in Int
  BY <1>0
<1> USE WatchdogAssumption, <1>b, <1>a DEF WatchTypeOK
<1>1. CASE Beat
  BY <1>1 DEF Beat
<1>2. CASE Stall
  BY <1>2 DEF Stall
<1>3. CASE LoadBeat
  BY <1>3 DEF LoadBeat
<1>4. CASE Check
  <2>0. left' = R /\ slack' = Late /\ since' = since /\ watcher' = "asleep" /\ jumps' = jumps
    BY <1>4 DEF Check
  <2> SUFFICES ASSUME ~ended', jumps = 0 PROVE since + R + Late <= Most
    BY <2>0
  <2>1. lag <= Timeout
    <3>1. ~(seen > Timeout)
      BY <1>4, Zenon DEF Check, Overdue
    <3>2. watcher = "loaded"
      BY <1>4 DEF Check
    <3>3. seen >= lag
      BY <3>2 DEF Counted
    <3> QED
      BY <3>1, <3>3
  <2>2. since <= lag * R + R - 1
    BY DEF Counted
  <2>3. lag * R <= Timeout * R /\ lag * R \in Int
    BY <2>1, Seconds
  <2> QED
    BY <1>0, <2>2, <2>3
<1>5. CASE Tick
  <2>1. since' <= since + 1 /\ since' \in Int /\ watcher' = watcher /\ jumps' = jumps /\ ~ended
    BY <1>5 DEF Tick
  <2>2. CASE left > 0
    BY <1>5, <2>1, <2>2 DEF Tick
  <2>3. CASE left = 0
    <3>1. left' = 0 /\ slack' = slack - 1
      BY <1>5, <2>3 DEF Tick
    <3>2. jumps = 0 => since + slack <= Most
      BY <2>1, <2>3
    <3>3. since' + left' + slack' = since' + 0 + (slack - 1)
      BY <3>1, Zenon
    <3>4. since' + 0 + (slack - 1) <= since + slack
      <4>1. since \in Int /\ slack \in Int
        OBVIOUS
      <4> QED
        BY <2>1, <4>1, TickWaited, Zenon
    <3>5. jumps = 0 => since' + left' + slack' <= Most
      BY <2>1, <3>2, <3>3, <3>4
    <3> QED
      BY <2>1, <2>3, <3>1, <3>5, Zenon
  <2> QED
    BY <2>2, <2>3
<1>6. ASSUME NEW d \in Jumps, SetClock(d)
      PROVE  /\ watcher' = "loaded" => left' = 0
             /\ ~ended' /\ jumps' = 0 => since' + left' + slack' <= Most
  BY <1>6 DEF SetClock
<1>7. CASE UNCHANGED watchVars
  BY <1>7 DEF watchVars
<1> QED
  BY <1>1, <1>2, <1>3, <1>4, <1>5, <1>6, <1>7 DEF WatchNext

\* A monitor that stopped is noticed within two seconds of its timeout and the delay
\* of the watcher, whatever its passes took before (start_watcher).
THEOREM AlarmComesInTime == WatchSpec => []AlarmInTime
<1>1. WatchInit => TimeInv
  <2> SUFFICES ASSUME WatchInit PROVE TimeInv
    OBVIOUS
  <2>1. WatchTypeOK
    BY InitWatchInv DEF WatchInv
  <2>2. Counted
    BY WatchdogAssumption DEF WatchInit, Counted
  <2>3. since + left + slack = R + Late /\ watcher = "asleep"
    BY WatchdogAssumption DEF WatchInit
  <2>4. Awake
    BY <2>3, TwoSeconds, WatchdogAssumption DEF Awake
  <2> QED
    BY <2>1, <2>2, <2>4 DEF TimeInv
<1>2. TimeInv /\ [WatchNext]_watchVars => TimeInv'
  BY StepType, StepCounted, StepAwake DEF TimeInv
<1>3. TimeInv => AlarmInTime
  BY WatchdogAssumption DEF TimeInv, AlarmInTime, Awake, WatchTypeOK
<1> QED
  BY <1>1, <1>2, <1>3, PTL DEF WatchSpec
=============================================================================
