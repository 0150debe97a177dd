---------------------------- MODULE SecretsProofs ----------------------------
(***************************************************************************)
(* Two invariants of SecretsOnScreen for every set of accounts, vaults and *)
(* threads, every Timeout and any number of operations: each secret on the *)
(* screen or in the clipboard has its timer, and the panel never shows a   *)
(* patient user the password of another entry.                             *)
(***************************************************************************)
EXTENDS SecretsOnScreen, FiniteSetTheorems, TLAPS

-----------------------------------------------------------------------------
(* The inductive invariant *)

\* Hiding closures clear, and the others carry an account.
Closures ==
  \A i \in DOMAIN queue :
    IF queue[i].do = "hide" THEN queue[i].of = None ELSE queue[i].of \in Account

\* A hiding comes after position i of the queue: it is posted there, or its thread
\* still sleeps and will post it behind everything else.
HideAfter(i) == Sleepers # {} \/ \E j \in DOMAIN queue : j > i /\ queue[j].do = "hide"

\* What is shown, and what a waiting closure will show, is followed by a hiding.
ShownIsHidden ==
  /\ revealed # None => HideAfter(0)
  /\ \A i \in DOMAIN queue : queue[i].do = "show" => HideAfter(i)

\* The youngest clearing thread is that of the text in the clipboard: it has slept
\* for as long as the text is there. A text given up was left by the end of the
\* process, with no thread, or has been there for the whole Timeout.
CopiedIsCleared ==
  clipboard.text \in Secret =>
    IF clipboard.orphan
    THEN clearers = <<>> \/ clipboard.age = Timeout
    ELSE clearers # <<>> /\ clearers[Len(clearers)] = Timeout - clipboard.age

Timed == TypeOK /\ Closures /\ ShownIsHidden /\ CopiedIsCleared

Prompting(t) == worker[t].pc \in {"prompt", "read"}

\* A patient user has one thing going on at a time, and the selection is still the
\* entry it was asked for until its password is shown.
OneAtATime == \A t, u \in Thread : worker[t] # NoJob /\ worker[u] # NoJob => t = u
AskedForSelected ==
  \A t \in Thread : Prompting(t) =>
    queue = <<>> /\ (worker[t].kind = "reveal" => worker[t].id = selected)
ShowsSelected == \A i \in DOMAIN queue : queue[i].do = "show" => queue[i].of = selected
PanelOwn == selected # None => revealed \in {selected, None}

InOrder == patient => OneAtATime /\ AskedForSelected /\ ShowsSelected /\ PanelOwn

IInv == Timed /\ InOrder

-----------------------------------------------------------------------------
(* Sequences, times and names *)

\* What the clipboard holds is a secret or one of two other things.
LEMMA Names ==
  /\ None \notin Account /\ Empty \notin Secret /\ Foreign \notin Secret
  /\ Timeout \in Nat /\ Timeout > 0
<1>1. Empty # Text /\ Foreign # Text
  <2>1. ASSUME NEW x, NEW y PROVE Cardinality({x, y}) \leq 2
    <3>1. IsFiniteSet({x}) /\ Cardinality({x}) = 1
      BY FS_Singleton
    <3>2. {x, y} = {x} \cup {y}
      OBVIOUS
    <3>3. Cardinality({x} \cup {y}) = IF y \in {x} THEN 1 ELSE 2
      BY <3>1, FS_AddElement
    <3> QED BY <3>2, <3>3
  <2>2. {Empty, Text, Foreign} = {Empty, Foreign} \/ Empty # Text
    OBVIOUS
  <2>3. {Empty, Text, Foreign} = {Empty, Text} \/ Foreign # Text
    OBVIOUS
  <2>4. Cardinality({Empty, Foreign}) \leq 2 /\ Cardinality({Empty, Text}) \leq 2
    BY <2>1
  <2>5. Cardinality({Empty, Text, Foreign}) = 3
    BY SecretsAssumption
  <2> QED BY <2>2, <2>3, <2>4, <2>5
<1> QED BY <1>1, SecretsAssumption DEF Secret

\* Positions of a sequence to which an element is added, and of one that loses its first.
LEMMA Positions ==
  ASSUME NEW S, NEW s \in Seq(S)
  PROVE  /\ Len(s) \in Nat /\ DOMAIN s = 1..Len(s)
         /\ \A i \in DOMAIN s : s[i] \in S
         /\ \A x \in S : /\ Append(s, x) \in Seq(S) /\ Append(s, x) # <<>>
                         /\ DOMAIN Append(s, x) = 1..(Len(s) + 1)
                         /\ Len(Append(s, x)) = Len(s) + 1
                         /\ Append(s, x)[Len(s) + 1] = x
                         /\ \A i \in DOMAIN s : Append(s, x)[i] = s[i]
         /\ s = <<>> <=> Len(s) = 0
         /\ s # <<>> => /\ Tail(s) \in Seq(S) /\ Head(s) = s[1] /\ 1 \in DOMAIN s
                        /\ DOMAIN Tail(s) = 1..(Len(s) - 1)
                        /\ Len(Tail(s)) = Len(s) - 1
                        /\ \A i \in 1..(Len(s) - 1) : Tail(s)[i] = s[i + 1] /\ i + 1 \in DOMAIN s
OBVIOUS

\* Time left does not grow, and what has none left stays so.
LEMMA LessIsLess ==
  ASSUME NEW n \in 0..Timeout
  PROVE  /\ Less(n) \in 0..Timeout
         /\ n = 0 => Less(n) = 0
         /\ n # 0 => Less(n) = n - 1
BY Names DEF Less

-----------------------------------------------------------------------------
(* Types *)

\* A copy leaves a clipboard and its clearing threads of the right types.
LEMMA CopyTypes ==
  ASSUME TypeOK, NEW x \in Secret, copy_to_clipboard(x)
  PROVE  /\ clipboard' \in [text : Secret \cup {Empty, Foreign}, age : 0..Timeout, orphan : BOOLEAN]
         /\ clearers' \in Seq(0..Timeout)
<1>1. 0 \in 0..Timeout /\ Timeout \in 0..Timeout
  BY Names
<1>2. \A y \in Secret \cup {Empty, Foreign} :
        Holding(y) \in [text : Secret \cup {Empty, Foreign}, age : 0..Timeout, orphan : BOOLEAN]
  BY <1>1 DEF Holding
<1>3. Append(clearers, Timeout) \in Seq(0..Timeout)
  BY <1>1 DEF TypeOK
<1> QED BY <1>2, <1>3 DEF copy_to_clipboard, TypeOK

\* Giving the text up changes one flag of the clipboard.
LEMMA OrphanTypes ==
  ASSUME TypeOK, NEW b \in BOOLEAN
  PROVE  [clipboard EXCEPT !.orphan = b]
           \in [text : Secret \cup {Empty, Foreign}, age : 0..Timeout, orphan : BOOLEAN]
BY DEF TypeOK

\* A posted closure has its type.
LEMMA PostTypes ==
  ASSUME TypeOK, NEW do \in {"show", "hide", "copy"}, NEW a \in Account \cup {None}, Post(do, a)
  PROVE  queue' \in Seq(Closure)
<1>1. [do |-> do, of |-> a] \in Closure
  BY DEF Closure
<1> QED BY <1>1 DEF Post, TypeOK

\* The records of a thread that starts, is idle or falls asleep.
LEMMA JobTypes ==
  /\ 0 \in 0..Timeout /\ NoJob \in Job
  /\ \A a \in Account, k \in {"reveal", "copy"} :
       [NoJob EXCEPT !.kind = k, !.pc = "prompt", !.id = a] \in Job
  /\ \A w \in Job : /\ [w EXCEPT !.pc = "read"] \in Job
                    /\ [w EXCEPT !.pc = "sleep", !.left = Timeout] \in Job
                    /\ [w EXCEPT !.left = Less(@)] \in Job
<1>1. 0 \in 0..Timeout /\ Timeout \in 0..Timeout
  BY Names
<1>2. NoJob \in Job
  BY <1>1 DEF NoJob, Job
<1>3. \A w \in Job : Less(w.left) \in 0..Timeout
  BY LessIsLess DEF Job
<1> QED BY <1>1, <1>2, <1>3 DEF NoJob, Job

\* A sleeping thread's record, as the step that puts it to sleep writes it.
LEMMA AsleepIs ==
  ASSUME TypeOK, NEW t \in Thread
  PROVE  /\ Asleep(t) = [worker EXCEPT ![t] = [worker[t] EXCEPT !.pc = "sleep", !.left = Timeout]]
         /\ Asleep(t)[t].pc = "sleep"
         /\ \A u \in Thread : u # t => Asleep(t)[u] = worker[u]
<1>1. Asleep(t) = [worker EXCEPT ![t] = [worker[t] EXCEPT !.pc = "sleep", !.left = Timeout]]
  BY DEF Asleep, TypeOK, Job
<1>2. [worker[t] EXCEPT !.pc = "sleep", !.left = Timeout].pc = "sleep"
  BY DEF TypeOK, Job
<1> QED BY <1>1, <1>2 DEF TypeOK

\* Every step keeps every variable in its type.
LEMMA TypeStep == TypeOK /\ Closures /\ [Next]_vars => TypeOK'
<1> SUFFICES ASSUME TypeOK, Closures, [Next]_vars PROVE TypeOK'
  OBVIOUS
<1>1. CASE UNCHANGED vars
  BY <1>1 DEF vars, steps, TypeOK
<1>2. ASSUME NEW t \in Thread, RevealPassword(t) PROVE TypeOK'
  <2>1. worker' \in [Thread -> Job]
    BY <1>2, JobTypes DEF RevealPassword, Spawn, TypeOK
  <2> QED BY SMTT(30), <1>2, <2>1 DEF RevealPassword, Spawn, InUse, TypeOK
<1>3. ASSUME NEW t \in Thread, NEW a \in Account, CopySecret(t, a) PROVE TypeOK'
  <2>1. worker' \in [Thread -> Job]
    BY <1>3, JobTypes DEF CopySecret, Spawn, TypeOK
  <2> QED BY SMTT(30), <1>3, <2>1 DEF CopySecret, Spawn, InUse, TypeOK
<1>4. ASSUME NEW x \in Secret, CopyNow(x) PROVE TypeOK'
  BY <1>4, CopyTypes DEF CopyNow, InUse, TypeOK
<1>5. CASE Exit
  <2>1. <<>> \in Seq(0..Timeout) /\ <<>> \in Seq(Closure)
    OBVIOUS
  <2>2. clipboard' \in [text : Secret \cup {Empty, Foreign}, age : 0..Timeout, orphan : BOOLEAN]
    <3>1. (clipboard.text \in Secret) \in BOOLEAN
      OBVIOUS
    <3>2. clipboard' = [clipboard EXCEPT !.orphan = clipboard.text \in Secret]
      BY <1>5, Zenon DEF Exit
    <3> QED BY <3>1, <3>2, OrphanTypes, Zenon
  <2>3. worker' \in [Thread -> Job]
    BY <1>5, JobTypes DEF Exit
  <2> QED BY <1>5, <2>1, <2>2, <2>3 DEF Exit, TypeOK
<1>6. CASE TurnPage \/ Lock
  BY <1>6 DEF TurnPage, Lock, TypeOK
<1>7. ASSUME NEW a \in Account \cup {None}, SelectEntry(a) PROVE TypeOK'
  BY <1>7 DEF SelectEntry, TypeOK
<1>8. ASSUME NEW v \in Vault, Unlock(v) PROVE TypeOK'
  BY <1>8 DEF Unlock, InUse, TypeOK
<1>9. CASE Hide
  BY <1>9 DEF Hide, TypeOK
<1>10. CASE OtherProgramCopies
  BY <1>10, JobTypes DEF OtherProgramCopies, Holding, TypeOK
<1>11. CASE Clear
  <2>1. clipboard' \in [text : Secret \cup {Empty, Foreign}, age : 0..Timeout, orphan : BOOLEAN]
    <3>1. (clipboard.text \in Secret /\ clipboard.age = Timeout) \in BOOLEAN
      BY Zenon
    <3>2. CASE clipboard' = Holding(Empty)
      BY <3>2, JobTypes DEF Holding
    <3>3. CASE clipboard' = [clipboard EXCEPT
                              !.orphan = clipboard.text \in Secret /\ clipboard.age = Timeout]
      BY <3>1, <3>3, OrphanTypes, Zenon
    <3> QED BY <1>11, <3>2, <3>3 DEF Clear
  <2>2. clearers' \in Seq(0..Timeout)
    BY <1>11 DEF Clear, TypeOK
  <2> QED BY <1>11, <2>1, <2>2 DEF Clear, TypeOK
<1>12. CASE RunClosure
  <2> DEFINE c == Head(queue)
  <2>1. c \in Closure /\ queue' \in Seq(Closure)
    BY <1>12, Positions DEF RunClosure, TypeOK
  <2>2. CASE c.do = "copy" /\ copy_to_clipboard(c.of) /\ UNCHANGED revealed
    <3>1. c.of \in Secret
      BY <1>12, <2>2, Positions DEF RunClosure, Closures, Secret, TypeOK
    <3> QED BY <1>12, <2>1, <2>2, <3>1, CopyTypes DEF RunClosure, TypeOK
  <2>3. CASE revealed' = c.of /\ UNCHANGED <<clipboard, clearers>>
    BY <1>12, <2>1, <2>3 DEF RunClosure, TypeOK, Closure
  <2> QED BY <1>12, <2>2, <2>3 DEF RunClosure
<1>13. CASE Tick
  <2>1. clipboard' \in [text : Secret \cup {Empty, Foreign}, age : 0..Timeout, orphan : BOOLEAN]
    <3> DEFINE a == IF clipboard.text \in Secret /\ clipboard.age < Timeout
                    THEN clipboard.age + 1 ELSE clipboard.age
    <3>1. a \in 0..Timeout
      BY Names DEF TypeOK
    <3>2. clipboard' = [clipboard EXCEPT !.age = a]
      BY <1>13 DEF Tick
    <3> HIDE DEF a
    <3> QED BY <3>1, <3>2 DEF TypeOK
  <2>2. clearers' \in Seq(0..Timeout)
    <3>1. clearers \in Seq(0..Timeout) /\ Len(clearers) \in Nat /\ DOMAIN clearers = 1..Len(clearers)
      BY DEF TypeOK
    <3>2. \A i \in 1..Len(clearers) : clearers[i] \in 0..Timeout
      BY <3>1, Positions
    <3>3. \A i \in 1..Len(clearers) : Less(clearers[i]) \in 0..Timeout
      BY <3>2, LessIsLess
    <3>4. clearers' = [i \in 1..Len(clearers) |-> Less(clearers[i])]
      BY <1>13, <3>1 DEF Tick
    <3> QED BY <3>1, <3>3, <3>4
  <2>3. worker' \in [Thread -> Job]
    <3>1. \A t \in Thread : [worker[t] EXCEPT !.left = Less(@)] \in Job
      BY JobTypes DEF TypeOK
    <3> QED BY <1>13, <3>1 DEF Tick, TypeOK
  <2> QED BY <1>13, <2>1, <2>2, <2>3 DEF Tick, TypeOK
<1>14. ASSUME NEW t \in Thread, Read(t) PROVE TypeOK'
  <2>1. worker[t] \in Job /\ worker[t].id \in Account \cup {None}
    BY DEF TypeOK, Job
  <2>2. queue' \in Seq(Closure)
    <3>1. CASE worker[t].id \in vault /\ worker[t].kind = "reveal"
      BY <1>14, <2>1, <3>1, PostTypes DEF Read
    <3>2. CASE worker[t].id \in vault /\ worker[t].kind # "reveal"
      BY <1>14, <2>1, <3>2, PostTypes DEF Read
    <3>3. CASE worker[t].id \notin vault
      BY <1>14, <3>3 DEF Read, TypeOK
    <3> QED BY <3>1, <3>2, <3>3
  <2>3. worker' \in [Thread -> Job]
    <3>1. [worker[t] EXCEPT !.pc = "sleep", !.left = Timeout] \in Job /\ NoJob \in Job
      BY <2>1, JobTypes
    <3> QED BY ZenonT(60), <1>14, <3>1, AsleepIs DEF Read, TypeOK
  <2> QED BY <1>14, <2>2, <2>3 DEF Read, TypeOK
<1>15. ASSUME NEW t \in Thread, Wake(t) PROVE TypeOK'
  <2>1. queue' \in Seq(Closure)
    BY SMTT(30), <1>15, PostTypes DEF Wake
  <2>2. worker' \in [Thread -> Job]
    BY <1>15, JobTypes DEF Wake, TypeOK
  <2> QED BY <1>15, <2>1, <2>2 DEF Wake, TypeOK
<1>16. ASSUME NEW t \in Thread, Answer(t) PROVE TypeOK'
  <2>1. [worker[t] EXCEPT !.pc = "read"] \in Job /\ NoJob \in Job
    BY JobTypes DEF TypeOK
  <2>2. worker' \in [Thread -> Job]
    BY <1>16, <2>1 DEF Answer, TypeOK
  <2> QED BY SMTT(30), <1>16, <2>2 DEF Answer, TypeOK
<1> QED
  BY <1>1, <1>2, <1>3, <1>4, <1>5, <1>6, <1>7, <1>8, <1>9, <1>10, <1>11, <1>12, <1>13, <1>14, <1>15, <1>16
  DEF Next, Operation, Navigation, Machine, ThreadStep

-----------------------------------------------------------------------------
(* What is shown is hidden again *)

\* Posting puts a closure behind those that wait, in its place and order.
LEMMA Posted ==
  ASSUME TypeOK, NEW do \in {"show", "hide", "copy"}, NEW a \in Account \cup {None}, Post(do, a)
  PROVE  /\ Len(queue) \in Nat /\ DOMAIN queue = 1..Len(queue)
         /\ DOMAIN queue' = 1..(Len(queue) + 1)
         /\ \A i \in DOMAIN queue : queue'[i] = queue[i]
         /\ queue'[Len(queue) + 1].do = do /\ queue'[Len(queue) + 1].of = a
<1>1. queue \in Seq(Closure) /\ [do |-> do, of |-> a] \in Closure
  BY DEF TypeOK, Closure
<1>2. queue' = Append(queue, [do |-> do, of |-> a])
  BY DEF Post
<1> HIDE DEF Closure
<1> QED BY <1>1, <1>2, Positions

\* Every step keeps the closures well formed.
LEMMA ClosuresStep == TypeOK /\ Closures /\ [Next]_vars => Closures'
<1> SUFFICES ASSUME TypeOK, Closures, [Next]_vars PROVE Closures'
  OBVIOUS
<1>1. ASSUME queue' = queue PROVE Closures'
  BY <1>1 DEF Closures
<1>2. CASE Exit
  BY <1>2 DEF Exit, Closures
<1>3. CASE RunClosure
  <2>1. queue \in Seq(Closure) /\ queue # <<>> /\ queue' = Tail(queue)
    BY <1>3 DEF RunClosure, TypeOK
  <2>2. DOMAIN queue' = 1..(Len(queue) - 1)
        /\ \A i \in DOMAIN queue' : queue'[i] = queue[i + 1] /\ i + 1 \in DOMAIN queue
    BY <2>1, Positions
  <2> QED BY <2>2 DEF Closures
<1>4. ASSUME NEW do \in {"show", "hide", "copy"}, NEW a \in Account \cup {None}, Post(do, a),
             IF do = "hide" THEN a = None ELSE a \in Account
      PROVE  Closures'
  <2>1. /\ Len(queue) \in Nat /\ DOMAIN queue = 1..Len(queue)
        /\ DOMAIN queue' = 1..(Len(queue) + 1)
        /\ \A i \in DOMAIN queue : queue'[i] = queue[i]
        /\ queue'[Len(queue) + 1].do = do /\ queue'[Len(queue) + 1].of = a
    BY <1>4, Posted
  <2> QED BY <1>4, <2>1 DEF Closures
<1>5. ASSUME NEW t \in Thread, Read(t) PROVE Closures'
  <2>1. worker[t].id \in vault => worker[t].id \in Account
    BY SecretsAssumption DEF TypeOK
  <2>2. CASE worker[t].id \in vault /\ worker[t].kind = "reveal"
    BY <1>4, <1>5, <2>1, <2>2 DEF Read
  <2>3. CASE worker[t].id \in vault /\ worker[t].kind # "reveal"
    BY <1>4, <1>5, <2>1, <2>3 DEF Read
  <2>4. CASE worker[t].id \notin vault
    BY <1>1, <1>5, <2>4 DEF Read
  <2> QED BY <2>2, <2>3, <2>4
<1>6. ASSUME NEW t \in Thread, Wake(t) PROVE Closures'
  BY <1>4, <1>6 DEF Wake
<1> QED
  BY <1>1, <1>2, <1>3, <1>5, <1>6
  DEF Next, Operation, Navigation, Machine, ThreadStep, RevealPassword, CopySecret, CopyNow, Spawn,
      TurnPage, Lock, SelectEntry, Unlock, Hide, OtherProgramCopies, Clear, Tick, Answer, vars, steps

\* A thread that sleeps goes on sleeping.
SleepOn == \A t \in Thread : worker[t].pc = "sleep" => worker'[t].pc = "sleep"

\* With the same closures waiting, nothing newly shown and the sleepers still there,
\* what is shown stays followed by a hiding.
LEMMA StaysHidden ==
  ASSUME ShownIsHidden, SleepOn, queue' = queue, revealed' \in {revealed, None}
  PROVE  ShownIsHidden'
<1>1. Sleepers # {} => Sleepers' # {}
  BY DEF Sleepers, SleepOn
<1> QED BY <1>1 DEF ShownIsHidden, HideAfter

\* Every step leaves what is shown, or about to be shown, followed by a hiding.
LEMMA ShownStep == Timed /\ [Next]_vars => ShownIsHidden'
<1> SUFFICES ASSUME TypeOK, Closures, ShownIsHidden, [Next]_vars PROVE ShownIsHidden'
  BY DEF Timed
<1>1. ASSUME NEW t \in Thread, NEW k, NEW a, Spawn(t, k, a) PROVE ShownIsHidden'
  <2>1. SleepOn
    BY <1>1 DEF Spawn, SleepOn, TypeOK, NoJob
  <2> QED BY <1>1, <2>1, StaysHidden DEF Spawn
<1>2. ASSUME NEW t \in Thread, Answer(t) PROVE ShownIsHidden'
  <2>1. SleepOn
    BY <1>2 DEF Answer, SleepOn, TypeOK
  <2> QED BY <1>2, <2>1, StaysHidden DEF Answer
<1>3. CASE Tick
  <2>1. SleepOn
    BY <1>3 DEF Tick, SleepOn, TypeOK, Job
  <2> QED BY <1>3, <2>1, StaysHidden DEF Tick
<1>4. ASSUME UNCHANGED <<worker, queue>>, revealed' \in {revealed, None} PROVE ShownIsHidden'
  BY <1>4, StaysHidden DEF SleepOn
<1>5. CASE Exit
  BY <1>5 DEF Exit, ShownIsHidden
<1>6. ASSUME NEW t \in Thread, Read(t) PROVE ShownIsHidden'
  <2>1. CASE worker[t].kind = "reveal"
    <3>1. worker'[t].pc = "sleep"
      BY <1>6, <2>1, AsleepIs DEF Read
    <3> QED BY <3>1 DEF ShownIsHidden, HideAfter, Sleepers
  <2>2. CASE worker[t].kind # "reveal"
    <3>1. SleepOn
      BY <1>6, <2>2 DEF Read, SleepOn, TypeOK
    <3>2. CASE worker[t].id \notin vault
      BY <1>6, <3>1, <3>2, StaysHidden DEF Read
    <3>3. CASE worker[t].id \in vault
      <4>1. Post("copy", worker[t].id) /\ revealed' = revealed
        BY <1>6, <2>2, <3>3 DEF Read
      <4>2. worker[t].id \in Account \cup {None}
        BY DEF TypeOK, Job
      <4>3. /\ Len(queue) \in Nat /\ DOMAIN queue = 1..Len(queue)
            /\ DOMAIN queue' = 1..(Len(queue) + 1)
            /\ \A i \in DOMAIN queue : queue'[i] = queue[i]
            /\ queue'[Len(queue) + 1].do = "copy"
        BY <4>1, <4>2, Posted
      <4>4. \A i \in DOMAIN queue \cup {0} : HideAfter(i) => HideAfter(i)'
        BY <3>1, <4>3 DEF HideAfter, Sleepers, SleepOn
      <4>5. \A i \in DOMAIN queue' : queue'[i].do = "show" => i \in DOMAIN queue
        BY <4>3
      <4> QED BY <4>1, <4>3, <4>4, <4>5 DEF ShownIsHidden
    <3> QED BY <3>2, <3>3
  <2> QED BY <2>1, <2>2
<1>7. ASSUME NEW t \in Thread, Wake(t) PROVE ShownIsHidden'
  <2>1. /\ Len(queue) \in Nat /\ DOMAIN queue' = 1..(Len(queue) + 1)
        /\ queue'[Len(queue) + 1].do = "hide"
    BY <1>7, Posted DEF Wake
  <2>2. \A i \in DOMAIN queue' : queue'[i].do # "hide" => HideAfter(i)'
    BY <2>1 DEF HideAfter
  <2>3. HideAfter(0)'
    BY <2>1 DEF HideAfter
  <2> QED BY <2>2, <2>3 DEF ShownIsHidden
<1>8. CASE RunClosure
  <2>1. queue \in Seq(Closure) /\ queue # <<>> /\ queue' = Tail(queue) /\ worker' = worker
    BY <1>8 DEF RunClosure, TypeOK
  <2>2. /\ Len(queue) \in Nat /\ DOMAIN queue = 1..Len(queue) /\ 1 \in DOMAIN queue
        /\ DOMAIN queue' = 1..(Len(queue) - 1)
        /\ \A i \in DOMAIN queue' : queue'[i] = queue[i + 1] /\ i + 1 \in DOMAIN queue
        /\ Head(queue) = queue[1] /\ queue[1] \in Closure
    BY <2>1, Positions
  <2>3. \A i \in Nat : HideAfter(i + 1) => HideAfter(i)'
    <3> SUFFICES ASSUME NEW i \in Nat, HideAfter(i + 1), Sleepers = {} PROVE HideAfter(i)'
      BY <2>1 DEF HideAfter, Sleepers
    <3>1. PICK j \in DOMAIN queue : j > i + 1 /\ queue[j].do = "hide"
      BY DEF HideAfter
    <3>2. j - 1 \in DOMAIN queue' /\ queue'[j - 1] = queue[j] /\ j - 1 > i
      BY <2>2, <3>1
    <3> QED BY <3>1, <3>2 DEF HideAfter
  <2>4. \A i \in DOMAIN queue' : queue'[i].do = "show" => HideAfter(i)'
    BY <2>2, <2>3 DEF ShownIsHidden
  <2>5. revealed' # None => HideAfter(0)'
    <3>1. CASE queue[1].do = "show"
      BY <2>2, <2>3, <3>1 DEF ShownIsHidden
    <3>2. CASE queue[1].do = "hide"
      BY <1>8, <2>2, <3>2 DEF RunClosure, Closures
    <3>3. CASE queue[1].do = "copy"
      <4>1. revealed' = revealed
        BY <1>8, <2>2, <3>3 DEF RunClosure
      <4>2. HideAfter(0) => HideAfter(1)
        BY <2>2, <3>3 DEF HideAfter
      <4> QED BY <2>3, <4>1, <4>2 DEF ShownIsHidden
    <3> QED BY <2>2, <3>1, <3>2, <3>3 DEF Closure
  <2> QED BY <2>4, <2>5 DEF ShownIsHidden
<1> QED
  BY <1>1, <1>2, <1>3, <1>4, <1>5, <1>6, <1>7, <1>8
  DEF Next, Operation, Navigation, Machine, ThreadStep, RevealPassword, CopySecret, CopyNow,
      TurnPage, Lock, SelectEntry, Unlock, Hide, OtherProgramCopies, Clear, vars, steps

-----------------------------------------------------------------------------
(* What is copied is cleared again *)

\* copy_to_clipboard starts the new text's thread behind all others, or copies nothing.
LEMMA CopyIsTimed ==
  ASSUME TypeOK, CopiedIsCleared, NEW x \in Secret, copy_to_clipboard(x)
  PROVE  CopiedIsCleared'
<1>1. CASE clipboard' = Holding(x) /\ clearers' = Append(clearers, Timeout)
  <2>1. clearers \in Seq(0..Timeout) /\ Timeout \in 0..Timeout
    BY Names DEF TypeOK
  <2>2. /\ clearers' # <<>> /\ Len(clearers') = Len(clearers) + 1
        /\ clearers'[Len(clearers) + 1] = Timeout
    BY <1>1, <2>1, Positions
  <2>3. clipboard'.age = 0 /\ clipboard'.orphan = FALSE
    BY <1>1 DEF Holding
  <2> QED BY <2>2, <2>3, Names DEF CopiedIsCleared
<1>2. CASE UNCHANGED <<clipboard, clearers>>
  BY <1>2 DEF CopiedIsCleared
<1>3. CASE clipboard' = Holding(Empty)
  BY <1>3, Names DEF CopiedIsCleared, Holding
<1> QED BY <1>1, <1>2, <1>3 DEF copy_to_clipboard

\* Every step keeps the youngest thread in step with the text it is to clear.
LEMMA ClearedStep == Timed /\ [Next]_vars => CopiedIsCleared'
<1> SUFFICES ASSUME TypeOK, Closures, CopiedIsCleared, [Next]_vars PROVE CopiedIsCleared'
  BY DEF Timed
<1>1. CASE UNCHANGED <<clipboard, clearers>>
  BY <1>1 DEF CopiedIsCleared
<1>2. ASSUME NEW x \in Secret, CopyNow(x) PROVE CopiedIsCleared'
  BY <1>2, CopyIsTimed DEF CopyNow
<1>3. CASE OtherProgramCopies
  BY <1>3, Names DEF OtherProgramCopies, Holding, CopiedIsCleared
<1>4. CASE RunClosure
  <2>1. CASE Head(queue).do = "copy" /\ copy_to_clipboard(Head(queue).of)
    <3>1. Head(queue).of \in Secret
      BY <1>4, <2>1, Positions DEF RunClosure, Closures, Secret, TypeOK
    <3> QED BY <2>1, <3>1, CopyIsTimed
  <2>2. CASE UNCHANGED <<clipboard, clearers>>
    BY <1>1, <2>2
  <2> QED BY <1>4, <2>1, <2>2 DEF RunClosure
<1>5. CASE Exit
  <2>1. clipboard'.text = clipboard.text /\ clipboard'.orphan = (clipboard.text \in Secret)
    BY <1>5 DEF Exit, TypeOK
  <2> QED BY <1>5, <2>1 DEF Exit, CopiedIsCleared
<1>6. CASE Clear
  <2>1. /\ clearers \in Seq(0..Timeout) /\ clearers # <<>> /\ Head(clearers) = 0
        /\ clearers' = Tail(clearers)
    BY <1>6 DEF Clear, TypeOK
  <2>2. CASE clipboard' = Holding(Empty)
    BY <2>2, Names DEF CopiedIsCleared, Holding
  <2>3. CASE clipboard' = [clipboard EXCEPT
                            !.orphan = clipboard.text \in Secret /\ clipboard.age = Timeout]
    <3>1. /\ clipboard'.text = clipboard.text /\ clipboard'.age = clipboard.age
          /\ clipboard'.orphan = (clipboard.text \in Secret /\ clipboard.age = Timeout)
      BY <2>3 DEF TypeOK
    <3>2. CASE clipboard.text \in Secret /\ clipboard.age # Timeout
      <4>1. clearers[Len(clearers)] = Timeout - clipboard.age
        BY <2>1, <3>2 DEF CopiedIsCleared
      <4>2. clipboard.age \in 0..Timeout
        BY DEF TypeOK
      <4>3. clearers[Len(clearers)] # 0
        BY <3>2, <4>1, <4>2, Names
      <4>4. Len(clearers) # 1
        BY <2>1, <4>3, Positions
      <4>5. clearers' # <<>> /\ clearers'[Len(clearers')] = clearers[Len(clearers)]
        <5>1. /\ Len(clearers) \in Nat /\ 1 \in DOMAIN clearers
              /\ DOMAIN clearers = 1..Len(clearers) /\ Len(clearers') = Len(clearers) - 1
              /\ clearers' \in Seq(0..Timeout)
              /\ \A i \in 1..(Len(clearers) - 1) : clearers'[i] = clearers[i + 1]
          BY <2>1, Positions
        <5>2. Len(clearers') # 0
          BY <4>4, <5>1
        <5>3. clearers' # <<>>
          BY <5>2
        <5>4. Len(clearers) - 1 \in 1..(Len(clearers) - 1)
          BY <4>4, <5>1
        <5>5. clearers'[Len(clearers) - 1] = clearers[(Len(clearers) - 1) + 1]
          BY <5>1, <5>4
        <5> QED BY <5>1, <5>3, <5>5
      <4> QED BY <3>1, <3>2, <4>1, <4>5 DEF CopiedIsCleared
    <3>3. CASE clipboard.age = Timeout \/ clipboard.text \notin Secret
      BY <3>1, <3>3 DEF CopiedIsCleared
    <3> QED BY <3>2, <3>3
  <2> QED BY <1>6, <2>2, <2>3 DEF Clear
<1>7. CASE Tick
  <2>1. clearers \in Seq(0..Timeout) /\ clipboard.age \in 0..Timeout
    BY DEF TypeOK
  <2>2. /\ clipboard'.text = clipboard.text /\ clipboard'.orphan = clipboard.orphan
        /\ clipboard'.age = IF clipboard.text \in Secret /\ clipboard.age < Timeout
                            THEN clipboard.age + 1 ELSE clipboard.age
    BY <1>7 DEF Tick, TypeOK
  <2>3. /\ Len(clearers) \in Nat /\ DOMAIN clearers = 1..Len(clearers)
        /\ \A i \in 1..Len(clearers) : clearers[i] \in 0..Timeout
    <3>1. Len(clearers) \in Nat /\ DOMAIN clearers = 1..Len(clearers)
      BY <2>1
    <3>2. \A i \in 1..Len(clearers) : clearers[i] \in 0..Timeout
      BY <2>1, <3>1, Positions
    <3> QED BY <3>1, <3>2
  <2>4. clearers' = [i \in 1..Len(clearers) |-> Less(clearers[i])]
    BY <1>7, <2>3 DEF Tick
  <2>5. clearers' \in Seq(0..Timeout)
    BY <2>3, <2>4, LessIsLess
  <2>6. Len(clearers') = Len(clearers)
    BY <2>3, <2>4, <2>5
  <2>7. clearers' = <<>> <=> clearers = <<>>
    <3>1. clearers = <<>> <=> Len(clearers) = 0
      BY <2>1
    <3>2. clearers' = <<>> <=> Len(clearers') = 0
      BY <2>5
    <3> QED BY <2>6, <3>1, <3>2
  <2>8. CASE clipboard.text \in Secret /\ ~clipboard.orphan
    <3>1. /\ clearers # <<>> /\ clearers[Len(clearers)] = Timeout - clipboard.age
      BY <2>8 DEF CopiedIsCleared
    <3>2. clearers'[Len(clearers)] = Less(clearers[Len(clearers)])
      BY <2>3, <2>4, <3>1
    <3>3. clearers'[Len(clearers)] = Timeout - clipboard'.age
      BY <2>1, <2>2, <2>8, <3>1, <3>2, Names DEF Less
    <3> QED BY <2>2, <2>6, <2>7, <2>8, <3>1, <3>3 DEF CopiedIsCleared
  <2>9. CASE ~(clipboard.text \in Secret /\ ~clipboard.orphan)
    BY <2>1, <2>2, <2>7, <2>9, Names DEF CopiedIsCleared
  <2> QED BY <2>8, <2>9
<1> QED
  BY <1>1, <1>2, <1>3, <1>4, <1>5, <1>6, <1>7
  DEF Next, Operation, Navigation, Machine, ThreadStep, RevealPassword, CopySecret, Spawn,
      TurnPage, Lock, SelectEntry, Unlock, Hide, Answer, Read, Wake, vars, steps

-----------------------------------------------------------------------------
(* What a patient user sees *)

Ordered == OneAtATime /\ AskedForSelected /\ ShowsSelected /\ PanelOwn

\* A thread without a job prompts nobody.
LEMMA IdleIsQuiet == \A t \in Thread : worker[t] = NoJob => ~Prompting(t)
BY DEF NoJob, Prompting

\* While one thread is at work, a step of it leaves every other thread without a job.
LEMMA OthersIdle ==
  ASSUME TypeOK, OneAtATime, NEW t \in Thread, worker[t] # NoJob,
         \A u \in Thread : u # t => worker'[u] = worker[u]
  PROVE  /\ OneAtATime'
         /\ \A u \in Thread : u # t => ~Prompting(u)'
<1>1. \A u \in Thread : u # t => worker'[u] = NoJob
  BY DEF OneAtATime
<1> QED BY <1>1 DEF OneAtATime, NoJob, Prompting

\* Nothing of this moves while the threads, the queue and the selection stay, and
\* nothing new is shown.
LEMMA StaysOrdered ==
  ASSUME Ordered, UNCHANGED <<worker, queue, selected>>, revealed' \in {revealed, None}
  PROVE  Ordered'
<1>1. OneAtATime' /\ AskedForSelected' /\ ShowsSelected'
  BY DEF Ordered, OneAtATime, AskedForSelected, ShowsSelected, Prompting
<1>2. PanelOwn'
  BY DEF Ordered, PanelOwn
<1> QED BY <1>1, <1>2 DEF Ordered

\* A thread that starts is the only one, and asks for the entry selected.
LEMMA StartOrdered ==
  ASSUME TypeOK, Ordered, Calm, NEW t \in Thread, NEW k, NEW a,
         Spawn(t, k, a), k = "reveal" => a = selected
  PROVE  Ordered'
<1>1. /\ worker'[t].kind = k /\ worker'[t].id = a
      /\ \A u \in Thread : u # t => worker'[u] = NoJob
  BY DEF Spawn, Calm, TypeOK, NoJob
<1>2. queue' = <<>> /\ selected' = selected /\ revealed' = revealed
  BY DEF Spawn, Calm
<1>3. OneAtATime'
  BY <1>1 DEF OneAtATime
<1>4. AskedForSelected'
  BY <1>1, <1>2 DEF AskedForSelected, Prompting, NoJob
<1>5. ShowsSelected'
  BY <1>2 DEF ShowsSelected
<1>6. PanelOwn'
  BY <1>2 DEF Ordered, PanelOwn
<1> QED BY <1>3, <1>4, <1>5, <1>6 DEF Ordered

\* A prompting thread reads the entry and posts it, or posts nothing.
LEMMA ReadOrdered ==
  ASSUME TypeOK, Ordered, NEW t \in Thread, Read(t)
  PROVE  Ordered'
<1>1. worker[t].pc = "read" /\ worker[t] # NoJob /\ Prompting(t)
  BY DEF Read, NoJob, Prompting
<1>2. queue = <<>> /\ (worker[t].kind = "reveal" => worker[t].id = selected)
  BY <1>1 DEF Ordered, AskedForSelected
<1>3. selected' = selected /\ revealed' = revealed
  BY DEF Read
<1>4. ~Prompting(t)' /\ \A u \in Thread : u # t => worker'[u] = worker[u]
  <2>1. CASE worker[t].kind = "reveal"
    BY <2>1, AsleepIs DEF Read, Prompting
  <2>2. CASE worker[t].kind # "reveal"
    BY <2>2 DEF Read, Prompting, NoJob, TypeOK
  <2> QED BY <2>1, <2>2
<1>5. OneAtATime' /\ \A u \in Thread : ~Prompting(u)'
  BY <1>1, <1>4, OthersIdle DEF Ordered
<1>6. AskedForSelected'
  BY <1>5 DEF AskedForSelected
<1>7. ShowsSelected'
  <2>1. CASE worker[t].id \notin vault
    BY <1>2, <1>3, <2>1 DEF Read, ShowsSelected
  <2>2. CASE worker[t].id \in vault
    <3> DEFINE do == IF worker[t].kind = "reveal" THEN "show" ELSE "copy"
    <3>1. Post(do, worker[t].id) /\ do \in {"show", "hide", "copy"}
      BY <2>2 DEF Read
    <3>2. worker[t].id \in Account \cup {None}
      BY DEF TypeOK, Job
    <3>3. do = "show" => worker[t].id = selected
      BY <1>2
    <3> HIDE DEF do
    <3>4. /\ Len(queue) \in Nat /\ DOMAIN queue = 1..Len(queue)
          /\ DOMAIN queue' = 1..(Len(queue) + 1)
          /\ queue'[Len(queue) + 1].do = do /\ queue'[Len(queue) + 1].of = worker[t].id
      BY <3>1, <3>2, Posted
    <3>5. Len(queue) = 0
      BY <1>2
    <3> QED BY <1>3, <3>3, <3>4, <3>5 DEF ShowsSelected
  <2> QED BY <2>1, <2>2
<1>8. PanelOwn'
  BY <1>3 DEF Ordered, PanelOwn
<1> QED BY <1>5, <1>6, <1>7, <1>8 DEF Ordered

\* A closure that waits shows what is selected, for nothing else has been asked since.
LEMMA ClosureOrdered ==
  ASSUME TypeOK, Closures, Ordered, RunClosure
  PROVE  Ordered'
<1>1. /\ queue \in Seq(Closure) /\ queue # <<>> /\ queue' = Tail(queue)
      /\ worker' = worker /\ selected' = selected
  BY DEF RunClosure, TypeOK
<1>2. /\ Head(queue) = queue[1] /\ 1 \in DOMAIN queue /\ queue[1] \in Closure
      /\ DOMAIN queue' = 1..(Len(queue) - 1)
      /\ \A i \in DOMAIN queue' : queue'[i] = queue[i + 1] /\ i + 1 \in DOMAIN queue
  BY <1>1, Positions
<1>3. OneAtATime' /\ \A t \in Thread : ~Prompting(t)'
  BY <1>1 DEF Ordered, OneAtATime, AskedForSelected, Prompting
<1>4. AskedForSelected'
  BY <1>3 DEF AskedForSelected
<1>5. ShowsSelected'
  BY <1>1, <1>2 DEF Ordered, ShowsSelected
<1>6. PanelOwn'
  <2>1. CASE queue[1].do = "show"
    BY <1>1, <1>2, <2>1 DEF RunClosure, Ordered, ShowsSelected, PanelOwn
  <2>2. CASE queue[1].do = "hide"
    BY <1>1, <1>2, <2>2 DEF RunClosure, Closures, PanelOwn
  <2>3. CASE queue[1].do = "copy"
    BY <1>1, <1>2, <2>3 DEF RunClosure, Ordered, PanelOwn
  <2> QED BY <1>2, <2>1, <2>2, <2>3 DEF Closure
<1> QED BY <1>3, <1>4, <1>5, <1>6 DEF Ordered

\* The sleeping thread is the only one; it posts a hiding.
LEMMA WakeOrdered ==
  ASSUME TypeOK, Ordered, NEW t \in Thread, Wake(t)
  PROVE  Ordered'
<1>1. worker[t] # NoJob /\ selected' = selected /\ revealed' = revealed
  BY DEF Wake, NoJob
<1>2. worker'[t] = NoJob /\ \A u \in Thread : u # t => worker'[u] = worker[u]
  BY DEF Wake, TypeOK
<1>3. ~Prompting(t)'
  BY <1>2 DEF Prompting, NoJob
<1>4. OneAtATime' /\ \A u \in Thread : ~Prompting(u)'
  BY <1>1, <1>2, <1>3, OthersIdle DEF Ordered
<1>5. AskedForSelected'
  BY <1>4 DEF AskedForSelected
<1>6. ShowsSelected'
  <2>1. /\ Len(queue) \in Nat /\ DOMAIN queue = 1..Len(queue)
        /\ DOMAIN queue' = 1..(Len(queue) + 1)
        /\ \A i \in DOMAIN queue : queue'[i] = queue[i]
        /\ queue'[Len(queue) + 1].do = "hide"
    BY Posted DEF Wake
  <2> QED BY <1>1, <2>1 DEF Ordered, ShowsSelected
<1>7. PanelOwn'
  BY <1>1 DEF Ordered, PanelOwn
<1> QED BY <1>4, <1>5, <1>6, <1>7 DEF Ordered

\* An answer goes to a thread that asked for the entry selected, and stays with it.
LEMMA AnswerOrdered ==
  ASSUME TypeOK, Ordered, NEW t \in Thread, Answer(t)
  PROVE  Ordered'
<1>1. /\ worker[t] # NoJob /\ Prompting(t)
      /\ selected' = selected /\ revealed' = revealed /\ queue' = queue
  BY DEF Answer, NoJob, Prompting
<1>2. /\ \A u \in Thread : u # t => worker'[u] = worker[u]
      /\ \/ worker'[t] = NoJob
         \/ worker'[t].kind = worker[t].kind /\ worker'[t].id = worker[t].id
  <2>1. CASE worker' = [worker EXCEPT ![t].pc = "read"]
    <3> DEFINE j == [worker[t] EXCEPT !.pc = "read"]
    <3>1. j.kind = worker[t].kind /\ j.id = worker[t].id
      BY DEF TypeOK, Job
    <3>2. worker' = [worker EXCEPT ![t] = j]
      BY <2>1 DEF TypeOK
    <3> HIDE DEF j
    <3> QED BY <3>1, <3>2 DEF TypeOK
  <2>2. CASE worker' = [worker EXCEPT ![t] = NoJob]
    BY <2>2 DEF TypeOK
  <2> QED BY <2>1, <2>2 DEF Answer
<1>3. OneAtATime' /\ \A u \in Thread : u # t => ~Prompting(u)'
  BY <1>1, <1>2, OthersIdle DEF Ordered
<1>4. AskedForSelected'
  BY <1>1, <1>2, <1>3 DEF Ordered, AskedForSelected, Prompting, NoJob
<1>5. ShowsSelected' /\ PanelOwn'
  BY <1>1 DEF Ordered, ShowsSelected, PanelOwn
<1> QED BY <1>3, <1>4, <1>5 DEF Ordered

\* Time passes for the one thread there is, and changes nothing else of it.
LEMMA TickOrdered ==
  ASSUME TypeOK, Ordered, Tick
  PROVE  Ordered'
<1>1. selected' = selected /\ revealed' = revealed /\ queue' = queue
  BY DEF Tick
<1>2. \A t \in Thread : /\ worker'[t].pc = worker[t].pc /\ worker'[t].kind = worker[t].kind
                        /\ worker'[t].id = worker[t].id
  BY DEF Tick, TypeOK, Job
<1>3. \A t \in Thread : worker[t] = NoJob => worker'[t] = NoJob
  BY DEF Tick, NoJob, Less
<1>4. OneAtATime'
  BY <1>3 DEF Ordered, OneAtATime
<1>5. AskedForSelected'
  BY <1>1, <1>2 DEF Ordered, AskedForSelected, Prompting
<1>6. ShowsSelected' /\ PanelOwn'
  BY <1>1 DEF Ordered, ShowsSelected, PanelOwn
<1> QED BY <1>4, <1>5, <1>6 DEF Ordered

\* Every step keeps this order for a patient user.
LEMMA OrderStep == Timed /\ InOrder /\ [Next]_vars => InOrder'
<1> SUFFICES ASSUME TypeOK, Closures, Ordered, patient, [Next]_vars PROVE Ordered'
  BY DEF Timed, InOrder, Ordered, Next, vars
<1>1. ASSUME UNCHANGED <<worker, queue, selected>>, revealed' \in {revealed, None} PROVE Ordered'
  BY <1>1, StaysOrdered
<1>2. ASSUME NEW t \in Thread, RevealPassword(t), Calm PROVE Ordered'
  BY <1>2, StartOrdered DEF RevealPassword
<1>3. ASSUME NEW t \in Thread, NEW a \in Account, CopySecret(t, a), Calm PROVE Ordered'
  BY <1>3, StartOrdered DEF CopySecret
<1>4. CASE Exit /\ Calm
  <2>1. /\ \A t \in Thread : worker'[t] = NoJob
        /\ queue' = <<>> /\ selected' = None
    BY <1>4 DEF Exit
  <2> QED BY <2>1 DEF Ordered, OneAtATime, AskedForSelected, ShowsSelected, PanelOwn, Prompting, NoJob
<1>5. ASSUME NEW a \in Account \cup {None}, SelectEntry(a), Answered PROVE Ordered'
  <2>1. /\ queue' = <<>> /\ worker' = worker /\ revealed' = None
        /\ \A t \in Thread : ~Prompting(t)
    BY <1>5 DEF SelectEntry, Answered, Prompting
  <2> QED BY <2>1 DEF Ordered, OneAtATime, AskedForSelected, ShowsSelected, PanelOwn, Prompting
<1> QED
  BY <1>1, <1>2, <1>3, <1>4, <1>5, ReadOrdered, WakeOrdered, AnswerOrdered, ClosureOrdered, TickOrdered
  DEF Next, Operation, Navigation, Machine, ThreadStep, CopyNow,
      TurnPage, Lock, Unlock, Hide, OtherProgramCopies, Clear, vars, steps

-----------------------------------------------------------------------------
(* The theorems *)

\* Nothing is shown, copied or asked for at the start.
LEMMA InitIInv == Init => IInv
<1> SUFFICES ASSUME Init PROVE IInv
  OBVIOUS
<1>1. TypeOK
  <2>1. <<>> \in Seq(0..Timeout) /\ <<>> \in Seq(Closure)
    BY SMTT(30)
  <2>2. worker \in [Thread -> Job] /\ 0 \in 0..Timeout
    BY JobTypes DEF Init
  <2> QED BY <2>1, <2>2 DEF Init, TypeOK, Holding
<1>2. Closures /\ ShownIsHidden
  BY DEF Init, Closures, ShownIsHidden
<1>3. CopiedIsCleared
  BY Names DEF Init, Holding, CopiedIsCleared
<1>4. OneAtATime /\ AskedForSelected /\ ShowsSelected /\ PanelOwn
  BY DEF Init, OneAtATime, AskedForSelected, ShowsSelected, PanelOwn, Prompting, NoJob
<1> QED BY <1>1, <1>2, <1>3, <1>4 DEF IInv, Timed, InOrder

\* The inductive invariant holds in every behaviour: types, the hiding that follows
\* each showing, the clearing thread of each copied text, and, for a patient user, one
\* thread at a time that is about the selected entry.
THEOREM SpecIInv == Spec => []IInv
<1>1. IInv /\ [Next]_vars => IInv'
  BY TypeStep, ClosuresStep, ShownStep, ClearedStep, OrderStep DEF IInv, Timed
<1> QED BY InitIInv, <1>1, PTL DEF Spec

\* Whatever is clicked, locked, opened, copied elsewhere or closed, a password on the
\* screen has a sleeping thread or a waiting closure that hides it, and a copied text
\* its clearing thread.
THEOREM SpecSecretsTimed == Spec => []SecretsTimed
<1>1. IInv => SecretsTimed
  BY DEF IInv, Timed, ShownIsHidden, CopiedIsCleared, HideAfter, SecretsTimed
<1> QED BY SpecIInv, <1>1, PTL

\* A patient user never sees the password of another entry in the panel, on whatever
\* page and in whatever vault.
THEOREM SpecPanelShowsOwn == Spec => []PanelShowsOwn
<1>1. IInv => PanelShowsOwn
  BY DEF IInv, InOrder, PanelOwn, PanelShowsOwn
<1> QED BY SpecIInv, <1>1, PTL
=============================================================================
