-------------------------- MODULE VaultEntriesProofs --------------------------
(***************************************************************************)
(* Three invariants of VaultEntries for every set of ids and threads and   *)
(* any number of operations: for a patient user links lead to accounts     *)
(* that are there, the picker offers authenticators, and the panel fits    *)
(* its entry.                                                              *)
(***************************************************************************)
EXTENDS VaultEntries, TLAPS

-----------------------------------------------------------------------------
(* The inductive invariant *)

\* What threads and closures carry: the refresher refreshes and nobody else does, a
\* new entry has an id of its own, and only adding reports a failed save.
May(kind, ok) == ok \/ kind \in {"account", "import"}
Fit(w) ==
  /\ w.kind # "refresh"
  /\ w.kind = "totp" => w.id \in TotpId
  /\ w.kind \in {"account", "import"} => w.id \in Entry
  /\ May(w.kind, w.ok)
Jobs ==
  /\ worker[Refresher] # NoJob => worker[Refresher].kind = "refresh"
  /\ worker[Refresher].ok
  /\ \A t \in Thread : Fit(worker[t])
  /\ \A i \in DOMAIN queue : May(queue[i].kind, queue[i].ok)

Typed == TypeOK /\ Jobs

Busy(t) == worker[t] # NoJob
Own(i) == queue[i].kind # "refresh"

\* Besides refreshes a patient user has one thing under way: a thread, or its closure.
OneAtATime ==
  /\ \A t, u \in Thread : Busy(t) /\ Busy(u) => t = u
  /\ \A t \in Thread, i \in DOMAIN queue : Busy(t) => ~Own(i)
  /\ \A i, j \in DOMAIN queue : Own(i) /\ Own(j) => i = j
Underway(kinds) == \/ \E t \in Thread : worker[t].kind \in kinds
                   \/ \E i \in DOMAIN queue : queue[i].kind \in kinds

\* A thread that is to add an entry has an id that is not there yet.
NewIds ==
  /\ Present \subseteq born
  /\ \A t \in Thread :
       Live(t, {"account", "totp", "import"}, "begin") => worker[t].id \in born \ Present

\* Whatever is linked, or is to be linked, has its account.
Exists(a) == a # None => accounts[a] # "none"
Targets ==
  /\ \A t \in Thread : Live(t, {"totp", "link"}, "begin") => Exists(worker[t].to)
  /\ Exists(target)
  /\ \A i \in DOMAIN totps : Exists(totps[i].link)

\* While the picker is open the only thing under way is its search.
Picker ==
  target # None =>
    /\ \A t \in Thread : Busy(t) =>
         worker[t].kind = "search" /\ (worker[t].pc = "begin" => worker[t].filter = "totp")
    /\ \A i \in DOMAIN queue : queue[i].kind \in {"search", "refresh"}
    /\ filter = "totp" \/ \E t \in Thread : Live(t, {"search"}, "begin")

\* What the vault says of an entry that is there: get_entry_details.
Facts(acc, ts, e) ==
  IF e \in AccountId
  THEN [deleted |-> acc[e] = "trashed", account |-> TRUE,
        has_totp |-> \E i \in DOMAIN ts : ts[i].link = e]
  ELSE [deleted |-> \E i \in DOMAIN ts : ts[i].id = e /\ ts[i].deleted,
        account |-> FALSE, has_totp |-> TRUE]

\* An entry that is selected is there, nothing is under way to remove it, and the panel
\* fits it but for a change whose closure is still to come.
Panel ==
  selected # None =>
    /\ selected \in Present
    /\ \A t \in Thread : worker[t].kind \notin {"trash", "remove"}
    /\ Underway({"restore", "totp", "link", "unlink"}) \/ details = Facts(accounts, totps, selected)

Ordered == ~page /\ OneAtATime /\ NewIds /\ Targets /\ Picker /\ Panel

IInv == Typed /\ (patient => Ordered)

-----------------------------------------------------------------------------
(* Types *)

\* The record of a thread that starts: its kind and what it was given.
Starting(j, k) == j \in Job /\ j.kind = k /\ j.pc = "begin" /\ j.ok
LEMMA NoJobType == NoJob \in Job /\ NoJob.kind = "none" /\ NoJob.pc = "idle" /\ NoJob.ok
BY DEF NoJob, Job, Kind, Filter

LEMMA NewJobType ==
  ASSUME NEW k \in Kind
  PROVE  Starting(NewJob(k), k) /\ NewJob(k).to = None
BY DEF NoJob, NewJob, Job, Kind, Filter, Starting

\* A search is given its filter.
LEMMA SearchJob ==
  ASSUME NEW f \in Filter
  PROVE  LET j == [NewJob("search") EXCEPT !.filter = f] IN Starting(j, "search") /\ j.filter = f
<1>1. Starting(NewJob("search"), "search")
  BY NewJobType DEF Kind
<1> QED BY <1>1 DEF Job, Starting

\* Most threads are given an entry, and some an account to link it to.
LEMMA EntryJob ==
  ASSUME NEW k \in Kind, NEW e \in Entry
  PROVE  LET j == [NewJob(k) EXCEPT !.id = e] IN Starting(j, k) /\ j.id = e /\ j.to = None
BY NewJobType DEF Job, Starting

Linking(k, e, a) == [NewJob(k) EXCEPT !.id = e, !.to = a]
Adding(k, e, a) == [[NewJob(k) EXCEPT !.to = a] EXCEPT !.id = e]

LEMMA LinkJob ==
  ASSUME NEW k \in Kind, NEW e \in Entry, NEW a \in AccountId
  PROVE  \A j \in {Linking(k, e, a), Adding(k, e, a)} : Starting(j, k) /\ j.id = e /\ j.to = a
<1>1. ASSUME NEW w, Starting(w, k)
      PROVE  LET j == [w EXCEPT !.id = e] IN Starting(j, k) /\ j.id = e /\ j.to = w.to
  BY <1>1 DEF Job, Starting
<1>2. ASSUME NEW w, Starting(w, k)
      PROVE  LET j == [w EXCEPT !.to = a] IN Starting(j, k) /\ j.to = a /\ j.id = w.id
  BY <1>2 DEF Job, Starting
<1>3. Starting(NewJob(k), k)
  BY NewJobType
<1>4. LET j == Linking(k, e, a) IN Starting(j, k) /\ j.id = e /\ j.to = a
  <2> DEFINE x == [NewJob(k) EXCEPT !.id = e]
  <2>1. Starting(x, k) /\ x.id = e
    BY <1>1, <1>3
  <2>2. Linking(k, e, a) = [x EXCEPT !.to = a]
    BY DEF Linking
  <2> HIDE DEF x
  <2> QED BY <1>2, <2>1, <2>2
<1>5. LET j == Adding(k, e, a) IN Starting(j, k) /\ j.id = e /\ j.to = a
  <2> DEFINE x == [NewJob(k) EXCEPT !.to = a]
  <2>1. Starting(x, k) /\ x.to = a
    BY <1>2, <1>3
  <2>2. Adding(k, e, a) = [x EXCEPT !.id = e]
    BY DEF Adding
  <2> HIDE DEF x
  <2> QED BY <1>1, <2>1, <2>2
<1> QED BY <1>4, <1>5

\* What a thread writes into its record as it goes on.
LEMMA JobMoves ==
  ASSUME NEW w \in Job
  PROVE  /\ [w EXCEPT !.pc = "list"] \in Job
         /\ [w EXCEPT !.pc = "list"].kind = w.kind /\ [w EXCEPT !.pc = "list"].id = w.id
         /\ [w EXCEPT !.pc = "list"].ok = w.ok /\ [w EXCEPT !.pc = "list"].pc = "list"
         /\ \A l \in SUBSET Entry :
              LET j == [w EXCEPT !.pc = "post", !.list = l]
              IN  j \in Job /\ j.kind = w.kind /\ j.id = w.id /\ j.ok = w.ok /\ j.pc = "post"
         /\ LET j == [w EXCEPT !.pc = "post", !.ok = FALSE]
            IN  j \in Job /\ j.kind = w.kind /\ j.id = w.id /\ ~j.ok /\ j.pc = "post"
<1>1. ASSUME NEW l \in SUBSET Entry
      PROVE  LET j == [w EXCEPT !.pc = "post", !.list = l]
             IN  j \in Job /\ j.kind = w.kind /\ j.id = w.id /\ j.ok = w.ok /\ j.pc = "post"
  BY DEF Job
<1> QED BY <1>1 DEF Job

\* A list is made of ids.
LEMMA ListedTypes ==
  ASSUME NEW acc, NEW ts \in Seq(Totp), NEW f
  PROVE  Listed(acc, ts, f) \subseteq Entry
<1>1. \A i \in DOMAIN ts : ts[i] \in Totp
  OBVIOUS
<1> QED BY <1>1 DEF Listed, Totp, Entry

\* Changing the authenticators in their places leaves a sequence of them.
LEMMA Rewritten ==
  ASSUME NEW ts, TypeOK, ts = [i \in DOMAIN totps |-> ts[i]], \A i \in DOMAIN totps : ts[i] \in Totp
  PROVE  ts \in Seq(Totp) /\ DOMAIN ts = DOMAIN totps
<1>1. Len(totps) \in Nat /\ DOMAIN totps = 1..Len(totps)
  BY DEF TypeOK
<1> HIDE DEF Totp
<1> QED BY <1>1

\* A user's step that starts a thread gives it a record that fits.
LEMMA SpawnTyped ==
  ASSUME TypeOK, Jobs, NEW op, NEW j \in Job, Fit(j), SpawnThread(op, j)
  PROVE  /\ worker' \in [Thread \cup {Refresher} -> Job] /\ started' \in Nat /\ Jobs'
         /\ UNCHANGED <<accounts, totps, filter, queue>>
<1>1. PICK t \in Thread : worker[t] = NoJob /\ worker' = [worker EXCEPT ![t] = j]
  BY DEF SpawnThread
<1>2. t # Refresher
  BY EntriesAssumption
<1>3. worker' \in [Thread \cup {Refresher} -> Job] /\ started' \in Nat
  BY <1>1 DEF SpawnThread, TypeOK
<1>4. worker'[Refresher] = worker[Refresher]
      /\ \A u \in Thread : worker'[u] = worker[u] \/ worker'[u] = j
  BY <1>1, <1>2 DEF TypeOK
<1>5. Jobs'
  BY <1>4 DEF Jobs, SpawnThread, Fit, May
<1> QED BY <1>3, <1>5 DEF SpawnThread

\* The panel's details have their type.
LEMMA DetailsTyped ==
  ASSUME TypeOK, NEW e
  PROVE  Details(e) \in Detail
<1>1. (accounts[e] = "trashed") \in BOOLEAN /\ (\E i \in DOMAIN totps : totps[i].link = e) \in BOOLEAN
      /\ (e \in Totps(TRUE)) \in BOOLEAN
  OBVIOUS
<1> QED BY <1>1 DEF Details, Detail, TypeOK

\* Every step of the user keeps the types.
LEMMA UserTyped ==
  ASSUME TypeOK, Jobs, UserStep
  PROVE  TypeOK' /\ Jobs'
<1>1. ASSUME NEW op, NEW j \in Job, Fit(j), SpawnThread(op, j), born' \subseteq Entry,
             tab' \in Filter, page' = page, selected' \in Entry \cup {None}, details' = details,
             target' \in AccountId \cup {None}, shown' = shown
      PROVE  TypeOK' /\ Jobs'
  BY <1>1, SpawnTyped DEF TypeOK
<1>2. ASSUME NEW k \in Kind \ {"refresh"}, NEW j, Starting(j, k),
             k = "totp" => j.id \in TotpId, k \in {"account", "import"} => j.id \in Entry
      PROVE  j \in Job /\ Fit(j)
  BY <1>2 DEF Starting, Fit, May
<1>3. ASSUME NEW f \in Filter, ClickTab(f) PROVE TypeOK' /\ Jobs'
  <2>1. Starting([NewJob("search") EXCEPT !.filter = f], "search")
    BY SearchJob
  <2>2. [NewJob("search") EXCEPT !.filter = f] \in Job /\ Fit([NewJob("search") EXCEPT !.filter = f])
    BY <1>2, <2>1 DEF Kind
  <2> QED BY <1>1, <1>3, <2>2 DEF ClickTab, Spawn, TypeOK
<1>4. ASSUME NEW e \in Entry, MoveToTrash(e) \/ DeletePermanently(e) \/ Restore(e) PROVE TypeOK' /\ Jobs'
  <2>1. ASSUME NEW k \in {"trash", "remove", "restore"} PROVE LET j == [NewJob(k) EXCEPT !.id = e] IN j \in Job /\ Fit(j)
    <3>1. k \in Kind \ {"refresh"} /\ k \notin {"totp", "account", "import"}
      BY DEF Kind
    <3>2. Starting([NewJob(k) EXCEPT !.id = e], k)
      BY <3>1, EntryJob
    <3> QED BY <1>2, <3>1, <3>2
  <2>2. CASE MoveToTrash(e)
    BY <1>1, <2>1, <2>2 DEF MoveToTrash, Spawn, TypeOK
  <2>3. CASE DeletePermanently(e)
    BY <1>1, <2>1, <2>3 DEF DeletePermanently, Spawn, TypeOK
  <2>4. CASE Restore(e)
    BY <1>1, <2>1, <2>4 DEF Restore, Spawn, TypeOK
  <2> QED BY <1>4, <2>2, <2>3, <2>4
<1>5. ASSUME NEW e \in Entry, AddAccount(e) \/ Import(e), e \in AccountId \/ Import(e)
      PROVE  TypeOK' /\ Jobs'
  <2>1. ASSUME NEW k \in {"account", "import"} PROVE LET j == [NewJob(k) EXCEPT !.id = e] IN j \in Job /\ Fit(j)
    <3>1. k \in Kind \ {"refresh"} /\ k # "totp"
      BY DEF Kind
    <3>2. Starting([NewJob(k) EXCEPT !.id = e], k) /\ [NewJob(k) EXCEPT !.id = e].id = e
      BY <3>1, EntryJob
    <3> QED BY <1>2, <3>1, <3>2
  <2>2. CASE AddAccount(e)
    BY <1>1, <2>1, <2>2 DEF AddAccount, SpawnNew, TypeOK, uiVars
  <2>3. CASE Import(e)
    BY <1>1, <2>1, <2>3 DEF Import, SpawnNew, TypeOK, uiVars
  <2> QED BY <1>5, <2>2, <2>3
<1>6. ASSUME NEW b \in TotpId, AddTotp(b) PROVE TypeOK' /\ Jobs'
  <2>1. b \in Entry /\ "totp" \in Kind \ {"refresh"}
    BY DEF Entry, Kind
  <2>2. LET j == [NewJob("totp") EXCEPT !.id = b] IN j \in Job /\ Fit(j)
    <3>1. Starting([NewJob("totp") EXCEPT !.id = b], "totp") /\ [NewJob("totp") EXCEPT !.id = b].id = b
      BY <2>1, EntryJob
    <3> QED BY <1>2, <2>1, <3>1
  <2>3. ASSUME NEW a \in AccountId
        PROVE LET j == [[NewJob("totp") EXCEPT !.to = a] EXCEPT !.id = b] IN j \in Job /\ Fit(j)
    <3>1. LET j == [[NewJob("totp") EXCEPT !.to = a] EXCEPT !.id = b] IN Starting(j, "totp") /\ j.id = b
      BY <2>1, LinkJob DEF Adding
    <3> QED BY <1>2, <2>1, <3>1
  <2>4. CASE /\ selected \in AccountId
             /\ SpawnNew("totp", [NewJob("totp") EXCEPT !.to = selected], b)
    BY <1>1, <1>6, <2>1, <2>3, <2>4 DEF AddTotp, SpawnNew, TypeOK, uiVars
  <2>5. CASE SpawnNew("totp", NewJob("totp"), b)
    BY <1>1, <1>6, <2>1, <2>2, <2>5 DEF AddTotp, SpawnNew, TypeOK, uiVars
  <2> QED BY <1>6, <2>4, <2>5 DEF AddTotp
<1>7. CASE OpenPicker
  <2>1. LET j == [NewJob("search") EXCEPT !.filter = "totp"] IN j \in Job /\ Fit(j)
    <3>1. "search" \in Kind \ {"refresh"} /\ "totp" \in Filter
      BY DEF Kind, Filter
    <3>2. Starting([NewJob("search") EXCEPT !.filter = "totp"], "search")
      BY <3>1, SearchJob
    <3> QED BY <1>2, <3>1, <3>2
  <2> QED BY <1>1, <1>7, <2>1 DEF OpenPicker, Spawn, TypeOK
<1>8. ASSUME NEW e \in Entry, PickTotp(e) PROVE TypeOK' /\ Jobs'
  <2>1. target \in AccountId /\ "link" \in Kind \ {"refresh"}
    BY <1>8 DEF PickTotp, TypeOK, Kind
  <2>2. LET j == [NewJob("link") EXCEPT !.id = e, !.to = target] IN j \in Job /\ Fit(j)
    <3>1. Starting([NewJob("link") EXCEPT !.id = e, !.to = target], "link")
      BY <2>1, LinkJob DEF Linking
    <3> QED BY <1>2, <2>1, <3>1
  <2> QED BY <1>1, <1>8, <2>2 DEF PickTotp, Spawn, TypeOK
<1>9. CASE Unlink
  <2>1. selected \in Entry /\ "unlink" \in Kind \ {"refresh"}
    BY <1>9 DEF Unlink, OnPanel, TypeOK, Kind
  <2>2. LET j == [NewJob("unlink") EXCEPT !.id = selected] IN j \in Job /\ Fit(j)
    <3>1. Starting([NewJob("unlink") EXCEPT !.id = selected], "unlink")
      BY <2>1, EntryJob
    <3> QED BY <1>2, <2>1, <3>1
  <2> QED BY <1>1, <1>9, <2>2 DEF Unlink, Spawn, TypeOK, uiVars
<1>10. ASSUME NEW e \in Entry, SelectEntry(e) PROVE TypeOK' /\ Jobs'
  BY <1>10, DetailsTyped DEF SelectEntry, TypeOK, Jobs, vaultVars
<1>11. CASE ClosePicker \/ OpenPage \/ LeavePage
  <2>1. NoDetails \in Detail
    BY DEF NoDetails, Detail
  <2> QED BY <1>11, <2>1 DEF ClosePicker, OpenPage, LeavePage, ComeBack, TypeOK, Jobs, vaultVars, Filter
<1> QED
  BY <1>3, <1>4, <1>5, <1>6, <1>7, <1>8, <1>9, <1>10, <1>11 DEF UserStep, Entry

\* A thread at work stays what it is, and has its list to make or to post.
Goes(t) ==
  \E j \in Job : /\ worker' = [worker EXCEPT ![t] = j]
                 /\ j.kind = worker[t].kind /\ j.id = worker[t].id
                 /\ j.pc \in {"list", "post"} /\ (j.ok = worker[t].ok \/ j.kind \in {"account", "import"})

LEMMA MutatedGoes ==
  ASSUME TypeOK, NEW t \in Thread, Mutated(t) \/ (MutatedAndListed(t) /\ totps' \in Seq(Totp))
  PROVE  Goes(t)
<1>1. worker[t] \in Job
  BY DEF TypeOK
<1>2. CASE Mutated(t)
  <2> DEFINE j == [worker[t] EXCEPT !.pc = "list"]
  <2>1. worker' = [worker EXCEPT ![t] = j]
    BY <1>2 DEF Mutated, TypeOK
  <2>2. j \in Job /\ j.kind = worker[t].kind /\ j.id = worker[t].id /\ j.pc = "list" /\ j.ok = worker[t].ok
    BY <1>1, JobMoves
  <2> HIDE DEF j
  <2> QED BY <2>1, <2>2 DEF Goes
<1>3. CASE MutatedAndListed(t) /\ totps' \in Seq(Totp)
  <2> DEFINE l == Listed(accounts', totps', filter')
  <2>1. l \in SUBSET Entry
    BY <1>3, ListedTypes
  <2> HIDE DEF l
  <2> DEFINE j == [worker[t] EXCEPT !.pc = "post", !.list = l]
  <2>2. worker' = [worker EXCEPT ![t] = j]
    BY <1>3 DEF MutatedAndListed, TypeOK, l
  <2>3. j \in Job /\ j.kind = worker[t].kind /\ j.id = worker[t].id /\ j.pc = "post" /\ j.ok = worker[t].ok
    BY ZenonT(60), <1>1, <2>1, JobMoves
  <2> HIDE DEF j
  <2> QED BY <2>2, <2>3 DEF Goes
<1> QED BY <1>2, <1>3

\* Making the list is such a step.
LEMMA MakeListGoes ==
  ASSUME TypeOK, NEW t \in Thread, MakeList(t)
  PROVE  Goes(t)
<1>1. worker[t] \in Job
  BY DEF TypeOK
<1>2. CASE worker' = [worker EXCEPT ![t].pc = "post", ![t].list = ListNow]
  <2>1. ListNow \in SUBSET Entry
    BY ListedTypes DEF ListNow, TypeOK
  <2> HIDE DEF ListNow
  <2> DEFINE j == [worker[t] EXCEPT !.pc = "post", !.list = ListNow]
  <2>2. worker' = [worker EXCEPT ![t] = j]
    BY <1>2 DEF TypeOK
  <2>3. j \in Job /\ j.kind = worker[t].kind /\ j.id = worker[t].id /\ j.pc = "post" /\ j.ok = worker[t].ok
    BY ZenonT(60), <1>1, <2>1, JobMoves
  <2> HIDE DEF j
  <2> QED BY <2>2, <2>3 DEF Goes
<1>3. CASE /\ worker[t].kind \in {"account", "import"}
           /\ worker' = [worker EXCEPT ![t].pc = "post", ![t].ok = FALSE]
  <2> DEFINE j == [worker[t] EXCEPT !.pc = "post", !.ok = FALSE]
  <2>2. worker' = [worker EXCEPT ![t] = j]
    BY <1>3 DEF TypeOK
  <2>3. j \in Job /\ j.kind = worker[t].kind /\ j.id = worker[t].id /\ j.pc = "post"
    BY <1>1, JobMoves
  <2> HIDE DEF j
  <2> QED BY <1>3, <2>2, <2>3 DEF Goes
<1> QED BY <1>2, <1>3 DEF MakeList

\* Such a step keeps the threads typed, and what they carry.
LEMMA GoesTyped ==
  ASSUME TypeOK, Jobs, NEW t \in Thread, Goes(t), queue' = queue
  PROVE  worker' \in [Thread \cup {Refresher} -> Job] /\ Jobs'
<1>1. PICK j \in Job : /\ worker' = [worker EXCEPT ![t] = j]
                       /\ j.kind = worker[t].kind /\ j.id = worker[t].id
                       /\ (j.ok = worker[t].ok \/ j.kind \in {"account", "import"})
  BY DEF Goes
<1>2. t # Refresher
  BY EntriesAssumption
<1>3. worker' \in [Thread \cup {Refresher} -> Job]
  BY <1>1 DEF TypeOK
<1>4. worker'[t] = j /\ \A u \in Thread \cup {Refresher} : u # t => worker'[u] = worker[u]
  BY <1>1 DEF TypeOK
<1>5. Fit(j)
  BY <1>1 DEF Jobs, Fit, May
<1>6. Jobs'
  BY <1>2, <1>4, <1>5 DEF Jobs
<1> QED BY <1>3, <1>6

\* The authenticators of a changed link, a changed mark, or with some removed.
LEMMA TotpTypes ==
  ASSUME TypeOK
  PROVE  /\ \A i \in DOMAIN totps : totps[i] \in Totp
         /\ Gone \in Totp
         /\ \A x \in Totp : [x EXCEPT !.deleted = TRUE] \in Totp /\ [x EXCEPT !.deleted = FALSE] \in Totp
         /\ \A x \in Totp, a \in AccountId \cup {None} : [x EXCEPT !.link = a] \in Totp
         /\ \A b \in TotpId \cup {None}, a \in AccountId \cup {None} :
              [id |-> b, deleted |-> FALSE, link |-> a] \in Totp
<1>1. \A i \in DOMAIN totps : totps[i] \in Totp
  BY DEF TypeOK
<1> QED BY <1>1 DEF Totp, Gone

\* One authenticator more, behind the others.
LEMMA Added ==
  ASSUME TypeOK, NEW b \in TotpId, NEW a \in AccountId \cup {None}, NewTotp(b, a)
  PROVE  /\ totps' \in Seq(Totp) /\ Len(totps) \in Nat /\ DOMAIN totps = 1..Len(totps)
         /\ DOMAIN totps' = 1..(Len(totps) + 1)
         /\ \A i \in DOMAIN totps : totps'[i] = totps[i]
         /\ totps'[Len(totps) + 1].id = b /\ totps'[Len(totps) + 1].link = a
         /\ ~totps'[Len(totps) + 1].deleted
<1> DEFINE x == [id |-> b, deleted |-> FALSE, link |-> a]
<1>1. totps \in Seq(Totp) /\ x \in Totp /\ totps' = Append(totps, x)
  BY TotpTypes DEF TypeOK, NewTotp
<1>2. x.id = b /\ x.link = a /\ ~x.deleted
  OBVIOUS
<1> HIDE DEF x, Totp
<1>3. /\ totps' \in Seq(Totp) /\ Len(totps) \in Nat /\ DOMAIN totps = 1..Len(totps)
      /\ DOMAIN totps' = 1..(Len(totps) + 1)
      /\ \A i \in DOMAIN totps : totps'[i] = totps[i]
      /\ totps'[Len(totps) + 1] = x
  BY <1>1
<1> QED BY <1>2, <1>3

\* Setting a mark or a link changes nothing else.
LEMMA SetEffect ==
  ASSUME TypeOK, NEW is, NEW f \in {"deleted", "link"}, NEW v, SetTotps(is, f, v),
         v \in IF f = "deleted" THEN BOOLEAN ELSE AccountId \cup {None}
  PROVE  /\ totps' \in Seq(Totp) /\ DOMAIN totps' = DOMAIN totps
         /\ \A i \in DOMAIN totps : totps'[i].id = totps[i].id
         /\ f = "deleted" => \A i \in DOMAIN totps : totps'[i].link = totps[i].link
         /\ f = "link" => \A i \in DOMAIN totps : totps'[i].link \in {totps[i].link, v}
<1>1. ASSUME NEW i \in DOMAIN totps
      PROVE  /\ totps'[i] \in Totp /\ totps'[i].id = totps[i].id
             /\ f = "deleted" => totps'[i].link = totps[i].link
             /\ f = "link" => totps'[i].link \in {totps[i].link, v}
  <2>1. totps[i] \in Totp
    BY TotpTypes
  <2>2. CASE i \notin is
    BY <2>1, <2>2 DEF SetTotps
  <2>3. CASE i \in is /\ f = "deleted"
    <3>1. totps'[i] = [totps[i] EXCEPT !.deleted = v]
      BY <2>3 DEF SetTotps
    <3> QED BY <2>1, <2>3, <3>1 DEF Totp
  <2>4. CASE i \in is /\ f = "link"
    <3>1. totps'[i] = [totps[i] EXCEPT !.link = v]
      BY <2>4 DEF SetTotps
    <3> QED BY <2>1, <2>4, <3>1 DEF Totp
  <2> QED BY <2>2, <2>3, <2>4
<1>2. totps' = [i \in DOMAIN totps |-> totps'[i]]
  BY DEF SetTotps
<1>3. totps' \in Seq(Totp) /\ DOMAIN totps' = DOMAIN totps
  BY <1>1, <1>2, Rewritten
<1> QED BY <1>1, <1>3

\* on_delete_entry adds nothing; a link that is left leads where it led, to an account
\* that is left.
LEMMA DeleteEffect ==
  ASSUME TypeOK, NEW t \in Thread, Delete(t)
  PROVE  /\ accounts' \in [AccountId -> {"none", "live", "trashed"}]
         /\ totps' \in Seq(Totp) /\ DOMAIN totps' = DOMAIN totps
         /\ \A i \in DOMAIN totps :
              /\ totps'[i].id \in {totps[i].id, None}
              /\ totps'[i].link # None =>
                   totps'[i].link = totps[i].link
                   /\ (accounts[totps[i].link] # "none" => accounts'[totps[i].link] # "none")
         /\ \A a \in AccountId : accounts[a] = "none" => accounts'[a] = "none"
<1> DEFINE e == worker[t].id
           cascade == IF e \in Accounts("live") THEN First(Linked(e)) ELSE {}
           doomed == cascade \cup {i \in DOMAIN totps : totps[i].id = e}
           trashed == [i \in DOMAIN totps |->
                         IF i \in doomed THEN [totps[i] EXCEPT !.deleted = TRUE] ELSE totps[i]]
<1>1. /\ DOMAIN trashed = DOMAIN totps
      /\ \A i \in DOMAIN totps : /\ trashed[i] \in Totp /\ trashed[i].id = totps[i].id
                                 /\ trashed[i].link = totps[i].link
  <2> SUFFICES ASSUME NEW i \in DOMAIN totps
               PROVE  /\ trashed[i] \in Totp /\ trashed[i].id = totps[i].id
                      /\ trashed[i].link = totps[i].link
    OBVIOUS
  <2>1. totps[i] \in Totp
    BY TotpTypes
  <2> HIDE DEF doomed
  <2>2. trashed[i] = totps[i] \/ trashed[i] = [totps[i] EXCEPT !.deleted = TRUE]
    OBVIOUS
  <2> QED BY <2>1, <2>2 DEF Totp
<1>2. CASE /\ accounts' = [a \in AccountId |-> IF a = e THEN "none" ELSE accounts[a]]
           /\ totps' = Kept(trashed, e)
  <2> HIDE DEF trashed
  <2>1. ASSUME NEW i \in DOMAIN totps
        PROVE  totps'[i] \in Totp /\ (totps'[i] = Gone \/ (totps'[i] = trashed[i] /\ trashed[i].link # e))
    <3>1. totps'[i] = IF e \in {trashed[i].id, trashed[i].link} THEN Gone ELSE trashed[i]
      BY <1>1, <1>2 DEF Kept
    <3> QED BY <1>1, <3>1, TotpTypes
  <2>2. totps' = [i \in DOMAIN totps |-> totps'[i]]
    BY <1>1, <1>2 DEF Kept
  <2>3. totps' \in Seq(Totp) /\ DOMAIN totps' = DOMAIN totps
    BY <2>1, <2>2, Rewritten
  <2>4. accounts' \in [AccountId -> {"none", "live", "trashed"}]
        /\ \A a \in AccountId : accounts'[a] = IF a = e THEN "none" ELSE accounts[a]
    BY <1>2 DEF TypeOK
  <2>5. ASSUME NEW i \in DOMAIN totps
        PROVE  /\ totps'[i].id \in {totps[i].id, None}
               /\ totps'[i].link # None =>
                    totps'[i].link = totps[i].link
                    /\ (accounts[totps[i].link] # "none" => accounts'[totps[i].link] # "none")
    <3>1. CASE totps'[i] = Gone
      BY <3>1 DEF Gone
    <3>2. CASE totps'[i] = trashed[i] /\ trashed[i].link # e
      <4>1. totps[i].link \in AccountId \cup {None}
        BY TotpTypes DEF Totp
      <4> QED BY <1>1, <2>4, <3>2, <4>1
    <3> QED BY <2>1, <3>1, <3>2
  <2> QED BY <2>3, <2>4, <2>5
<1>3. CASE /\ accounts' = [a \in AccountId |->
                             IF a = e /\ accounts[a] = "live" THEN "trashed" ELSE accounts[a]]
           /\ totps' = trashed
  <2>1. accounts' \in [AccountId -> {"none", "live", "trashed"}]
        /\ \A a \in AccountId : accounts'[a] = "none" <=> accounts[a] = "none"
    BY <1>3 DEF TypeOK
  <2>2. totps' \in Seq(Totp) /\ DOMAIN totps' = DOMAIN totps
    BY <1>1, <1>3, Rewritten
  <2>3. \A i \in DOMAIN totps : totps[i].link \in AccountId \cup {None}
    BY TotpTypes DEF Totp
  <2> HIDE DEF trashed
  <2> QED BY <1>1, <1>3, <2>1, <2>2, <2>3
<1> QED BY <1>2, <1>3, Zenon DEF Delete

\* Saving an entry makes an account live, or adds an authenticator without a link.
LEMMA SaveEffect ==
  ASSUME TypeOK, Jobs, NEW t \in Thread, SaveEntry(t) \/ SaveTotp(t)
  PROVE  /\ worker[t].id \in Entry
         /\ accounts' \in [AccountId -> {"none", "live", "trashed"}] /\ totps' \in Seq(Totp)
<1>1. CASE SaveEntry(t)
  <2>1. worker[t].id \in Entry
    BY <1>1 DEF SaveEntry, Live, Jobs, Fit
  <2>2. CASE worker[t].id \in AccountId
    BY <1>1, <2>1, <2>2 DEF SaveEntry, TypeOK
  <2>3. CASE worker[t].id \in TotpId /\ worker[t].id \notin AccountId
    <3>1. NewTotp(worker[t].id, None) /\ accounts' = accounts
      BY <1>1, <2>3 DEF SaveEntry
    <3> QED BY <2>1, <2>3, <3>1, Added DEF TypeOK
  <2> QED BY <2>1, <2>2, <2>3 DEF Entry
<1>2. CASE SaveTotp(t)
  <2>1. worker[t].id \in TotpId /\ worker[t].to \in AccountId \cup {None}
    BY <1>2 DEF SaveTotp, Live, Jobs, Fit, TypeOK, Job
  <2>2. \E a \in AccountId \cup {None} : NewTotp(worker[t].id, a)
    BY <1>2, <2>1 DEF SaveTotp, Accounts
  <2>3. totps' \in Seq(Totp)
    BY <2>1, <2>2, Added
  <2> QED BY <1>2, <2>1, <2>3 DEF SaveTotp, TypeOK, Entry
<1> QED BY <1>1, <1>2

\* Whichever step of a thread it is, the vault stays typed, and the thread goes on or
\* posts its list.
LEMMA ThreadEffect ==
  ASSUME TypeOK, Jobs, NEW t \in Thread, ThreadStep(t), ~PostList(t)
  PROVE  /\ Goes(t) /\ UNCHANGED <<born, uiVars, queue, started>>
         /\ accounts' \in [AccountId -> {"none", "live", "trashed"}] /\ totps' \in Seq(Totp)
         /\ filter' \in Filter
<1>1. CASE Search(t)
  <2>1. worker[t].filter \in Filter
    BY DEF TypeOK, Job
  <2>2. totps' \in Seq(Totp)
    BY <1>1 DEF Search, vaultVars, TypeOK
  <2>3. Goes(t)
    BY <1>1, <2>2, MutatedGoes DEF Search
  <2> QED BY <1>1, <2>1, <2>3 DEF Search, SetFilter, vaultVars, Idle, TypeOK
<1>2. CASE Delete(t)
  <2>1. Mutated(t) /\ UNCHANGED <<born, filter, uiVars, queue, started>>
    BY <1>2 DEF Delete, Idle
  <2> QED BY <1>2, <2>1, MutatedGoes, DeleteEffect DEF TypeOK
<1>3. CASE RestoreEntry(t)
  <2>1. Goes(t)
    BY <1>3, MutatedGoes DEF RestoreEntry
  <2>2. totps' \in Seq(Totp)
    BY <1>3, SetEffect DEF RestoreEntry
  <2>3. accounts' \in [AccountId -> {"none", "live", "trashed"}]
    BY <1>3 DEF RestoreEntry, TypeOK
  <2> QED BY <1>3, <2>1, <2>2, <2>3 DEF RestoreEntry, Idle, TypeOK
<1>4. CASE SaveEntry(t)
  BY <1>4, SaveEffect, MutatedGoes DEF SaveEntry, Idle, TypeOK
<1>5. CASE SaveTotp(t)
  BY <1>5, SaveEffect, MutatedGoes DEF SaveTotp, Idle, TypeOK
<1>6. CASE LinkTotp(t)
  <2>1. worker[t].to \in AccountId \cup {None}
    BY DEF TypeOK, Job
  <2>2. totps' \in Seq(Totp)
    BY <1>6, <2>1, SetEffect DEF LinkTotp
  <2> QED BY <1>6, <2>2, MutatedGoes DEF LinkTotp, Idle, TypeOK
<1>7. CASE UnlinkTotp(t)
  <2>2. totps' \in Seq(Totp)
    BY <1>7, SetEffect DEF UnlinkTotp
  <2> QED BY <1>7, <2>2, MutatedGoes DEF UnlinkTotp, Idle, TypeOK
<1>8. CASE MakeList(t)
  BY <1>8, MakeListGoes DEF MakeList, vaultVars, Idle, TypeOK
<1> QED BY <1>1, <1>2, <1>3, <1>4, <1>5, <1>6, <1>7, <1>8 DEF ThreadStep

\* Posting puts the thread's closure behind the others.
LEMMA PostEffect ==
  ASSUME TypeOK, Jobs, NEW t \in Thread \cup {Refresher}, PostList(t)
  PROVE  /\ queue' \in Seq([kind : Kind, list : SUBSET Entry, ok : BOOLEAN])
         /\ Len(queue) \in Nat /\ DOMAIN queue = 1..Len(queue)
         /\ DOMAIN queue' = 1..(Len(queue) + 1)
         /\ \A i \in DOMAIN queue : queue'[i] = queue[i]
         /\ queue'[Len(queue) + 1].kind = worker[t].kind /\ queue'[Len(queue) + 1].ok = worker[t].ok
         /\ worker'[t] = NoJob /\ worker' \in [Thread \cup {Refresher} -> Job]
         /\ \A u \in Thread \cup {Refresher} : u # t => worker'[u] = worker[u]
<1> DEFINE C == [kind : Kind, list : SUBSET Entry, ok : BOOLEAN]
           c == [kind |-> worker[t].kind, list |-> worker[t].list, ok |-> worker[t].ok]
<1>1. c \in C /\ c.kind = worker[t].kind /\ c.ok = worker[t].ok
  BY DEF TypeOK, Job
<1>2. queue \in Seq(C) /\ queue' = Append(queue, c)
  BY DEF TypeOK, PostList
<1> HIDE DEF C, c
<1>3. /\ queue' \in Seq(C) /\ Len(queue) \in Nat /\ DOMAIN queue = 1..Len(queue)
      /\ DOMAIN queue' = 1..(Len(queue) + 1)
      /\ \A i \in DOMAIN queue : queue'[i] = queue[i]
      /\ queue'[Len(queue) + 1] = c
  BY <1>1, <1>2
<1>4. /\ worker'[t] = NoJob /\ worker' \in [Thread \cup {Refresher} -> Job]
      /\ \A u \in Thread \cup {Refresher} : u # t => worker'[u] = worker[u]
  BY NoJobType DEF PostList, TypeOK
<1> QED BY <1>1, <1>3, <1>4 DEF C

\* A closure leaves those behind it.
LEMMA ClosureEffect ==
  ASSUME TypeOK, RunClosure
  PROVE  /\ queue' \in Seq([kind : Kind, list : SUBSET Entry, ok : BOOLEAN])
         /\ Head(queue) = queue[1] /\ 1 \in DOMAIN queue
         /\ queue[1] \in [kind : Kind, list : SUBSET Entry, ok : BOOLEAN]
         /\ \A i \in DOMAIN queue' : i + 1 \in DOMAIN queue /\ queue'[i] = queue[i + 1] /\ i + 1 # 1
<1> DEFINE C == [kind : Kind, list : SUBSET Entry, ok : BOOLEAN]
<1>1. queue \in Seq(C) /\ queue # <<>> /\ queue' = Tail(queue)
  BY DEF TypeOK, RunClosure
<1> HIDE DEF C
<1>2. /\ queue' \in Seq(C) /\ Head(queue) = queue[1] /\ 1 \in DOMAIN queue
      /\ Len(queue) \in Nat /\ DOMAIN queue = 1..Len(queue) /\ DOMAIN queue' = 1..(Len(queue) - 1)
      /\ \A i \in DOMAIN queue : queue[i] \in C
      /\ \A i \in 1..(Len(queue) - 1) : queue'[i] = queue[i + 1]
  BY <1>1
<1> QED BY <1>2 DEF C

\* The favicon's thread is one more.
LEMMA IconEffect ==
  ASSUME TypeOK, NEW c, FetchIcon(c)
  PROVE  \E t \in Thread, j \in Job : /\ worker[t] = NoJob /\ worker' = [worker EXCEPT ![t] = j]
                                      /\ j.kind = "icon" /\ j.pc = "list" /\ j.ok
<1> DEFINE j == [NewJob("icon") EXCEPT !.pc = "list"]
<1>1. PICK t \in Thread : worker[t] = NoJob /\ worker' = [worker EXCEPT ![t] = j]
  BY DEF FetchIcon
<1>2. "icon" \in Kind
  BY DEF Kind
<1>3. Starting(NewJob("icon"), "icon")
  BY <1>2, NewJobType
<1>4. j \in Job /\ j.kind = "icon" /\ j.pc = "list" /\ j.ok
  BY <1>3 DEF Starting, Job
<1> HIDE DEF j
<1> QED BY <1>1, <1>4

\* So does every step of the program.
LEMMA MachineTyped ==
  ASSUME TypeOK, Jobs, Machine
  PROVE  TypeOK' /\ Jobs'
<1>1. ASSUME NEW t \in Thread, ThreadStep(t), ~PostList(t) PROVE TypeOK' /\ Jobs'
  <2>1. worker' \in [Thread \cup {Refresher} -> Job] /\ Jobs'
    BY <1>1, ThreadEffect, GoesTyped
  <2> QED BY <1>1, <2>1, ThreadEffect DEF TypeOK, uiVars
<1>2. ASSUME NEW t \in Thread \cup {Refresher}, PostList(t) PROVE TypeOK' /\ Jobs'
  <2>1. /\ queue' \in Seq([kind : Kind, list : SUBSET Entry, ok : BOOLEAN])
        /\ worker' \in [Thread \cup {Refresher} -> Job]
    BY <1>2, PostEffect
  <2>2. TypeOK'
    BY <1>2, <2>1 DEF PostList, TypeOK, vaultVars, uiVars
  <2>3. May(worker[t].kind, worker[t].ok)
    BY DEF Jobs, Fit, May
  <2>4. \A i \in DOMAIN queue' : May(queue'[i].kind, queue'[i].ok)
    <3>1. ASSUME NEW i \in DOMAIN queue' PROVE May(queue'[i].kind, queue'[i].ok)
      <4>1. i \in DOMAIN queue \/ i = Len(queue) + 1
        BY <1>2, PostEffect
      <4>2. CASE i \in DOMAIN queue
        BY <1>2, <4>2, PostEffect DEF Jobs
      <4>3. CASE i = Len(queue) + 1
        BY <1>2, <2>3, <4>3, PostEffect
      <4> QED BY <4>1, <4>2, <4>3
    <3> QED BY <3>1
  <2>5. Fit(NoJob)
    BY NoJobType DEF Fit, May
  <2>6. \A u \in Thread \cup {Refresher} : worker'[u] = worker[u] \/ worker'[u] = NoJob
    BY <1>2, PostEffect
  <2>7. Jobs'
    BY <2>4, <2>5, <2>6, NoJobType DEF Jobs
  <2> QED BY <2>2, <2>7
<1>3. CASE Refresh
  <2> DEFINE j == [NewJob("refresh") EXCEPT !.pc = "post", !.list = ListNow]
  <2>1. ListNow \in SUBSET Entry
    BY ListedTypes DEF ListNow, TypeOK
  <2>2. NewJob("refresh") \in Job /\ NewJob("refresh").kind = "refresh" /\ NewJob("refresh").ok
    <3>1. "refresh" \in Kind
      BY DEF Kind
    <3> QED BY <3>1, NewJobType DEF Starting
  <2>3. j \in Job /\ j.kind = "refresh" /\ j.ok
    <3> HIDE DEF ListNow
    <3>1. \A w \in Job : LET x == [w EXCEPT !.pc = "post", !.list = ListNow]
                        IN  x \in Job /\ x.kind = w.kind /\ x.ok = w.ok
      BY <2>1, JobMoves
    <3> QED BY <2>2, <3>1
  <2>4. worker' = [worker EXCEPT ![Refresher] = j]
    BY <1>3 DEF Refresh
  <2> HIDE DEF j
  <2>5. worker' \in [Thread \cup {Refresher} -> Job] /\ worker'[Refresher] = j
        /\ \A u \in Thread : worker'[u] = worker[u]
    BY <2>3, <2>4, EntriesAssumption DEF TypeOK
  <2>6. UNCHANGED <<vaultVars, filter, uiVars, queue, started>>
    BY <1>3 DEF Refresh, Idle
  <2>7. Jobs'
    BY <2>3, <2>5, <2>6 DEF Jobs
  <2> QED BY <2>5, <2>6, <2>7 DEF TypeOK, vaultVars, uiVars
<1>4. CASE RunClosure
  <2> DEFINE c == queue[1]
  <2>1. c \in [kind : Kind, list : SUBSET Entry, ok : BOOLEAN] /\ c = Head(queue)
    BY <1>4, ClosureEffect
  <2>2. shown' \subseteq Entry /\ selected' \in Entry \cup {None}
    BY <1>4, <2>1 DEF RunClosure, TypeOK
  <2>3. page' \in BOOLEAN /\ tab' \in Filter /\ target' \in AccountId \cup {None} /\ details' \in Detail
    <3>1. NoDetails \in Detail /\ "accounts" \in Filter
      BY DEF NoDetails, Detail, Filter
    <3>2. CASE ComeBack
      BY <3>1, <3>2 DEF ComeBack, TypeOK
    <3>3. CASE PanelRefreshed(Head(queue).ok) /\ UNCHANGED <<page, tab, target>>
      BY <3>3, DetailsTyped DEF PanelRefreshed, TypeOK
    <3> QED BY <1>4, <3>2, <3>3 DEF RunClosure
  <2>4. worker' \in [Thread \cup {Refresher} -> Job] /\ worker'[Refresher] = worker[Refresher]
        /\ \A u \in Thread : worker'[u] = worker[u] \/ Fit(worker'[u])
    <3>1. CASE UNCHANGED worker
      BY <3>1 DEF TypeOK
    <3>2. CASE FetchIcon(Head(queue))
      <4>1. PICK t \in Thread, j \in Job :
               worker' = [worker EXCEPT ![t] = j] /\ j.kind = "icon" /\ j.pc = "list" /\ j.ok
        BY <3>2, IconEffect
      <4>2. Fit(j) /\ t # Refresher
        BY <4>1, EntriesAssumption DEF Fit, May
      <4> QED BY <4>1, <4>2 DEF TypeOK
    <3> QED BY <1>4, <3>1, <3>2 DEF RunClosure
  <2>5. \A i \in DOMAIN queue' : May(queue'[i].kind, queue'[i].ok)
    BY <1>4, ClosureEffect DEF Jobs
  <2>6. Jobs'
    BY <2>4, <2>5 DEF Jobs
  <2>7. queue' \in Seq([kind : Kind, list : SUBSET Entry, ok : BOOLEAN])
    BY <1>4, ClosureEffect
  <2>8. UNCHANGED <<vaultVars, filter, started>>
    BY <1>4 DEF RunClosure
  <2>9. TypeOK'
    BY <2>2, <2>3, <2>4, <2>7, <2>8 DEF TypeOK, vaultVars
  <2> QED BY <2>6, <2>9
<1> QED BY <1>1, <1>2, <1>3, <1>4 DEF Machine

\* So every step keeps the types.
LEMMA TypedStep ==
  ASSUME Typed, [Next]_vars
  PROVE  Typed'
<1>1. CASE UNCHANGED vars
  BY <1>1 DEF Typed, TypeOK, Jobs, vars, steps
<1>2. CASE Next
  BY <1>2, UserTyped, MachineTyped DEF Next, Typed
<1> QED BY <1>1, <1>2
-----------------------------------------------------------------------------
(* What the vault holds *)

\* An entry is there when it is an account that was added and not removed, or the id
\* of one of the authenticators.
Holds(acc, ts, e) == \/ e \in AccountId /\ acc[e] # "none"
                     \/ e \in TotpId /\ \E i \in DOMAIN ts : ts[i].id = e

LEMMA HeldBy ==
  ASSUME NEW acc \in [AccountId -> {"none", "live", "trashed"}], NEW ts \in Seq(Totp)
  PROVE  LET of(state)  == {a \in AccountId : acc[a] = state}
             totp(gone) == {ts[i].id : i \in {j \in DOMAIN ts : ts[j].deleted = gone}} \ {None}
         IN  \A e : e \in of("live") \cup of("trashed") \cup totp(TRUE) \cup totp(FALSE)
                   <=> Holds(acc, ts, e)
<1> DEFINE of(state)  == {a \in AccountId : acc[a] = state}
           totp(gone) == {ts[i].id : i \in {j \in DOMAIN ts : ts[j].deleted = gone}} \ {None}
<1>1. \A i \in DOMAIN ts : ts[i].id \in TotpId \cup {None} /\ ts[i].deleted \in BOOLEAN
  <2>1. \A i \in DOMAIN ts : ts[i] \in Totp
    OBVIOUS
  <2> QED BY <2>1 DEF Totp
<1>2. None \notin AccountId \cup TotpId
  BY EntriesAssumption DEF Entry
<1>3. \A e : e \in of("live") \cup of("trashed") <=> e \in AccountId /\ acc[e] # "none"
  OBVIOUS
<1>4. \A e : e \in totp(TRUE) \cup totp(FALSE) <=> e \in TotpId /\ \E i \in DOMAIN ts : ts[i].id = e
  <2> SUFFICES ASSUME NEW e PROVE e \in totp(TRUE) \cup totp(FALSE)
                                    <=> e \in TotpId /\ \E i \in DOMAIN ts : ts[i].id = e
    OBVIOUS
  <2>1. ASSUME e \in totp(TRUE) \cup totp(FALSE) PROVE e \in TotpId /\ \E i \in DOMAIN ts : ts[i].id = e
    BY <1>1, <2>1
  <2>2. ASSUME e \in TotpId, NEW i \in DOMAIN ts, ts[i].id = e PROVE e \in totp(TRUE) \cup totp(FALSE)
    <3>1. ts[i].deleted = TRUE \/ ts[i].deleted = FALSE
      BY <1>1
    <3> QED BY <1>2, <2>2, <3>1
  <2> QED BY <2>1, <2>2
<1> HIDE DEF of, totp
<1>5. \A e : e \in of("live") \cup of("trashed") \cup totp(TRUE) \cup totp(FALSE)
             <=> Holds(acc, ts, e)
  BY <1>3, <1>4 DEF Holds
<1> QED BY <1>5 DEF of, totp

LEMMA PresentHeld ==
  ASSUME TypeOK
  PROVE  \A e : e \in Present <=> Holds(accounts, totps, e)
BY HeldBy DEF Present, Accounts, Totps, TypeOK

LEMMA PresentHeldNext ==
  ASSUME TypeOK'
  PROVE  \A e : e \in Present' <=> Holds(accounts', totps', e)
BY HeldBy DEF Present, Accounts, Totps, TypeOK

\* An account that is there has its state.
LEMMA AccountHeld ==
  ASSUME TypeOK, NEW a \in AccountId, a \in Present
  PROVE  a # None /\ accounts[a] # "none"
BY PresentHeld, EntriesAssumption DEF Holds, Entry

\* Whatever is listed is there.
LEMMA ListPresent ==
  ASSUME TypeOK
  PROVE  List \subseteq Present
BY DEF List, Listed, Present, Accounts, Totps

\* The panel of an entry that is there shows what the vault says of it.
LEMMA DetailsAreFacts ==
  ASSUME TypeOK, NEW e \in Present
  PROVE  Details(e) = Facts(accounts, totps, e)
<1>1. Holds(accounts, totps, e)
  BY PresentHeld
<1>2. CASE e \in AccountId
  BY <1>1, <1>2, EntriesAssumption DEF Details, Facts, Holds
<1>3. CASE e \notin AccountId
  <2>1. e \in TotpId /\ e # None /\ \E i \in DOMAIN totps : totps[i].id = e
    BY <1>1, <1>3, EntriesAssumption DEF Holds, Entry
  <2>2. \A i \in DOMAIN totps : totps[i].deleted \in BOOLEAN
    BY TotpTypes DEF Totp
  <2>3. e \in Totps(TRUE) <=> \E i \in DOMAIN totps : totps[i].id = e /\ totps[i].deleted
    BY <2>1, <2>2 DEF Totps
  <2>4. (e \in Totps(TRUE)) = (\E i \in DOMAIN totps : totps[i].id = e /\ totps[i].deleted)
    <3> DEFINE p == e \in Totps(TRUE)
               q == \E i \in DOMAIN totps : totps[i].id = e /\ totps[i].deleted
    <3>1. p <=> q
      BY <2>3
    <3>2. p \in BOOLEAN /\ q \in BOOLEAN
      OBVIOUS
    <3> HIDE DEF p, q
    <3>3. p = q
      BY <3>1, <3>2
    <3> QED BY <3>3 DEF p, q
  <2> QED BY <1>3, <2>1, <2>4 DEF Details, Facts
<1> QED BY <1>2, <1>3

\* With the vault as it was, the same is there and it says the same.
LEMMA SameVault ==
  ASSUME UNCHANGED <<accounts, totps>>
  PROVE  Present' = Present /\ \A e : Facts(accounts', totps', e) = Facts(accounts, totps, e)
BY DEF Present, Accounts, Totps
-----------------------------------------------------------------------------
(* The steps of a patient user *)

\* A thread that such a user starts is alone; its new entry is not there yet, and what
\* it is to link is.
LEMMA StartOrdered ==
  ASSUME Typed, Typed', Ordered, Quiet, NEW op, NEW k, NEW j, Starting(j, k), SpawnThread(op, j),
         page' = page, born \subseteq born',
         k \in {"account", "totp", "import"} => j.id \in born' \ Present,
         k \in {"totp", "link"} => Exists(j.to),
         target' # None => Exists(target') /\ k = "search" /\ j.filter = "totp",
         selected' # None => /\ selected' = selected /\ details' = details
                             /\ k \notin {"trash", "remove"}
  PROVE  Ordered'
<1>1. PICK t \in Thread : worker[t] = NoJob /\ worker' = [worker EXCEPT ![t] = j]
  BY DEF SpawnThread
<1>2. /\ worker'[t] = j /\ \A u \in Thread : u # t => worker'[u] = NoJob
      /\ \A u \in Thread : worker[u] = NoJob
  BY <1>1 DEF Typed, TypeOK, Quiet
<1>3. UNCHANGED <<accounts, totps, filter, queue>> /\ DOMAIN queue = {} /\ DOMAIN queue' = {}
  BY DEF SpawnThread, Quiet
<1>4. Present' = Present /\ \A e : Facts(accounts', totps', e) = Facts(accounts, totps, e)
  BY <1>3, SameVault
<1>5. NoJob.kind = "none" /\ NoJob.pc = "idle" /\ j.kind = k /\ j.pc = "begin"
  BY NoJobType DEF Starting
<1> HIDE DEF NoJob
<1>6. OneAtATime'
  BY <1>2, <1>3 DEF OneAtATime, Busy
<1>7. NewIds'
  <2>1. Present' \subseteq born'
    BY <1>4 DEF Ordered, NewIds
  <2> QED BY <1>2, <1>4, <1>5, <2>1 DEF NewIds, Live
<1>8. Targets'
  <2>1. Exists(target)'
    BY <1>3 DEF Exists
  <2>2. \A i \in DOMAIN totps' : Exists(totps[i].link)'
    BY <1>3 DEF Ordered, Targets, Exists
  <2>3. \A u \in Thread : Live(u, {"totp", "link"}, "begin")' => Exists(worker[u].to)'
    BY <1>2, <1>3, <1>5 DEF Live, Exists
  <2> QED BY <2>1, <2>2, <2>3 DEF Targets
<1>9. Picker'
  BY <1>2, <1>3, <1>5 DEF Picker, Busy, Live
<1>10. Panel'
  <2> SUFFICES ASSUME selected' # None
               PROVE  /\ selected' \in Present' /\ details' = Facts(accounts', totps', selected')
                      /\ \A u \in Thread : worker'[u].kind \notin {"trash", "remove"}
    BY DEF Panel
  <2>1. selected' = selected /\ details' = details /\ k \notin {"trash", "remove"}
    OBVIOUS
  <2>2. ~Underway({"restore", "totp", "link", "unlink"})
    BY <1>2, <1>3, <1>5 DEF Underway
  <2>3. selected \in Present /\ details = Facts(accounts, totps, selected)
    BY <2>1, <2>2 DEF Ordered, Panel
  <2> QED BY <1>2, <1>4, <1>5, <2>1, <2>3
<1> QED BY <1>6, <1>7, <1>8, <1>9, <1>10 DEF Ordered

\* The steps of the user that start no thread.
LEMMA LookOrdered ==
  ASSUME Typed, Typed', Ordered, Quiet, (\E e \in Entry : SelectEntry(e)) \/ ClosePicker
  PROVE  Ordered'
<1>1. UNCHANGED <<accounts, totps, born, filter, page, worker, queue>>
  BY DEF SelectEntry, ClosePicker, vaultVars
<1>2. Present' = Present /\ \A e : Facts(accounts', totps', e) = Facts(accounts, totps, e)
  BY <1>1, SameVault
<1>3. OneAtATime' /\ NewIds'
  BY <1>1, <1>2 DEF Ordered, OneAtATime, NewIds, Busy, Own, Live
<1>4. target' = None \/ target' = target
  BY DEF SelectEntry, ClosePicker
<1>5. Targets' /\ Picker'
  BY <1>1, <1>4 DEF Ordered, Targets, Picker, Exists, Busy, Live
<1>6. Panel'
  <2>1. CASE ClosePicker
    <3>1. UNCHANGED <<selected, details>>
      BY <2>1 DEF ClosePicker
    <3> QED BY <1>1, <1>2, <3>1 DEF Ordered, Panel, Underway
  <2>2. ASSUME NEW e \in Entry, SelectEntry(e) PROVE Panel'
    <3>1. e \in Present
      BY <2>2, ListPresent DEF SelectEntry, Quiet, Typed
    <3>2. selected' = e /\ details' = Facts(accounts, totps, e)
      BY <2>2, <3>1, DetailsAreFacts DEF SelectEntry, Typed
    <3>3. \A t \in Thread : worker'[t].kind \notin {"trash", "remove"}
      BY <1>1, NoJobType DEF Quiet
    <3> QED BY <1>2, <3>1, <3>2, <3>3 DEF Panel
  <2> QED BY <2>1, <2>2
<1> QED BY <1>1, <1>3, <1>5, <1>6 DEF Ordered

\* Every step of a patient user.
LEMMA UserOrdered ==
  ASSUME Typed, Typed', Ordered, Quiet, ~page', UserStep
  PROVE  Ordered'
<1>1. ASSUME NEW f \in Filter, ClickTab(f) PROVE Ordered'
  <2>1. Starting([NewJob("search") EXCEPT !.filter = f], "search")
    BY SearchJob
  <2> QED BY <1>1, <2>1, StartOrdered DEF ClickTab, Spawn, OnMain
<1>2. ASSUME NEW e \in Entry, MoveToTrash(e) \/ DeletePermanently(e) \/ Restore(e) PROVE Ordered'
  <2>1. ASSUME NEW k \in {"trash", "remove", "restore"} PROVE Starting([NewJob(k) EXCEPT !.id = e], k)
    <3>1. k \in Kind
      BY DEF Kind
    <3> QED BY <3>1, EntryJob
  <2>2. CASE MoveToTrash(e)
    BY <2>1, <2>2, StartOrdered DEF MoveToTrash, Spawn, OnMain, OnPanel
  <2>3. CASE DeletePermanently(e)
    BY <2>1, <2>3, StartOrdered DEF DeletePermanently, Spawn, OnMain, OnPanel
  <2>4. CASE Restore(e)
    BY <2>1, <2>4, StartOrdered DEF Restore, Spawn, OnMain, OnPanel
  <2> QED BY <1>2, <2>2, <2>3, <2>4
<1>3. ASSUME NEW e \in AccountId, AddAccount(e) PROVE Ordered'
  <2>1. Starting([NewJob("account") EXCEPT !.id = e], "account") /\ [NewJob("account") EXCEPT !.id = e].id = e
    <3>1. "account" \in Kind /\ e \in Entry
      BY DEF Kind, Entry
    <3> QED BY <3>1, EntryJob
  <2>2. e \in born' \ Present /\ born \subseteq born'
    BY <1>3 DEF AddAccount, SpawnNew, Ordered, NewIds
  <2> QED BY <1>3, <2>1, <2>2, StartOrdered DEF AddAccount, SpawnNew, OnMain, uiVars
<1>4. ASSUME NEW b \in TotpId, AddTotp(b) PROVE Ordered'
  <2>1. b \in Entry /\ "totp" \in Kind
    BY DEF Entry, Kind
  <2>2. b \in born' \ Present /\ born \subseteq born' /\ UNCHANGED uiVars /\ target = None
    BY <1>4 DEF AddTotp, SpawnNew, Ordered, NewIds, OnMain, OnPanel
  <2>3. CASE /\ selected \in AccountId
             /\ SpawnNew("totp", [NewJob("totp") EXCEPT !.to = selected], b)
    <3> DEFINE j == [[NewJob("totp") EXCEPT !.to = selected] EXCEPT !.id = b]
    <3>1. Starting(j, "totp") /\ j.id = b /\ j.to = selected
      <4>1. j = Adding("totp", b, selected)
        BY DEF Adding
      <4> HIDE DEF j
      <4> QED BY <2>1, <2>3, <4>1, LinkJob
    <3>2. SpawnThread("totp", j)
      BY <2>3 DEF SpawnNew
    <3> HIDE DEF j
    <3>3. Exists(selected)
      BY <2>3, AccountHeld DEF Ordered, Panel, Exists, Typed
    <3> QED BY <2>2, <3>1, <3>2, <3>3, StartOrdered DEF uiVars
  <2>4. CASE SpawnNew("totp", NewJob("totp"), b)
    <3> DEFINE j == [NewJob("totp") EXCEPT !.id = b]
    <3>1. Starting(j, "totp") /\ j.id = b /\ j.to = None
      BY <2>1, EntryJob
    <3>2. SpawnThread("totp", j)
      BY <2>4 DEF SpawnNew
    <3> HIDE DEF j
    <3>3. Exists(j.to)
      BY <3>1 DEF Exists
    <3> QED BY <2>2, <3>1, <3>2, <3>3, StartOrdered DEF uiVars
  <2> QED BY <1>4, <2>3, <2>4 DEF AddTotp
<1>5. CASE OpenPicker
  <2> DEFINE j == [NewJob("search") EXCEPT !.filter = "totp"]
  <2>1. Starting(j, "search") /\ j.filter = "totp"
    <3>1. "totp" \in Filter
      BY DEF Filter
    <3> QED BY <3>1, SearchJob
  <2>2. SpawnThread("link", j) /\ UNCHANGED <<born, page, selected, details>> /\ target' = selected
    BY <1>5 DEF OpenPicker, Spawn
  <2> HIDE DEF j
  <2>3. Exists(selected)
    BY <1>5, AccountHeld DEF OpenPicker, OnPanel, Ordered, Panel, Exists, Typed
  <2> QED BY <2>1, <2>2, <2>3, StartOrdered
<1>6. ASSUME NEW e \in Entry, PickTotp(e) PROVE Ordered'
  <2> DEFINE j == [NewJob("link") EXCEPT !.id = e, !.to = target]
  <2>1. Starting(j, "link") /\ j.to = target
    <3>1. target \in AccountId /\ "link" \in Kind
      BY <1>6 DEF PickTotp, Typed, TypeOK, Kind
    <3>2. j = Linking("link", e, target)
      BY DEF Linking
    <3> HIDE DEF j
    <3> QED BY <3>1, <3>2, LinkJob
  <2>2. SpawnThread("link", j) /\ UNCHANGED <<born, page, selected, details>> /\ target' = None
    BY <1>6 DEF PickTotp, Spawn
  <2> HIDE DEF j
  <2>3. Exists(target)
    BY DEF Ordered, Targets
  <2> QED BY <2>1, <2>2, <2>3, StartOrdered
<1>7. CASE Unlink
  <2> DEFINE j == [NewJob("unlink") EXCEPT !.id = selected]
  <2>1. Starting(j, "unlink")
    <3>1. selected \in Entry /\ "unlink" \in Kind
      BY <1>7 DEF Unlink, OnPanel, Typed, TypeOK, Kind
    <3> QED BY <3>1, EntryJob
  <2>2. SpawnThread("unlink", j) /\ UNCHANGED <<born, uiVars>> /\ target = None
    BY <1>7 DEF Unlink, Spawn, OnPanel, OnMain
  <2> HIDE DEF j
  <2> QED BY <2>1, <2>2, StartOrdered DEF uiVars
<1>8. ~OpenPage /\ ~LeavePage /\ \A e \in Entry : ~Import(e)
  BY DEF OpenPage, LeavePage, Import, Ordered
<1> QED BY <1>1, <1>2, <1>3, <1>4, <1>5, <1>6, <1>7, <1>8, LookOrdered DEF UserStep
-----------------------------------------------------------------------------
(* The steps of the threads, for a patient user *)

\* The changes after which the panel fits only when their closure has run.
Changes == {"restore", "totp", "link", "unlink"}

\* A thread that goes on keeps the order when what it leaves in the vault suits those
\* that look at it: the ids, the links, the picker and the panel.
LEMMA GoesOrdered ==
  ASSUME Typed, Ordered, NEW t \in Thread, Goes(t), Busy(t), UNCHANGED <<born, uiVars, queue>>,
         Present' \subseteq born,
         Exists(target)', \A i \in DOMAIN totps' : Exists(totps[i].link)',
         target # None => filter' = "totp",
         selected # None =>
           /\ selected \in Present'
           /\ \/ worker[t].kind \in Changes
              \/ Facts(accounts', totps', selected) = Facts(accounts, totps, selected)
  PROVE  Ordered'
<1>1. PICK j \in Job : /\ worker' = [worker EXCEPT ![t] = j] /\ j.kind = worker[t].kind
                       /\ j.pc \in {"list", "post"}
  BY DEF Goes
<1>2. worker'[t] = j /\ \A u \in Thread : u # t => worker[u] = NoJob /\ worker'[u] = NoJob
  BY <1>1 DEF Typed, TypeOK, Ordered, OneAtATime, Busy
<1>3. NoJob.kind = "none" /\ NoJob.pc = "idle"
  BY NoJobType
<1> HIDE DEF NoJob
<1>4. \A u \in Thread : ~Live(u, {"account", "totp", "import", "link"}, "begin")'
                        /\ worker'[u].kind = worker[u].kind /\ worker'[u].pc # "begin"
  BY <1>1, <1>2, <1>3 DEF Live
<1>5. OneAtATime'
  BY <1>2 DEF Ordered, OneAtATime, Busy, Own
<1>6. NewIds'
  BY <1>4 DEF NewIds, Live
<1>7. Targets'
  BY <1>4 DEF Targets, Live
<1>8. Picker'
  BY <1>1, <1>2, <1>4 DEF Ordered, Picker, Busy, uiVars
<1>9. Panel'
  <2> SUFFICES ASSUME selected # None
               PROVE  /\ selected \in Present'
                      /\ \A u \in Thread : worker'[u].kind \notin {"trash", "remove"}
                      /\ Underway(Changes)' \/ details = Facts(accounts', totps', selected)
    BY DEF Panel, uiVars, Changes
  <2>1. \A u \in Thread : worker'[u].kind \notin {"trash", "remove"}
    BY <1>4 DEF Ordered, Panel
  <2>2. Underway(Changes)' <=> Underway(Changes)
    BY <1>4 DEF Underway
  <2>3. worker[t].kind \in Changes => Underway(Changes)
    BY DEF Underway
  <2>4. Underway(Changes) \/ details = Facts(accounts, totps, selected)
    BY DEF Ordered, Panel, Changes
  <2> QED BY <2>1, <2>2, <2>3, <2>4
<1> QED BY <1>5, <1>6, <1>7, <1>8, <1>9 DEF Ordered, uiVars

\* A thread with something to do is busy, and with the picker open it is its search.
LEMMA AtWork ==
  ASSUME Typed, Ordered, NEW t \in Thread, worker[t].pc # "idle"
  PROVE  /\ Busy(t)
         /\ worker[t].kind # "search" => target = None
         /\ worker[t].kind \in {"trash", "remove"} => selected = None
         /\ worker[t].pc # "begin" => (target # None => filter = "totp")
<1>1. Busy(t)
  BY NoJobType DEF Busy
<1>2. worker[t].pc # "begin" => (target # None => filter = "totp")
  BY <1>1, NoJobType DEF Ordered, OneAtATime, Picker, Live, Busy
<1> QED BY <1>1, <1>2 DEF Ordered, Picker, Panel
\* A search, and a thread that makes its list, leave the vault as it is.
LEMMA ListOrdered ==
  ASSUME Typed, Typed', Ordered, NEW t \in Thread, Search(t) \/ MakeList(t), Goes(t)
  PROVE  Ordered'
<1>1. UNCHANGED <<accounts, totps, born, uiVars, queue>>
  BY DEF Search, MakeList, vaultVars, Idle
<1>2. Present' = Present /\ \A e : Facts(accounts', totps', e) = Facts(accounts, totps, e)
  BY <1>1, SameVault
<1>3. target # None => filter' = "totp"
  <2>1. CASE Search(t)
    <3>1. Busy(t) /\ worker[t].pc = "begin"
      BY <2>1, AtWork DEF Search, Live
    <3> QED BY <2>1, <3>1 DEF Ordered, Picker, Search, SetFilter
  <2>2. CASE MakeList(t)
    BY <2>2, AtWork DEF MakeList
  <2> QED BY <2>1, <2>2
<1>4. Busy(t)
  BY AtWork DEF Search, MakeList, Live
<1>5. Exists(target)' /\ \A i \in DOMAIN totps' : Exists(totps[i].link)'
  BY <1>1 DEF Ordered, Targets, Exists, uiVars
<1>6. Present' \subseteq born /\ (selected # None => selected \in Present')
  BY <1>2 DEF Ordered, NewIds, Panel
<1> QED BY <1>1, <1>2, <1>3, <1>4, <1>5, <1>6, GoesOrdered

\* Deleting: nothing is selected, the picker is closed, and what is left is linked to
\* what is left.
LEMMA DeleteOrdered ==
  ASSUME Typed, Typed', Ordered, NEW t \in Thread, Delete(t), Goes(t)
  PROVE  Ordered'
<1>1. Busy(t) /\ target = None /\ selected = None
  BY AtWork DEF Delete, Live
<1>2. UNCHANGED <<born, uiVars, queue>>
  BY DEF Delete, Idle
<1>3. Present' \subseteq Present
  <2> SUFFICES ASSUME NEW e, Holds(accounts', totps', e) PROVE Holds(accounts, totps, e)
    BY PresentHeld, PresentHeldNext DEF Typed
  <2>1. CASE e \in AccountId /\ accounts'[e] # "none"
    BY <2>1, DeleteEffect DEF Typed, Holds
  <2>2. ASSUME e \in TotpId, NEW i \in DOMAIN totps', totps'[i].id = e PROVE Holds(accounts, totps, e)
    <3>1. e # None
      BY <2>2, EntriesAssumption DEF Entry
    <3>2. i \in DOMAIN totps /\ totps[i].id = e
      BY <2>2, <3>1, DeleteEffect DEF Typed
    <3> QED BY <2>2, <3>2 DEF Holds
  <2> QED BY <2>1, <2>2 DEF Holds
<1>4. ASSUME NEW i \in DOMAIN totps', totps'[i].link # None PROVE accounts'[totps'[i].link] # "none"
  <2>1. i \in DOMAIN totps /\ totps'[i].link = totps[i].link
        /\ (accounts[totps[i].link] # "none" => accounts'[totps[i].link] # "none")
    BY <1>4, DeleteEffect DEF Typed
  <2> QED BY <1>4, <2>1 DEF Ordered, Targets, Exists
<1>5. Present' \subseteq born
  BY <1>3 DEF Ordered, NewIds
<1>6. Exists(target)' /\ \A i \in DOMAIN totps' : Exists(totps[i].link)'
  BY <1>1, <1>2, <1>4 DEF Exists, uiVars
<1> QED BY <1>1, <1>2, <1>5, <1>6, GoesOrdered

\* Restoring and linking: what is there stays there, and a link that is set is one to an
\* account that is there.
LEMMA ChangeOrdered ==
  ASSUME Typed, Typed', Ordered, NEW t \in Thread, Goes(t),
         RestoreEntry(t) \/ LinkTotp(t) \/ UnlinkTotp(t)
  PROVE  Ordered'
<1>1. Busy(t) /\ target = None /\ worker[t].kind \in Changes
  BY AtWork DEF RestoreEntry, LinkTotp, UnlinkTotp, Live, Changes
<1>2. UNCHANGED <<born, uiVars, queue>>
  BY DEF RestoreEntry, LinkTotp, UnlinkTotp, Idle
<1>3. \A a \in AccountId : accounts'[a] = "none" <=> accounts[a] = "none"
  BY DEF RestoreEntry, LinkTotp, UnlinkTotp, Typed, TypeOK
<1>4. PICK a \in AccountId \cup {None} :
        /\ Exists(a) /\ DOMAIN totps' = DOMAIN totps
        /\ \A i \in DOMAIN totps : totps'[i].id = totps[i].id /\ totps'[i].link \in {totps[i].link, a}
  <2>1. CASE RestoreEntry(t)
    <3>1. Exists(None)
      BY DEF Exists
    <3>2. SetTotps({i \in DOMAIN totps : totps[i].id = worker[t].id}, "deleted", FALSE)
      BY <2>1 DEF RestoreEntry
    <3>3. DOMAIN totps' = DOMAIN totps
          /\ \A i \in DOMAIN totps : totps'[i].id = totps[i].id /\ totps'[i].link = totps[i].link
      BY <3>2, SetEffect DEF Typed
    <3> QED BY <3>1, <3>3
  <2>2. CASE LinkTotp(t)
    <3>1. worker[t].to \in AccountId \cup {None}
      BY DEF Typed, TypeOK, Job
    <3>2. SetTotps({i \in DOMAIN totps : totps[i].id = worker[t].id}, "link", worker[t].to)
      BY <2>2 DEF LinkTotp
    <3>3. DOMAIN totps' = DOMAIN totps
          /\ \A i \in DOMAIN totps : totps'[i].id = totps[i].id /\ totps'[i].link \in {totps[i].link, worker[t].to}
      BY <3>1, <3>2, SetEffect DEF Typed
    <3>4. Live(t, {"totp", "link"}, "begin")
      BY <2>2 DEF LinkTotp, Live
    <3>5. Exists(worker[t].to)
      BY <3>4 DEF Ordered, Targets
    <3> QED BY <3>1, <3>3, <3>5
  <2>3. CASE UnlinkTotp(t)
    <3>1. Exists(None)
      BY DEF Exists
    <3>2. SetTotps(First(Linked(worker[t].id)), "link", None)
      BY <2>3 DEF UnlinkTotp
    <3>3. DOMAIN totps' = DOMAIN totps
          /\ \A i \in DOMAIN totps : totps'[i].id = totps[i].id /\ totps'[i].link \in {totps[i].link, None}
      BY <3>2, SetEffect DEF Typed
    <3> QED BY <3>1, <3>3
  <2> QED BY <2>1, <2>2, <2>3
<1>5. Present' = Present
  <2>1. \A e : Holds(accounts', totps', e) <=> Holds(accounts, totps, e)
    BY <1>3, <1>4 DEF Holds
  <2> QED BY <2>1, PresentHeld, PresentHeldNext DEF Typed
<1>6. ASSUME NEW i \in DOMAIN totps', totps'[i].link # None PROVE accounts'[totps'[i].link] # "none"
  <2>1. i \in DOMAIN totps /\ totps'[i].link \in {totps[i].link, a} /\ totps[i].link \in AccountId \cup {None}
    BY <1>4, <1>6, TotpTypes DEF Typed, Totp
  <2>2. Exists(totps'[i].link)
    BY <1>4, <2>1 DEF Ordered, Targets
  <2> QED BY <1>3, <1>6, <2>1, <2>2 DEF Exists
<1>7. Present' \subseteq born /\ (selected # None => selected \in Present')
  BY <1>5 DEF Ordered, NewIds, Panel
<1>8. Exists(target)' /\ \A i \in DOMAIN totps' : Exists(totps[i].link)'
  BY <1>1, <1>2, <1>6 DEF Exists, uiVars
<1> QED BY <1>1, <1>2, <1>7, <1>8, GoesOrdered
\* An authenticator of another id without a link changes nothing that is said of an entry.
LEMMA FactsKept ==
  ASSUME NEW acc, NEW ts, NEW ts2, NEW e,
         (\E i \in DOMAIN ts2 : ts2[i].link = e) <=> (\E i \in DOMAIN ts : ts[i].link = e),
         (\E i \in DOMAIN ts2 : ts2[i].id = e /\ ts2[i].deleted)
           <=> (\E i \in DOMAIN ts : ts[i].id = e /\ ts[i].deleted)
  PROVE  Facts(acc, ts2, e) = Facts(acc, ts, e)
<1> DEFINE l(s) == \E i \in DOMAIN s : s[i].link = e
           d(s) == \E i \in DOMAIN s : s[i].id = e /\ s[i].deleted
<1>1. (l(ts2) <=> l(ts)) /\ (d(ts2) <=> d(ts))
  OBVIOUS
<1>2. l(ts2) \in BOOLEAN /\ l(ts) \in BOOLEAN /\ d(ts2) \in BOOLEAN /\ d(ts) \in BOOLEAN
  OBVIOUS
<1> HIDE DEF l, d
<1>3. l(ts2) = l(ts) /\ d(ts2) = d(ts)
  BY <1>1, <1>2
<1> QED BY <1>3 DEF l, d, Facts

\* A new entry is one that was not there, linked to an account that is.
LEMMA SaveOrdered ==
  ASSUME Typed, Typed', Ordered, NEW t \in Thread, SaveEntry(t) \/ SaveTotp(t), Goes(t)
  PROVE  Ordered'
<1> DEFINE e == worker[t].id
<1>1. Busy(t) /\ target = None
  BY AtWork DEF SaveEntry, SaveTotp, Live
<1>2. UNCHANGED <<born, uiVars, queue>>
  BY DEF SaveEntry, SaveTotp, Idle
<1>3. e \in born \ Present
  <2>1. Live(t, {"account", "totp", "import"}, "begin")
    BY DEF SaveEntry, SaveTotp, Live
  <2> QED BY <2>1 DEF Ordered, NewIds
<1> HIDE DEF e
<1>4. Exists(target)'
  BY <1>1, <1>2 DEF Exists, uiVars
<1>5. \A i \in DOMAIN totps : Exists(totps[i].link) /\ totps[i].link \in AccountId \cup {None}
  BY TotpTypes DEF Ordered, Targets, Typed, Totp
<1>6. selected # None => selected # e /\ selected \in Present /\ selected \in Entry
  BY <1>3 DEF Ordered, Panel, Typed, TypeOK
<1>7. ASSUME e \in AccountId, accounts' = [accounts EXCEPT ![e] = "live"], UNCHANGED totps
      PROVE  Ordered'
  <2>1. accounts'[e] = "live" /\ \A a \in AccountId : a # e => accounts'[a] = accounts[a]
    BY <1>7 DEF Typed, TypeOK
  <2>2. \A x : Holds(accounts', totps', x) <=> x = e \/ Holds(accounts, totps, x)
    BY <1>7, <2>1 DEF Holds
  <2>3. Present' \subseteq born /\ Present \subseteq Present'
    BY <1>3, <2>2, PresentHeld, PresentHeldNext DEF Typed, Ordered, NewIds
  <2>4. \A i \in DOMAIN totps' : Exists(totps[i].link)'
    BY <1>5, <1>7, <2>1 DEF Exists
  <2>5. selected # None => selected \in Present' /\ Facts(accounts', totps', selected) = Facts(accounts, totps, selected)
    BY <1>6, <1>7, <2>1, <2>3 DEF Facts
  <2> QED BY <1>1, <1>2, <1>4, <2>3, <2>4, <2>5, GoesOrdered
<1>8. ASSUME NEW a \in AccountId \cup {None}, e \in TotpId, NewTotp(e, a), UNCHANGED accounts, Exists(a),
             a = None \/ worker[t].kind \in Changes
      PROVE  Ordered'
  <2> DEFINE n == Len(totps) + 1
  <2>1. /\ DOMAIN totps' = DOMAIN totps \cup {n} /\ n \notin DOMAIN totps
        /\ \A i \in DOMAIN totps : totps'[i] = totps[i]
        /\ totps'[n].id = e /\ totps'[n].link = a
    <3>1. /\ Len(totps) \in Nat /\ DOMAIN totps = 1..Len(totps) /\ DOMAIN totps' = 1..(Len(totps) + 1)
          /\ \A i \in DOMAIN totps : totps'[i] = totps[i]
          /\ totps'[Len(totps) + 1].id = e /\ totps'[Len(totps) + 1].link = a
      BY <1>8, Added DEF Typed
    <3> QED BY <3>1
  <2> HIDE DEF n
  <2>2. \A x : Holds(accounts', totps', x) <=> x = e \/ Holds(accounts, totps, x)
    BY <1>8, <2>1 DEF Holds
  <2>3. Present' \subseteq born /\ Present \subseteq Present'
    BY <1>3, <2>2, PresentHeld, PresentHeldNext DEF Typed, Ordered, NewIds
  <2>4. \A i \in DOMAIN totps' : Exists(totps[i].link)'
    BY <1>5, <1>8, <2>1 DEF Exists
  <2>5. a = None /\ selected # None => Facts(accounts', totps', selected) = Facts(accounts, totps, selected)
    <3> SUFFICES ASSUME a = None, selected # None
                 PROVE  Facts(accounts, totps', selected) = Facts(accounts, totps, selected)
      BY <1>8
    <3>1. (\E i \in DOMAIN totps' : totps'[i].link = selected) <=> (\E i \in DOMAIN totps : totps[i].link = selected)
      BY <2>1
    <3>2. (\E i \in DOMAIN totps' : totps'[i].id = selected /\ totps'[i].deleted)
            <=> (\E i \in DOMAIN totps : totps[i].id = selected /\ totps[i].deleted)
      BY <1>6, <2>1
    <3> QED BY <3>1, <3>2, FactsKept
  <2>6. selected # None => selected \in Present'
    BY <1>6, <2>3
  <2> QED BY <1>1, <1>2, <1>4, <1>8, <2>3, <2>4, <2>5, <2>6, GoesOrdered
<1>9. CASE SaveEntry(t)
  <2>1. e \in Entry
    BY <1>9, SaveEffect DEF Typed, e
  <2>2. CASE e \in AccountId
    BY <1>7, <1>9, <2>2 DEF SaveEntry, e
  <2>3. CASE e \notin AccountId
    <3>1. NewTotp(e, None) /\ UNCHANGED accounts /\ Exists(None)
      BY <1>9, <2>3 DEF SaveEntry, e, Exists
    <3> QED BY <1>8, <2>1, <2>3, <3>1 DEF Entry
  <2> QED BY <2>2, <2>3
<1>10. CASE SaveTotp(t)
  <2>1. e \in TotpId /\ worker[t].kind \in Changes /\ worker[t].to \in AccountId \cup {None}
        /\ UNCHANGED accounts
    BY <1>10 DEF SaveTotp, Live, Typed, Jobs, Fit, Changes, TypeOK, Job, e
  <2>2. Exists(worker[t].to)
    <3>1. Live(t, {"totp", "link"}, "begin")
      BY <1>10 DEF SaveTotp, Live
    <3> QED BY <3>1 DEF Ordered, Targets
  <2>3. \E a \in AccountId \cup {None} : NewTotp(e, a) /\ Exists(a)
    <3>1. CASE NewTotp(e, worker[t].to)
      BY <2>1, <2>2, <3>1
    <3>2. CASE NewTotp(e, None)
      BY <3>2 DEF Exists
    <3>3. CASE \E a \in Accounts("live") : NewTotp(e, a)
      BY <3>3 DEF Accounts, Exists
    <3> QED BY <1>10, <3>1, <3>2, <3>3 DEF SaveTotp, e
  <2> QED BY <1>8, <2>1, <2>3
<1> QED BY <1>9, <1>10
\* A closure takes the place of its thread.
LEMMA PostOrdered ==
  ASSUME Typed, Typed', Ordered, NEW t \in Thread \cup {Refresher}, PostList(t)
  PROVE  Ordered'
<1> DEFINE n == Len(queue) + 1
<1>1. /\ DOMAIN queue' = DOMAIN queue \cup {n} /\ n \notin DOMAIN queue
      /\ \A i \in DOMAIN queue : queue'[i] = queue[i]
      /\ queue'[n].kind = worker[t].kind
      /\ worker'[t] = NoJob
      /\ \A u \in Thread \cup {Refresher} : u # t => worker'[u] = worker[u]
  <2>1. Len(queue) \in Nat /\ DOMAIN queue = 1..Len(queue) /\ DOMAIN queue' = 1..(Len(queue) + 1)
        /\ queue'[Len(queue) + 1].kind = worker[t].kind
    BY PostEffect DEF Typed
  <2>2. \A i \in DOMAIN queue : queue'[i] = queue[i]
    BY PostEffect DEF Typed
  <2>3. worker'[t] = NoJob /\ \A u \in Thread \cup {Refresher} : u # t => worker'[u] = worker[u]
    BY PostEffect DEF Typed
  <2> QED BY <2>1, <2>2, <2>3
<1> HIDE DEF n
<1>2. UNCHANGED <<accounts, totps, born, filter, page, selected, details, target>>
  BY DEF PostList, vaultVars, uiVars
<1>3. Present' = Present /\ \A e : Facts(accounts', totps', e) = Facts(accounts, totps, e)
  BY <1>2, SameVault
<1>4. NoJob.kind = "none" /\ NoJob.pc = "idle" /\ worker[t] # NoJob /\ worker[t].pc = "post"
  BY NoJobType DEF PostList
<1> HIDE DEF NoJob
<1>5. \A u \in Thread : worker'[u] = worker[u] \/ worker'[u] = NoJob
  BY <1>1
<1>6. OneAtATime'
  <2>1. CASE t \in Thread
    <3>1. \A u \in Thread : worker'[u] = NoJob
      BY <1>1, <1>4, <2>1 DEF Ordered, OneAtATime, Busy
    <3>2. \A i \in DOMAIN queue' : Own(i)' => i = n
      BY <1>1, <1>4, <2>1 DEF Ordered, OneAtATime, Busy, Own
    <3> QED BY <3>1, <3>2 DEF OneAtATime, Busy
  <2>2. CASE t = Refresher
    <3>1. \A u \in Thread : worker'[u] = worker[u]
      BY <1>1, <2>2, EntriesAssumption
    <3>2. \A i \in DOMAIN queue' : Own(i)' => i \in DOMAIN queue /\ Own(i)
      BY <1>1, <1>4, <2>2 DEF Own, Typed, Jobs
    <3> QED BY <3>1, <3>2 DEF Ordered, OneAtATime, Busy
  <2> QED BY <2>1, <2>2
<1>7. NewIds'
  BY <1>2, <1>3, <1>4, <1>5 DEF Ordered, NewIds, Live
<1>8. Targets'
  BY <1>2, <1>4, <1>5 DEF Ordered, Targets, Live, Exists
<1>9. Picker'
  <2> SUFFICES ASSUME target # None
               PROVE  /\ \A u \in Thread : Busy(u)' =>
                           worker'[u].kind = "search" /\ (worker'[u].pc = "begin" => worker'[u].filter = "totp")
                      /\ \A i \in DOMAIN queue' : queue'[i].kind \in {"search", "refresh"}
                      /\ filter = "totp" \/ \E u \in Thread : Live(u, {"search"}, "begin")'
    BY <1>2 DEF Picker
  <2>1. worker[t].kind \in {"search", "refresh"}
    BY <1>4 DEF Ordered, Picker, Busy, Typed, Jobs
  <2>2. \A i \in DOMAIN queue' : queue'[i].kind \in {"search", "refresh"}
    BY <1>1, <2>1 DEF Ordered, Picker
  <2>3. \A u \in Thread : Live(u, {"search"}, "begin") => Live(u, {"search"}, "begin")'
    BY <1>1, <1>4 DEF Live
  <2> QED BY <1>5, <2>2, <2>3 DEF Ordered, Picker, Busy
<1>10. Panel'
  <2> SUFFICES ASSUME selected # None
               PROVE  /\ selected \in Present
                      /\ \A u \in Thread : worker'[u].kind \notin {"trash", "remove"}
                      /\ Underway(Changes)' \/ details = Facts(accounts, totps, selected)
    BY <1>2, <1>3 DEF Panel, Changes
  <2>1. \A u \in Thread : worker'[u].kind \notin {"trash", "remove"}
    BY <1>4, <1>5 DEF Ordered, Panel
  <2>2. Underway(Changes) => Underway(Changes)'
    <3>1. ASSUME NEW u \in Thread, worker[u].kind \in Changes PROVE Underway(Changes)'
      BY <1>1, <3>1 DEF Underway
    <3>2. ASSUME NEW i \in DOMAIN queue, queue[i].kind \in Changes PROVE Underway(Changes)'
      BY <1>1, <3>2 DEF Underway
    <3> QED BY <3>1, <3>2 DEF Underway
  <2> QED BY <2>1, <2>2 DEF Ordered, Panel, Changes
<1> QED BY <1>2, <1>6, <1>7, <1>8, <1>9, <1>10 DEF Ordered

\* The refresher starts beside whatever is under way.
LEMMA RefreshOrdered ==
  ASSUME Typed, Ordered, Refresh
  PROVE  Ordered'
<1>1. UNCHANGED <<accounts, totps, born, filter, page, selected, details, target, queue>>
  BY DEF Refresh, vaultVars, uiVars, Idle
<1>2. \A u \in Thread : worker'[u] = worker[u]
  BY EntriesAssumption DEF Refresh, Typed, TypeOK
<1>3. Present' = Present /\ \A e : Facts(accounts', totps', e) = Facts(accounts, totps, e)
  BY <1>1, SameVault
<1>4. OneAtATime' /\ NewIds' /\ Targets' /\ Picker'
  BY <1>1, <1>2, <1>3 DEF Ordered, OneAtATime, NewIds, Targets, Picker, Busy, Own, Live, Exists
<1>5. Panel'
  BY <1>1, <1>2, <1>3 DEF Ordered, Panel, Underway
<1> QED BY <1>1, <1>4, <1>5 DEF Ordered

\* When its closure runs, a change ends: the panel fits again, and the selection is gone
\* with an entry that was removed.
LEMMA ClosureOrdered ==
  ASSUME Typed, Typed', Ordered, RunClosure
  PROVE  Ordered'
<1> DEFINE c == Head(queue)
<1>1. /\ c = queue[1] /\ 1 \in DOMAIN queue
      /\ \A i \in DOMAIN queue' : i + 1 \in DOMAIN queue /\ queue'[i] = queue[i + 1] /\ i + 1 # 1
  BY ClosureEffect DEF Typed
<1>2. /\ UNCHANGED <<accounts, totps, born, filter, page, target>> /\ ~page'
      /\ selected' = IF c.kind \in {"trash", "remove"} THEN None ELSE selected
      /\ PanelRefreshed(c.ok)
      /\ FetchIcon(c) \/ UNCHANGED worker
  BY DEF RunClosure, vaultVars, Ordered
<1>3. Present' = Present /\ \A e : Facts(accounts', totps', e) = Facts(accounts, totps, e)
  BY <1>2, SameVault
<1>4. NoJob.kind = "none" /\ NoJob.pc = "idle"
  BY NoJobType
<1> HIDE DEF NoJob, c
<1>5. Own(1) => /\ \A u \in Thread : worker[u] = NoJob
                /\ \A i \in DOMAIN queue : i # 1 => queue[i].kind = "refresh"
  BY <1>1 DEF Ordered, OneAtATime, Busy, Own
<1>6. CASE FetchIcon(c)
  <2>1. PICK t \in Thread, j \in Job : /\ worker' = [worker EXCEPT ![t] = j]
                                       /\ j.kind = "icon" /\ j.pc = "list"
    BY <1>6, IconEffect DEF Typed
  <2>2. worker'[t] = j /\ \A u \in Thread : u # t => worker'[u] = worker[u]
    BY <2>1 DEF Typed, TypeOK
  <2>3. c.kind = "account" /\ c.ok
    BY <1>6 DEF FetchIcon
  <2>4. /\ \A u \in Thread : worker[u] = NoJob
        /\ \A i \in DOMAIN queue' : queue'[i].kind = "refresh"
    BY <1>1, <1>5, <2>3 DEF Own
  <2>5. target = None
    BY <1>1, <2>3 DEF Ordered, Picker
  <2>6. OneAtATime'
    BY <2>2, <2>4 DEF OneAtATime, Busy, Own
  <2>7. NewIds' /\ Targets' /\ Picker'
    BY <1>2, <1>3, <1>4, <2>1, <2>2, <2>4, <2>5 DEF Ordered, NewIds, Targets, Picker, Live, Exists
  <2>8. Panel'
    <3> SUFFICES ASSUME selected' # None
                 PROVE  /\ selected' \in Present /\ details' = Facts(accounts, totps, selected')
                        /\ \A u \in Thread : worker'[u].kind \notin {"trash", "remove"}
      BY <1>3 DEF Panel
    <3>1. selected' = selected /\ selected \in Present
      BY <1>2 DEF Ordered, Panel
    <3>2. details' = Facts(accounts, totps, selected)
      BY <1>2, <2>3, <3>1, DetailsAreFacts DEF PanelRefreshed, Typed, Ordered
    <3> QED BY <1>4, <2>1, <2>2, <2>4, <3>1, <3>2
  <2> QED BY <1>2, <2>6, <2>7, <2>8 DEF Ordered
<1>7. CASE UNCHANGED worker
  <2>1. OneAtATime'
    <3>1. ASSUME NEW i \in DOMAIN queue', NEW k \in DOMAIN queue', Own(i)', Own(k)' PROVE i = k
      <4>1. i \in Nat /\ k \in Nat
        BY DEF Typed, TypeOK
      <4>2. i + 1 = k + 1
        BY <1>1, <3>1 DEF Ordered, OneAtATime, Own
      <4> QED BY <4>1, <4>2
    <3>2. \A t \in Thread, i \in DOMAIN queue' : Busy(t)' => ~Own(i)'
      BY <1>1, <1>7 DEF Ordered, OneAtATime, Busy, Own
    <3>3. \A t, u \in Thread : Busy(t)' /\ Busy(u)' => t = u
      BY <1>7 DEF Ordered, OneAtATime, Busy
    <3> QED BY <3>1, <3>2, <3>3 DEF OneAtATime
  <2>2. NewIds' /\ Targets'
    BY <1>2, <1>3, <1>7 DEF Ordered, NewIds, Targets, Live, Exists
  <2>3. Picker'
    BY <1>1, <1>2, <1>7 DEF Ordered, Picker, Busy, Live
  <2>4. Panel'
    <3> SUFFICES ASSUME selected' # None
                 PROVE  /\ selected' \in Present /\ details' = Facts(accounts, totps, selected')
                        /\ \A u \in Thread : worker'[u].kind \notin {"trash", "remove"}
      BY <1>3 DEF Panel
    <3>1. selected' = selected /\ selected \in Present /\ selected # None
          /\ \A u \in Thread : worker'[u].kind \notin {"trash", "remove"}
      BY <1>2, <1>7 DEF Ordered, Panel
    <3>2. CASE c.ok
      BY <1>2, <3>1, <3>2, DetailsAreFacts DEF PanelRefreshed, Typed, Ordered
    <3>3. CASE ~c.ok
      <4>1. c.kind \in {"account", "import"}
        BY <1>1, <3>3 DEF Typed, Jobs, May
      <4>2. ~Underway(Changes)
        BY <1>1, <1>4, <1>5, <4>1 DEF Underway, Changes, Own
      <4>3. details = Facts(accounts, totps, selected)
        BY <3>1, <4>2 DEF Ordered, Panel, Changes
      <4> QED BY <1>2, <3>1, <3>3, <4>3 DEF PanelRefreshed
    <3> QED BY <3>1, <3>2, <3>3
  <2> QED BY <1>2, <2>1, <2>2, <2>3, <2>4 DEF Ordered
<1> QED BY <1>2, <1>6, <1>7

\* Every step of the program.
LEMMA MachineOrdered ==
  ASSUME Typed, Typed', Ordered, Machine
  PROVE  Ordered'
<1>1. ASSUME NEW t \in Thread, ThreadStep(t), ~PostList(t) PROVE Ordered'
  <2>1. Goes(t)
    BY <1>1, ThreadEffect DEF Typed
  <2> QED BY <1>1, <2>1, ListOrdered, DeleteOrdered, ChangeOrdered, SaveOrdered DEF ThreadStep
<1> QED BY <1>1, PostOrdered, RefreshOrdered, ClosureOrdered DEF Machine

-----------------------------------------------------------------------------
(* The theorems *)

\* A vault just opened: nothing is selected, under way or in the trash.
LEMMA InitIInv ==
  ASSUME Init
  PROVE  IInv
<1>1. totps \in Seq(Totp) /\ \A i \in DOMAIN totps :
        totps[i].deleted = FALSE /\ totps[i].id \in TotpId /\ totps[i].link \in Accounts("live") \cup {None}
  <2>1. CASE totps = <<>>
    BY <2>1
  <2>2. ASSUME NEW x \in [id : TotpId, deleted : {FALSE}, link : Accounts("live") \cup {None}], totps = <<x>>
        PROVE  totps \in Seq(Totp) /\ \A i \in DOMAIN totps : totps[i] = x
    <3>1. x \in Totp
      BY DEF Totp, Accounts
    <3> HIDE DEF Totp
    <3> QED BY <2>2, <3>1
  <2> QED BY <2>1, <2>2 DEF Init
<1>2. worker \in [Thread \cup {Refresher} -> Job] /\ \A t \in Thread \cup {Refresher} : worker[t] = NoJob
  BY NoJobType DEF Init
<1>3. DOMAIN queue = {} /\ queue \in Seq([kind : Kind, list : SUBSET Entry, ok : BOOLEAN])
  BY DEF Init
<1>4. NoDetails \in Detail
  BY DEF NoDetails, Detail
<1>5. accounts \in [AccountId -> {"none", "live", "trashed"}] /\ \A a \in AccountId : accounts[a] # "trashed"
  BY DEF Init
<1>6. TypeOK
  <2>1. born \subseteq Entry
    BY <1>1 DEF Init, Accounts, Totps, Entry
  <2>2. shown \subseteq Entry
    BY <1>1, ListedTypes DEF Init, List
  <2> QED BY <1>1, <1>2, <1>3, <1>4, <1>5, <2>1, <2>2 DEF Init, TypeOK, Filter
<1>7. Jobs
  BY <1>2, <1>3, NoJobType DEF Jobs, Fit, May
<1>8. Present \subseteq born
  BY <1>1, <1>5 DEF Init, Present, Accounts, Totps
<1>9. Ordered
  <2>1. OneAtATime
    BY <1>2, <1>3 DEF OneAtATime, Busy
  <2>2. NewIds
    BY <1>2, <1>8, NoJobType DEF NewIds, Live
  <2>3. Targets
    BY <1>1, <1>2, NoJobType DEF Targets, Live, Exists, Init, Accounts
  <2> QED BY <2>1, <2>2, <2>3 DEF Init, Ordered, Picker, Panel
<1> QED BY <1>6, <1>7, <1>9 DEF IInv, Typed

\* The invariant is inductive.
LEMMA StepIInv ==
  ASSUME IInv, [Next]_vars
  PROVE  IInv'
<1>1. Typed'
  BY TypedStep DEF IInv
<1>2. CASE UNCHANGED vars
  BY <1>1, <1>2, SameVault DEF IInv, vars, steps, Ordered, OneAtATime, NewIds, Targets, Picker, Panel,
     Busy, Own, Live, Exists, Underway
<1>3. CASE Next
  BY <1>1, <1>3, UserOrdered, MachineOrdered DEF IInv, Next
<1> QED BY <1>2, <1>3

\* Whatever the operations and their order, every thread carries what fits it; for a
\* patient user one of them is under way at a time, and what it is to change suits the
\* vault, the picker and the panel.
THEOREM SpecIInv == Spec => []IInv
<1>1. Init => IInv
  BY InitIInv
<1>2. IInv /\ [Next]_vars => IInv'
  BY StepIInv
<1> QED BY <1>1, <1>2, PTL DEF Spec

\* No authenticator is linked to an account that is gone: removing an account for good
\* takes those linked to it along (on_delete_entry).
THEOREM SpecLinkTargetsExist == Spec => []LinkTargetsExist
<1>1. IInv => LinkTargetsExist
  BY DEF IInv, Typed, Ordered, Targets, Exists, LinkTargetsExist
<1> QED BY <1>1, SpecIInv, PTL

\* The picker of authenticators offers authenticators, also after a refresh: the filter
\* its search has set is the one the refresher reads.
THEOREM SpecPickerShowsTotps == Spec => []PickerShowsTotps
<1>1. IInv => PickerShowsTotps
  <2> SUFFICES ASSUME Typed, Ordered, Quiet, target # None PROVE List \subseteq TotpId
    BY DEF IInv, PickerShowsTotps, Quiet
  <2>1. filter = "totp"
    BY NoJobType DEF Ordered, Picker, Quiet, Live
  <2>2. \A i \in DOMAIN totps : totps[i].id \in TotpId \cup {None}
    BY TotpTypes DEF Typed, Totp
  <2> QED BY <2>1, <2>2 DEF List, Listed
<1> QED BY <1>1, SpecIInv, PTL

\* When everything a patient user did has ended, the panel's entry is there and the panel
\* fits it: the closure of every change refreshes it (apply_vault_model).
THEOREM SpecPanelTruthful == Spec => []PanelTruthful
<1>1. IInv => PanelTruthful
  <2> SUFFICES ASSUME Typed, Ordered, Quiet, selected # None
               PROVE  selected \in Present /\ details = Details(selected)
    BY DEF IInv, PanelTruthful
  <2>1. ~Underway(Changes)
    BY NoJobType DEF Underway, Quiet, Changes
  <2>2. selected \in Present /\ details = Facts(accounts, totps, selected)
    BY <2>1 DEF Ordered, Panel, Changes
  <2> QED BY <2>2, DetailsAreFacts DEF Typed
<1> QED BY <1>1, SpecIInv, PTL

=============================================================================
