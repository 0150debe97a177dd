---------------------------- MODULE VaultEntries ----------------------------
(***************************************************************************)
(* The entries of an open vault: accounts and authenticators (TOTPs), the  *)
(* trash, the links between them, and the list the main screen shows.      *)
(*                                                                         *)
(* Each click spawns a thread.  It changes the vault in one critical       *)
(* section of the mutex of AppState, saves it (VaultSession has that       *)
(* part), makes a list of the entries for the filter of AppState, and      *)
(* posts a closure that shows the list.  The tab the user sees is a        *)
(* property of the main screen; the filter the threads read is a field of  *)
(* AppState that a search thread sets later.                               *)
(*                                                                         *)
(* Titles, secrets and the search text are left out: a smart link goes to  *)
(* any live account or to none, every entry matches the search.  The vault *)
(* stays open; the opening of a menu or of the confirmation dialog and the *)
(* click in it are one step, the rest of the window is blocked meanwhile.  *)
(***************************************************************************)
EXTENDS Naturals, Sequences, FiniteSets

CONSTANTS
  AccountId, TotpId,   \* ids, each drawn at random for one new entry
  Thread,              \* spawned threads alive at a time (a bound)
  Refresher,           \* the thread that refreshes the list once a second
  Ops,                 \* the operations a run exercises, a subset of AllOps
  Patience,            \* the users of a run: TRUE waits for each operation, FALSE for none
  MaxStarts,           \* threads a patient user starts in a behaviour (a bound)
  HastyStarts,         \* threads the other one starts (a bound)
  Faults,              \* whether a save may fail
  None

AllOps == {"tab", "select", "trash", "restore", "remove", "account", "totp",
           "smart", "link", "unlink", "import", "page"}
Entry == AccountId \cup TotpId
Filter == {"accounts", "totp", "trash"}

ASSUME EntriesAssumption ==
  /\ AccountId \cap TotpId = {}
  /\ None \notin Entry
  /\ Refresher \notin Thread
  /\ Ops \subseteq AllOps
  /\ Patience \subseteq BOOLEAN
  /\ MaxStarts \in Nat /\ HastyStarts \in Nat
  /\ Faults \in BOOLEAN

VARIABLES
  accounts,   \* the state of each account: "none", "live" or "trashed"
  totps,      \* the vault's authenticators, in its order; one removed leaves Gone behind
  born,       \* ids already drawn
  filter,     \* AppState.current_filter
  tab,        \* current-filter of the main screen
  page,       \* the settings or the generator page hides the main screen
  selected,   \* selected-entry-id of the window
  details,    \* what the detail panel has cached of the selected entry
  target,     \* the account the authenticator picker links to, when it is open
  shown,      \* the list of the window, as the set of its ids
  worker,     \* the threads
  queue,      \* closures posted to the event loop
  started,    \* threads started so far
  patient     \* the user of this behaviour

vaultVars == <<accounts, totps, born>>
uiVars == <<tab, page, selected, details, target, shown>>
steps == <<accounts, totps, born, filter, tab, page, selected, details, target,
           shown, worker, queue, started>>
vars == <<steps, patient>>

Totp == [id : TotpId \cup {None}, deleted : BOOLEAN, link : AccountId \cup {None}]
Gone == [id |-> None, deleted |-> FALSE, link |-> None]
Detail == [deleted : BOOLEAN, has_totp : BOOLEAN, account : BOOLEAN]
Kind == {"none", "search", "trash", "restore", "remove", "account", "totp", "link",
         "unlink", "import", "icon", "refresh"}
Job == [kind : Kind, pc : {"idle", "begin", "list", "post"}, id : Entry \cup {None},
        to : AccountId \cup {None}, filter : Filter, list : SUBSET Entry, ok : BOOLEAN]

NoJob == [kind |-> "none", pc |-> "idle", id |-> None, to |-> None,
          filter |-> "accounts", list |-> {}, ok |-> TRUE]
NewJob(kind) == [NoJob EXCEPT !.kind = kind, !.pc = "begin"]
NoDetails == [deleted |-> FALSE, has_totp |-> FALSE, account |-> TRUE]

Live(t, kinds, pc) == worker[t].kind \in kinds /\ worker[t].pc = pc

Accounts(state) == {a \in AccountId : accounts[a] = state}
Totps(deleted) ==
  {totps[i].id : i \in {j \in DOMAIN totps : totps[j].deleted = deleted}} \ {None}

\* generate_vault_entries
Listed(acc, ts, f) ==
  LET of(state)   == {a \in AccountId : acc[a] = state}
      totp(gone)  == {ts[i].id : i \in {j \in DOMAIN ts : ts[j].deleted = gone}} \ {None}
  IN CASE f = "accounts" -> of("live")
       [] f = "totp"     -> totp(FALSE)
       [] OTHER          -> of("trashed") \cup totp(TRUE)
List == Listed(accounts, totps, filter)

\* get_entry_details: a trashed authenticator counts as one. An entry that is
\* not there leaves the panel as it was.
Details(e) ==
  IF e \in AccountId
  THEN IF accounts[e] = "none" THEN details
       ELSE [deleted |-> accounts[e] = "trashed", account |-> TRUE,
             has_totp |-> \E i \in DOMAIN totps : totps[i].link = e]
  ELSE IF \E i \in DOMAIN totps : totps[i].id = e
       THEN [deleted |-> e \in Totps(TRUE), account |-> FALSE, has_totp |-> TRUE]
       ELSE details

-----------------------------------------------------------------------------
(* The user, on the main screen *)

SpawnThread(op, job) ==
  /\ op \in Ops
  /\ started < IF patient THEN MaxStarts ELSE HastyStarts
  /\ \E t \in Thread : worker[t] = NoJob /\ worker' = [worker EXCEPT ![t] = job]
  /\ started' = started + 1
  /\ UNCHANGED <<accounts, totps, filter, queue>>
Spawn(op, job) == SpawnThread(op, job) /\ UNCHANGED born

\* The thread draws the id of its new entry before it does anything else.
SpawnNew(op, job, e) ==
  /\ e \notin born /\ born' = born \cup {e}
  /\ SpawnThread(op, [job EXCEPT !.id = e])

OnMain == ~page /\ target = None
OnPanel == OnMain /\ tab # "totp" /\ selected # None

ClickTab(f) ==
  /\ OnMain
  /\ tab' = f /\ selected' = None
  /\ Spawn("tab", [NewJob("search") EXCEPT !.filter = f])
  /\ UNCHANGED <<page, details, target, shown>>

SelectEntry(e) ==
  /\ "select" \in Ops
  /\ OnMain /\ tab # "totp"
  /\ e \in shown \ {selected}
  /\ selected' = e /\ details' = Details(e)
  /\ UNCHANGED <<vaultVars, filter, tab, page, target, shown, worker, queue, started>>

\* Move to Trash: in the context menu outside the Trash tab, in the panel of an
\* entry that is not deleted.
MoveToTrash(e) ==
  /\ \/ OnMain /\ tab # "trash" /\ e \in shown
     \/ OnPanel /\ ~details.deleted /\ e = selected
  /\ selected' = None
  /\ Spawn("trash", [NewJob("trash") EXCEPT !.id = e])
  /\ UNCHANGED <<tab, page, details, target, shown>>

\* Delete Permanently, confirmed in the dialog.
DeletePermanently(e) ==
  /\ \/ OnMain /\ tab = "trash" /\ e \in shown
     \/ OnPanel /\ details.deleted /\ e = selected
  /\ selected' = None
  /\ Spawn("remove", [NewJob("remove") EXCEPT !.id = e])
  /\ UNCHANGED <<tab, page, details, target, shown>>

Restore(e) ==
  /\ \/ OnMain /\ tab = "trash" /\ e \in shown /\ UNCHANGED selected
     \/ OnPanel /\ details.deleted /\ e = selected /\ selected' = None
  /\ Spawn("restore", [NewJob("restore") EXCEPT !.id = e])
  /\ UNCHANGED <<tab, page, details, target, shown>>

AddAccount(a) ==
  /\ OnMain /\ tab = "accounts"
  /\ SpawnNew("account", NewJob("account"), a)
  /\ UNCHANGED uiVars

\* With the account of the panel, or from the Authenticators tab without one.
AddTotp(b) ==
  /\ \/ /\ OnPanel /\ details.account /\ ~details.has_totp /\ ~details.deleted
        /\ selected \in AccountId
        /\ SpawnNew("totp", [NewJob("totp") EXCEPT !.to = selected], b)
     \/ /\ OnMain /\ tab = "totp"
        /\ SpawnNew("totp", NewJob("totp"), b)
  /\ UNCHANGED uiVars

\* The picker shows the list of the window, and asks for the authenticators.
OpenPicker ==
  /\ "link" \in Ops
  /\ OnPanel /\ details.account /\ ~details.has_totp /\ ~details.deleted
  /\ selected \in AccountId
  /\ target' = selected
  /\ Spawn("link", [NewJob("search") EXCEPT !.filter = "totp"])
  /\ UNCHANGED <<tab, page, selected, details, shown>>

PickTotp(e) ==
  /\ target # None /\ e \in shown
  /\ target' = None
  /\ Spawn("link", [NewJob("link") EXCEPT !.id = e, !.to = target])
  /\ UNCHANGED <<tab, page, selected, details, shown>>

ClosePicker ==
  /\ target # None
  /\ target' = None
  /\ UNCHANGED <<vaultVars, filter, tab, page, selected, details, shown, worker,
                 queue, started>>

Unlink ==
  /\ OnPanel /\ details.has_totp /\ ~details.deleted
  /\ Spawn("unlink", [NewJob("unlink") EXCEPT !.id = selected])
  /\ UNCHANGED uiVars

\* The main screen is made anew when the user comes back to it: its tab, its
\* cached details and its picker; the selection and the filter stay.
ComeBack == page' = FALSE /\ tab' = "accounts" /\ details' = NoDetails /\ target' = None

LeavePage ==
  /\ page /\ ComeBack
  /\ UNCHANGED <<vaultVars, filter, selected, shown, worker, queue, started>>

OpenPage ==
  /\ "page" \in Ops
  /\ OnMain /\ page' = TRUE
  /\ UNCHANGED <<vaultVars, filter, tab, selected, details, target, shown, worker,
                 queue, started>>

\* Import (settings page): entries that are not duplicates, none is linked.
Import(e) ==
  /\ page
  /\ SpawnNew("import", NewJob("import"), e)
  /\ UNCHANGED uiVars

-----------------------------------------------------------------------------
(* The threads: the critical section that changes the vault *)

Linked(a) == {i \in DOMAIN totps : totps[i].link = a}
First(s) == {i \in s : \A j \in s : i <= j}

SetTotps(is, f, v) ==
  totps' = [i \in DOMAIN totps |->
              IF i \notin is THEN totps[i]
              ELSE IF f = "deleted" THEN [totps[i] EXCEPT !.deleted = v]
                                    ELSE [totps[i] EXCEPT !.link = v]]

\* The thread goes on to save and to make its list, or has its list already.
Mutated(t) == worker' = [worker EXCEPT ![t].pc = "list"]
MutatedAndListed(t) ==
  worker' = [worker EXCEPT ![t].pc = "post", ![t].list = Listed(accounts', totps', filter')]

Idle == UNCHANGED <<uiVars, queue, started>>

\* Filter and list in one critical section. (mutant: the filter is only passed on)
KeepFilter(f) == UNCHANGED filter
SetFilter(f) == filter' = f

Search(t) ==
  /\ Live(t, {"search"}, "begin")
  /\ SetFilter(worker[t].filter)
  /\ UNCHANGED vaultVars
  /\ MutatedAndListed(t)
  /\ Idle

\* on_delete_entry, whatever button it was: an account takes its first
\* authenticator along into the trash; under the filter "trash" the entry and
\* every authenticator linked to it are removed; those behind keep their order.
\* (mutant: the linked authenticators are forgotten)
KeptOnly(ts, e) == [i \in DOMAIN ts |-> IF ts[i].id = e THEN Gone ELSE ts[i]]
Kept(ts, e) == [i \in DOMAIN ts |-> IF e \in {ts[i].id, ts[i].link} THEN Gone ELSE ts[i]]

Delete(t) ==
  LET e == worker[t].id
      cascade == IF e \in Accounts("live") THEN First(Linked(e)) ELSE {}
      doomed == cascade \cup {i \in DOMAIN totps : totps[i].id = e}
      trashed == [i \in DOMAIN totps |->
                    IF i \in doomed THEN [totps[i] EXCEPT !.deleted = TRUE] ELSE totps[i]]
  IN
  /\ Live(t, {"trash", "remove"}, "begin")
  /\ IF filter = "trash"
     THEN /\ accounts' = [a \in AccountId |-> IF a = e THEN "none" ELSE accounts[a]]
          /\ totps' = Kept(trashed, e)
     ELSE /\ accounts' = [a \in AccountId |->
                            IF a = e /\ accounts[a] = "live" THEN "trashed" ELSE accounts[a]]
          /\ totps' = trashed
  /\ Mutated(t)
  /\ UNCHANGED <<born, filter>> /\ Idle

RestoreEntry(t) ==
  LET e == worker[t].id IN
  /\ Live(t, {"restore"}, "begin")
  /\ accounts' = [a \in AccountId |->
                    IF a = e /\ accounts[a] = "trashed" THEN "live" ELSE accounts[a]]
  /\ SetTotps({i \in DOMAIN totps : totps[i].id = e}, "deleted", FALSE)
  /\ Mutated(t)
  /\ UNCHANGED <<born, filter>> /\ Idle

NewTotp(b, a) == totps' = Append(totps, [id |-> b, deleted |-> FALSE, link |-> a])

\* A new account, or an imported account or authenticator.
SaveEntry(t) ==
  LET e == worker[t].id IN
  /\ Live(t, {"account", "import"}, "begin")
  /\ IF e \in AccountId
     THEN accounts' = [accounts EXCEPT ![e] = "live"] /\ UNCHANGED totps
     ELSE NewTotp(e, None) /\ UNCHANGED accounts
  /\ Mutated(t)
  /\ UNCHANGED <<born, filter>> /\ Idle

\* on_save_totp: linked as asked, or to a live account of the same name.
SaveTotp(t) ==
  LET w == worker[t] IN
  /\ Live(t, {"totp"}, "begin")
  /\ \/ w.to # None /\ NewTotp(w.id, w.to)
     \/ w.to = None /\ NewTotp(w.id, None)
     \/ /\ w.to = None /\ "smart" \in Ops
        /\ \E a \in Accounts("live") : NewTotp(w.id, a)
  /\ UNCHANGED <<accounts, born, filter>>
  /\ MutatedAndListed(t)
  /\ Idle

LinkTotp(t) ==
  /\ Live(t, {"link"}, "begin")
  /\ SetTotps({i \in DOMAIN totps : totps[i].id = worker[t].id}, "link", worker[t].to)
  /\ UNCHANGED <<accounts, born, filter>>
  /\ MutatedAndListed(t)
  /\ Idle

UnlinkTotp(t) ==
  /\ Live(t, {"unlink"}, "begin")
  /\ SetTotps(First(Linked(worker[t].id)), "link", None)
  /\ UNCHANGED <<accounts, born, filter>>
  /\ MutatedAndListed(t)
  /\ Idle

\* After the save, in a critical section of its own: the list. Saving an account
\* and importing report a failed save instead.
\* (mutant: the filter the vault was opened with)
FilterAtStart == "accounts"
FilterNow == filter
ListNow == Listed(accounts, totps, FilterNow)

MakeList(t) ==
  /\ worker[t].pc = "list"
  /\ \/ worker' = [worker EXCEPT ![t].pc = "post", ![t].list = ListNow]
     \/ /\ Faults /\ worker[t].kind \in {"account", "import"}
        /\ worker' = [worker EXCEPT ![t].pc = "post", ![t].ok = FALSE]
  /\ UNCHANGED <<vaultVars, filter>> /\ Idle

PostList(t) ==
  /\ worker[t].pc = "post"
  /\ worker' = [worker EXCEPT ![t] = NoJob]
  /\ queue' = Append(queue, [kind |-> worker[t].kind, list |-> worker[t].list, ok |-> worker[t].ok])
  /\ UNCHANGED <<vaultVars, filter, uiVars, started>>

\* Once a second; the next time comes after its last closure ran (a bound).
Refresh ==
  /\ worker[Refresher] = NoJob
  /\ \A i \in DOMAIN queue : queue[i].kind # "refresh"
  /\ worker' = [worker EXCEPT ![Refresher] = [NewJob("refresh") EXCEPT !.pc = "post", !.list = ListNow]]
  /\ UNCHANGED <<vaultVars, filter>> /\ Idle

\* apply_vault_model: the new list refreshes the panel of the selected entry.
\* (mutant: the panel keeps what it read when the entry was selected)
PanelKept(ok) == UNCHANGED details
PanelRefreshed(ok) ==
  details' = (IF ok /\ ~page /\ selected' # None THEN Details(selected) ELSE details)

\* The closure of a saved account with a URL spawns the fetch of its icon, which
\* adds a list whenever it is answered.
FetchIcon(c) ==
  /\ c.kind = "account" /\ c.ok
  /\ \E t \in Thread : /\ worker[t] = NoJob
                       /\ worker' = [worker EXCEPT ![t] = [NewJob("icon") EXCEPT !.pc = "list"]]

RunClosure ==
  /\ queue # <<>>
  /\ queue' = Tail(queue)
  /\ LET c == Head(queue) IN
     /\ shown' = (IF c.ok THEN c.list ELSE shown)
     /\ selected' = (IF c.kind \in {"trash", "remove"} THEN None ELSE selected)
     /\ IF c.kind = "totp" /\ page
        THEN ComeBack
        ELSE /\ PanelRefreshed(c.ok)
             /\ UNCHANGED <<page, tab, target>>
     /\ FetchIcon(c) \/ UNCHANGED worker
  /\ UNCHANGED <<vaultVars, filter, started>>

-----------------------------------------------------------------------------
UserStep ==
  \/ \E f \in Filter : ClickTab(f)
  \/ \E e \in Entry : \/ SelectEntry(e) \/ MoveToTrash(e) \/ DeletePermanently(e)
                      \/ Restore(e) \/ PickTotp(e) \/ Import(e)
  \/ \E a \in AccountId : AddAccount(a)
  \/ \E b \in TotpId : AddTotp(b)
  \/ OpenPicker \/ ClosePicker \/ Unlink
  \/ OpenPage \/ LeavePage

ThreadStep(t) ==
  \/ Search(t) \/ Delete(t) \/ RestoreEntry(t) \/ SaveEntry(t) \/ SaveTotp(t)
  \/ LinkTotp(t) \/ UnlinkTotp(t) \/ MakeList(t) \/ PostList(t)

Machine == (\E t \in Thread : ThreadStep(t)) \/ Refresh \/ PostList(Refresher) \/ RunClosure

\* A patient user stays on the main screen and waits for each operation to end, and
\* for the refresh that follows it: a list made before may be shown after its list.
Quiet == /\ \A t \in Thread \cup {Refresher} : worker[t] = NoJob
         /\ queue = <<>>
         /\ shown = List
Next == /\ \/ UserStep /\ (patient => Quiet /\ ~page')
           \/ Machine
        /\ UNCHANGED patient

\* A vault just opened, whose entries are not in the trash.
Init ==
  /\ accounts \in [AccountId -> {"none", "live"}]
  /\ totps \in {<<>>} \cup
       {<<x>> : x \in [id : TotpId, deleted : {FALSE}, link : Accounts("live") \cup {None}]}
  /\ born = Accounts("live") \cup Totps(FALSE)
  /\ filter = "accounts" /\ tab = "accounts" /\ page = FALSE
  /\ selected = None /\ details = NoDetails /\ target = None
  /\ shown = List
  /\ worker = [t \in Thread \cup {Refresher} |-> NoJob]
  /\ queue = <<>>
  /\ started = 0
  /\ patient \in Patience

Spec == Init /\ [][Next]_vars

-----------------------------------------------------------------------------
(* Whatever the user does while threads are running *)

TypeOK ==
  /\ accounts \in [AccountId -> {"none", "live", "trashed"}]
  /\ totps \in Seq(Totp)
  /\ born \subseteq Entry
  /\ filter \in Filter /\ tab \in Filter /\ page \in BOOLEAN
  /\ selected \in Entry \cup {None}
  /\ details \in Detail
  /\ target \in AccountId \cup {None}
  /\ shown \subseteq Entry
  /\ worker \in [Thread \cup {Refresher} -> Job]
  /\ queue \in Seq([kind : Kind, list : SUBSET Entry, ok : BOOLEAN])
  /\ started \in Nat

\* A thread that was spawned runs on, the refresher wakes up once a second, and
\* the event loop keeps draining its queue.
Fairness == /\ \A t \in Thread : WF_steps(ThreadStep(t))
            /\ WF_steps(Refresh)
            /\ WF_steps(PostList(Refresher))
            /\ WF_steps(RunClosure)
FairSpec == Spec /\ Fairness

\* The lists of several threads arrive in any order, and an older one may be shown
\* over a newer one; once no thread is left that changes the vault or the filter,
\* the window comes to show what the vault holds, for good.
ThreadsDone == \A t \in Thread : worker[t] = NoJob
ListSettles == (<>[]ThreadsDone) => (<>[](shown = List))

-----------------------------------------------------------------------------
(* What a patient user can rely on                                            *)

Present == Accounts("live") \cup Accounts("trashed") \cup Totps(TRUE) \cup Totps(FALSE)

\* Every field has its type, and no authenticator is linked to an account that is
\* gone: removing an account for good takes them along, and a removed one can no more
\* be picked.
LinkTargetsExist ==
  /\ TypeOK
  /\ patient => \A i \in DOMAIN totps : totps[i].link # None => accounts[totps[i].link] # "none"

\* "We called perform-search("", "totp") when opening, so it should be fine": the
\* picker offers authenticators only, also after a refresh.
PickerShowsTotps == patient /\ Quiet /\ target # None => shown \subseteq TotpId

\* The panel offers what fits the entry: its entry is there, and is in the trash
\* exactly when the panel offers to restore it or to delete it permanently.
PanelTruthful ==
  patient /\ Quiet /\ ~page /\ selected # None => selected \in Present /\ details = Details(selected)

\* "Deleted entries go to trash before permanent removal": "Move to Trash" removes
\* nothing for good. Both buttons call on_delete_entry, and it looks at the filter of
\* AppState, not at the button.
MoveOnlyTrashes ==
  [][(\E t \in Thread : Live(t, {"trash"}, "begin") /\ worker'[t] # worker[t])
       => Present \subseteq Present']_vars
=============================================================================
