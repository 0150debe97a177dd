----------------------------- MODULE EntryForms -----------------------------
(***************************************************************************)
(* The two dialogs of the main screen, which add and edit accounts and     *)
(* authenticators: what fills them, what saves them, and the threads that  *)
(* come back to them.  The window has one dialog of each kind, one set of  *)
(* properties for the last code that was scanned, and one property for the *)
(* account a new authenticator is meant for; prompts, scans and saves run  *)
(* in threads and post closures that find these as they are by then.       *)
(*                                                                         *)
(* The vault stays open, saves reach the file (VaultSession has that), and *)
(* the list catches up (VaultEntries).  Web address and notes of an        *)
(* account go the way of its title.  What the changed-handlers of the      *)
(* window do belongs to the closure that changed the property.             *)
(***************************************************************************)
EXTENDS Naturals, Sequences, FiniteSets

CONSTANTS
  AccountId, TotpId,  \* ids, each drawn for one entry
  OldAccount,         \* the accounts the vault begins with, as [id -> record]
  OldTotp,            \* the authenticators it begins with
  Code,               \* what scans may find, as otpauth URIs (see Uri)
  Typed,              \* texts the user types
  Patience,           \* the users of a run: TRUE waits for threads and closures, FALSE not
  MaxStarts,          \* threads a patient user starts in a behaviour (a bound)
  HastyStarts,        \* threads the other one starts (a bound)
  Blank, Nul,         \* the empty text, and the text of one zero byte
  Clean,              \* a text without its spaces and dashes, in upper case
  None

\* A URI has a label, "issuer:account" or an account, and a query with a secret
\* and an issuer; any other text is a secret by itself (raw).
Uri == {"raw", "label", "account", "issuer", "secret"}

Raw == Typed \cup {Blank, Nul} \cup (UNION {{c.label, c.account, c.issuer, c.secret} : c \in Code})
        \cup (UNION {{OldAccount[a][f] : f \in {"title", "user", "password"}} : a \in DOMAIN OldAccount})
        \cup (UNION {{OldTotp[t][f] : f \in {"name", "issuer", "secret"}} : t \in DOMAIN OldTotp})
Text == Raw \cup {Clean[r] : r \in Raw}

\* SecureBuffer::from_slice has a zero byte for what is empty.
Buffer(text) == IF text = Blank THEN Nul ELSE text

\* What the dialogs let through: a secret that is not empty, which it may be when it is
\* clean. The vault may begin with other entries: an import asks for no title, name or
\* secret.
SavedAccount == [title : Text \ {Blank}, user : Text, password : Text]
SavedTotp == [name : Text \ {Blank}, issuer : Text,
              secret : {Buffer(Clean[s]) : s \in Text \ {Blank}},
              link : AccountId \cup {None}]
Account == SavedAccount \cup {OldAccount[a] : a \in DOMAIN OldAccount}
Totp == SavedTotp \cup {OldTotp[t] : t \in DOMAIN OldTotp}

ASSUME EntryFormsAssumption ==
  /\ DOMAIN OldAccount \subseteq AccountId /\ DOMAIN OldTotp \subseteq TotpId
  /\ AccountId \cap TotpId = {} /\ None \notin AccountId \cup TotpId \cup Text
  /\ Blank # Nul /\ Clean[Blank] = Blank
  /\ \A s \in Text : s \in DOMAIN Clean /\ Clean[s] \in Text
  /\ \A c \in Code : DOMAIN c = Uri /\ c.raw \in BOOLEAN
  /\ \A a \in DOMAIN OldAccount : OldAccount[a] \in [title : Text, user : Text, password : Text]
  /\ \A t \in DOMAIN OldTotp :
       OldTotp[t] \in [name : Text, issuer : Text, secret : Text, link : AccountId \cup {None}]
  /\ Patience \subseteq BOOLEAN /\ MaxStarts \in Nat /\ HastyStarts \in Nat

VARIABLES
  accounts,  \* vault.accounts, None where there is none
  totps,     \* vault.totps
  main,      \* the main screen is shown
  aform,     \* the account dialog; asked: whose values it was filled with
  tform,     \* the authenticator dialog; asked, for: what the user opened it for
  link,      \* link-target-account-id
  scanned,   \* qr-scanned-account, -issuer and -secret
  jobs,      \* the threads
  queue,     \* closures posted to the event loop
  starts,    \* threads started so far
  patient    \* the user of this behaviour
vars == <<accounts, totps, main, aform, tform, link, scanned, jobs, queue, starts, patient>>

NoCode == [name |-> Blank, issuer |-> Blank, secret |-> Blank]
ClosedA == [open |-> FALSE, id |-> None, title |-> Blank, user |-> Blank, password |-> Blank,
            touched |-> {}, asked |-> None]
ClosedT == [open |-> FALSE, id |-> None, name |-> Blank, issuer |-> Blank, secret |-> Blank,
            touched |-> {}, asked |-> None, for |-> None, scans |-> 0]

\* parse_otpauth_uri, or what its caller posts when nothing is left of the secret: the
\* issuer of the query goes before that of the label.
parse_otpauth_uri(c) ==
  IF Clean[c.secret] = Blank THEN NoCode
  ELSE IF c.raw THEN [NoCode EXCEPT !.secret = Clean[c.secret]]
  ELSE [name |-> c.account, secret |-> Clean[c.secret],
        issuer |-> IF c.issuer = Blank THEN c.label ELSE c.issuer]

\* A thread; the same record is the closure it posts. form is what the dialog held.
Job == [kind |-> "none", id |-> None, form |-> ClosedA, link |-> None, code |-> NoCode]

-----------------------------------------------------------------------------
(* The user *)

Quiet == jobs = {} /\ queue = << >>
Click == /\ main /\ ~aform.open /\ ~tform.open
         /\ patient => Quiet

Spawn(job) == /\ starts < (IF patient THEN MaxStarts ELSE HastyStarts)
              /\ starts' = starts + 1
              /\ jobs' = jobs \cup {<<starts, job>>}
              /\ UNCHANGED <<accounts, totps, main, queue>>
Still == UNCHANGED <<accounts, totps, main, jobs, queue, starts>>

\* open-add-modal of the Accounts tab. (mutant: edit-id is not reset)
OpenAddAccountOver == /\ Click
                      /\ aform' = [ClosedA EXCEPT !.open = TRUE, !.id = aform.id]
                      /\ Still /\ UNCHANGED <<tform, link, scanned>>
OpenAddAccount == /\ Click
                  /\ aform' = [ClosedA EXCEPT !.open = TRUE]
                  /\ Still /\ UNCHANGED <<tform, link, scanned>>

\* open-add-modal of the Authenticators tab. It leaves link-target-account-id.
\* (mutant: what was scanned before stays)
OpenAddTotpScanned == /\ Click
                      /\ tform' = [ClosedT EXCEPT !.open = TRUE]
                      /\ Still /\ UNCHANGED <<aform, link, scanned>>
OpenAddTotp == /\ Click
               /\ tform' = [ClosedT EXCEPT !.open = TRUE]
               /\ scanned' = NoCode
               /\ Still /\ UNCHANGED <<aform, link>>

\* open-add-totp-modal of the panel, for an account that has none.
OpenAddTotpFor(a) ==
  /\ Click /\ accounts[a] # None
  /\ ~ \E t \in TotpId : totps[t] # None /\ totps[t].link = a
  /\ tform' = [ClosedT EXCEPT !.open = TRUE, !.name = accounts[a].user,
                              !.issuer = accounts[a].title, !.for = a]
  /\ link' = a /\ scanned' = NoCode
  /\ Still /\ UNCHANGED aform

\* on_request_edit_entry and on_request_edit_totp.
RequestEdit(e) ==
  /\ Click
  /\ IF e \in AccountId THEN accounts[e] # None ELSE totps[e] # None
  /\ Spawn([Job EXCEPT !.kind = "edit", !.id = e])
  /\ UNCHANGED <<aform, tform, link, scanned>>

\* Delete Permanently, of an account in the trash.
Remove(a) == /\ Click /\ accounts[a] # None
             /\ Spawn([Job EXCEPT !.kind = "remove", !.id = a])
             /\ UNCHANGED <<aform, tform, link, scanned>>

\* Another page takes the main screen away, with the properties it declares.
TurnPage == /\ Click
            /\ main' = FALSE /\ aform' = ClosedA /\ link' = None
            /\ UNCHANGED <<accounts, totps, tform, scanned, jobs, queue, starts>>
Return == /\ ~main /\ main' = TRUE
          /\ UNCHANGED <<accounts, totps, aform, tform, link, scanned, jobs, queue, starts>>

TypeAccount(f, text) ==
  /\ aform.open
  /\ aform' = [aform EXCEPT ![f] = text, !.touched = @ \cup {f}]
  /\ Still /\ UNCHANGED <<tform, link, scanned>>
TypeTotp(f, text) ==
  /\ tform.open
  /\ tform' = [tform EXCEPT ![f] = text, !.touched = @ \cup {f}]
  /\ Still /\ UNCHANGED <<aform, link, scanned>>

SaveAccount == /\ aform.open /\ aform.title # Blank
               /\ Spawn([Job EXCEPT !.kind = "account", !.id = aform.id, !.form = aform])
               /\ aform' = [aform EXCEPT !.open = FALSE]
               /\ UNCHANGED <<tform, link, scanned>>
CancelAccount == /\ aform.open
                 /\ aform' = [aform EXCEPT !.open = FALSE]
                 /\ Still /\ UNCHANGED <<tform, link, scanned>>

\* The Save button is enabled. (mutant: always)
SavableAlways == TRUE
Savable == tform.name # Blank /\ tform.secret # Blank

\* "Reset target after save" (mutant: it is not reset)
LinkKept == link
LinkAfter == None
SaveTotp == /\ tform.open /\ Savable
            /\ Spawn([Job EXCEPT !.kind = "totp", !.id = tform.id, !.form = tform, !.link = link])
            /\ tform' = [tform EXCEPT !.open = FALSE]
            /\ link' = LinkAfter
            /\ UNCHANGED <<aform, scanned>>
CancelTotp == /\ tform.open
              /\ tform' = [tform EXCEPT !.open = FALSE]
              /\ link' = None
              /\ Still /\ UNCHANGED <<aform, scanned>>

\* scan-screen, scan-clipboard and scan-file.
Scan == /\ tform.open /\ (patient => Quiet)
        /\ Spawn([Job EXCEPT !.kind = "scan"])
        /\ UNCHANGED <<aform, tform, link, scanned>>

-----------------------------------------------------------------------------
(* The threads *)

\* on_save_entry. An empty password keeps the one there is.
AccountOf(old, form) ==
  [title |-> form.title, user |-> form.user,
   password |-> IF old # None /\ form.password = Blank THEN old.password
               ELSE Buffer(form.password)]

SavedAccounts(job) ==
  IF job.id # None
  THEN {IF accounts[job.id] = None THEN accounts
        ELSE [accounts EXCEPT ![job.id] = AccountOf(@, job.form)]}
  ELSE {[accounts EXCEPT ![a] = AccountOf(None, job.form)] : a \in {b \in AccountId : accounts[b] = None}}

\* on_save_totp. A new one without a target is linked to an account of its names.
SmartLinks(form) == {a \in AccountId : accounts[a] # None /\ accounts[a].title = form.issuer
                                       /\ accounts[a].user = form.name}
TotpOf(form, to) == [name |-> form.name, issuer |-> form.issuer,
                     secret |-> Buffer(Clean[form.secret]), link |-> to]
Links(job) == IF job.link # None THEN {job.link}
              ELSE IF SmartLinks(job.form) = {} THEN {None} ELSE SmartLinks(job.form)

SavedTotps(job) ==
  IF job.id # None
  THEN {IF totps[job.id] = None THEN totps
        ELSE [totps EXCEPT ![job.id] = TotpOf(job.form, IF job.link # None THEN job.link ELSE @.link)]}
  ELSE {[totps EXCEPT ![t] = TotpOf(job.form, to)] :
          t \in {u \in TotpId : totps[u] = None}, to \in Links(job)}

Post(closures) == queue' = queue \o closures

Run(j) ==
  LET job == j[2] IN
  /\ jobs' = jobs \ {j}
  /\ \/ /\ job.kind = "edit"                  \* authenticate_user says yes or no
        /\ Post(<<job>>) \/ UNCHANGED queue
        /\ UNCHANGED <<accounts, totps>>
     \/ /\ job.kind = "scan"
        /\ \E c \in {parse_otpauth_uri(uri) : uri \in Code} \cup {NoCode} :
             Post(<<[job EXCEPT !.code = c]>>)
        /\ UNCHANGED <<accounts, totps>>
     \/ /\ job.kind = "account"
        /\ accounts' \in SavedAccounts(job)
        /\ UNCHANGED <<totps, queue>>
     \/ /\ job.kind = "totp"
        /\ totps' \in SavedTotps(job)
        /\ Post(<<job>>) /\ UNCHANGED accounts
     \/ /\ job.kind = "remove"
        /\ accounts' = [accounts EXCEPT ![job.id] = None]
        /\ totps' = [t \in TotpId |-> IF totps[t] # None /\ totps[t].link = job.id THEN None ELSE totps[t]]
        /\ UNCHANGED queue
  /\ UNCHANGED <<main, aform, tform, link, scanned, starts>>

-----------------------------------------------------------------------------
(* The event loop *)

\* changed auth-edit-tick: edit-id is set before the entry is looked up.
FillAccount(a) ==
  /\ aform' = IF ~main THEN aform
              ELSE IF accounts[a] = None THEN [aform EXCEPT !.id = a]
              ELSE [open |-> TRUE, id |-> a, title |-> accounts[a].title, user |-> accounts[a].user,
                    password |-> Blank, touched |-> {}, asked |-> a]
  /\ UNCHANGED <<main, tform, link, scanned>>

\* changed auth-totp-tick, through totp_to_data: the issuer is the title and goes
\* into totp-name, the account name is the username and goes into totp-issuer.
FillTotp(t) ==
  /\ IF main /\ totps[t] # None
     THEN /\ tform' = [ClosedT EXCEPT !.open = TRUE, !.id = t, !.asked = t,
                         !.name = totps[t].issuer, !.issuer = totps[t].name]
          /\ scanned' = NoCode
     ELSE UNCHANGED <<tform, scanned>>
  /\ UNCHANGED <<main, aform, link>>

\* changed scanned-secret, in a dialog that is open: fields the code has none for stay.
Filled(code) == [tform EXCEPT
  !.secret = code.secret, !.scans = 1, !.touched = {"name", "issuer", "secret"},
  !.name = IF code.name = Blank THEN @ ELSE code.name,
  !.issuer = IF code.issuer = Blank THEN @ ELSE code.issuer]

FillScan(code) ==
  /\ scanned' = code
  /\ tform' = IF tform.open /\ code.secret \notin {scanned.secret, Blank} THEN Filled(code) ELSE tform
  /\ UNCHANGED <<main, aform, link>>

\* The closure of on_save_totp closes whatever authenticator dialog is open.
AfterSave == /\ main' = TRUE
             /\ tform' = [tform EXCEPT !.open = FALSE]
             /\ UNCHANGED <<aform, link, scanned>>

RunClosure ==
  /\ queue # << >> /\ queue' = Tail(queue)
  /\ LET job == Head(queue) IN
     CASE job.kind = "scan" -> FillScan(job.code)
       [] job.kind = "totp" -> AfterSave
       [] job.id \in AccountId -> FillAccount(job.id)
       [] OTHER -> FillTotp(job.id)
  /\ UNCHANGED <<accounts, totps, jobs, starts>>

-----------------------------------------------------------------------------
Init ==
  /\ accounts = [a \in AccountId |-> IF a \in DOMAIN OldAccount THEN OldAccount[a] ELSE None]
  /\ totps = [t \in TotpId |-> IF t \in DOMAIN OldTotp THEN OldTotp[t] ELSE None]
  /\ main = TRUE /\ aform = ClosedA /\ tform = ClosedT /\ link = None /\ scanned = NoCode
  /\ jobs = {} /\ queue = << >> /\ starts = 0
  /\ patient \in Patience

Step ==
  \/ OpenAddAccount \/ OpenAddTotp \/ \E a \in AccountId : OpenAddTotpFor(a) \/ Remove(a)
  \/ \E e \in AccountId \cup TotpId : RequestEdit(e)
  \/ TurnPage \/ Return
  \/ \E f \in {"title", "user", "password"}, text \in Typed : TypeAccount(f, text)
  \/ \E f \in {"name", "issuer", "secret"}, text \in Typed : TypeTotp(f, text)
  \/ SaveAccount \/ CancelAccount \/ SaveTotp \/ CancelTotp \/ Scan
  \/ \E j \in jobs : Run(j)
  \/ RunClosure
Next == Step /\ UNCHANGED patient

Spec == Init /\ [][Next]_vars

-----------------------------------------------------------------------------
(* Properties *)

Opt(set) == set \cup {None}
\* Every field has its type, and an entry that the vault did not begin with has a
\* title, or a name and, for its secret, what is left of a text that was not empty: a
\* zero byte if that was spaces and dashes (on_save_totp).
TypeOK ==
  /\ accounts \in [AccountId -> Opt(Account)]
  /\ totps \in [TotpId -> Opt(Totp)]
  /\ aform.id \in Opt(AccountId) /\ tform.id \in Opt(TotpId) /\ link \in Opt(AccountId)
  /\ \A j \in jobs : j[2].kind \in {"edit", "scan", "account", "totp", "remove"}

Ran(kind, j) == j \in jobs /\ j \notin jobs' /\ j[2].kind = kind

\* For a patient user "Add Account" changes no account, and "Save Changes" changes the
\* one the dialog was filled with, and of it what the user touched (on_save_entry).
AccountAsAsked == [][\A j \in jobs : Ran("account", j) =>
  LET form == j[2].form
      before == accounts[form.asked]
      after == accounts'[form.asked]
  IN
  patient =>
  /\ \A a \in AccountId \ {form.asked} : accounts[a] # None => accounts'[a] = accounts[a]
  /\ form.asked # None /\ before # None =>
       /\ after.title = form.title
       /\ \A f \in {"title", "user", "password"} \ form.touched : after[f] = before[f]]_vars

\* "If we opened this with a target account, pass it": an authenticator is
\* linked to the account its dialog was opened for, or to one of its own names,
\* and to no account that an earlier dialog of a patient user was about (on_save_totp).
LinkedAsAsked == [][\A j \in jobs : Ran("totp", j) =>
  LET form == j[2].form IN
  \A t \in TotpId : (patient /\ totps'[t] # totps[t] /\ totps'[t].link \notin {None, form.for})
    => \/ form.asked = None /\ totps'[t].link \in SmartLinks(form)
       \/ form.asked = t /\ totps'[t].link = totps[t].link]_vars

ScanArrives == /\ queue # << >> /\ queue' = Tail(queue) /\ Head(queue).kind = "scan"
               /\ Head(queue).code # NoCode /\ tform.open

\* "QR code scanned - fields auto-filled!": the first code that a dialog gets
\* fills it, whatever was scanned before in others (changed scanned-secret).
FirstScanFills == [][ScanArrives /\ tform.scans = 0 => tform'.secret = scanned'.secret]_vars
=============================================================================
