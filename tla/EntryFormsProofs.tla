--------------------------- MODULE EntryFormsProofs ---------------------------
(***************************************************************************)
(* The properties of EntryForms for every vault, text and code and any     *)
(* number of operations: what is saved has a name and what is left of a    *)
(* secret, the first code a dialog gets fills it, and for a patient user a *)
(* dialog changes what it was opened for and links to the account it was   *)
(* opened for.                                                             *)
(***************************************************************************)
EXTENDS EntryForms, SequenceTheorems, TLAPS

-----------------------------------------------------------------------------
(* The inductive invariant *)

AField == {"title", "user", "password"}
TField == {"name", "issuer", "secret"}
AForm == [open : BOOLEAN, id : Opt(AccountId), title : Text, user : Text, password : Text,
          touched : SUBSET AField, asked : Opt(AccountId)]
TForm == [open : BOOLEAN, id : Opt(TotpId), name : Text, issuer : Text, secret : Text,
          touched : SUBSET TField, asked : Opt(TotpId), for : Opt(AccountId), scans : {0, 1}]
Scanned == [name : Text, issuer : Text, secret : Text]
Thread == [kind : {"edit", "scan", "account", "totp", "remove"}, id : Opt(AccountId \cup TotpId),
           form : AForm \cup TForm, link : Opt(AccountId), code : Scanned]

\* What a thread, or the closure it posts, brings along: an entry, a form that its
\* dialog let through, or a code with a secret unless it found none.
Fit(w) ==
  /\ w \in Thread
  /\ w.kind = "edit" => w.id # None
  /\ w.kind = "scan" => w.id = None
  /\ w.kind = "remove" => w.id \in AccountId
  /\ w.kind = "account" => w.id \in Opt(AccountId) /\ w.form \in AForm /\ w.form.title # Blank
  /\ w.kind = "totp" => /\ w.id \in Opt(TotpId) /\ w.form \in TForm
                        /\ Blank \notin {w.form.name, w.form.secret}
  /\ w.code = NoCode \/ w.code.secret # Blank

Types ==
  /\ TypeOK
  /\ aform \in AForm /\ tform \in TForm /\ scanned \in Scanned
  /\ \A j \in jobs : Fit(j[2])
  /\ queue \in Seq(Thread)
  /\ \A i \in DOMAIN queue : Fit(queue[i]) /\ queue[i].kind \in {"edit", "scan", "totp"}
  /\ starts \in Nat

\* A dialog that got no code yet meets the next one as a change.
Unscanned == tform.open /\ tform.scans = 0 => scanned.secret = Blank

\* A patient user has one dialog open, and beside it nothing but scans; an edit, a save
\* of an account and a removal are alone.
Alone ==
  /\ aform.open => Quiet /\ ~tform.open
  /\ \A j \in jobs : j[2].kind \in {"edit", "account", "remove"} =>
       jobs = {j} /\ queue = << >> /\ ~aform.open /\ ~tform.open
  /\ \A i \in DOMAIN queue : queue[i].kind = "edit" =>
       jobs = {} /\ Len(queue) = 1 /\ ~aform.open /\ ~tform.open
  /\ tform.open => /\ \A j \in jobs : j[2].kind = "scan"
                   /\ \A i \in DOMAIN queue : queue[i].kind = "scan"

\* A form that was filled with an account is about it, and what was not touched is
\* still what the account says; a password nobody typed is empty.
Faithful(form) ==
  /\ form.id = form.asked
  /\ "password" \notin form.touched => form.password = Blank
  /\ form.asked # None /\ accounts[form.asked] # None =>
       /\ "title" \notin form.touched => form.title = accounts[form.asked].title
       /\ "user" \notin form.touched => form.user = accounts[form.asked].user
AccountForms ==
  /\ aform.open => Faithful(aform)
  /\ \A j \in jobs : j[2].kind = "account" => j[2].id = j[2].form.id /\ Faithful(j[2].form)

\* An authenticator's form links to what its dialog was opened for, or to nothing; no
\* target outlives its dialog.
Aimed(form, id, to) == id = form.asked /\ to \in {None, form.for}
TotpForms ==
  /\ ~tform.open => link = None
  /\ tform.open => Aimed(tform, tform.id, link)
  /\ \A j \in jobs : j[2].kind = "totp" => Aimed(j[2].form, j[2].id, j[2].link)

Tidy == Alone /\ AccountForms /\ TotpForms
IInv == Types /\ Unscanned /\ (patient => Tidy)
-----------------------------------------------------------------------------
(* Types *)

\* What is typed, found or there from the beginning is a text, and stays one when it is
\* clean and in a buffer.
LEMMA Texts ==
  /\ Raw \subseteq Text /\ Blank \in Text /\ Nul \in Text
  /\ \A t \in Text : Clean[t] \in Text /\ Buffer(t) \in Text
<1>1. Raw \subseteq Text
  BY DEF Text
<1>2. Blank \in Text /\ Nul \in Text
  BY <1>1 DEF Raw
<1>3. \A t \in Text : Clean[t] \in Text
  BY EntryFormsAssumption
<1> QED BY <1>1, <1>2, <1>3 DEF Buffer

\* What is empty, closed or not there has its type.
LEMMA Empties ==
  /\ Blank \in Text /\ None \notin AccountId /\ None \notin TotpId /\ AccountId \cap TotpId = {}
  /\ NoCode \in Scanned /\ ClosedA \in AForm /\ ClosedT \in TForm
<1>1. Blank \in Text
  BY Texts
<1>2. NoCode \in Scanned
  BY <1>1 DEF NoCode, Scanned
<1>3. ClosedA \in AForm
  BY <1>1 DEF ClosedA, AForm, Opt
<1>4. ClosedT \in TForm
  BY <1>1 DEF ClosedT, TForm, Opt
<1> QED BY <1>1, <1>2, <1>3, <1>4, EntryFormsAssumption

\* Every entry, saved or there from the beginning, has texts, and a link to an account.
LEMMA Entries ==
  /\ \A x \in Account : x.title \in Text /\ x.user \in Text /\ x.password \in Text
  /\ \A x \in Totp : x.name \in Text /\ x.issuer \in Text /\ x.secret \in Text /\ x.link \in Opt(AccountId)
<1> USE EntryFormsAssumption DEF Opt
<1> HIDE DEF Text
<1>1. \A x \in Account : x.title \in Text /\ x.user \in Text /\ x.password \in Text
  BY DEF Account, SavedAccount
<1>3. {Buffer(Clean[s]) : s \in Text \ {Blank}} \subseteq Text
  BY Texts
<1>2. \A x \in Totp : x.name \in Text /\ x.issuer \in Text /\ x.secret \in Text /\ x.link \in Opt(AccountId)
  BY <1>3 DEF Totp, SavedTotp
<1> QED BY <1>1, <1>2

\* A code is read into texts, with a secret or not at all.
LEMMA Parsed ==
  ASSUME NEW c \in Code
  PROVE  LET code == parse_otpauth_uri(c)
         IN  code \in Scanned /\ (code = NoCode \/ code.secret # Blank)
<1>1. {c.label, c.account, c.issuer, c.secret} \subseteq Raw
  BY DEF Raw
<1>2. c.label \in Text /\ c.account \in Text /\ c.issuer \in Text /\ Clean[c.secret] \in Text /\ Blank \in Text
  BY <1>1, Texts
<1> QED BY <1>2 DEF parse_otpauth_uri, NoCode, Scanned

\* What each operation gives its thread fits.
LEMMA JobFits ==
  /\ \A e \in AccountId \cup TotpId : Fit([Job EXCEPT !.kind = "edit", !.id = e])
  /\ \A a \in AccountId : Fit([Job EXCEPT !.kind = "remove", !.id = a])
  /\ Fit([Job EXCEPT !.kind = "scan"])
  /\ \A id \in Opt(AccountId), form \in AForm :
       form.title # Blank => Fit([Job EXCEPT !.kind = "account", !.id = id, !.form = form])
  /\ \A id \in Opt(TotpId), form \in TForm, to \in Opt(AccountId) :
       form.name # Blank /\ form.secret # Blank =>
         Fit([Job EXCEPT !.kind = "totp", !.id = id, !.form = form, !.link = to])
<1> USE Empties DEF Job, Thread, Fit, Opt
<1> HIDE DEF NoCode, ClosedA
<1>1. \A e \in AccountId \cup TotpId : Fit([Job EXCEPT !.kind = "edit", !.id = e])
  OBVIOUS
<1>2. \A a \in AccountId : Fit([Job EXCEPT !.kind = "remove", !.id = a])
  OBVIOUS
<1>3. Fit([Job EXCEPT !.kind = "scan"])
  OBVIOUS
<1>4. \A id \in Opt(AccountId), form \in AForm :
       form.title # Blank => Fit([Job EXCEPT !.kind = "account", !.id = id, !.form = form])
  BY ZenonT(60)
<1> HIDE DEF Job, Thread, Fit, Opt
<1>5. ASSUME NEW id \in Opt(TotpId), NEW form \in TForm, NEW to \in Opt(AccountId),
             form.name # Blank, form.secret # Blank
      PROVE  Fit([Job EXCEPT !.kind = "totp", !.id = id, !.form = form, !.link = to])
  <2> DEFINE w == [Job EXCEPT !.kind = "totp", !.id = id, !.form = form, !.link = to]
  <2>1. w.kind = "totp" /\ w.id = id /\ w.form = form /\ w.link = to /\ w.code = NoCode
    BY DEF Job
  <2>2. id \in Opt(AccountId \cup TotpId) /\ form \in AForm \cup TForm
    BY DEF Opt
  <2>3. w \in Thread
    BY <2>2 DEF Job, Thread
  <2> HIDE DEF w
  <2>4. w.id \in Opt(TotpId) /\ w.form \in TForm /\ Blank \notin {w.form.name, w.form.secret}
    BY <2>1, <1>5
  <2>5. Fit(w)
    BY <2>1, <2>3, <2>4 DEF Fit
  <2> QED BY <2>5 DEF w
<1> QED BY <1>1, <1>2, <1>3, <1>4, <1>5

\* A thread that starts is one more.
LEMMA Spawned ==
  ASSUME Types, NEW job, Fit(job), Spawn(job)
  PROVE  /\ \A j \in jobs' : Fit(j[2]) /\ (j \in jobs \/ j[2] = job)
         /\ jobs \subseteq jobs' /\ starts' \in Nat
         /\ UNCHANGED <<accounts, totps, main, queue>>
BY DEF Types, Spawn

\* Typing changes one field, and touches it.
After(w, f, text) == [w EXCEPT ![f] = text, !.touched = @ \cup {f}]
LEMMA TypedAccount ==
  ASSUME NEW w \in AForm, NEW f \in AField, NEW text \in Text,
         NEW x, x = After(w, f, text)
  PROVE  /\ x \in AForm /\ x.touched = w.touched \cup {f} /\ x.open = w.open
         /\ x.id = w.id /\ x.asked = w.asked
         /\ f # "title" => x.title = w.title
         /\ f # "user" => x.user = w.user
         /\ f # "password" => x.password = w.password
<1>1. CASE f = "title"
  BY <1>1 DEF After, AForm, AField
<1>2. CASE f = "user"
  BY <1>2 DEF After, AForm, AField
<1>3. CASE f = "password"
  BY <1>3 DEF After, AForm, AField
<1> QED BY <1>1, <1>2, <1>3 DEF AField

LEMMA TypedTotp ==
  ASSUME NEW w \in TForm, NEW f \in TField, NEW text \in Text
  PROVE  LET x == [w EXCEPT ![f] = text, !.touched = @ \cup {f}]
         IN  /\ x \in TForm /\ x.open = w.open /\ x.id = w.id /\ x.asked = w.asked
             /\ x.for = w.for /\ x.scans = w.scans
<1>1. CASE f = "name"
  BY <1>1 DEF TForm, TField
<1>2. CASE f = "issuer"
  BY <1>2 DEF TForm, TField
<1>3. CASE f = "secret"
  BY <1>3 DEF TForm, TField
<1> QED BY <1>1, <1>2, <1>3 DEF TField

\* Closing a dialog leaves the rest of it; one that is opened anew is empty.
LEMMA Closings ==
  /\ \A w \in AForm : LET x == [w EXCEPT !.open = FALSE] IN x \in AForm /\ ~x.open
  /\ \A w \in TForm : LET x == [w EXCEPT !.open = FALSE] IN x \in TForm /\ ~x.open
  /\ LET x == [ClosedA EXCEPT !.open = TRUE]
     IN  x \in AForm /\ x.id = None /\ x.asked = None /\ x.password = Blank
  /\ LET x == [ClosedT EXCEPT !.open = TRUE] IN x \in TForm /\ x.id = None /\ x.asked = None
<1>1. \A w \in AForm : LET x == [w EXCEPT !.open = FALSE] IN x \in AForm /\ ~x.open
  BY DEF AForm
<1>2. \A w \in TForm : LET x == [w EXCEPT !.open = FALSE] IN x \in TForm /\ ~x.open
  BY DEF TForm
<1>3. LET x == [ClosedA EXCEPT !.open = TRUE]
      IN  x \in AForm /\ x.id = None /\ x.asked = None /\ x.password = Blank
  BY Empties DEF ClosedA, AForm, Opt
<1>4. LET x == [ClosedT EXCEPT !.open = TRUE] IN x \in TForm /\ x.id = None /\ x.asked = None
  BY Empties DEF ClosedT, TForm, Opt
<1> QED BY <1>1, <1>2, <1>3, <1>4
\* Every step of the user keeps the types.
LEMMA UserTypes ==
  ASSUME Types,
         \/ OpenAddAccount \/ OpenAddTotp \/ (\E a \in AccountId : OpenAddTotpFor(a) \/ Remove(a))
         \/ (\E e \in AccountId \cup TotpId : RequestEdit(e)) \/ TurnPage \/ Return
         \/ (\E f \in {"title", "user", "password"}, text \in Typed : TypeAccount(f, text))
         \/ (\E f \in {"name", "issuer", "secret"}, text \in Typed : TypeTotp(f, text))
         \/ SaveAccount \/ CancelAccount \/ SaveTotp \/ CancelTotp \/ Scan
  PROVE  Types'
<1> USE Empties
<1>0. \A text \in Typed : text \in Text
  BY Texts DEF Raw
<1>1. ASSUME Still, aform' \in AForm, tform' \in TForm, scanned' \in Scanned, link' \in Opt(AccountId)
      PROVE  Types'
  <2>1. aform'.id \in Opt(AccountId) /\ tform'.id \in Opt(TotpId)
    BY <1>1 DEF AForm, TForm
  <2> QED BY <1>1, <2>1 DEF Still, Types, TypeOK
<1>2. ASSUME NEW job, Fit(job), Spawn(job), aform' \in AForm, tform' \in TForm, scanned' = scanned,
             link' \in Opt(AccountId)
      PROVE  Types'
  <2>1. aform'.id \in Opt(AccountId) /\ tform'.id \in Opt(TotpId)
    BY <1>2 DEF AForm, TForm
  <2>2. /\ \A j \in jobs' : Fit(j[2])
        /\ starts' \in Nat /\ UNCHANGED <<accounts, totps, main, queue>>
    BY <1>2, Spawned
  <2>3. \A j \in jobs' : j[2].kind \in {"edit", "scan", "account", "totp", "remove"}
    BY <2>2 DEF Fit, Thread
  <2> QED BY <1>2, <2>1, <2>2, <2>3 DEF Types, TypeOK
<1>3. aform \in AForm /\ tform \in TForm /\ scanned \in Scanned /\ link \in Opt(AccountId) /\ None \in Opt(AccountId)
  BY DEF Types, TypeOK, Opt
<1>4. CASE OpenAddAccount
  BY <1>1, <1>3, <1>4, Closings DEF OpenAddAccount
<1>5. CASE OpenAddTotp
  BY <1>1, <1>3, <1>5, Closings DEF OpenAddTotp
<1>6. ASSUME NEW a \in AccountId, OpenAddTotpFor(a) PROVE Types'
  <2>1. accounts[a].user \in Text /\ accounts[a].title \in Text
    BY <1>6, Entries DEF OpenAddTotpFor, Types, TypeOK, Opt
  <2>2. tform' \in TForm
    BY <1>6, <2>1 DEF OpenAddTotpFor, ClosedT, TForm, Opt
  <2> QED BY <1>1, <1>3, <1>6, <2>2 DEF OpenAddTotpFor, Opt
<1>7. ASSUME NEW a \in AccountId, Remove(a) PROVE Types'
  BY <1>2, <1>3, <1>7, JobFits DEF Remove
<1>8. ASSUME NEW e \in AccountId \cup TotpId, RequestEdit(e) PROVE Types'
  BY <1>2, <1>3, <1>8, JobFits DEF RequestEdit
<1>9. CASE TurnPage \/ Return
  <2>1. ClosedA.id = None
    BY DEF ClosedA
  <2> QED BY <1>3, <1>9, <2>1 DEF TurnPage, Return, Types, TypeOK
<1>10. ASSUME NEW f \in AField, NEW text \in Typed, TypeAccount(f, text) PROVE Types'
  <2>1. aform' \in AForm
    <3>1. aform' = After(aform, f, text)
      BY <1>10 DEF TypeAccount, After
    <3> QED BY <1>0, <1>3, <3>1, TypedAccount
  <2> QED BY <1>1, <1>3, <1>10, <2>1 DEF TypeAccount
<1>11. ASSUME NEW f \in TField, NEW text \in Typed, TypeTotp(f, text) PROVE Types'
  <2>1. tform' \in TForm
    BY <1>0, <1>3, <1>11, TypedTotp DEF TypeTotp
  <2> QED BY <1>1, <1>3, <1>11, <2>1 DEF TypeTotp
<1>12. CASE SaveAccount
  <2> DEFINE job == [Job EXCEPT !.kind = "account", !.id = aform.id, !.form = aform]
  <2>1. aform.id \in Opt(AccountId)
    BY DEF Types, TypeOK
  <2>2. Fit(job) /\ Spawn(job)
    BY <1>3, <1>12, <2>1, JobFits DEF SaveAccount
  <2> HIDE DEF job
  <2>3. aform' \in AForm /\ tform' = tform /\ link' = link /\ scanned' = scanned
    BY <1>3, <1>12, Closings DEF SaveAccount
  <2> QED BY <1>2, <1>3, <2>2, <2>3
<1>13. CASE CancelAccount
  BY <1>1, <1>3, <1>13, Closings DEF CancelAccount
<1>14. CASE SaveTotp
  <2> DEFINE job == [Job EXCEPT !.kind = "totp", !.id = tform.id, !.form = tform, !.link = link]
  <2>1. tform.id \in Opt(TotpId)
    BY DEF Types, TypeOK
  <2>2. Fit(job) /\ Spawn(job)
    BY <1>3, <1>14, <2>1, JobFits DEF SaveTotp, Savable
  <2> HIDE DEF job
  <2>3. tform' \in TForm /\ aform' = aform /\ link' = None /\ scanned' = scanned
    BY <1>3, <1>14, Closings DEF SaveTotp, LinkAfter
  <2> QED BY <1>2, <1>3, <2>2, <2>3
<1>15. CASE CancelTotp
  BY <1>1, <1>3, <1>15, Closings DEF CancelTotp
<1>16. CASE Scan
  BY <1>2, <1>3, <1>16, JobFits DEF Scan
<1> QED
  BY <1>4, <1>5, <1>6, <1>7, <1>8, <1>9, <1>10, <1>11, <1>12, <1>13, <1>14, <1>15, <1>16 DEF AField, TField

\* What the threads save is as typed as what was there.
LEMMA SavedTypes ==
  ASSUME Types, NEW w, Fit(w)
  PROVE  /\ w.kind = "account" => SavedAccounts(w) \subseteq [AccountId -> Opt(Account)]
         /\ w.kind = "totp" => SavedTotps(w) \subseteq [TotpId -> Opt(Totp)]
<1> USE Empties
<1>1. accounts \in [AccountId -> Opt(Account)] /\ totps \in [TotpId -> Opt(Totp)]
  BY DEF Types, TypeOK
<1>2. ASSUME w.kind = "account" PROVE SavedAccounts(w) \subseteq [AccountId -> Opt(Account)]
  <2>1. /\ w.form.title \in Text \ {Blank} /\ w.form.user \in Text /\ w.form.password \in Text
        /\ w.id \in Opt(AccountId)
    BY <1>2 DEF Fit, AForm
  <2>2. \A old \in Opt(Account) : AccountOf(old, w.form) \in SavedAccount
    BY <2>1, Entries, Texts DEF AccountOf, Opt, SavedAccount
  <2>3. None \in Opt(Account) /\ SavedAccount \subseteq Opt(Account)
    BY DEF Opt, Account
  <2> HIDE DEF AccountOf, SavedAccount
  <2>4. \A id \in AccountId :
          [accounts EXCEPT ![id] = AccountOf(accounts[id], w.form)] \in [AccountId -> Opt(Account)]
    BY <1>1, <2>2, <2>3
  <2>5. \A id \in AccountId :
          [accounts EXCEPT ![id] = AccountOf(None, w.form)] \in [AccountId -> Opt(Account)]
    BY <1>1, <2>2, <2>3
  <2>6. CASE w.id # None
    BY <1>1, <2>1, <2>4, <2>6 DEF SavedAccounts, Opt
  <2>7. CASE w.id = None
    BY <2>5, <2>7 DEF SavedAccounts
  <2> QED BY <2>6, <2>7
<1>3. ASSUME w.kind = "totp" PROVE SavedTotps(w) \subseteq [TotpId -> Opt(Totp)]
  <2>1. /\ w.form.name \in Text \ {Blank} /\ w.form.issuer \in Text /\ w.form.secret \in Text \ {Blank}
        /\ w.id \in Opt(TotpId) /\ w.link \in Opt(AccountId)
    BY <1>3 DEF Fit, TForm, Thread
  <2>9. Buffer(Clean[w.form.secret]) \in {Buffer(Clean[s]) : s \in Text \ {Blank}}
    BY <2>1
  <2>2. \A to \in Opt(AccountId) : TotpOf(w.form, to) \in SavedTotp
    BY <2>1, <2>9 DEF TotpOf, SavedTotp, Opt
  <2>3. Links(w) \subseteq Opt(AccountId)
    BY <2>1 DEF Links, SmartLinks, Opt
  <2>4. \A t \in TotpId : totps[t] # None => totps[t].link \in Opt(AccountId)
    BY <1>1, Entries DEF Opt
  <2>5. SavedTotp \subseteq Opt(Totp)
    BY DEF Opt, Totp
  <2> HIDE DEF TotpOf, SavedTotp
  <2>6. \A t \in TotpId, to \in Opt(AccountId) :
          [totps EXCEPT ![t] = TotpOf(w.form, to)] \in [TotpId -> Opt(Totp)]
    BY <1>1, <2>2, <2>5
  <2>7. CASE w.id # None
    <3>1. CASE totps[w.id] = None
      BY <1>1, <2>7, <3>1 DEF SavedTotps
    <3>2. CASE totps[w.id] # None
      <4> DEFINE to == IF w.link # None THEN w.link ELSE totps[w.id].link
      <4>1. w.id \in TotpId /\ to \in Opt(AccountId)
        BY <2>1, <2>4, <2>7, <3>2 DEF Opt
      <4>2. SavedTotps(w) = {[totps EXCEPT ![w.id] = TotpOf(w.form, to)]}
        BY <1>1, <2>7, <3>2, <4>1 DEF SavedTotps
      <4> HIDE DEF to
      <4> QED BY <2>6, <4>1, <4>2
    <3> QED BY <3>1, <3>2
  <2>8. CASE w.id = None
    BY <2>3, <2>6, <2>8 DEF SavedTotps
  <2> QED BY <2>7, <2>8
<1> QED BY <1>2, <1>3

\* What posting and running a closure does to the queue.
LEMMA Posted ==
  ASSUME NEW S, NEW s \in Seq(S), NEW e \in S
  PROVE  LET r == s \o <<e>>
         IN  /\ r \in Seq(S) /\ Len(r) = Len(s) + 1
             /\ \A i \in DOMAIN r : r[i] = e \/ (i \in DOMAIN s /\ r[i] = s[i])
BY SMT

LEMMA Taken ==
  ASSUME NEW S, NEW s \in Seq(S), s # << >>
  PROVE  /\ Tail(s) \in Seq(S) /\ Len(Tail(s)) = Len(s) - 1 /\ Len(s) \in Nat
         /\ 1 \in DOMAIN s /\ Head(s) = s[1]
         /\ \A i \in DOMAIN Tail(s) : i + 1 \in DOMAIN s /\ Tail(s)[i] = s[i + 1] /\ Len(s) # 1
         /\ Len(s) = 1 => Tail(s) = << >>
         /\ Len(Tail(s)) # Len(s)
BY SMT

\* Every step of a thread keeps the types.
LEMMA RunTypes ==
  ASSUME Types, NEW j \in jobs, Run(j)
  PROVE  Types'
<1> DEFINE job == j[2]
<1>1. Fit(job) /\ job.kind \in {"edit", "scan", "account", "totp", "remove"} /\ job \in Thread
  BY DEF Types, Fit, Thread
<1>2. /\ accounts \in [AccountId -> Opt(Account)] /\ totps \in [TotpId -> Opt(Totp)]
      /\ queue \in Seq(Thread)
  BY DEF Types, TypeOK
<1>3. ASSUME accounts' \in [AccountId -> Opt(Account)], totps' \in [TotpId -> Opt(Totp)],
             queue' \in Seq(Thread),
             \A i \in DOMAIN queue' : Fit(queue'[i]) /\ queue'[i].kind \in {"edit", "scan", "totp"}
      PROVE  Types'
  BY <1>3 DEF Run, Types, TypeOK
<1>4. ASSUME NEW w, Fit(w), w.kind \in {"edit", "scan", "totp"}, Post(<<w>>)
      PROVE  /\ queue' \in Seq(Thread)
             /\ \A i \in DOMAIN queue' : Fit(queue'[i]) /\ queue'[i].kind \in {"edit", "scan", "totp"}
  <2>1. w \in Thread
    BY <1>4 DEF Fit
  <2>2. queue' = queue \o <<w>>
    BY <1>4 DEF Post
  <2>3. \A i \in DOMAIN queue : Fit(queue[i]) /\ queue[i].kind \in {"edit", "scan", "totp"}
    BY DEF Types
  <2> HIDE DEF Thread, Fit
  <2>4. /\ queue' \in Seq(Thread)
        /\ \A i \in DOMAIN queue' : queue'[i] = w \/ (i \in DOMAIN queue /\ queue'[i] = queue[i])
    BY <1>2, <2>1, <2>2, Posted
  <2> QED BY <1>4, <2>3, <2>4
<1>5. ASSUME UNCHANGED queue
      PROVE  /\ queue' \in Seq(Thread)
             /\ \A i \in DOMAIN queue' : Fit(queue'[i]) /\ queue'[i].kind \in {"edit", "scan", "totp"}
  BY <1>5 DEF Types
<1>6. CASE job.kind = "edit"
  BY <1>1, <1>2, <1>3, <1>4, <1>5, <1>6 DEF Run
<1>7. CASE job.kind = "scan"
  <2>1. PICK c \in {parse_otpauth_uri(uri) : uri \in Code} \cup {NoCode} : Post(<<[job EXCEPT !.code = c]>>)
    BY <1>7 DEF Run
  <2>2. c \in Scanned /\ (c = NoCode \/ c.secret # Blank)
    BY Parsed, Empties
  <2>3. Fit([job EXCEPT !.code = c]) /\ [job EXCEPT !.code = c].kind = "scan"
    BY <1>1, <1>7, <2>2 DEF Fit, Thread
  <2>4. UNCHANGED <<accounts, totps>>
    BY <1>7 DEF Run
  <2> QED BY <1>2, <1>3, <1>4, <2>1, <2>3, <2>4
<1>8. CASE job.kind = "account"
  <2>1. accounts' \in SavedAccounts(job) /\ UNCHANGED <<totps, queue>>
    BY <1>8 DEF Run
  <2> QED BY <1>1, <1>2, <1>3, <1>5, <1>8, <2>1, SavedTypes
<1>9. CASE job.kind = "totp"
  <2>1. totps' \in SavedTotps(job) /\ Post(<<job>>) /\ UNCHANGED accounts
    BY <1>9 DEF Run
  <2> QED BY <1>1, <1>2, <1>3, <1>4, <1>9, <2>1, SavedTypes
<1>10. CASE job.kind = "remove"
  <2>1. /\ accounts' = [accounts EXCEPT ![job.id] = None] /\ UNCHANGED queue
        /\ totps' = [t \in TotpId |->
                       IF totps[t] # None /\ totps[t].link = job.id THEN None ELSE totps[t]]
    BY <1>10 DEF Run
  <2>2. accounts' \in [AccountId -> Opt(Account)] /\ totps' \in [TotpId -> Opt(Totp)]
    BY <1>2, <2>1 DEF Opt
  <2> QED BY <1>3, <1>5, <2>1, <2>2
<1> QED BY <1>1, <1>6, <1>7, <1>8, <1>9, <1>10

\* The closure at the head of the queue fits, and an edit is of an entry.
LEMMA HeadFits ==
  ASSUME Types, queue # << >>
  PROVE  /\ Fit(Head(queue)) /\ Head(queue).kind \in {"edit", "scan", "totp"}
         /\ Head(queue).kind = "edit" => Head(queue).id \in AccountId \cup TotpId
         /\ Head(queue).code \in Scanned
<1>1. queue \in Seq(Thread)
  BY DEF Types
<1> HIDE DEF Thread
<1>2. 1 \in DOMAIN queue /\ Head(queue) = queue[1]
  BY <1>1, Taken
<1>3. Fit(Head(queue)) /\ Head(queue).kind \in {"edit", "scan", "totp"}
  BY <1>2 DEF Types
<1> QED BY <1>3 DEF Fit, Thread, Opt

\* Every closure keeps the types.
LEMMA ClosureTypes ==
  ASSUME Types, RunClosure
  PROVE  Types'
<1> DEFINE job == Head(queue)
<1>1. /\ queue \in Seq(Thread) /\ queue # << >> /\ queue' = Tail(queue)
      /\ UNCHANGED <<accounts, totps, jobs, starts>>
  BY DEF Types, RunClosure
<1>2. /\ queue' \in Seq(Thread)
      /\ \A i \in DOMAIN queue' : i + 1 \in DOMAIN queue /\ queue'[i] = queue[i + 1]
  <2> HIDE DEF Thread
  <2> QED BY <1>1, Taken
<1>3. \A i \in DOMAIN queue' : Fit(queue'[i]) /\ queue'[i].kind \in {"edit", "scan", "totp"}
  BY <1>2 DEF Types
<1>4. ASSUME aform' \in AForm, tform' \in TForm, scanned' \in Scanned, UNCHANGED link
      PROVE  Types'
  <2>1. aform'.id \in Opt(AccountId) /\ tform'.id \in Opt(TotpId)
    BY <1>4 DEF AForm, TForm
  <2> QED BY <1>1, <1>2, <1>3, <1>4, <2>1 DEF Types, TypeOK
<1>5. /\ Fit(job) /\ job.kind \in {"edit", "scan", "totp"} /\ job.code \in Scanned
      /\ job.kind = "edit" => job.id \in AccountId \cup TotpId
  BY <1>1, HeadFits
<1>6. aform \in AForm /\ tform \in TForm /\ scanned \in Scanned
  BY DEF Types
<1>7. CASE job.kind = "scan"
  <2>1. FillScan(job.code)
    BY <1>5, <1>7, Empties DEF RunClosure, Fit
  <2>2. Filled(job.code) \in TForm
    BY <1>5, <1>6 DEF Filled, TForm, TField, Scanned
  <2> QED BY <1>4, <1>5, <1>6, <2>1, <2>2 DEF FillScan
<1>8. CASE job.kind = "totp"
  <2>1. AfterSave
    BY <1>5, <1>8, Empties DEF RunClosure, Fit, Opt
  <2> QED BY <1>4, <1>6, <2>1, Closings DEF AfterSave
<1>9. CASE job.kind = "edit" /\ job.id \in AccountId
  <2>1. FillAccount(job.id)
    BY <1>9 DEF RunClosure
  <2>2. accounts[job.id] # None => accounts[job.id].title \in Text /\ accounts[job.id].user \in Text
    BY <1>9, Entries DEF Types, TypeOK, Opt
  <2>3. aform' \in AForm
    BY <1>6, <1>9, <2>1, <2>2, Empties DEF FillAccount, AForm, Opt
  <2> QED BY <1>4, <1>6, <2>1, <2>3 DEF FillAccount
<1>10. CASE job.kind = "edit" /\ job.id \notin AccountId
  <2>1. FillTotp(job.id) /\ job.id \in TotpId
    BY <1>5, <1>10 DEF RunClosure
  <2>2. totps[job.id] # None => totps[job.id].name \in Text /\ totps[job.id].issuer \in Text
    BY <2>1, Entries DEF Types, TypeOK, Opt
  <2>3. CASE main /\ totps[job.id] # None
    <3>1. tform' = [ClosedT EXCEPT !.open = TRUE, !.id = job.id, !.asked = job.id,
                      !.name = totps[job.id].issuer, !.issuer = totps[job.id].name]
      BY <2>1, <2>3 DEF FillTotp
    <3>2. tform' \in TForm
      BY <2>1, <2>2, <2>3, <3>1, Empties DEF ClosedT, TForm, Opt
    <3> QED BY <1>4, <1>6, <2>1, <2>3, <3>2, Empties DEF FillTotp
  <2> QED BY <1>4, <1>6, <2>1, <2>3 DEF FillTotp
<1> QED BY <1>5, <1>7, <1>8, <1>9, <1>10
-----------------------------------------------------------------------------
(* The steps of the user *)

\* A dialog that opens has no code behind it; one that got none keeps it so.
LEMMA UserUnscanned ==
  ASSUME Types, Unscanned,
         \/ OpenAddAccount \/ OpenAddTotp \/ (\E a \in AccountId : OpenAddTotpFor(a) \/ Remove(a))
         \/ (\E e \in AccountId \cup TotpId : RequestEdit(e)) \/ TurnPage \/ Return
         \/ (\E f \in {"title", "user", "password"}, text \in Typed : TypeAccount(f, text))
         \/ (\E f \in {"name", "issuer", "secret"}, text \in Typed : TypeTotp(f, text))
         \/ SaveAccount \/ CancelAccount \/ SaveTotp \/ CancelTotp \/ Scan
  PROVE  Unscanned'
<1>1. ASSUME scanned' = NoCode \/ tform' = [tform EXCEPT !.open = FALSE] PROVE Unscanned'
  <2>1. CASE scanned' = NoCode
    BY <2>1 DEF Unscanned, NoCode
  <2>2. CASE tform' = [tform EXCEPT !.open = FALSE]
    <3>1. ~tform'.open
      BY <2>2, Closings DEF Types
    <3> QED BY <3>1 DEF Unscanned
  <2> QED BY <1>1, <2>1, <2>2
<1>2. ASSUME UNCHANGED <<tform, scanned>> PROVE Unscanned'
  BY <1>2 DEF Unscanned
<1>3. ASSUME NEW f \in TField, NEW text \in Typed, TypeTotp(f, text) PROVE Unscanned'
  <2>1. tform \in TForm /\ text \in Text
    BY Texts DEF Types, Raw
  <2>2. tform'.open = tform.open /\ tform'.scans = tform.scans /\ scanned' = scanned
    BY ZenonT(60), <1>3, <2>1, TypedTotp DEF TypeTotp
  <2> QED BY <2>2 DEF Unscanned
<1>4. CASE OpenAddTotp \/ \E a \in AccountId : OpenAddTotpFor(a)
  BY <1>1, <1>4 DEF OpenAddTotp, OpenAddTotpFor
<1>5. CASE SaveTotp \/ CancelTotp
  BY <1>1, <1>5 DEF SaveTotp, CancelTotp
<1>6. CASE \/ OpenAddAccount \/ (\E a \in AccountId : Remove(a)) \/ TurnPage \/ Return
           \/ (\E e \in AccountId \cup TotpId : RequestEdit(e)) \/ SaveAccount \/ CancelAccount \/ Scan
           \/ (\E f \in {"title", "user", "password"}, text \in Typed : TypeAccount(f, text))
  BY <1>2, <1>6 DEF OpenAddAccount, Remove, TurnPage, Return, RequestEdit, SaveAccount, CancelAccount,
                    Scan, TypeAccount
<1> QED BY <1>3, <1>4, <1>5, <1>6 DEF TField

\* A patient user who has nothing open and nothing under way opens a dialog,
LEMMA OpenTidy ==
  ASSUME Types, Tidy, patient, UNCHANGED patient,
         OpenAddAccount \/ OpenAddTotp \/ (\E a \in AccountId : OpenAddTotpFor(a)) \/ TurnPage \/ Return
  PROVE  Tidy'
<1>1. CASE Return
  BY <1>1 DEF Return, Tidy, Alone, Quiet, AccountForms, TotpForms, Faithful, Aimed
<1>2. ASSUME Click PROVE jobs = {} /\ queue = << >> /\ ~aform.open /\ ~tform.open /\ link = None
  BY <1>2 DEF Click, Quiet, Tidy, TotpForms
<1>3. DOMAIN (<< >>) = {}
  OBVIOUS
<1>4. CASE OpenAddAccount
  <2>1. aform'.id = None /\ aform'.asked = None /\ aform'.password = Blank
    BY <1>4, Closings DEF OpenAddAccount
  <2>2. /\ jobs' = {} /\ queue' = << >> /\ ~tform'.open /\ link' = None
    BY <1>2, <1>4 DEF OpenAddAccount, Still
  <2> QED BY <1>3, <2>1, <2>2 DEF Tidy, Alone, Quiet, AccountForms, TotpForms, Faithful
<1>5. CASE OpenAddTotp
  <2>1. tform'.id = None /\ tform'.asked = None
    BY <1>5, Closings DEF OpenAddTotp
  <2>2. jobs' = {} /\ queue' = << >> /\ ~aform'.open /\ link' = None
    BY <1>2, <1>5 DEF OpenAddTotp, Still
  <2> QED BY <1>3, <2>1, <2>2 DEF Tidy, Alone, Quiet, AccountForms, TotpForms, Aimed
<1>6. ASSUME NEW a \in AccountId, OpenAddTotpFor(a) PROVE Tidy'
  <2>1. tform'.id = None /\ tform'.asked = None /\ tform'.open /\ tform'.for = a
    BY <1>6 DEF OpenAddTotpFor, ClosedT
  <2>2. jobs' = {} /\ queue' = << >> /\ ~aform'.open /\ link' = a
    BY <1>2, <1>6 DEF OpenAddTotpFor, Still
  <2> QED BY <1>3, <2>1, <2>2 DEF Tidy, Alone, Quiet, AccountForms, TotpForms, Aimed
<1>7. CASE TurnPage
  <2>1. jobs' = {} /\ queue' = << >> /\ ~aform'.open /\ ~tform'.open /\ link' = None
    BY <1>2, <1>7 DEF TurnPage, ClosedA
  <2> QED BY <1>3, <2>1 DEF Tidy, Alone, Quiet, AccountForms, TotpForms
<1> QED BY <1>1, <1>4, <1>5, <1>6, <1>7

\* asks for an edit, a removal or a scan,
LEMMA AskTidy ==
  ASSUME Types, Tidy, patient, UNCHANGED patient,
         \/ (\E a \in AccountId : Remove(a)) \/ (\E e \in AccountId \cup TotpId : RequestEdit(e)) \/ Scan
  PROVE  Tidy'
<1>1. DOMAIN (<< >>) = {}
  OBVIOUS
<1>2. ASSUME NEW job, Quiet, Spawn(job)
      PROVE  jobs' = {<<starts, job>>} /\ queue' = << >>
  BY <1>2 DEF Quiet, Spawn
<1>3. ASSUME Click PROVE Quiet /\ ~aform.open /\ ~tform.open /\ link = None
  BY <1>3 DEF Click, Tidy, TotpForms
<1>4. ASSUME NEW a \in AccountId, Remove(a) PROVE Tidy'
  <2> DEFINE job == [Job EXCEPT !.kind = "remove", !.id = a]
  <2>1. job.kind = "remove"
    BY DEF Job
  <2> HIDE DEF job
  <2>2. /\ jobs' = {<<starts, job>>} /\ queue' = << >> /\ ~aform'.open /\ ~tform'.open
        /\ link' = None
    BY <1>2, <1>3, <1>4 DEF Remove, job
  <2> QED BY <1>1, <2>1, <2>2 DEF Tidy, Alone, Quiet, AccountForms, TotpForms
<1>5. ASSUME NEW e \in AccountId \cup TotpId, RequestEdit(e) PROVE Tidy'
  <2> DEFINE job == [Job EXCEPT !.kind = "edit", !.id = e]
  <2>1. job.kind = "edit"
    BY DEF Job
  <2> HIDE DEF job
  <2>2. /\ jobs' = {<<starts, job>>} /\ queue' = << >> /\ ~aform'.open /\ ~tform'.open
        /\ link' = None
    BY <1>2, <1>3, <1>5 DEF RequestEdit, job
  <2> QED BY <1>1, <2>1, <2>2 DEF Tidy, Alone, Quiet, AccountForms, TotpForms
<1>6. CASE Scan
  <2> DEFINE job == [Job EXCEPT !.kind = "scan"]
  <2>1. job.kind = "scan"
    BY DEF Job
  <2> HIDE DEF job
  <2>2. /\ jobs' = {<<starts, job>>} /\ queue' = << >> /\ tform.open
        /\ UNCHANGED <<aform, tform, link>>
    BY <1>2, <1>6 DEF Scan, job
  <2>3. ~aform.open /\ Aimed(tform, tform.id, link)
    BY <2>2 DEF Tidy, Alone, TotpForms
  <2> QED BY <1>1, <2>1, <2>2, <2>3 DEF Tidy, Alone, Quiet, AccountForms, TotpForms, Aimed
<1> QED BY <1>4, <1>5, <1>6

\* types into the dialog, saves it or cancels it.
LEMMA DialogTidy ==
  ASSUME Types, Tidy, patient, UNCHANGED patient,
         \/ (\E f \in {"title", "user", "password"}, text \in Typed : TypeAccount(f, text))
         \/ (\E f \in {"name", "issuer", "secret"}, text \in Typed : TypeTotp(f, text))
         \/ SaveAccount \/ CancelAccount \/ SaveTotp \/ CancelTotp
  PROVE  Tidy'
<1>1. DOMAIN (<< >>) = {}
  OBVIOUS
<1>2. aform \in AForm /\ tform \in TForm /\ \A text \in Typed : text \in Text
  BY Texts DEF Types, Raw
<1>3. ASSUME aform.open PROVE jobs = {} /\ queue = << >> /\ ~tform.open /\ Faithful(aform) /\ link = None
  BY <1>3 DEF Tidy, Alone, Quiet, AccountForms, TotpForms
<1>4. ASSUME tform.open
      PROVE  /\ \A j \in jobs : j[2].kind = "scan"
             /\ \A i \in DOMAIN queue : queue[i].kind = "scan"
             /\ ~aform.open /\ Aimed(tform, tform.id, link)
  BY <1>4 DEF Tidy, Alone, TotpForms
<1>5. ASSUME NEW f \in AField, NEW text \in Typed, TypeAccount(f, text) PROVE Tidy'
  <2>1. /\ aform'.touched = aform.touched \cup {f} /\ aform'.id = aform.id /\ aform'.asked = aform.asked
        /\ f # "title" => aform'.title = aform.title
        /\ f # "user" => aform'.user = aform.user
        /\ f # "password" => aform'.password = aform.password
    <3>1. aform' = After(aform, f, text) /\ text \in Text
      BY <1>2, <1>5 DEF TypeAccount, After
    <3> QED BY <1>2, <3>1, TypedAccount
  <2>2. /\ jobs' = {} /\ queue' = << >> /\ ~tform'.open /\ link' = None /\ accounts' = accounts
        /\ Faithful(aform)
    BY <1>3, <1>5 DEF TypeAccount, Still
  <2>3. Faithful(aform)'
    BY <2>1, <2>2 DEF Faithful
  <2> QED BY <1>1, <2>2, <2>3 DEF Tidy, Alone, Quiet, AccountForms, TotpForms
<1>6. ASSUME NEW f \in TField, NEW text \in Typed, TypeTotp(f, text) PROVE Tidy'
  <2>1. /\ tform'.open = tform.open /\ tform'.id = tform.id /\ tform'.asked = tform.asked
        /\ tform'.for = tform.for
    BY ZenonT(60), <1>2, <1>6, TypedTotp DEF TypeTotp
  <2>2. UNCHANGED <<accounts, jobs, queue, aform, link>> /\ tform.open
    BY <1>6 DEF TypeTotp, Still
  <2> QED BY <1>4, <2>1, <2>2 DEF Tidy, Alone, Quiet, AccountForms, TotpForms, Aimed
<1>7. CASE SaveAccount
  <2> DEFINE job == [Job EXCEPT !.kind = "account", !.id = aform.id, !.form = aform]
  <2>1. job.kind = "account" /\ job.id = aform.id /\ job.form = aform
    BY DEF Job
  <2> HIDE DEF job
  <2>2. /\ jobs' = {<<starts, job>>} /\ queue' = << >> /\ accounts' = accounts
        /\ ~tform'.open /\ link' = None /\ Faithful(aform)
    BY <1>3, <1>7 DEF SaveAccount, Spawn, job
  <2>3. ~aform'.open
    BY <1>2, <1>7, Closings DEF SaveAccount
  <2>4. \A j \in jobs' : /\ j[2].kind = "account" /\ j[2].id = j[2].form.id
                         /\ Faithful(j[2].form)'
    <3>1. \A j \in jobs' : j[2] = job
      BY <2>2
    <3>2. \A form : Faithful(form) => Faithful(form)'
      BY <2>2 DEF Faithful
    <3> HIDE DEF Faithful
    <3> QED BY <2>1, <2>2, <3>1, <3>2
  <2> QED BY <1>1, <2>2, <2>3, <2>4 DEF Tidy, Alone, Quiet, AccountForms, TotpForms
<1>8. CASE CancelAccount
  <2>1. jobs' = {} /\ queue' = << >> /\ ~tform'.open /\ link' = None /\ ~aform'.open
    BY <1>2, <1>3, <1>8, Closings DEF CancelAccount, Still
  <2> QED BY <1>1, <2>1 DEF Tidy, Alone, Quiet, AccountForms, TotpForms
<1>9. CASE SaveTotp
  <2> DEFINE job == [Job EXCEPT !.kind = "totp", !.id = tform.id, !.form = tform, !.link = link]
  <2>1. job.kind = "totp" /\ job.id = tform.id /\ job.form = tform /\ job.link = link
    BY DEF Job
  <2> HIDE DEF job
  <2>2. /\ jobs' = jobs \cup {<<starts, job>>} /\ queue' = queue /\ aform' = aform
        /\ tform.open /\ link' = None
    BY <1>9 DEF SaveTotp, Spawn, LinkAfter, job
  <2>3. ~tform'.open
    BY <1>2, <1>9, Closings DEF SaveTotp
  <2>4. \A j \in jobs' : j[2].kind = "scan" \/ j[2] = job
    BY <1>4, <2>2
  <2>5. Aimed(job.form, job.id, job.link)
    BY <1>4, <2>1, <2>2
  <2> QED BY <1>4, <2>1, <2>2, <2>3, <2>4, <2>5 DEF Tidy, Alone, AccountForms, TotpForms, Aimed
<1>10. CASE CancelTotp
  <2>1. UNCHANGED <<jobs, queue, aform>> /\ tform.open /\ link' = None
    BY <1>10 DEF CancelTotp, Still
  <2>2. ~tform'.open
    BY <1>2, <1>10, Closings DEF CancelTotp
  <2> QED BY <1>4, <2>1, <2>2 DEF Tidy, Alone, AccountForms, TotpForms
<1> QED BY <1>5, <1>6, <1>7, <1>8, <1>9, <1>10 DEF AField, TField
-----------------------------------------------------------------------------
(* The steps of the threads and of the event loop *)

\* A thread that ends leaves the dialogs as a patient user expects them.
LEMMA RunTidy ==
  ASSUME Types, Tidy, patient, UNCHANGED patient, NEW j \in jobs, Run(j)
  PROVE  Tidy'
<1> DEFINE job == j[2]
<1>1. /\ jobs' = jobs \ {j} /\ UNCHANGED <<aform, tform, link>> /\ ~aform.open
      /\ Fit(job) /\ job \in Thread /\ queue \in Seq(Thread)
      /\ job.kind \in {"edit", "scan", "account", "totp", "remove"}
  BY DEF Run, Tidy, Alone, Quiet, Types, Fit, Thread
<1>2. ASSUME job.kind \in {"edit", "account", "remove"}
      PROVE  jobs' = {} /\ queue = << >> /\ ~tform.open /\ link = None
  BY <1>1, <1>2 DEF Tidy, Alone, TotpForms
<1>3. ASSUME NEW w \in Thread, Post(<<w>>)
      PROVE  /\ Len(queue') = Len(queue) + 1
             /\ \A i \in DOMAIN queue' : queue'[i] = w \/ (i \in DOMAIN queue /\ queue'[i] = queue[i])
  <2> HIDE DEF Thread
  <2>1. queue' = queue \o <<w>> /\ queue \in Seq(Thread)
    BY <1>1, <1>3 DEF Post
  <2> QED BY <1>3, <2>1, Posted
<1>4. \A i \in DOMAIN queue : queue[i].kind # "edit"
  BY DEF Tidy, Alone
<1>5. CASE job.kind = "edit"
  <2>1. Post(<<job>>) \/ queue' = queue
    BY <1>5 DEF Run
  <2>2. queue' = << >> \/ Len(queue') = 1
    BY <1>1, <1>2, <1>3, <1>5, <2>1
  <2>3. DOMAIN (<< >>) = {}
    OBVIOUS
  <2> QED BY <1>1, <1>2, <1>5, <2>2, <2>3 DEF Tidy, Alone, AccountForms, TotpForms
<1>6. CASE job.kind = "scan"
  <2>1. PICK c \in {parse_otpauth_uri(uri) : uri \in Code} \cup {NoCode} : Post(<<[job EXCEPT !.code = c]>>)
    BY <1>6 DEF Run
  <2> DEFINE w == [job EXCEPT !.code = c]
  <2>2. c \in Scanned
    BY Parsed, Empties
  <2>3. w \in Thread /\ w.kind = "scan"
    BY <1>1, <1>6, <2>2 DEF Thread
  <2>4. Post(<<w>>)
    BY <2>1
  <2> HIDE DEF w
  <2>5. \A i \in DOMAIN queue' : queue'[i].kind = "scan" \/ (i \in DOMAIN queue /\ queue'[i] = queue[i])
    BY <1>3, <2>3, <2>4
  <2>6. UNCHANGED accounts
    BY <1>6 DEF Run
  <2>7. Alone'
    BY <1>1, <1>4, <2>5 DEF Tidy, Alone
  <2>8. AccountForms' /\ TotpForms'
    BY <1>1, <2>6 DEF Tidy, AccountForms, TotpForms, Faithful, Aimed
  <2> QED BY <2>7, <2>8 DEF Tidy
<1>7. CASE job.kind = "account" \/ job.kind = "remove"
  <2>1. queue' = << >>
    BY <1>2, <1>7 DEF Run
  <2>2. DOMAIN (<< >>) = {}
    OBVIOUS
  <2> QED BY <1>1, <1>2, <1>7, <2>1, <2>2 DEF Tidy, Alone, AccountForms, TotpForms
<1>8. CASE job.kind = "totp"
  <2>1. Post(<<job>>) /\ UNCHANGED accounts
    BY <1>8 DEF Run
  <2>2. \A i \in DOMAIN queue' : queue'[i].kind = "totp" \/ (i \in DOMAIN queue /\ queue'[i] = queue[i])
    BY <1>1, <1>3, <1>8, <2>1
  <2>3. ~tform.open
    BY <1>8 DEF Tidy, Alone
  <2>4. Alone'
    BY <1>1, <1>4, <2>2, <2>3 DEF Tidy, Alone
  <2>5. AccountForms' /\ TotpForms'
    BY <1>1, <2>1 DEF Tidy, AccountForms, TotpForms, Faithful, Aimed
  <2> QED BY <2>4, <2>5 DEF Tidy
<1> QED BY <1>1, <1>5, <1>6, <1>7, <1>8

\* What the closure at the head of the queue is.
LEMMA ClosureKinds ==
  ASSUME Types, RunClosure
  PROVE  LET job == Head(queue) IN
         \/ job.kind = "scan" /\ FillScan(job.code)
         \/ job.kind = "totp" /\ AfterSave
         \/ job.kind = "edit" /\ job.id \in AccountId /\ FillAccount(job.id)
         \/ job.kind = "edit" /\ job.id \in TotpId /\ FillTotp(job.id)
<1> DEFINE job == Head(queue)
<1>1. /\ Fit(job) /\ job.kind \in {"edit", "scan", "totp"}
      /\ job.kind = "edit" => job.id \in AccountId \cup TotpId
  BY HeadFits DEF RunClosure
<1>2. CASE job.kind = "scan"
  BY <1>1, <1>2, Empties DEF RunClosure, Fit
<1>3. CASE job.kind = "totp"
  BY <1>1, <1>3, Empties DEF RunClosure, Fit, Opt
<1>4. CASE job.kind = "edit" /\ job.id \in AccountId
  BY <1>4 DEF RunClosure
<1>5. CASE job.kind = "edit" /\ job.id \notin AccountId
  BY <1>1, <1>5 DEF RunClosure
<1> QED BY <1>1, <1>2, <1>3, <1>4, <1>5

\* A code that does not fill the open dialog is no change to the next one either.
LEMMA ClosureUnscanned ==
  ASSUME Types, Unscanned, RunClosure
  PROVE  Unscanned'
<1> DEFINE job == Head(queue)
<1>1. CASE job.kind = "scan" /\ FillScan(job.code)
  <2>1. CASE tform.open /\ job.code.secret \notin {scanned.secret, Blank}
    <3>1. tform' = Filled(job.code) /\ Filled(job.code).scans = 1
      BY <1>1, <2>1 DEF FillScan, Filled, Types, TForm
    <3> QED BY <3>1 DEF Unscanned
  <2>2. CASE ~(tform.open /\ job.code.secret \notin {scanned.secret, Blank})
    <3>1. tform' = tform /\ scanned' = job.code
      BY <1>1, <2>2 DEF FillScan
    <3> QED BY <2>2, <3>1 DEF Unscanned
  <2> QED BY <2>1, <2>2
<1>2. CASE AfterSave
  <2>1. ~tform'.open
    BY <1>2, Closings DEF AfterSave, Types
  <2> QED BY <2>1 DEF Unscanned
<1>3. CASE FillAccount(job.id)
  BY <1>3 DEF FillAccount, Unscanned
<1>4. CASE FillTotp(job.id)
  BY <1>4 DEF FillTotp, Unscanned, NoCode
<1> QED BY <1>1, <1>2, <1>3, <1>4, ClosureKinds

\* A closure leaves the dialogs as a patient user expects them.
LEMMA ClosureTidy ==
  ASSUME Types, Tidy, patient, UNCHANGED patient, RunClosure
  PROVE  Tidy'
<1> DEFINE job == Head(queue)
<1>1. /\ queue # << >> /\ queue' = Tail(queue) /\ queue \in Seq(Thread)
      /\ UNCHANGED <<accounts, jobs>> /\ ~aform.open
  BY DEF RunClosure, Types, Tidy, Alone, Quiet
<1>2. /\ 1 \in DOMAIN queue /\ job = queue[1]
      /\ \A i \in DOMAIN queue' : i + 1 \in DOMAIN queue /\ queue'[i] = queue[i + 1] /\ Len(queue) # 1
      /\ Len(queue) = 1 => queue' = << >>
  <2> HIDE DEF Thread
  <2> QED BY <1>1, Taken
<1>3. /\ \A k \in jobs : k[2].kind \notin {"edit", "account", "remove"}
      /\ \A i \in DOMAIN queue' : queue'[i].kind # "edit"
  BY <1>1, <1>2 DEF Tidy, Alone
<1>4. CASE job.kind = "scan" /\ FillScan(job.code)
  <2>1. /\ tform'.open = tform.open /\ tform'.id = tform.id /\ tform'.asked = tform.asked
        /\ tform'.for = tform.for /\ UNCHANGED <<aform, link>>
    BY <1>4 DEF FillScan, Filled, Types, TForm
  <2>2. Alone'
    BY <1>1, <1>2, <1>3, <2>1 DEF Tidy, Alone
  <2>3. AccountForms' /\ TotpForms'
    BY <1>1, <2>1 DEF Tidy, AccountForms, TotpForms, Faithful, Aimed
  <2> QED BY <2>2, <2>3 DEF Tidy
<1>5. CASE job.kind = "totp" /\ AfterSave
  <2>1. ~tform.open
    BY <1>2, <1>5 DEF Tidy, Alone
  <2>2. ~tform'.open /\ UNCHANGED <<aform, link>>
    BY <1>5, Closings DEF AfterSave, Types
  <2>3. Alone'
    BY <1>1, <1>2, <1>3, <2>2 DEF Tidy, Alone
  <2>4. AccountForms' /\ TotpForms'
    BY <1>1, <2>1, <2>2 DEF Tidy, AccountForms, TotpForms, Faithful, Aimed
  <2> QED BY <2>3, <2>4 DEF Tidy
<1>6. ASSUME job.kind = "edit" PROVE jobs' = {} /\ queue' = << >> /\ ~tform.open /\ link = None
  BY <1>1, <1>2, <1>6 DEF Tidy, Alone, TotpForms
<1>7. DOMAIN (<< >>) = {}
  OBVIOUS
<1>8. CASE job.kind = "edit" /\ job.id \in AccountId /\ FillAccount(job.id)
  <2>1. UNCHANGED <<tform, link>>
    BY <1>8 DEF FillAccount
  <2>2. aform'.open => Faithful(aform)'
    <3>1. CASE main /\ accounts[job.id] # None
      BY <1>1, <1>8, <3>1 DEF FillAccount, Faithful
    <3>2. CASE ~(main /\ accounts[job.id] # None)
      BY <1>1, <1>8, <3>2 DEF FillAccount, Types, AForm
    <3> QED BY <3>1, <3>2
  <2> QED BY <1>6, <1>7, <1>8, <2>1, <2>2 DEF Tidy, Alone, Quiet, AccountForms, TotpForms
<1>9. CASE job.kind = "edit" /\ job.id \in TotpId /\ FillTotp(job.id)
  <2>1. UNCHANGED <<aform, link>>
    BY <1>9 DEF FillTotp
  <2>2. tform'.open => tform'.id = tform'.asked
    <3>1. CASE main /\ totps[job.id] # None
      BY ZenonT(60), <1>9, <3>1 DEF FillTotp, ClosedT
    <3>2. CASE ~(main /\ totps[job.id] # None)
      BY <1>6, <1>9, <3>2 DEF FillTotp
    <3> QED BY <3>1, <3>2
  <2> QED BY <1>1, <1>6, <1>7, <1>9, <2>1, <2>2 DEF Tidy, Alone, AccountForms, TotpForms, Aimed
<1> QED BY <1>4, <1>5, <1>8, <1>9, ClosureKinds
-----------------------------------------------------------------------------
(* The theorems *)

\* The main screen opens with an empty event loop, no thread and no dialog.
LEMMA InitIInv == Init => IInv
<1> SUFFICES ASSUME Init PROVE IInv
  OBVIOUS
<1> USE Empties DEF Init
<1>1. accounts \in [AccountId -> Opt(Account)] /\ totps \in [TotpId -> Opt(Totp)]
  BY EntryFormsAssumption DEF Opt, Account, Totp
<1>2. ~aform.open /\ ~tform.open /\ aform.id = None /\ tform.id = None
  BY DEF ClosedA, ClosedT
<1>3. queue = << >> /\ queue \in Seq(Thread) /\ DOMAIN queue = {} /\ jobs = {}
  <2> HIDE DEF Thread
  <2> QED OBVIOUS
<1>4. Types
  BY <1>1, <1>2, <1>3 DEF Types, TypeOK, Opt
<1>5. Unscanned /\ Tidy
  BY <1>2, <1>3 DEF Unscanned, Tidy, Alone, AccountForms, TotpForms
<1> QED BY <1>4, <1>5 DEF IInv

\* Every step keeps the invariant.
LEMMA StepIInv == IInv /\ [Next]_vars => IInv'
<1> SUFFICES ASSUME IInv, [Next]_vars PROVE IInv'
  OBVIOUS
<1>1. Types /\ Unscanned /\ (patient => Tidy)
  BY DEF IInv
<1>2. CASE UNCHANGED vars
  BY <1>1, <1>2 DEF vars, IInv, Types, TypeOK, Unscanned, Tidy, Alone, Quiet, AccountForms, TotpForms,
                    Faithful, Aimed
<1>3. ASSUME UNCHANGED patient, NEW j \in jobs, Run(j) PROVE IInv'
  <2>1. Unscanned'
    BY <1>1, <1>3 DEF Run, Unscanned
  <2> QED BY <1>1, <1>3, <2>1, RunTypes, RunTidy DEF IInv
<1>4. CASE RunClosure /\ UNCHANGED patient
  BY <1>1, <1>4, ClosureTypes, ClosureUnscanned, ClosureTidy DEF IInv
<1>5. ASSUME UNCHANGED patient,
             OpenAddAccount \/ OpenAddTotp \/ (\E a \in AccountId : OpenAddTotpFor(a)) \/ TurnPage \/ Return
      PROVE  IInv'
  BY <1>1, <1>5, UserTypes, UserUnscanned, OpenTidy DEF IInv
<1>6. ASSUME UNCHANGED patient,
             \/ (\E a \in AccountId : Remove(a)) \/ (\E e \in AccountId \cup TotpId : RequestEdit(e)) \/ Scan
      PROVE  IInv'
  BY <1>1, <1>6, UserTypes, UserUnscanned, AskTidy DEF IInv
<1>7. ASSUME UNCHANGED patient,
             \/ (\E f \in {"title", "user", "password"}, text \in Typed : TypeAccount(f, text))
             \/ (\E f \in {"name", "issuer", "secret"}, text \in Typed : TypeTotp(f, text))
             \/ SaveAccount \/ CancelAccount \/ SaveTotp \/ CancelTotp
      PROVE  IInv'
  BY <1>1, <1>7, UserTypes, UserUnscanned, DialogTidy DEF IInv
<1> QED BY <1>2, <1>3, <1>4, <1>5, <1>6, <1>7 DEF Next, Step

\* The invariant holds in every state of every behaviour.
THEOREM SpecIInv == Spec => []IInv
BY InitIInv, StepIInv, PTL DEF Spec

\* No save makes an account without a title, or an authenticator without a name or with
\* a secret that is not the clean form of a text; of a secret of spaces and dashes that
\* is a zero byte. The dialogs know only ids of their kind (on_save_entry, on_save_totp).
THEOREM SpecTypeOK == Spec => []TypeOK
<1>1. IInv => TypeOK
  BY DEF IInv, Types
<1> QED BY <1>1, SpecIInv, PTL

\* Only the end of a thread takes it out of the set, and only the event loop takes a
\* closure from its queue.
LEMMA OnlyRun ==
  ASSUME Types, Next, NEW j \in jobs, j \notin jobs'
  PROVE  Run(j)
<1>1. ASSUME NEW job, Spawn(job) PROVE FALSE
  BY <1>1 DEF Spawn
<1>2. ~Still
  BY DEF Still
<1>3. CASE \E k \in jobs : Run(k)
  BY ZenonT(60), <1>3 DEF Run
<1>4. CASE ~\E k \in jobs : Run(k)
  BY <1>1, <1>2, <1>4 DEF Next, Step, OpenAddAccount, OpenAddTotp, OpenAddTotpFor, Remove, RequestEdit,
     TurnPage, Return, TypeAccount, TypeTotp, SaveAccount, CancelAccount, SaveTotp, CancelTotp, Scan, RunClosure
<1> QED BY <1>3, <1>4

LEMMA OnlyClosure ==
  ASSUME Types, Next, queue # << >>, queue' = Tail(queue)
  PROVE  RunClosure
<1>1. queue \in Seq(Thread)
  BY DEF Types
<1> HIDE DEF Thread
<1>2. Len(queue) \in Nat /\ Len(queue') = Len(queue) - 1 /\ Len(queue') # Len(queue)
  BY <1>1, Taken
<1>3. queue' # queue
  BY <1>2, Zenon
<1>4. ASSUME NEW job, Spawn(job) PROVE FALSE
  BY <1>3, <1>4 DEF Spawn
<1>5. ~Still
  BY <1>3 DEF Still
<1>6. ASSUME NEW w, queue' = queue \o <<w>> PROVE FALSE
  <2>1. Len(queue \o <<w>>) = Len(queue) + 1
    BY <1>1, SMT
  <2>2. Len(queue') = Len(queue) + 1
    BY <1>6, <2>1, Zenon
  <2>3. \A n \in Nat : n - 1 # n + 1
    OBVIOUS
  <2> QED BY <1>2, <2>2, <2>3, Zenon
<1>7. ASSUME NEW j \in jobs, Run(j) PROVE FALSE
  BY <1>3, <1>6, <1>7 DEF Run, Post
<1> QED
  BY <1>3, <1>4, <1>5, <1>7 DEF Next, Step, OpenAddAccount, OpenAddTotp, OpenAddTotpFor, Remove, RequestEdit,
     TurnPage, Return, TypeAccount, TypeTotp, SaveAccount, CancelAccount, SaveTotp, CancelTotp, Scan

\* The first code a dialog gets fills it, whatever was scanned before (changed
\* scanned-secret): a code is posted with a secret or as none, and every way to open a
\* dialog forgets what was scanned.
THEOREM SpecFirstScanFills == Spec => FirstScanFills
<1>1. IInv /\ [Next]_vars => [ScanArrives /\ tform.scans = 0 => tform'.secret = scanned'.secret]_vars
  <2> SUFFICES ASSUME Types, Unscanned, Next, ScanArrives, tform.scans = 0
               PROVE  tform'.secret = scanned'.secret
    BY DEF IInv
  <2> DEFINE job == Head(queue)
  <2>1. RunClosure
    BY OnlyClosure DEF ScanArrives
  <2>2. FillScan(job.code) /\ Fit(job) /\ job.code # NoCode
    BY <2>1, ClosureKinds, HeadFits DEF ScanArrives
  <2>3. scanned.secret = Blank /\ job.code.secret # Blank /\ tform.open
    BY <2>2 DEF Unscanned, ScanArrives, Fit
  <2>4. tform' = Filled(job.code) /\ scanned' = job.code
    BY <2>2, <2>3 DEF FillScan
  <2>5. Filled(job.code).secret = job.code.secret
    BY DEF Filled, Types, TForm
  <2> QED BY <2>4, <2>5
<1> QED BY <1>1, SpecIInv, PTL DEF Spec, FirstScanFills

\* For a patient user "Add Account" changes no account, and "Save Changes" changes the
\* one the dialog was filled with, and of it what the user touched (on_save_entry): no
\* thread changes the vault while the dialog stands open.
THEOREM SpecAccountAsAsked == Spec => AccountAsAsked
<1> DEFINE Asked == \A j \in jobs : Ran("account", j) =>
      LET form == j[2].form
          before == accounts[form.asked]
          after == accounts'[form.asked]
      IN
      patient =>
      /\ \A a \in AccountId \ {form.asked} : accounts[a] # None => accounts'[a] = accounts[a]
      /\ form.asked # None /\ before # None =>
           /\ after.title = form.title
           /\ \A f \in {"title", "user", "password"} \ form.touched : after[f] = before[f]
<1>1. IInv /\ [Next]_vars => [Asked]_vars
  <2> SUFFICES ASSUME IInv, Next, NEW j \in jobs, Ran("account", j), patient
               PROVE  LET form == j[2].form
                          before == accounts[form.asked]
                          after == accounts'[form.asked]
                      IN
                      /\ \A a \in AccountId \ {form.asked} : accounts[a] # None => accounts'[a] = accounts[a]
                      /\ form.asked # None /\ before # None =>
                           /\ after.title = form.title
                           /\ \A f \in {"title", "user", "password"} \ form.touched : after[f] = before[f]
    OBVIOUS
  <2> DEFINE job == j[2]
             form == job.form
  <2>1. /\ accounts \in [AccountId -> Opt(Account)]
        /\ job.id \in Opt(AccountId) /\ job.id = form.asked /\ Faithful(form)
    BY DEF IInv, Types, TypeOK, Tidy, AccountForms, Faithful, Ran, Fit
  <2>2. accounts' \in SavedAccounts(job)
    BY OnlyRun DEF IInv, Ran, Run
  <2>3. CASE form.asked # None /\ accounts[form.asked] # None
    <3>1. accounts' = [accounts EXCEPT ![form.asked] = AccountOf(accounts[form.asked], form)]
      BY <2>1, <2>2, <2>3 DEF SavedAccounts
    <3>2. form.asked \in AccountId
      BY <2>1, <2>3 DEF Opt
    <3>3. /\ accounts'[form.asked] = AccountOf(accounts[form.asked], form)
          /\ \A a \in AccountId \ {form.asked} : accounts'[a] = accounts[a]
      BY <2>1, <3>1, <3>2
    <3>4. /\ AccountOf(accounts[form.asked], form).title = form.title
          /\ AccountOf(accounts[form.asked], form).user = form.user
          /\ form.password = Blank =>
               AccountOf(accounts[form.asked], form).password = accounts[form.asked].password
      BY <2>3 DEF AccountOf
    <3> QED BY <2>1, <2>3, <3>3, <3>4 DEF Faithful
  <2>4. CASE form.asked # None /\ accounts[form.asked] = None
    BY <2>1, <2>2, <2>4 DEF SavedAccounts
  <2>5. CASE form.asked = None
    BY <2>1, <2>2, <2>5 DEF SavedAccounts
  <2> QED BY <2>3, <2>4, <2>5
<1> QED BY <1>1, SpecIInv, PTL DEF Spec, AccountAsAsked

\* An authenticator is linked to the account its dialog was opened for or to one of its
\* own names, and to none that an earlier dialog of a patient user was about
\* (on_save_totp): no target outlives the dialog it was set for.
THEOREM SpecLinkedAsAsked == Spec => LinkedAsAsked
<1> DEFINE Linked == \A j \in jobs : Ran("totp", j) =>
      LET form == j[2].form IN
      \A t \in TotpId : (patient /\ totps'[t] # totps[t] /\ totps'[t].link \notin {None, form.for})
        => \/ form.asked = None /\ totps'[t].link \in SmartLinks(form)
           \/ form.asked = t /\ totps'[t].link = totps[t].link
<1>1. IInv /\ [Next]_vars => [Linked]_vars
  <2> SUFFICES ASSUME IInv, Next, NEW j \in jobs, Ran("totp", j), patient, NEW t \in TotpId,
                      totps'[t] # totps[t], totps'[t].link \notin {None, j[2].form.for}
               PROVE  \/ j[2].form.asked = None /\ totps'[t].link \in SmartLinks(j[2].form)
                      \/ j[2].form.asked = t /\ totps'[t].link = totps[t].link
    OBVIOUS
  <2> DEFINE job == j[2]
             form == job.form
  <2>1. /\ totps \in [TotpId -> Opt(Totp)] /\ job.id \in Opt(TotpId)
        /\ job.id = form.asked /\ job.link \in {None, form.for}
    BY DEF IInv, Types, TypeOK, Tidy, TotpForms, Aimed, Ran, Fit
  <2>2. totps' \in SavedTotps(job)
    BY OnlyRun DEF IInv, Ran, Run
  <2>3. CASE job.id # None
    <3>1. totps[job.id] # None
      BY <2>2, <2>3 DEF SavedTotps
    <3>2. totps' = [totps EXCEPT ![job.id] =
                     TotpOf(form, IF job.link # None THEN job.link ELSE totps[job.id].link)]
      BY <2>1, <2>2, <2>3, <3>1 DEF SavedTotps
    <3>3. t = job.id
      BY <2>1, <3>2
    <3>4. totps'[t].link = IF job.link # None THEN job.link ELSE totps[t].link
      BY <2>1, <3>2, <3>3 DEF TotpOf
    <3> QED BY <2>1, <3>3, <3>4
  <2>4. CASE job.id = None
    <3>1. PICK u \in TotpId, to \in Links(job) : totps' = [totps EXCEPT ![u] = TotpOf(form, to)]
      BY <2>2, <2>4 DEF SavedTotps
    <3>2. t = u /\ totps'[t].link = to
      BY <2>1, <3>1 DEF TotpOf
    <3> QED BY <2>1, <2>4, <3>2 DEF Links
  <2> QED BY <2>3, <2>4
<1> QED BY <1>1, SpecIInv, PTL DEF Spec, LinkedAsAsked
=============================================================================
