--------------------------- MODULE SecretsOnScreen ---------------------------
(***************************************************************************)
(* Passwords in the detail panel and texts in the clipboard: who puts them *)
(* there, and which timer takes them away again.                           *)
(*                                                                         *)
(* Revealing or copying a password, and copying a TOTP code, spawns a      *)
(* thread that asks Windows Hello, reads the entry under the mutex and     *)
(* posts a closure.  Revealing then sleeps and posts a closure that hides. *)
(* copy_to_clipboard spawns a thread that sleeps and empties the           *)
(* clipboard.  A secret is named by the account it belongs to.             *)
(*                                                                         *)
(* Time is kept as what remains of each sleep.  A sleeper may oversleep:   *)
(* one with nothing left is woken some time later.                         *)
(***************************************************************************)
EXTENDS Naturals, Sequences, FiniteSets

CONSTANTS
  Account,     \* accounts of all vaults
  Vault,       \* the vaults of the user, each the set of its accounts
  Thread,      \* prompting threads alive at a time (a bound)
  Timeout,     \* the 10 seconds, in ticks
  Patience,    \* the users of a run: TRUE waits for each operation, FALSE for none
  MaxStarts,   \* operations a patient user starts in a behaviour (a bound)
  HastyStarts, \* operations the other one starts (a bound)
  None, Empty, \* no account; nothing in the clipboard
  Text, Foreign \* a URL or a generated password; what another program copied

ASSUME SecretsAssumption ==
  /\ Vault \subseteq SUBSET Account /\ {} \notin Vault
  /\ Timeout \in Nat \ {0}
  /\ Patience \subseteq BOOLEAN
  /\ MaxStarts \in Nat /\ HastyStarts \in Nat
  /\ {None, Empty, Text, Foreign} \cap Account = {}
  /\ Cardinality({Empty, Text, Foreign}) = 3

VARIABLES
  vault,      \* AppState.vault: the accounts of the open vault, {} without one
  screen,     \* "main", "page" (generator or settings), "unlock"
  selected,   \* selected-entry-id
  revealed,   \* revealed-password, None while is-password-revealed is false
  clipboard,  \* its text, the ticks since the program set it, and whether the
              \* thread that was to clear it is gone without having cleared it
  clearers,   \* what remains of each sleep before a clearing, oldest first
  worker,     \* the prompting threads
  queue,      \* closures waiting in the event loop, oldest first
  started,    \* operations started so far
  patient     \* the user of this behaviour

steps == <<vault, screen, selected, revealed, clipboard, clearers, worker, queue, started>>
vars == <<steps, patient>>

NoJob == [kind |-> "none", pc |-> "idle", id |-> None, left |-> 0]
Job == [kind : {"none", "reveal", "copy"}, pc : {"idle", "prompt", "read", "sleep"},
        id : Account \cup {None}, left : 0..Timeout]
Closure == [do : {"show", "hide", "copy"}, of : Account \cup {None}]

Secret == Account \cup {Text}
Sleepers == {t \in Thread : worker[t].pc = "sleep"}
Less(n) == IF n = 0 THEN 0 ELSE n - 1

-----------------------------------------------------------------------------
(* The clipboard *)

Holding(text) == [text |-> text, age |-> 0, orphan |-> FALSE]

\* Open, empty, set the text, close, and only then spawn the clearing thread. While
\* another program has it open the clipboard stays as it is, a later failure leaves
\* it empty.
\* (mutant: a plain text is not timed)
CopyUntimed(x) ==
  clipboard' = Holding(x) /\ clearers' = (IF x = Text THEN clearers ELSE Append(clearers, Timeout))
copy_to_clipboard(x) ==
  \/ clipboard' = Holding(x) /\ clearers' = Append(clearers, Timeout)
  \/ UNCHANGED <<clipboard, clearers>>
  \/ clipboard' = Holding(Empty) /\ UNCHANGED clearers

\* The thread of an earlier copy clears whatever is there now; when it cannot
\* open the clipboard it ends as well.
Clear ==
  /\ clearers # <<>> /\ Head(clearers) = 0
  /\ clearers' = Tail(clearers)
  /\ \/ clipboard' = Holding(Empty)
     \/ clipboard' = [clipboard EXCEPT !.orphan = clipboard.text \in Secret /\ clipboard.age = Timeout]
  /\ UNCHANGED <<vault, screen, selected, revealed, worker, queue, started>>

-----------------------------------------------------------------------------
(* The callbacks of the window *)

InUse == started < (IF patient THEN MaxStarts ELSE HastyStarts) /\ started' = started + 1

Spawn(t, kind, a) ==
  /\ InUse
  /\ worker[t] = NoJob
  /\ worker' = [worker EXCEPT ![t] = [NoJob EXCEPT !.kind = kind, !.pc = "prompt", !.id = a]]
  /\ UNCHANGED <<vault, screen, selected, revealed, clipboard, clearers, queue>>

\* The eye button of the panel asks to reveal only while nothing is revealed.
RevealPassword(t) ==
  screen = "main" /\ selected # None /\ revealed = None /\ Spawn(t, "reveal", selected)

\* Copy Password and the copy button of a TOTP code: the list, the context menu
\* and the panel offer them, for any entry shown.
CopySecret(t, a) == screen = "main" /\ a \in vault /\ Spawn(t, "copy", a)

\* Copy Username reads the entry at once; a URL or a generated password is
\* copied from the window, from the generator page too.
CopyNow(x) ==
  /\ InUse
  /\ \/ screen = "main" /\ x \in vault
     \/ screen \in {"main", "page"} /\ x = Text
  /\ copy_to_clipboard(x)
  /\ UNCHANGED <<vault, screen, selected, revealed, worker, queue>>

Hide ==
  /\ screen = "main" /\ selected # None /\ revealed # None
  /\ revealed' = None
  /\ UNCHANGED <<vault, screen, selected, clipboard, clearers, worker, queue, started>>

\* A click in the list, or on a tab (None).
\* (mutant: the selection moves on with the password still there)
SelectOnly(a) ==
  /\ screen = "main" /\ selected' = a
  /\ UNCHANGED <<vault, screen, revealed, clipboard, clearers, worker, queue, started>>
SelectEntry(a) ==
  /\ screen = "main"
  /\ a \in vault \cup {None}
  /\ selected' = a /\ revealed' = None
  /\ UNCHANGED <<vault, screen, clipboard, clearers, worker, queue, started>>

\* To the generator or the settings, and back; the window keeps its properties.
TurnPage ==
  /\ \/ screen = "main" /\ screen' = "page"
     \/ screen = "page" /\ screen' = "main"
  /\ UNCHANGED <<vault, selected, revealed, clipboard, clearers, worker, queue, started>>

Lock ==
  /\ screen = "main"
  /\ vault' = {} /\ screen' = "unlock"
  /\ UNCHANGED <<selected, revealed, clipboard, clearers, worker, queue, started>>

Unlock(v) ==
  /\ InUse
  /\ screen = "unlock"
  /\ vault' = v /\ screen' = "main"
  /\ UNCHANGED <<selected, revealed, clipboard, clearers, worker, queue>>

\* The process ends, its threads with it; the clipboard belongs to the system.
Exit ==
  /\ vault' = {} /\ screen' = "unlock" /\ selected' = None /\ revealed' = None
  /\ clearers' = <<>> /\ queue' = <<>> /\ worker' = [t \in Thread |-> NoJob]
  /\ clipboard' = [clipboard EXCEPT !.orphan = clipboard.text \in Secret]
  /\ UNCHANGED started

OtherProgramCopies ==
  /\ clipboard' = Holding(Foreign)
  /\ UNCHANGED <<vault, screen, selected, revealed, clearers, worker, queue, started>>

-----------------------------------------------------------------------------
(* The threads and the event loop *)

\* authenticate_user: Verified, or anything else (denied, cancelled, busy).
Answer(t) ==
  /\ worker[t].pc = "prompt"
  /\ \/ worker' = [worker EXCEPT ![t].pc = "read"]
     \/ worker' = [worker EXCEPT ![t] = NoJob]
  /\ UNCHANGED <<vault, screen, selected, revealed, clipboard, clearers, queue, started>>

Post(do, a) == queue' = Append(queue, [do |-> do, of |-> a])

Asleep(t) == [worker EXCEPT ![t].pc = "sleep", ![t].left = Timeout]

\* The vault that is open now is searched for the entry. A revealing thread
\* sleeps in either case.
Read(t) ==
  LET w == worker[t] IN
  /\ w.pc = "read"
  /\ IF w.id \in vault
     THEN Post(IF w.kind = "reveal" THEN "show" ELSE "copy", w.id)
     ELSE UNCHANGED queue
  /\ worker' = (IF w.kind = "reveal" THEN Asleep(t) ELSE [worker EXCEPT ![t] = NoJob])
  /\ UNCHANGED <<vault, screen, selected, revealed, clipboard, clearers, started>>

\* (mutant: a password that was hidden and shown again meanwhile is left alone)
WakeIfSelected(t) ==
  /\ worker[t].pc = "sleep" /\ worker[t].left = 0
  /\ IF selected = worker[t].id THEN Post("hide", None) ELSE UNCHANGED queue
  /\ worker' = [worker EXCEPT ![t] = NoJob]
  /\ UNCHANGED <<vault, screen, selected, revealed, clipboard, clearers, started>>
Wake(t) ==
  /\ worker[t].pc = "sleep" /\ worker[t].left = 0
  /\ Post("hide", None)
  /\ worker' = [worker EXCEPT ![t] = NoJob]
  /\ UNCHANGED <<vault, screen, selected, revealed, clipboard, clearers, started>>

\* The closures look neither at the screen, the selection nor the vault.
RunClosure ==
  /\ queue # <<>>
  /\ queue' = Tail(queue)
  /\ LET c == Head(queue) IN
       \/ c.do = "copy" /\ copy_to_clipboard(c.of) /\ UNCHANGED revealed
       \/ c.do # "copy" /\ revealed' = c.of /\ UNCHANGED <<clipboard, clearers>>
  /\ UNCHANGED <<vault, screen, selected, worker, started>>

\* A second passes for every sleeper.
Tick ==
  /\ clipboard' = [clipboard EXCEPT !.age = IF clipboard.text \in Secret /\ @ < Timeout THEN @ + 1 ELSE @]
  /\ clearers' = [i \in DOMAIN clearers |-> Less(clearers[i])]
  /\ worker' = [t \in Thread |-> [worker[t] EXCEPT !.left = Less(@)]]
  /\ UNCHANGED <<vault, screen, selected, revealed, queue, started>>

-----------------------------------------------------------------------------
Init ==
  /\ vault = {} /\ screen = "unlock"
  /\ selected = None /\ revealed = None
  /\ clipboard = Holding(Empty)
  /\ clearers = <<>> /\ queue = <<>>
  /\ worker = [t \in Thread |-> NoJob]
  /\ started = 0
  /\ patient \in Patience

Operation ==
  \/ \E t \in Thread : RevealPassword(t) \/ \E a \in Account : CopySecret(t, a)
  \/ \E x \in Secret : CopyNow(x)
Navigation ==
  \/ TurnPage \/ Lock
  \/ \E a \in Account \cup {None} : SelectEntry(a)
  \/ \E v \in Vault : Unlock(v)
ThreadStep(t) == Read(t) \/ Wake(t)
Machine == Clear \/ RunClosure \/ Tick \/ \E t \in Thread : ThreadStep(t)

\* A patient user asks for something new when the last thing has run its course, and
\* goes on to another entry or page when its prompt is answered.
Calm == queue = <<>> /\ clearers = <<>> /\ \A t \in Thread : worker[t] = NoJob
Answered == queue = <<>> /\ \A t \in Thread : worker[t].pc \in {"idle", "sleep"}
Next ==
  /\ \/ (Operation \/ Exit) /\ (patient => Calm)
     \/ Navigation /\ (patient => Answered)
     \/ Hide \/ OtherProgramCopies
     \/ Machine \/ \E t \in Thread : Answer(t)
  /\ UNCHANGED patient

Spec == Init /\ [][Next]_vars

\* Threads run, the event loop drains its queue and time passes; nobody has to
\* answer a prompt or to do anything else.
Fairness == /\ WF_steps(Clear) /\ WF_steps(RunClosure) /\ WF_steps(Tick)
            /\ \A t \in Thread : WF_steps(ThreadStep(t))
FairSpec == Spec /\ Fairness

-----------------------------------------------------------------------------
TypeOK ==
  /\ vault \in Vault \cup {{}}
  /\ screen \in {"main", "page", "unlock"}
  /\ selected \in Account \cup {None}
  /\ revealed \in Account \cup {None}
  /\ clipboard \in [text : Secret \cup {Empty, Foreign}, age : 0..Timeout, orphan : BOOLEAN]
  /\ clearers \in Seq(0..Timeout)
  /\ worker \in [Thread -> Job]
  /\ queue \in Seq(Closure)
  /\ started \in Nat

\* Whatever the user clicks, locks or opens meanwhile, every secret the program has
\* shown is on its way out: a password in the window has a thread asleep, or a
\* closure posted, that takes it out again (on_reveal_password, scopes B and C), and
\* what was copied has a thread asleep that clears it, whichever copy that was for,
\* until its own thread found the clipboard open or ended with the process. Texts of
\* other programs and failed copies in between change nothing of it.
SecretsTimed ==
  /\ TypeOK
  /\ revealed # None => Sleepers # {} \/ \E i \in DOMAIN queue : queue[i].do = "hide"
  /\ clipboard.text \in Secret /\ ~clipboard.orphan => clearers # <<>>

\* "Copies credentials to your clipboard with automatic clearing", unless another
\* program had the clipboard open at that moment or the window was closed before; and
\* no password stays in the window for good, also when it was shown on a locked
\* window, after a change of vault, or behind another page.
SecretsEnd ==
  /\ (revealed # None) ~> (revealed = None)
  /\ (clipboard.text \in Secret) ~> (clipboard.text \notin Secret \/ clipboard.orphan)

\* The panel of the selected entry shows no other entry's password to a patient user.
PanelShowsOwn == patient /\ screen = "main" /\ selected # None => revealed \in {selected, None}
=============================================================================
