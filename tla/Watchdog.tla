------------------------------ MODULE Watchdog ------------------------------
(***************************************************************************)
(* The watchdog of the security monitor: the monitor thread stores the     *)
(* wall clock in a shared atomic once per pass, and a watcher thread wakes *)
(* every second, loads it, reads the clock and ends the process when the   *)
(* two are more than timeout_secs apart.  The stored clock is in whole     *)
(* seconds, the clock may be set while the program runs, and the watcher   *)
(* may be kept waiting before it loads, or between its two reads.          *)
(*                                                                         *)
(* Time runs in ticks, R to a second.  The clock and the stored beat are   *)
(* kept as their difference, so that a behaviour may go on for ever.  What *)
(* the monitor does in a pass is time it takes; a pass that is under way   *)
(* when the monitor stalls has let go of every other thread.               *)
(***************************************************************************)
EXTENDS Integers

CONSTANTS
  R,          \* ticks in a second
  Timeout,    \* timeout_secs
  MaxPass,    \* ticks between two beats of a monitor that does not stall
  Late,       \* ticks the watcher may be kept waiting between two wakes
  MayStall,   \* whether the monitor may stop for good
  Jumps,      \* seconds by which the clock may be set
  MaxJumps,   \* how often (a bound)
  Horizon     \* ticks after which the age of a beat is not told apart (a bound)

ASSUME WatchdogAssumption ==
  /\ R \in Nat \ {0} /\ Timeout \in Nat /\ MaxPass \in Nat /\ Late \in Nat
  /\ MayStall \in BOOLEAN /\ Jumps \subseteq Int /\ MaxJumps \in Nat
  /\ Horizon \in Nat /\ Horizon > MaxPass

VARIABLES
  phase,     \* ticks gone in the second the wall clock shows
  lag,       \* the clock's seconds minus the stored beat
  since,     \* real ticks since the monitor stored it
  stalled,   \* the monitor has stopped
  watcher,   \* "asleep", "loaded"
  left,      \* ticks until the watcher's sleep is over
  slack,     \* ticks it may still be kept waiting
  seen,      \* the clock's seconds minus the beat it loaded
  jumps,     \* how often the clock was set
  forward,   \* history: which of lag and seen it was set forward in
  ended      \* panic_action ran
watchVars == <<phase, lag, since, stalled, watcher, left, slack, seen, jumps, forward, ended>>

\* Watchdog::beat. Its seconds are those the clock shows.
Beat == /\ ~ended /\ ~stalled
        /\ lag' = 0 /\ since' = 0 /\ forward' = forward \ {"lag"}
        /\ UNCHANGED <<phase, stalled, watcher, left, slack, seen, jumps, ended>>

Stall == /\ MayStall /\ ~ended /\ ~stalled
         /\ stalled' = TRUE
         /\ UNCHANGED <<phase, lag, since, watcher, left, slack, seen, jumps, forward, ended>>

LoadBeat == /\ ~ended /\ watcher = "asleep" /\ left = 0
            /\ watcher' = "loaded" /\ seen' = lag
            /\ forward' = IF "lag" \in forward THEN {"lag", "seen"} ELSE {}
            /\ UNCHANGED <<phase, lag, since, stalled, left, slack, jumps, ended>>

\* now.saturating_sub(last_beat) > timeout_secs
\* (mutants: the difference wraps; or must be the very next second)
OverdueWrapping(s) == s > Timeout \/ s < 0
OverdueOnce(s) == s = Timeout + 1
Overdue(s) == s > Timeout

Check == /\ ~ended /\ watcher = "loaded"
         /\ watcher' = "asleep" /\ left' = R /\ slack' = Late /\ seen' = 0
         /\ ended' = Overdue(seen)
         /\ forward' = IF ended' THEN forward ELSE forward \ {"seen"}
         /\ UNCHANGED <<phase, lag, since, stalled, jumps>>

\* A tick passes, unless the monitor must beat or the watcher must act first.
Tick ==
  LET next == IF phase = R - 1 THEN 0 ELSE phase + 1
      more == IF next = 0 THEN 1 ELSE 0
      waits == watcher = "loaded" \/ left = 0
  IN /\ ~ended
     /\ stalled \/ since < MaxPass
     /\ waits => slack > 0
     /\ phase' = next
     /\ lag' = IF since < Horizon THEN lag + more ELSE lag
     /\ seen' = IF watcher = "loaded" THEN seen + more ELSE seen
     /\ since' = IF since < Horizon THEN since + 1 ELSE since
     /\ left' = IF left > 0 THEN left - 1 ELSE left
     /\ slack' = IF waits THEN slack - 1 ELSE slack
     /\ UNCHANGED <<stalled, watcher, jumps, forward, ended>>

SetClock(d) == /\ ~ended /\ jumps < MaxJumps
               /\ lag' = lag + d /\ seen' = IF watcher = "loaded" THEN seen + d ELSE seen
               /\ jumps' = jumps + 1
               /\ forward' = IF d <= 0 THEN forward
                             ELSE IF watcher = "loaded" THEN {"lag", "seen"} ELSE {"lag"}
               /\ UNCHANGED <<phase, since, stalled, watcher, left, slack, ended>>

WatchInit == /\ phase \in 0..(R - 1) /\ lag = 0 /\ since = 0 /\ stalled = FALSE
             /\ watcher = "asleep" /\ left = R /\ slack = Late /\ seen = 0
             /\ jumps = 0 /\ forward = {} /\ ended = FALSE

WatchNext == Beat \/ Stall \/ LoadBeat \/ Check \/ Tick \/ \E d \in Jumps : SetClock(d)

\* Who is late is bounded by the guard of Tick: time stands still until the other acts.
WatchSpec == WatchInit /\ [][WatchNext]_watchVars

-----------------------------------------------------------------------------
(* Properties *)

WatchTypeOK ==
  /\ phase \in 0..(R - 1) /\ lag \in Int /\ since \in 0..Horizon
  /\ stalled \in BOOLEAN /\ ended \in BOOLEAN /\ watcher \in {"asleep", "loaded"}
  /\ left \in 0..R /\ slack \in 0..Late /\ seen \in Int /\ jumps \in 0..MaxJumps
  /\ forward \subseteq {"lag", "seen"}

\* "If this panic_action executes, it means our security monitor thread was
\* suspended": whole seconds, a late watcher and a clock set back never end a
\* process whose monitor beats in time (start_watcher, start_security_monitor); a
\* clock set forward does, until the next beat and the next look.
AlarmMeansStalled == ended => stalled \/ "seen" \in forward

\* Every field has its type, and a monitor that stopped is noticed within two seconds
\* of its timeout: one that the whole seconds cost, and one that the watcher sleeps.
AlarmInTime ==
  /\ WatchTypeOK
  /\ stalled /\ ~ended /\ jumps = 0 => since <= (Timeout + 2) * R + Late
=============================================================================
