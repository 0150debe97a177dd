----------------------------- MODULE MCWatchdog -----------------------------
EXTENDS Watchdog
\* The clock is set back or forward, by more than the timeout.
BackAndForth == {-2, 4}
=============================================================================
