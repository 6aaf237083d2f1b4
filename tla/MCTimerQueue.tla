----------------------------- MODULE MCTimerQueue -----------------------------
\* A small instance of TimerQueue for TLC.
EXTENDS TimerQueue

\* A timeout short enough to overtake another timer's, and one that is not.
MCTimeouts == {1, 2}
==============================================================================
