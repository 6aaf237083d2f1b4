---------------------------- MODULE MCRadioCycle ----------------------------
\* Small instances of RadioCycle for TLC.  A tick is about a minute.
EXTENDS RadioCycle

\* T1 granted by the server; the second one is too short to be kept.
MCLeases == {1, 6}
=============================================================================
