------------------------------ MODULE MCWatchdog ------------------------------
\* Small instances of Watchdog for TLC: its constants are numbers.
EXTENDS Watchdog
=============================================================================
