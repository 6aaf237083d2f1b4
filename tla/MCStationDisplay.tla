-------------------------- MODULE MCStationDisplay --------------------------
\* Small instances of StationDisplay for TLC.
EXTENDS StationDisplay

\* Two LEDs tell empty, partly filled and full rows apart.
MCRow == 2
=============================================================================
