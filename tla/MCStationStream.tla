---------------------------- MODULE MCStationStream ----------------------------
\* Small instances of StationStream for TLC: three targets, of which the array
\* has room for two, and a station that is not a target.
EXTENDS StationStream

MCStation(id, bikes, ebikes) == [id |-> id, bikes |-> bikes, ebikes |-> ebikes]

\* Counts include one above a byte and more e-bikes than bikes.
MCObjects == {MCStation(0, 3, 1), MCStation(0, 9, 2), MCStation(1, 1, 2), MCStation(3, 1, 1)}
MCFewObjects == {MCStation(0, 3, 1), MCStation(1, 2, 1), MCStation(2, 1, 0)}
MCPreambles == {0, 4}
================================================================================
