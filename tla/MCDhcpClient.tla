----------------------------- MODULE MCDhcpClient -----------------------------
\* A small instance of DhcpClient for TLC.
EXTENDS DhcpClient

\* T1 at half the lease, T2 near its end.
MCLeases == {[t1 |-> 1, t2 |-> 2, end |-> 4]}
==============================================================================
