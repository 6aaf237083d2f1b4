---------------------------- MODULE MCProvisioning ----------------------------
\* Small instances of Provisioning for TLC.
EXTENDS Provisioning

\* An open network has an empty password.
MCPasswords == {"p1", "empty"}
MCPairs == {[ssid |-> "s1", password |-> "p1"], [ssid |-> "s2", password |-> "empty"]}
===============================================================================
