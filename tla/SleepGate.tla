------------------------------ MODULE SleepGate ------------------------------
(***************************************************************************)
(* What the firmware promises about WiFi and CPU light sleep (the header   *)
(* of src/src/power.rs): the radio is powered only while sleep is          *)
(* forbidden, and a nap starts only while it is allowed.  RadioCycle       *)
(* implements this.                                                        *)
(***************************************************************************)
VARIABLES
    radioUp,   \* the WiFi hardware is powered
    allowed,   \* the idle hook may put the CPU to sleep
    napping    \* the CPU is in light sleep

gateVars == <<radioUp, allowed, napping>>

Init == ~radioUp /\ ~allowed /\ ~napping

PowerUp   == ~allowed /\ radioUp' = TRUE /\ UNCHANGED <<allowed, napping>>
PowerDown == ~napping /\ radioUp' = FALSE /\ UNCHANGED <<allowed, napping>>
Permit    == ~radioUp /\ allowed' = TRUE /\ UNCHANGED <<radioUp, napping>>
\* A start attempt can fail after powering the radio down again.
PermitDown == ~napping /\ radioUp' = FALSE /\ allowed' = TRUE /\ UNCHANGED napping
Revoke    == ~napping /\ allowed' = FALSE /\ UNCHANGED <<radioUp, napping>>
Nap       == allowed /\ ~napping /\ napping' = TRUE /\ UNCHANGED <<radioUp, allowed>>
Wake      == napping' = FALSE /\ UNCHANGED <<radioUp, allowed>>
Reset     == ~radioUp' /\ ~allowed' /\ ~napping'

Next == \/ PowerUp \/ PowerDown \/ Permit \/ PermitDown \/ Revoke
        \/ Nap \/ Wake \/ Reset

Spec == Init /\ [][Next]_gateVars

\* What the protocol is for.
Safe == napping => ~radioUp
==============================================================================
