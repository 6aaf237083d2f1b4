--------------------------- MODULE RadioCycleProofs ---------------------------
(***************************************************************************)
(* Theorems about RadioCycle, for every value of its constants.            *)
(***************************************************************************)
EXTENDS RadioCycle, TLAPS

\* The inductive core: sleep is permitted only in the gap and only with the
\* radio stopped, and the CPU naps only while it is.
FlagInv == ~radioActive => pc = "gap" /\ radio = "stopped"
NapInv == napping => ~radioActive /\ gap > 0
SleepInv == FlagInv /\ NapInv

\* The end of a cycle keeps the types.
LEMMA FinishCycleType ==
    ASSUME TypeOK, NEW result, FinishCycle(result), radio' = radio,
           UNCHANGED <<hook, battery>>
    PROVE  TypeOK'
<1>1. /\ txPower' \in TxMin .. TxMax /\ streak' \in 0 .. Successes - 1
      /\ okRun' \in 0 .. MaxOkRun
  BY TxAssumption DEF TxAssumption, TypeOK, FinishCycle, ResetTxPower, StepTxPowerOnSuccess
<1>2. lease' \in [t1 : Nat, age : Nat] /\ gap' \in Nat
  BY TimeAssumption DEF TimeAssumption, TypeOK, FinishCycle, NoLease
<1>3. radioActive' \in BOOLEAN
  BY DEF FinishCycle, StoreRadioActive
<1>4. txPower' \in Nat
  BY <1>1, TxAssumption DEF TxAssumption
<1>5. status' \in [connected : BOOLEAN, tx : Nat]
  BY <1>4 DEF TypeOK, FinishCycle
<1>6. QED
  BY <1>1, <1>2, <1>3, <1>5 DEF TypeOK, FinishCycle, Phases, hook

LEMMA TeardownType ==
    ASSUME TypeOK, NEW result \in Failures \union {"none", "Success"}, Teardown(result),
           UNCHANGED <<radio, hook, battery>>
    PROVE  TypeOK'
<1>1. CASE FinishCycle(result)
  BY <1>1, FinishCycleType DEF hook
<1>2. CASE ~FinishCycle(result)
  BY <1>2 DEF TypeOK, Teardown, Phases, power, address, hook
<1>3. QED
  BY <1>1, <1>2

LEMMA TypeInit == Init => TypeOK
<1> SUFFICES ASSUME Init PROVE TypeOK
  OBVIOUS
<1>1. txPower \in TxMin .. TxMax /\ streak \in 0 .. Successes - 1 /\ okRun \in 0 .. MaxOkRun
  BY TxAssumption DEF TxAssumption, Init
<1>2. lease \in [t1 : Nat, age : Nat] /\ status \in [connected : BOOLEAN, tx : Nat]
  BY TxAssumption DEF TxAssumption, Init, NoLease
<1>3. QED
  BY <1>1, <1>2, TimeAssumption DEF TimeAssumption, Init, TypeOK, Phases

\* A reset lands in an initial state.
LEMMA TypeInitNext == Init' => TypeOK'
BY TypeInit, PTL

LEMMA TypeNext == TypeOK /\ [Next]_vars => TypeOK'
<1> SUFFICES ASSUME TypeOK, [Next]_vars PROVE TypeOK'
  OBVIOUS
<1> USE DEF TypeOK, Phases
<1>1. CASE Setup
  BY <1>1 DEF Setup, power, address, timers, hook
<1>2. CASE ScanFound
  BY <1>2 DEF ScanFound, link, power, address, timers, hook
<1>3. CASE ScanMissing
  <2>1. napping' = FALSE
    BY <1>3 DEF ScanMissing
  <2>2. Init'
    BY <1>3, <2>1 DEF ScanMissing, Init
  <2>3. TypeOK'
    BY <2>2, TypeInitNext
  <2>4. QED
    BY <2>3
<1>4. CASE BeginCycle
  BY <1>4 DEF BeginCycle, ConfigureAndConnect, CanReuse, power, hook
<1>5. CASE StartOk
  BY <1>5 DEF StartOk, ConfigureAndConnect, CanReuse, power, hook
<1>6. CASE StartFails
  <2>1. txPower' \in TxMin .. TxMax /\ streak' \in 0 .. Successes - 1 /\ okRun' \in 0 .. MaxOkRun
    BY <1>6, TxAssumption DEF TxAssumption, StartFails, ResetTxPower
  <2>2. lease' \in [t1 : Nat, age : Nat] /\ gap' \in Nat
    BY <1>6, TimeAssumption DEF TimeAssumption, StartFails, NoLease
  <2>3. radioActive' \in BOOLEAN
    BY <1>6 DEF StartFails, StoreRadioActive
  <2>4. QED
    BY <1>6, <2>1, <2>2, <2>3 DEF StartFails, hook
<1>7. CASE ConnectOk
  BY <1>7, TxAssumption DEF TxAssumption, ConnectOk, link, power, address, hook
<1>8. CASE ConnectFails
  BY <1>8, TeardownType DEF ConnectFails, Failures
<1>9. CASE ConfigUp
  <2>1. lease' \in [t1 : Nat, age : Nat]
    BY <1>9, TimeAssumption DEF TimeAssumption, ConfigUp, NoLease
  <2>2. QED
    BY <1>9, <2>1 DEF ConfigUp, link, power, hook
<1>10. CASE DhcpTimeout
  BY <1>10, TeardownType DEF DhcpTimeout, Failures
<1>11. ASSUME NEW result \in {"Success", "ConnectionLost"}, AfterFetch(result),
              UNCHANGED <<radio, hook, battery>>
       PROVE  TypeOK'
  <2>1. CASE LogServer
    BY <1>11, <2>1 DEF AfterFetch, Failures, power, address, hook
  <2>2. CASE ~LogServer
    BY <1>11, <2>2, TeardownType DEF AfterFetch, Failures
  <2>3. QED
    BY <2>1, <2>2
<1>12. CASE MirrorOk \/ FetchOk \/ FetchFails
  BY <1>11, <1>12 DEF MirrorOk, FetchOk, FetchFails
<1>13. CASE MirrorFails
  BY <1>13 DEF MirrorFails, link, power, address, timers, hook
<1>14. CASE ReportReturn
  BY <1>14, TeardownType DEF ReportReturn
<1>15. CASE DisconnectReturn
  BY <1>15 DEF DisconnectReturn, power, address, timers, hook
<1>16. CASE StopReturn
  BY <1>16, FinishCycleType DEF StopReturn
<1>17. CASE DriverStops \/ Associate \/ LinkLost
  BY <1>17 DEF DriverStops, Associate, LinkLost, power, address, timers, hook
<1>18. CASE EnterNap \/ WakeByTimer \/ WakeByButton
  <2>1. awake' \in Nat /\ napping' \in BOOLEAN /\ readable' = readable
    BY <1>18, TimeAssumption DEF TimeAssumption, EnterNap, WakeByTimer, WakeByButton
  <2>2. QED
    BY <1>18, <2>1 DEF EnterNap, WakeByTimer, WakeByButton, link, power, address, timers
<1>19. CASE SampleBattery \/ BatteryDue
  BY <1>19 DEF SampleBattery, BatteryDue, link, power, address, timers, hook
<1>20. CASE Tick
  <2>1. lease' \in [t1 : Nat, age : Nat] /\ awake' \in Nat
    BY <1>20 DEF Tick
  <2>2. gap' \in Nat /\ spent' \in Nat
    BY <1>20 DEF Tick, timers
  <2>3. QED
    BY <1>20, <2>1, <2>2 DEF Tick, link, power
<1>21. CASE UNCHANGED vars
  BY <1>21 DEF vars
<1>22. QED
  BY <1>1, <1>2, <1>3, <1>4, <1>5, <1>6, <1>7, <1>8, <1>9, <1>10, <1>12, <1>13, <1>14,
     <1>15, <1>16, <1>17, <1>18, <1>19, <1>20, <1>21 DEF Next, FetchTask

\* Type correctness of the fetch task, the hook and the battery task.
THEOREM TypeCorrect == Spec => []TypeOK
<1>1. QED
  BY TypeInit, TypeNext, PTL DEF Spec

------------------------------------------------------------------------------
(* Light sleep. *)

\* Every store of RADIO_ACTIVE keeps the flag honest: FALSE only for a driver
\* that answered "not started".
LEMMA StoreHonest ==
    ASSUME NEW r \in {"stopped", "started", "associated"}, StoreRadioActive(r)
    PROVE  radioActive' \in BOOLEAN /\ (~radioActive' => r = "stopped")
BY DEF StoreRadioActive, IsStarted

LEMMA TeardownFlag ==
    ASSUME TypeOK, radioActive = TRUE, NEW result, Teardown(result) \/ FinishCycle(result),
           radio' = radio
    PROVE  FlagInv'
<1>1. CASE FinishCycle(result)
  BY <1>1, StoreHonest DEF FinishCycle, FlagInv, TypeOK
<1>2. CASE ~FinishCycle(result)
  BY <1>2 DEF Teardown, FlagInv
<1>3. QED
  BY <1>1, <1>2

LEMMA SleepNext == TypeOK /\ SleepInv /\ [Next]_vars => SleepInv'
<1> SUFFICES ASSUME TypeOK, SleepInv, [Next]_vars PROVE SleepInv'
  OBVIOUS
<1>1. CASE FetchTask
  <2>1. napping' = FALSE
    BY <1>1 DEF FetchTask, Setup, ScanFound, ScanMissing, BeginCycle, StartOk, StartFails,
       ConnectOk, ConnectFails, ConfigUp, DhcpTimeout, MirrorOk, MirrorFails, FetchOk,
       FetchFails, ReportReturn, DisconnectReturn, StopReturn, hook, TypeOK
  <2>2. NapInv'
    BY <2>1 DEF NapInv
  <2>3. ASSUME Setup \/ ScanFound \/ ScanMissing \/ BeginCycle PROVE FlagInv'
    BY <2>3 DEF Setup, ScanFound, ScanMissing, BeginCycle, SleepInv, FlagInv, TypeOK, link
  <2>4. ASSUME StartOk \/ ConnectOk \/ ConfigUp \/ MirrorFails \/ DisconnectReturn PROVE FlagInv'
    BY <2>4 DEF StartOk, ConnectOk, ConfigUp, MirrorFails, DisconnectReturn,
       SleepInv, FlagInv, TypeOK, link
  <2>5. ASSUME StartFails PROVE FlagInv'
    BY <2>5, StoreHonest DEF StartFails, FlagInv
  <2>6. ASSUME ConnectFails \/ DhcpTimeout \/ ReportReturn \/ StopReturn PROVE FlagInv'
    BY <2>6, TeardownFlag DEF ConnectFails, DhcpTimeout, ReportReturn, StopReturn,
       SleepInv, FlagInv, TypeOK
  <2>7. ASSUME MirrorOk \/ FetchOk \/ FetchFails PROVE FlagInv'
    <3>1. PICK result \in {"Success", "ConnectionLost"} :
             AfterFetch(result) /\ radio' = radio /\ pc # "gap"
      BY <2>7 DEF MirrorOk, FetchOk, FetchFails
    <3>2. radioActive = TRUE
      BY <3>1 DEF SleepInv, FlagInv, TypeOK
    <3>3. CASE LogServer
      BY <3>1, <3>2, <3>3 DEF AfterFetch, FlagInv
    <3>4. CASE ~LogServer
      BY <3>1, <3>2, <3>4, TeardownFlag DEF AfterFetch
    <3>5. QED
      BY <3>3, <3>4
  <2>8. FlagInv'
    BY <1>1, <2>3, <2>4, <2>5, <2>6, <2>7 DEF FetchTask, SleepInv, FlagInv, link
  <2>9. QED
    BY <2>2, <2>8 DEF SleepInv
<1>2. CASE DriverStops \/ Associate \/ LinkLost
  BY <1>2 DEF DriverStops, Associate, LinkLost, SleepInv, FlagInv, NapInv, hook, timers, TypeOK
<1>3. CASE EnterNap \/ WakeByTimer \/ WakeByButton
  BY <1>3 DEF EnterNap, WakeByTimer, WakeByButton, SleepInv, FlagInv, NapInv, link, timers, TypeOK
<1>4. CASE SampleBattery \/ BatteryDue
  BY <1>4 DEF SampleBattery, BatteryDue, SleepInv, FlagInv, NapInv, link, timers, hook
<1>5. CASE Tick
  BY <1>5 DEF Tick, SleepInv, FlagInv, NapInv, link
<1>6. CASE UNCHANGED vars
  BY <1>6 DEF vars, SleepInv, FlagInv, NapInv
<1>7. QED
  BY <1>1, <1>2, <1>3, <1>4, <1>5, <1>6 DEF Next

LEMMA SleepInvariant == Spec => [](TypeOK /\ SleepInv)
<1>1. Init => SleepInv
  BY DEF Init, SleepInv, FlagInv, NapInv
<1>2. QED
  BY <1>1, TypeInit, TypeNext, SleepNext, PTL DEF Spec

\* The CPU is never in light sleep while the radio is powered (power.rs).
THEOREM NapSafety == Spec => []NapSafe
<1>1. SleepInv => NapSafe
  BY DEF SleepInv, FlagInv, NapInv, NapSafe
<1>2. QED
  BY <1>1, SleepInvariant, PTL

\* battery_task never samples under a live radio, the first sample excepted.
THEOREM RestingSamplesOnly == Spec => RestingSamples
<1>1. TypeOK /\ SleepInv /\ [Next]_vars
        => [battery = "due" /\ battery' = "rest" => radio = "stopped"]_vars
  <2> SUFFICES ASSUME TypeOK, SleepInv, Next, battery = "due", battery' = "rest"
               PROVE  radio = "stopped"
    BY DEF vars
  <2>1. SampleBattery
    BY DEF Next, FetchTask, Setup, ScanFound, ScanMissing, BeginCycle, StartOk, StartFails,
       ConnectOk, ConnectFails, ConfigUp, DhcpTimeout, MirrorOk, MirrorFails, FetchOk,
       FetchFails, ReportReturn, DisconnectReturn, StopReturn, DriverStops, Associate,
       LinkLost, EnterNap, WakeByTimer, WakeByButton, BatteryDue, Tick
  <2>2. QED
    BY <2>1 DEF SampleBattery, SleepInv, FlagInv
<1>2. QED
  BY <1>1, SleepInvariant, PTL DEF Spec, RestingSamples
------------------------------------------------------------------------------
(* RadioCycle implements SleepGate. *)

GateActions == Gate!Next \/ UNCHANGED Gate!gateVars

\* While the CPU is awake and neither side of the gate is moved unsafely, a
\* step is one of SleepGate's.
LEMMA GateStep ==
    ASSUME TypeOK, SleepInv, TypeOK', SleepInv', ~napping, ~napping',
           radio # "stopped" => radio' # "stopped" \/ ~radioActive' \/ radioActive' = radioActive,
           radio = "stopped" => radio' = "stopped" \/ radioActive' = radioActive
    PROVE  GateActions
<1> USE DEF GateActions, Gate!Next, Gate!gateVars, TypeOK, SleepInv, FlagInv
<1>1. CASE radio = "stopped" /\ radio' # "stopped"
  BY <1>1 DEF Gate!PowerUp
<1>2. CASE radio # "stopped" /\ radio' = "stopped"
  BY <1>2 DEF Gate!PowerDown, Gate!PermitDown
<1>3. CASE radio = "stopped" /\ radio' = "stopped"
  BY <1>3 DEF Gate!Permit, Gate!Revoke
<1>4. CASE radio # "stopped" /\ radio' # "stopped"
  BY <1>4
<1>5. QED
  BY <1>1, <1>2, <1>3, <1>4

LEMMA GateNext == TypeOK /\ SleepInv /\ [Next]_vars => [Gate!Next]_Gate!gateVars
<1> SUFFICES ASSUME TypeOK, SleepInv, [Next]_vars PROVE GateActions
  BY DEF GateActions
<1>0. TypeOK' /\ SleepInv'
  BY TypeNext, SleepNext
<1>1. CASE FetchTask
  <2>1. ~napping /\ ~napping'
    BY <1>1 DEF FetchTask, Setup, ScanFound, ScanMissing, BeginCycle, StartOk, StartFails,
       ConnectOk, ConnectFails, ConfigUp, DhcpTimeout, MirrorOk, MirrorFails, FetchOk,
       FetchFails, ReportReturn, DisconnectReturn, StopReturn, hook, TypeOK
  <2>2. CASE ScanMissing
    BY <2>2, <2>1 DEF ScanMissing, GateActions, Gate!Next, Gate!Reset
  <2>3. CASE Setup \/ StartOk \/ DisconnectReturn
    BY <2>1, <2>3, <1>0, GateStep DEF Setup, StartOk, DisconnectReturn, TypeOK
  <2>4. CASE StartFails
    BY <2>1, <2>4, <1>0, GateStep DEF StartFails, TypeOK, SleepInv, FlagInv
  <2>5. CASE ~ScanMissing /\ ~Setup /\ ~StartOk /\ ~DisconnectReturn /\ ~StartFails
    <3>1. radio' = radio
      BY <1>1, <2>5 DEF FetchTask, ScanFound, BeginCycle,
         ConnectOk, ConnectFails, ConfigUp, DhcpTimeout, MirrorOk, MirrorFails, FetchOk,
         FetchFails, ReportReturn, StopReturn, link
    <3>2. QED
      BY <2>1, <3>1, <1>0, GateStep DEF TypeOK
  <2>6. QED
    BY <2>2, <2>3, <2>4, <2>5
<1>2. CASE DriverStops \/ Associate \/ LinkLost
  BY <1>0, <1>2, GateStep DEF DriverStops, Associate, LinkLost, hook, TypeOK
<1>3. CASE EnterNap
  BY <1>3 DEF EnterNap, link, GateActions, Gate!Next, Gate!Nap
<1>4. CASE WakeByTimer \/ WakeByButton
  BY <1>4 DEF WakeByTimer, WakeByButton, link, GateActions, Gate!Next, Gate!Wake
<1>5. CASE SampleBattery \/ BatteryDue \/ Tick \/ UNCHANGED vars
  BY <1>5 DEF SampleBattery, BatteryDue, Tick, vars, link, hook, GateActions, Gate!gateVars
<1>6. QED
  BY <1>1, <1>2, <1>3, <1>4, <1>5 DEF Next

\* The cycle, the hook and the battery task implement the abstract gate.
THEOREM ImplementsGate == Spec => GateSpec
<1>1. Init => Gate!Init
  BY DEF Init, Gate!Init
<1>2. QED
  BY <1>1, GateNext, SleepInvariant, PTL DEF Spec, GateSpec, Gate!Spec
------------------------------------------------------------------------------
(* Adaptive TX power. *)

LEMMA MoreSuccesses ==
    ASSUME NEW s \in Nat, NEW d \in Int
    PROVE  s * (d + 1) = s * d + s
OBVIOUS

\* One more success: the streak grows by one, or is spent on a step down.
LEMMA StepKeepsHistory ==
    ASSUME TypeOK, TxFollowsHistory, StepTxPowerOnSuccess
    PROVE  TxFollowsHistory'
<1> DEFINE d == TxMax - txPower
<1> USE TxAssumption DEF TxAssumption, TypeOK
<1>1. CASE txPower = TxMin
  BY <1>1 DEF StepTxPowerOnSuccess, TxFollowsHistory
<1>2. CASE txPower > TxMin
  <2>1. okRun = Successes * d + streak /\ d \in Nat
    BY <1>2 DEF TxFollowsHistory
  <2>2. Successes * d + Successes = Successes * (d + 1)
    BY <2>1, MoreSuccesses
  <2>3. Successes * (d + 1) <= Successes * (TxMax - TxMin)
    <3>1. PICK e \in Nat : TxMax - TxMin = (d + 1) + e
      BY <1>2, <2>1
    <3>2. Successes * ((d + 1) + e) = Successes * (d + 1) + Successes * e
      BY <2>1
    <3>3. Successes * e >= 0
      OBVIOUS
    <3>4. Successes * (d + 1) \in Int /\ Successes * e \in Int
      BY <2>1
    <3>5. QED
      BY <3>1, <3>2, <3>3, <3>4
  <2>4. okRun' = okRun + 1
    BY <2>1, <2>2, <2>3, <1>2 DEF StepTxPowerOnSuccess
  <2>5. CASE streak + 1 < Successes
    BY <1>2, <2>1, <2>4, <2>5 DEF StepTxPowerOnSuccess, TxFollowsHistory
  <2>6. CASE streak + 1 >= Successes
    <3>1. txPower' = txPower - 1 /\ streak' = 0 /\ streak + 1 = Successes
      BY <1>2, <2>6 DEF StepTxPowerOnSuccess
    <3>2. okRun' = Successes * (d + 1)
      BY <2>1, <2>2, <2>4, <3>1
    <3>3. TxMax - txPower' = d + 1
      BY <3>1
    <3>4. QED
      BY <3>1, <3>2, <3>3 DEF TxFollowsHistory
  <2>7. QED
    BY <2>5, <2>6
<1>3. QED
  BY <1>1, <1>2

LEMMA ResetKeepsHistory ==
    ASSUME ResetTxPower PROVE TxFollowsHistory'
BY TxAssumption DEF TxAssumption, ResetTxPower, TxFollowsHistory

LEMMA TeardownHistory ==
    ASSUME TypeOK, TxFollowsHistory, NEW result,
           Teardown(result) \/ FinishCycle(result)
    PROVE  TxFollowsHistory'
<1>1. CASE FinishCycle(result)
  BY <1>1, StepKeepsHistory, ResetKeepsHistory DEF FinishCycle
<1>2. CASE ~FinishCycle(result)
  BY <1>2 DEF Teardown, power, TxFollowsHistory
<1>3. QED
  BY <1>1, <1>2

LEMMA HistoryNext == TypeOK /\ TxFollowsHistory /\ [Next]_vars => TxFollowsHistory'
<1> SUFFICES ASSUME TypeOK, TxFollowsHistory, [Next]_vars PROVE TxFollowsHistory'
  OBVIOUS
<1>1. CASE UNCHANGED power
  BY <1>1 DEF power, TxFollowsHistory
<1>2. CASE ScanMissing \/ StartFails
  BY <1>2, ResetKeepsHistory DEF ScanMissing, StartFails, ResetTxPower
<1>3. CASE ConnectFails \/ DhcpTimeout \/ ReportReturn \/ StopReturn
  BY <1>3, TeardownHistory DEF ConnectFails, DhcpTimeout, ReportReturn, StopReturn
<1>4. CASE MirrorOk \/ FetchOk \/ FetchFails
  <2>1. PICK result : AfterFetch(result)
    BY <1>4 DEF MirrorOk, FetchOk, FetchFails
  <2>2. UNCHANGED power \/ Teardown(result)
    BY <2>1 DEF AfterFetch
  <2>3. QED
    BY <1>1, <2>2, TeardownHistory
<1>5. QED
  BY <1>1, <1>2, <1>3, <1>4 DEF Next, FetchTask, Setup, ScanFound, BeginCycle, StartOk,
     ConnectOk, ConfigUp, MirrorFails, DisconnectReturn, DriverStops, Associate, LinkLost,
     EnterNap, WakeByTimer, WakeByButton, SampleBattery, BatteryDue, Tick, vars, power

\* tx_power is exactly what the successes since the last failure have earned,
\* for every range, step and streak length.
THEOREM TxPowerHistory == Spec => []TxFollowsHistory
<1>1. Init => TxFollowsHistory
  BY TxAssumption DEF TxAssumption, Init, TxFollowsHistory
<1>2. QED
  BY <1>1, HistoryNext, TypeCorrect, PTL DEF Spec
------------------------------------------------------------------------------
(* The lease. *)

\* The longest time connect() and the awaits after it can have taken before pc.
Before == [connect |-> 0, dhcp |-> ConnectTicks,
           mirror |-> ConnectTicks + DhcpTicks, fetch |-> ConnectTicks + DhcpTicks,
           report |-> ConnectTicks + DhcpTicks + FetchTicks]

LeaseGranted == lease # NoLease => lease.t1 \in LeaseT1s /\ lease.t1 > MinT1
\* A lease still held before this cycle's DHCP answer comes from a success.
LeaseEarned ==
    /\ reused => okRun > 0 /\ pc \notin {"setup", "scan", "gap", "start"}
    /\ lease # NoLease /\ pc \in {"setup", "scan", "gap", "start", "connect", "dhcp"}
         => okRun > 0
WithinLimit == pc \in DOMAIN Limit => spent <= Limit[pc]
ReusedAge ==
    reused /\ pc \in DOMAIN Before =>
        lease # NoLease /\ lease.age < ReuseFor(lease.t1) + Before[pc] + spent
LeaseInv == LeaseGranted /\ LeaseEarned /\ WithinLimit /\ ReusedAge

LEMMA TeardownLease ==
    ASSUME TypeOK, LeaseInv, NEW result, Teardown(result) \/ FinishCycle(result)
    PROVE  LeaseInv'
<1>1. CASE FinishCycle(result)
  <2>1. CASE result = "Success"
    <3>1. okRun' > 0
      <4>1. MaxOkRun > 0
        BY TxAssumption DEF TxAssumption
      <4>2. QED
        BY <1>1, <2>1, <4>1 DEF FinishCycle, StepTxPowerOnSuccess, TypeOK
    <3>2. QED
      BY <1>1, <2>1, <3>1 DEF FinishCycle, LeaseInv, LeaseGranted, LeaseEarned, WithinLimit,
         ReusedAge, Limit, Before
  <2>2. CASE result # "Success"
    BY <1>1, <2>2 DEF FinishCycle, LeaseInv, LeaseGranted, LeaseEarned, WithinLimit,
       ReusedAge, Limit, Before
  <2>3. QED
    BY <2>1, <2>2
<1>2. CASE ~FinishCycle(result)
  BY <1>2 DEF Teardown, address, power, LeaseInv, LeaseGranted, LeaseEarned, WithinLimit,
     ReusedAge, Limit, Before
<1>3. QED
  BY <1>1, <1>2

\* connect() starts on a reused address younger than 90% of its T1.
LEMMA ConnectLease ==
    ASSUME TypeOK, LeaseInv, pc \in {"gap", "start"}, ConfigureAndConnect,
           UNCHANGED <<lease, okRun>>
    PROVE  LeaseInv'
<1> USE DEF ConfigureAndConnect, LeaseInv
<1>1. LeaseGranted' /\ LeaseEarned'
  BY DEF LeaseGranted, LeaseEarned, CanReuse
<1>2. WithinLimit'
  BY TimeAssumption DEF TimeAssumption, WithinLimit, Limit
<1>3. ReusedAge'
  <2>1. ReuseFor(lease.t1) \in Int /\ lease.age \in Nat
    BY DEF TypeOK, ReuseFor
  <2>2. Before["connect"] = 0 /\ "connect" \in DOMAIN Before
    BY DEF Before
  <2>3. CASE CanReuse
    <3>1. lease'.age < ReuseFor(lease'.t1) + Before[pc'] + spent'
      BY <2>1, <2>2, <2>3 DEF CanReuse
    <3>2. QED
      BY <2>3, <3>1 DEF ReusedAge, CanReuse
  <2>4. CASE ~CanReuse
    BY <2>4 DEF ReusedAge
  <2>5. QED
    BY <2>3, <2>4
<1>4. QED
  BY <1>1, <1>2, <1>3

LEMMA TickLease ==
    ASSUME TypeOK, LeaseInv, Tick
    PROVE  LeaseInv'
<1> USE TimeAssumption DEF TimeAssumption, TypeOK, Tick, LeaseInv, power
<1>1. /\ lease.t1 \in Nat /\ lease.age \in Nat
      /\ lease'.t1 = lease.t1 /\ lease'.age <= lease.age + 1 /\ lease'.age \in Nat
      /\ lease # NoLease <=> lease' # NoLease
  <2>1. CASE lease' = lease
    BY <2>1
  <2>2. CASE lease # NoLease /\ lease' = [lease EXCEPT !.age = @ + 1]
    <3>1. lease'.t1 = lease.t1 /\ lease'.age = lease.age + 1
      BY <2>2
    <3>2. NoLease.age = 0
      BY DEF NoLease
    <3>3. QED
      BY <2>2, <3>1, <3>2
  <2>3. QED
    BY <2>1, <2>2
<1>2. LeaseGranted' /\ LeaseEarned'
  BY <1>1 DEF LeaseGranted, LeaseEarned
<1>3. WithinLimit'
  BY DEF WithinLimit, Limit, timers
<1>4. ReusedAge'
  <2>1. CASE pc \in DOMAIN Before
    <3>1. spent' = spent + 1 /\ pc' = pc
      BY <2>1 DEF Before
    <3>2. Before[pc] \in Nat /\ ReuseFor(lease.t1) \in Int
      BY <1>1, <2>1 DEF Before, ReuseFor
    <3>3. QED
      BY <1>1, <2>1, <3>1, <3>2 DEF ReusedAge
  <2>2. CASE pc \notin DOMAIN Before
    BY <2>2 DEF ReusedAge
  <2>3. QED
    BY <2>1, <2>2
<1>5. QED
  BY <1>2, <1>3, <1>4

LEMMA LeaseNext == TypeOK /\ SleepInv /\ LeaseInv /\ [Next]_vars => LeaseInv'
<1> SUFFICES ASSUME TypeOK, SleepInv, LeaseInv, [Next]_vars PROVE LeaseInv'
  OBVIOUS
<1>1. CASE UNCHANGED <<pc, lease, reused, okRun, spent>>
  BY <1>1 DEF LeaseInv, LeaseGranted, LeaseEarned, WithinLimit, ReusedAge
<1>2. CASE Setup \/ ScanFound \/ ScanMissing
  BY <1>2 DEF Setup, ScanFound, ScanMissing, power, address, timers, LeaseInv, LeaseGranted,
     LeaseEarned, WithinLimit, ReusedAge, Limit, Before
<1>3. CASE BeginCycle
  <2>1. CASE ConfigureAndConnect
    BY <1>3, <2>1, ConnectLease DEF BeginCycle, power
  <2>2. CASE ~ConfigureAndConnect
    BY <1>3, <2>2 DEF BeginCycle, power, LeaseInv, LeaseGranted, LeaseEarned, WithinLimit,
       ReusedAge, Limit, Before
  <2>3. QED
    BY <2>1, <2>2
<1>4. CASE StartOk
  BY <1>4, ConnectLease DEF StartOk, power
<1>5. CASE StartFails
  BY <1>5 DEF StartFails, ResetTxPower, LeaseInv, LeaseGranted, LeaseEarned, WithinLimit,
     ReusedAge, Limit, Before
<1>6. CASE ConnectOk
  BY <1>6, TimeAssumption DEF TimeAssumption, ConnectOk, TypeOK, power, address, LeaseInv,
     LeaseGranted, LeaseEarned, WithinLimit, ReusedAge, Limit, Before, ReuseFor
<1>7. CASE ConfigUp
  <2>1. LeaseGranted' /\ LeaseEarned'
    BY <1>7 DEF ConfigUp, power, LeaseInv, LeaseGranted, LeaseEarned
  <2>2. WithinLimit' /\ ReusedAge'
    BY <1>7, TimeAssumption DEF TimeAssumption, ConfigUp, TypeOK, LeaseInv, WithinLimit,
       ReusedAge, Limit, Before, ReuseFor
  <2>3. QED
    BY <2>1, <2>2 DEF LeaseInv
<1>8. CASE MirrorFails
  BY <1>8, TimeAssumption DEF TimeAssumption, MirrorFails, TypeOK, power, address, timers,
     LeaseInv, LeaseGranted, LeaseEarned, WithinLimit, ReusedAge, Limit, Before
<1>9. CASE ConnectFails \/ DhcpTimeout \/ ReportReturn \/ StopReturn
  BY <1>9, TeardownLease DEF ConnectFails, DhcpTimeout, ReportReturn, StopReturn
<1>10. CASE MirrorOk \/ FetchOk \/ FetchFails
  <2>1. PICK result : AfterFetch(result) /\ pc \in {"mirror", "fetch"}
    BY <1>10 DEF MirrorOk, FetchOk, FetchFails
  <2>2. CASE LogServer
    <3>1. LeaseGranted' /\ LeaseEarned'
      BY <2>1, <2>2 DEF AfterFetch, address, power, LeaseInv, LeaseGranted, LeaseEarned
    <3>2. WithinLimit' /\ ReusedAge'
      BY <2>1, <2>2, TimeAssumption DEF TimeAssumption, AfterFetch, TypeOK, address, LeaseInv,
         WithinLimit, ReusedAge, Limit, Before, ReuseFor
    <3>3. QED
      BY <3>1, <3>2 DEF LeaseInv
  <2>3. CASE ~LogServer
    BY <2>1, <2>3, TeardownLease DEF AfterFetch
  <2>4. QED
    BY <2>2, <2>3
<1>11. CASE DisconnectReturn
  BY <1>11 DEF DisconnectReturn, power, address, timers, LeaseInv, LeaseGranted, LeaseEarned,
     WithinLimit, ReusedAge, Limit, Before
<1>12. CASE Tick
  BY <1>12, TickLease
<1>13. QED
  BY <1>1, <1>2, <1>3, <1>4, <1>5, <1>6, <1>7, <1>8, <1>9, <1>10, <1>11, <1>12
     DEF Next, FetchTask, DriverStops, Associate, LinkLost, EnterNap, WakeByTimer,
     WakeByButton, SampleBattery, BatteryDue, vars, power, address, timers

LEMMA LeaseInvariant == Spec => [](TypeOK /\ LeaseInv)
<1>1. Init => LeaseInv
  BY DEF Init, LeaseInv, LeaseGranted, LeaseEarned, WithinLimit, ReusedAge, Limit, Before
<1>2. QED
  BY <1>1, LeaseNext, TypeCorrect, SleepInvariant, PTL DEF Spec

\* A failed cycle, of whatever kind, is followed by one that asks DHCP.
THEOREM ReuseNeedsSuccess == Spec => []ReuseOnlyAfterSuccess
<1>1. LeaseInv => ReuseOnlyAfterSuccess
  BY DEF LeaseInv, LeaseEarned, ReuseOnlyAfterSuccess
<1>2. QED
  BY <1>1, LeaseInvariant, PTL

\* With leases as long as LongLeases asks, the device never uses an address
\* whose lease has run out, however slow connecting and fetching are.
THEOREM LeaseSafety == LongLeases => (Spec => []LeaseSound)
<1> SUFFICES ASSUME LongLeases PROVE Spec => []LeaseSound
  OBVIOUS
<1>1. TypeOK /\ LeaseInv => LeaseUsable
  <2> SUFFICES ASSUME TypeOK, LeaseInv, reused, OnNetwork
               PROVE  lease.age < LeaseTime(lease.t1)
    BY DEF LeaseUsable
  <2>1. pc \in DOMAIN Before /\ pc \in DOMAIN Limit
    BY DEF OnNetwork, Before, Limit
  <2>2. /\ lease # NoLease
        /\ lease.age < ReuseFor(lease.t1) + Before[pc] + spent /\ spent <= Limit[pc]
    BY <2>1 DEF LeaseInv, ReusedAge, WithinLimit
  <2>3. ReuseFor(lease.t1) + ConnectTicks + DhcpTicks + FetchTicks + ReportTicks
          <= LeaseTime(lease.t1)
    BY <2>2 DEF LeaseInv, LeaseGranted, LongLeases
  <2>4. Before[pc] + Limit[pc] <= ConnectTicks + DhcpTicks + FetchTicks + ReportTicks
    BY TimeAssumption DEF TimeAssumption, OnNetwork, Before, Limit
  <2>5. /\ Before[pc] \in Nat /\ Limit[pc] \in Nat /\ spent \in Nat
        /\ lease.age \in Nat /\ lease.t1 \in Nat
    BY TimeAssumption DEF TimeAssumption, OnNetwork, Before, Limit, TypeOK
  <2>6. ReuseFor(lease.t1) \in Int /\ LeaseTime(lease.t1) \in Int
    BY <2>5 DEF ReuseFor, LeaseTime
  <2>7. QED
    BY <2>2, <2>3, <2>4, <2>5, <2>6, TimeAssumption DEF TimeAssumption
<1>2. TypeOK /\ LeaseInv => LeaseSound
  BY <1>1 DEF LeaseInv, LeaseEarned, ReuseOnlyAfterSuccess, LeaseSound
<1>3. QED
  BY <1>2, LeaseInvariant, PTL
------------------------------------------------------------------------------
(* Between cycles. *)

BootGap == pc \in {"setup", "scan"} => gap = 0
GapInv == FlagTracksRadio /\ ConnectedOnlyInCycle /\ BootGap

LEMMA TeardownGap ==
    ASSUME TypeOK, GapInv, NEW result, Teardown(result) \/ FinishCycle(result),
           radio' = radio, readable' = readable
    PROVE  GapInv'
<1>1. CASE FinishCycle(result)
  BY <1>1 DEF FinishCycle, StoreRadioActive, IsStarted, GapInv, FlagTracksRadio,
     ConnectedOnlyInCycle, BootGap, TypeOK
<1>2. CASE ~FinishCycle(result)
  BY <1>2 DEF Teardown, GapInv, FlagTracksRadio, ConnectedOnlyInCycle, BootGap
<1>3. QED
  BY <1>1, <1>2

LEMMA GapNext == TypeOK /\ GapInv /\ [Next]_vars => GapInv'
<1> SUFFICES ASSUME TypeOK, GapInv, [Next]_vars PROVE GapInv'
  OBVIOUS
<1> USE DEF GapInv, FlagTracksRadio, ConnectedOnlyInCycle, BootGap
<1>1. CASE ConnectFails \/ DhcpTimeout \/ ReportReturn \/ StopReturn
  BY <1>1, TeardownGap DEF ConnectFails, DhcpTimeout, ReportReturn, StopReturn, hook
<1>2. CASE MirrorOk \/ FetchOk \/ FetchFails
  <2>1. PICK result : AfterFetch(result) /\ radio' = radio /\ readable' = readable
    BY <1>2 DEF MirrorOk, FetchOk, FetchFails, hook
  <2>2. CASE LogServer
    BY <2>1, <2>2 DEF AfterFetch
  <2>3. CASE ~LogServer
    BY <2>1, <2>3, TeardownGap DEF AfterFetch
  <2>4. QED
    BY <2>2, <2>3
<1>3. CASE StartFails
  BY <1>3 DEF StartFails, StoreRadioActive, IsStarted, hook
<1>4. CASE Setup \/ ScanFound \/ ScanMissing \/ BeginCycle \/ StartOk \/ ConnectOk \/ ConfigUp
  <2>1. CASE Setup \/ ScanFound \/ ScanMissing
    BY <2>1 DEF Setup, ScanFound, ScanMissing, link, timers, hook, TypeOK
  <2>2. CASE BeginCycle \/ StartOk
    BY <2>2 DEF BeginCycle, StartOk, ConfigureAndConnect, TypeOK
  <2>3. CASE ConnectOk
    BY <2>3 DEF ConnectOk
  <2>4. CASE ConfigUp
    BY <2>4 DEF ConfigUp
  <2>5. QED
    BY <1>4, <2>1, <2>2, <2>3, <2>4
<1>5. CASE MirrorFails \/ DisconnectReturn \/ DriverStops \/ Associate \/ LinkLost
  BY <1>5 DEF MirrorFails, DisconnectReturn, DriverStops, Associate, LinkLost, link, timers, hook, TypeOK
<1>6. CASE EnterNap \/ WakeByTimer \/ WakeByButton \/ SampleBattery \/ BatteryDue
  BY <1>6 DEF EnterNap, WakeByTimer, WakeByButton, SampleBattery, BatteryDue, link, timers, hook
<1>7. CASE Tick
  BY <1>7 DEF Tick, link, timers, TypeOK, Limit
<1>8. CASE UNCHANGED vars
  BY <1>8 DEF vars
<1>9. QED
  BY <1>1, <1>2, <1>3, <1>4, <1>5, <1>6, <1>7, <1>8 DEF Next, FetchTask

LEMMA GapInvariant == Spec => []GapInv
<1>1. Init => GapInv
  BY DEF Init, GapInv, FlagTracksRadio, ConnectedOnlyInCycle, BootGap
<1>2. QED
  BY <1>1, GapNext, TypeCorrect, PTL DEF Spec

\* RADIO_ACTIVE is right in every gap, whichever path led into it, and
\* STATUS.wifi_connected is cleared on every way out of a cycle.
THEOREM StatusExact == Spec => []StatusTracksRadio
<1>1. GapInv => StatusTracksRadio
  BY DEF GapInv, StatusTracksRadio
<1>2. QED
  BY <1>1, GapInvariant, PTL

(* How long a lease has to be. *)

SlowestCycle == ConnectTicks + DhcpTicks + FetchTicks + ReportTicks

\* LongLeases in numbers: 90% of T1 and the slowest cycle fit into a lease of
\* twice T1 exactly if T1 is about ten elevenths of that cycle or more.
THEOREM LeaseThreshold ==
    LongLeases <=> \A t1 \in LeaseT1s : t1 > MinT1 => 10 * SlowestCycle <= 11 * t1 + 9
<1>1. SlowestCycle \in Nat /\ LeaseT1s \subseteq Nat
  BY TimeAssumption DEF TimeAssumption, SlowestCycle
<1>2. ASSUME NEW t1 \in Nat, NEW slow \in Nat
      PROVE  ReuseFor(t1) + slow <= LeaseTime(t1) <=> 10 * slow <= 11 * t1 + 9
  BY DEF ReuseFor, LeaseTime
<1>3. \A t1 \in LeaseT1s :
          ReuseFor(t1) + ConnectTicks + DhcpTicks + FetchTicks + ReportTicks
            = ReuseFor(t1) + SlowestCycle
  <2> TAKE t1 \in LeaseT1s
  <2>1. ReuseFor(t1) \in Int
    BY <1>1 DEF ReuseFor
  <2>2. QED
    BY <2>1, TimeAssumption DEF TimeAssumption, SlowestCycle
<1>4. QED
  BY <1>1, <1>2, <1>3 DEF LongLeases
------------------------------------------------------------------------------
(* The awaits of the cycle. *)

\* start_async() is called on a running controller only if its state could not
\* be read, and every other await is over within its timeout.
NoEndlessAwait ==
    /\ pc = "start" /\ radio # "stopped" => ~readable
    /\ WithinLimit

LEMMA StartNext ==
    TypeOK /\ (pc = "start" /\ radio # "stopped" => ~readable) /\ [Next]_vars
        => (pc = "start" /\ radio # "stopped" => ~readable)'
<1> SUFFICES ASSUME TypeOK, pc = "start" /\ radio # "stopped" => ~readable, [Next]_vars,
                    pc' = "start"
             PROVE  radio' # "stopped" => ~readable'
  OBVIOUS
<1>1. CASE pc # "start"
  <2>1. BeginCycle
    BY <1>1 DEF Next, FetchTask, Setup, ScanFound, ScanMissing, BeginCycle, StartOk, StartFails,
       ConnectOk, ConnectFails, ConfigUp, DhcpTimeout, MirrorOk, MirrorFails, FetchOk, FetchFails,
       ReportReturn, DisconnectReturn, StopReturn, AfterFetch, Teardown, FinishCycle,
       ConfigureAndConnect, DriverStops, Associate, LinkLost, EnterNap, WakeByTimer, WakeByButton,
       SampleBattery, BatteryDue, Tick, vars
  <2>2. radio' = radio /\ readable' = readable /\ IsStarted(radio) # {"yes"}
    BY <2>1 DEF BeginCycle, ConfigureAndConnect, hook
  <2>3. QED
    BY <2>2 DEF IsStarted
<1>2. CASE pc = "start"
  <2>1. readable' = readable
    BY <1>2 DEF Next, FetchTask, Setup, ScanFound, ScanMissing, BeginCycle, StartOk, StartFails,
       ConnectOk, ConnectFails, ConfigUp, DhcpTimeout, MirrorOk, MirrorFails, FetchOk, FetchFails,
       ReportReturn, DisconnectReturn, StopReturn, DriverStops, Associate, LinkLost, EnterNap,
       WakeByTimer, WakeByButton, SampleBattery, BatteryDue, Tick, vars, hook
  <2>2. radio' = radio \/ radio = "associated"
    BY <1>2 DEF Next, FetchTask, Setup, ScanFound, ScanMissing, BeginCycle, StartOk, StartFails,
       ConnectOk, ConnectFails, ConfigUp, DhcpTimeout, MirrorOk, MirrorFails, FetchOk, FetchFails,
       ReportReturn, DisconnectReturn, StopReturn, DriverStops, Associate, LinkLost, EnterNap,
       WakeByTimer, WakeByButton, SampleBattery, BatteryDue, Tick, vars, link, ConfigureAndConnect
  <2>3. QED
    BY <1>2, <2>1, <2>2
<1>3. QED
  BY <1>1, <1>2

\* Why a cycle can hang in one way only (fetch.rs): every await of fetch_task
\* is bounded, but for a start whose need could not be read from the driver.
THEOREM AwaitsEnd == Spec => []NoEndlessAwait
<1>1. Init => (pc = "start" /\ radio # "stopped" => ~readable)
  BY DEF Init
<1>2. LeaseInv /\ (pc = "start" /\ radio # "stopped" => ~readable) => NoEndlessAwait
  BY DEF LeaseInv, NoEndlessAwait
<1>3. QED
  BY <1>1, <1>2, StartNext, TypeCorrect, LeaseInvariant, PTL DEF Spec
------------------------------------------------------------------------------
(* What SleepGate is worth. *)

\* The protocol that power.rs states does what it is for: whatever keeps to it
\* never sleeps with the radio powered.
THEOREM GateIsSafe == GateSpec => []Gate!Safe
<1> DEFINE Shut == (napping => ~radioActive) /\ (~radioActive => radio = "stopped")
<1>1. Gate!Init => Shut
  BY DEF Gate!Init
<1>2. Shut /\ [Gate!Next]_Gate!gateVars => Shut'
  BY DEF Gate!Next, Gate!PowerUp, Gate!PowerDown, Gate!Permit, Gate!PermitDown, Gate!Revoke,
         Gate!Nap, Gate!Wake, Gate!Reset, Gate!gateVars
<1>3. Shut => Gate!Safe
  BY DEF Gate!Safe
<1>4. QED
  BY <1>1, <1>2, <1>3, PTL DEF GateSpec, Gate!Spec
==============================================================================
