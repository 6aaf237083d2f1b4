------------------------------ MODULE RadioCycle ------------------------------
(***************************************************************************)
(* The fetch task of src/src/tasks/fetch.rs with wifi_connect.rs: one      *)
(* start -> connect -> DHCP -> fetch -> report -> teardown cycle after     *)
(* another, next to the two readers of RADIO_ACTIVE that run between its   *)
(* awaits: the light-sleep idle hook (power.rs) and the battery task       *)
(* (battery.rs).                                                           *)
(*                                                                         *)
(* Tasks share one cooperative executor, so an action is what runs from    *)
(* one await to the next.  Time is counted in ticks; a deadline is a       *)
(* countdown or, for the lease, an age.                                    *)
(***************************************************************************)
EXTENDS Integers

CONSTANTS
    TxMax, TxMin,    \* TX_POWER_MAX, TX_POWER_MIN in units of TX_POWER_STEP
    Successes,       \* SUCCESSES_BEFORE_STEP
    RetryGap, SuccessGap,
    ConnectTicks,    \* connect(): 5000 polls and their 100 reconnect pauses
    DhcpTicks,       \* DHCP_TIMEOUT
    MirrorTicks,     \* MIRROR_TIMEOUT
    FetchTicks,      \* FETCH_TIMEOUT, which covers the mirror attempt too
    ReportTicks,     \* telemetry's POST timeout
    BootGrace, ButtonWindow,
    LeaseT1s,        \* renewal times T1 the DHCP server may grant
    MinT1,           \* leases with T1 up to this are not worth reusing
    Mirror,          \* feature gbfs-mirror
    LogServer,       \* feature log-server
    MaxAge,          \* bound: ages of a lease from here on are not told apart
    MaxOkRun         \* bound: successes in a row from here on are not told apart

ASSUME TxAssumption ==
    /\ TxMax \in Nat /\ TxMin \in Nat /\ TxMin < TxMax
    /\ Successes \in Nat \ {0}
    /\ MaxOkRun \in Nat /\ MaxOkRun >= Successes * (TxMax - TxMin)

ASSUME TimeAssumption ==
    /\ RetryGap \in Nat \ {0} /\ SuccessGap \in Nat \ {0}
    /\ ConnectTicks \in Nat /\ DhcpTicks \in Nat
    /\ MirrorTicks \in Nat /\ FetchTicks \in Nat /\ MirrorTicks <= FetchTicks
    /\ ReportTicks \in Nat
    /\ BootGrace \in Nat /\ ButtonWindow \in Nat
    /\ LeaseT1s \subseteq Nat /\ MinT1 \in Nat /\ MaxAge \in Nat

ASSUME FeatureAssumption == {Mirror, LogServer} \subseteq BOOLEAN

VARIABLES
    pc,           \* where fetch_task stands (an await, or the loop's top)
    radio,        \* the WiFi driver: stopped, started or associated
    radioActive,  \* RADIO_ACTIVE
    txPower,      \* fetch_task's tx_power
    streak,       \* fetch_task's success_streak
    lease,        \* fetch_task's lease: its T1 and its age, NoLease for None
    reused,       \* lease_reused: this cycle runs on the static config
    outcome,      \* how the cycle went, once known
    status,       \* STATUS.wifi_connected and STATUS.tx_power
    gap,          \* ticks left of the Timer between cycles
    spent,        \* ticks spent in the current await
    napping,      \* the CPU is in light sleep
    awake,        \* ticks until awake_until_us passes
    readable,     \* on this chip is_started() never fails
    battery,      \* battery_task: first sample, due, or resting 30 s
    okRun         \* history: successful cycles since the last failure or reset

link == <<radio, radioActive>>
power == <<txPower, streak, okRun>>
address == <<lease, reused>>
timers == <<gap, spent>>
hook == <<napping, awake, readable>>
vars == <<pc, radio, radioActive, txPower, streak, lease, reused, outcome,
          status, gap, spent, napping, awake, readable, battery, okRun>>

Phases == {"setup", "scan", "start", "connect", "dhcp", "mirror", "fetch",
           "report", "disconnect", "stop", "gap"}
Failures == {"connectFailed", "dhcpTimeout", "ConnectionLost"}
NoLease == [t1 |-> 0, age |-> 0]

\* lease_reuse_until: 90% of T1 after the lease was obtained.
ReuseFor(t1) == (t1 * 9) \div 10
\* The server's lease time; T1 defaults to half of it (RFC 2131, 4.4.5).
LeaseTime(t1) == 2 * t1
ASSUME AgeAssumption == \A t1 \in LeaseT1s : LeaseTime(t1) <= MaxAge

CanReuse == lease # NoLease /\ lease.age < ReuseFor(lease.t1)

\* is_started(): the driver's state, or an error.
IsStarted(r) == {IF r = "stopped" THEN "no" ELSE "yes"}
                  \union (IF readable THEN {} ELSE {"error"})

TypeOK ==
    /\ pc \in Phases
    /\ radio \in {"stopped", "started", "associated"}
    /\ radioActive \in BOOLEAN
    /\ txPower \in TxMin .. TxMax
    /\ streak \in 0 .. Successes - 1
    /\ lease \in [t1 : Nat, age : Nat]
    /\ reused \in BOOLEAN
    /\ outcome \in Failures \union {"none", "Success"}
    /\ status \in [connected : BOOLEAN, tx : Nat]
    /\ gap \in Nat /\ spent \in Nat
    /\ napping \in BOOLEAN /\ awake \in Nat /\ readable \in BOOLEAN
    /\ battery \in {"first", "due", "rest"}
    /\ okRun \in 0 .. MaxOkRun

Init ==
    /\ pc = "setup"
    /\ radio = "stopped"
    /\ radioActive = TRUE
    /\ txPower = TxMax
    /\ streak = 0
    /\ lease = NoLease
    /\ reused = FALSE
    /\ outcome = "none"
    /\ status = [connected |-> FALSE, tx |-> TxMax]
    /\ gap = 0
    /\ spent = 0
    /\ napping = FALSE
    /\ awake = BootGrace
    /\ readable \in BOOLEAN
    /\ battery = "first"
    /\ okRun = 0
------------------------------------------------------------------------------
(* Boot: setup() starts the controller, scans for the AP and configures it. *)

Setup ==
    /\ pc = "setup" /\ ~napping
    /\ radio' = "started"
    /\ pc' = "scan"
    /\ UNCHANGED <<radioActive, power, address, outcome, status, timers, hook, battery>>

ScanFound ==
    /\ pc = "scan" /\ ~napping
    /\ pc' = "gap"
    /\ UNCHANGED <<link, power, address, outcome, status, timers, hook, battery>>

\* target_ap.expect(...): the panic handler resets the chip.
ScanMissing ==
    /\ pc = "scan" /\ ~napping
    /\ pc' = "setup"
    /\ radio' = "stopped"
    /\ radioActive' = TRUE
    /\ txPower' = TxMax /\ streak' = 0 /\ okRun' = 0
    /\ lease' = NoLease /\ reused' = FALSE
    /\ outcome' = "none"
    /\ status' = [connected |-> FALSE, tx |-> TxMax]
    /\ gap' = 0 /\ spent' = 0
    /\ awake' = BootGrace /\ battery' = "first"
    /\ UNCHANGED <<napping, readable>>
------------------------------------------------------------------------------
(* The end of a cycle. *)

\* Mutant: the streak survives a failure.
ResetKeepsStreak == txPower' = TxMax /\ okRun' = 0 /\ UNCHANGED streak

ResetTxPower == txPower' = TxMax /\ streak' = 0 /\ okRun' = 0

\* Mutant: no floor.
StepWithoutFloor ==
    /\ okRun' = IF okRun < MaxOkRun THEN okRun + 1 ELSE okRun
    /\ IF streak + 1 >= Successes
       THEN txPower' = txPower - 1 /\ streak' = 0
       ELSE streak' = streak + 1 /\ UNCHANGED txPower

StepTxPowerOnSuccess ==
    /\ okRun' = IF okRun < MaxOkRun THEN okRun + 1 ELSE okRun
    /\ IF txPower <= TxMin
       THEN UNCHANGED <<txPower, streak>>
       ELSE IF streak + 1 >= Successes
            THEN txPower' = txPower - 1 /\ streak' = 0
            ELSE streak' = streak + 1 /\ UNCHANGED txPower

\* Mutant: unwrap_or(false), an unreadable state counts as stopped.
StoreUnknownAsStopped(r) ==
    \E answer \in IsStarted(r) : radioActive' = (answer = "yes")

\* RADIO_ACTIVE.store(is_started().unwrap_or(true)), with the driver in state r.
StoreRadioActive(r) ==
    \E answer \in IsStarted(r) : radioActive' = (answer # "no")

\* Mutants: the lease outlives a failed cycle; wifi_connected outlives the cycle.
FinishKeepsLease(result) ==
    /\ StoreRadioActive(radio)
    /\ UNCHANGED lease
    /\ IF result = "Success"
       THEN StepTxPowerOnSuccess /\ gap' = SuccessGap
       ELSE ResetTxPower /\ gap' = RetryGap
    /\ status' = [connected |-> FALSE,
                  tx |-> IF result \in {"Success", "ConnectionLost"}
                         THEN txPower' ELSE status.tx]
    /\ pc' = "gap" /\ spent' = 0 /\ reused' = FALSE /\ outcome' = "none"

\* From the store in teardown() to the Timer between cycles.
FinishCycle(result) ==
    /\ StoreRadioActive(radio)
    /\ IF result = "Success"
       THEN /\ StepTxPowerOnSuccess
            /\ gap' = SuccessGap
            /\ UNCHANGED lease
       ELSE /\ ResetTxPower
            /\ gap' = RetryGap
            /\ lease' = NoLease
    /\ status' = [connected |-> FALSE,
                  tx |-> IF result \in {"Success", "ConnectionLost"}
                         THEN txPower' ELSE status.tx]
    /\ pc' = "gap" /\ spent' = 0 /\ reused' = FALSE /\ outcome' = "none"

\* teardown(): straight to the store unless the driver says it is started.
Teardown(result) ==
    \/ /\ "yes" \in IsStarted(radio)
       /\ pc' = "disconnect"
       /\ outcome' = result
       /\ spent' = 0
       /\ UNCHANGED <<radioActive, power, address, status, gap>>
    \/ /\ IsStarted(radio) # {"yes"}
       /\ FinishCycle(result)

\* disconnect_async() returned; its result is ignored.
DisconnectReturn ==
    /\ pc = "disconnect" /\ ~napping
    /\ pc' = "stop"
    /\ radio' \in {radio} \union (IF radio = "associated" THEN {"started"} ELSE {})
    /\ UNCHANGED <<radioActive, power, address, outcome, status, timers, hook, battery>>

\* The driver powers the radio down for stop_async().
DriverStops ==
    /\ pc = "stop" /\ radio # "stopped" /\ ~napping
    /\ radio' = "stopped"
    /\ UNCHANGED <<pc, radioActive, power, address, outcome, status, timers, hook, battery>>

\* stop_async() returned, possibly an error that leaves the radio up.
StopReturn ==
    /\ pc = "stop" /\ ~napping
    /\ FinishCycle(outcome)
    /\ UNCHANGED <<radio, hook, battery>>
------------------------------------------------------------------------------
(* The cycle. *)

\* config_v4 for this cycle, then connect().
ConfigureAndConnect ==
    /\ reused' = CanReuse
    /\ pc' = "connect"
    /\ spent' = 0

\* Mutant: the flag is not raised before the radio starts.
BeginWithoutFlag ==
    /\ pc = "gap" /\ gap = 0 /\ ~napping
    /\ \/ "yes" \in IsStarted(radio) /\ ConfigureAndConnect
       \/ /\ IsStarted(radio) # {"yes"}
          /\ pc' = "start"
          /\ UNCHANGED <<reused, spent>>
    /\ UNCHANGED <<link, power, lease, outcome, status, gap, hook, battery>>

\* The loop's top: hold off light sleep, start the controller if it is stopped.
BeginCycle ==
    /\ pc = "gap" /\ gap = 0 /\ ~napping
    /\ radioActive' = TRUE
    /\ \/ /\ "yes" \in IsStarted(radio)
          /\ ConfigureAndConnect
       \/ /\ IsStarted(radio) # {"yes"}
          /\ pc' = "start"
          /\ UNCHANGED <<reused, spent>>
    /\ UNCHANGED <<radio, power, lease, outcome, status, gap, hook, battery>>

\* start_async() on a controller that is already started never returns.
StartOk ==
    /\ pc = "start" /\ radio = "stopped" /\ ~napping
    /\ radio' = "started"
    /\ ConfigureAndConnect
    /\ UNCHANGED <<radioActive, power, lease, outcome, status, gap, hook, battery>>

\* Mutant: the flag stays up after a failed start.
StartFailsKeepsFlag ==
    /\ pc = "start" /\ radio = "stopped" /\ ~napping
    /\ radio' \in {"stopped", "started"}
    /\ ResetTxPower
    /\ lease' = NoLease
    /\ gap' = RetryGap
    /\ pc' = "gap"
    /\ UNCHANGED <<radioActive, reused, outcome, status, spent, hook, battery>>

StartFails ==
    /\ pc = "start" /\ radio = "stopped" /\ ~napping
    /\ radio' \in {"stopped", "started"}
    /\ StoreRadioActive(radio')
    /\ ResetTxPower
    /\ lease' = NoLease
    /\ gap' = RetryGap
    /\ pc' = "gap"
    /\ UNCHANGED <<reused, outcome, status, spent, hook, battery>>

ConnectOk ==
    /\ pc = "connect" /\ radio = "associated" /\ ~napping
    /\ status' = [connected |-> TRUE, tx |-> txPower]
    /\ pc' = "dhcp" /\ spent' = 0
    /\ UNCHANGED <<link, power, address, outcome, gap, hook, battery>>

\* Mutant: the attempts are not counted.
ConnectNeverGivesUp ==
    /\ pc = "connect" /\ spent = 0 /\ ~napping
    /\ Teardown("connectFailed")
    /\ UNCHANGED <<radio, hook, battery>>

\* The driver refused at once, or every attempt was used up.
ConnectFails ==
    /\ pc = "connect" /\ spent \in {0, ConnectTicks} /\ ~napping
    /\ Teardown("connectFailed")
    /\ UNCHANGED <<radio, hook, battery>>

\* wait_config_up(): at once with the static config, else a DHCP ACK.
ConfigUp ==
    /\ pc = "dhcp" /\ radio = "associated" /\ ~napping
    /\ IF reused
       THEN UNCHANGED lease
       ELSE \E t1 \in LeaseT1s :
              lease' = IF t1 > MinT1 THEN [t1 |-> t1, age |-> 0] ELSE NoLease
    /\ pc' = IF Mirror THEN "mirror" ELSE "fetch"
    /\ spent' = 0
    /\ UNCHANGED <<link, power, reused, outcome, status, gap, hook, battery>>

DhcpTimeout ==
    /\ pc = "dhcp" /\ spent = DhcpTicks /\ ~napping
    /\ Teardown("dhcpTimeout")
    /\ UNCHANGED <<radio, hook, battery>>

\* The fetch is over: report it, if built to, then tear down.
AfterFetch(result) ==
    IF LogServer
    THEN /\ pc' = "report" /\ outcome' = result /\ spent' = 0
         /\ UNCHANGED <<radioActive, power, address, status, gap>>
    ELSE Teardown(result)

MirrorOk ==
    /\ pc = "mirror" /\ radio = "associated" /\ ~napping
    /\ AfterFetch("Success")
    /\ UNCHANGED <<radio, hook, battery>>

\* Any mirror error or its timeout: fall back to Lyft in the same cycle.
MirrorFails ==
    /\ pc = "mirror" /\ ~napping
    /\ pc' = "fetch"
    /\ UNCHANGED <<link, power, address, outcome, status, timers, hook, battery>>

FetchOk ==
    /\ pc = "fetch" /\ radio = "associated" /\ ~napping
    /\ AfterFetch("Success")
    /\ UNCHANGED <<radio, hook, battery>>

\* A transport error, or FETCH_TIMEOUT.
FetchFails ==
    /\ pc = "fetch" /\ ~napping
    /\ AfterFetch("ConnectionLost")
    /\ UNCHANGED <<radio, hook, battery>>

\* send_report() is best effort and always returns.
ReportReturn ==
    /\ pc = "report" /\ ~napping
    /\ Teardown(outcome)
    /\ UNCHANGED <<radio, hook, battery>>

FetchTask ==
    \/ Setup \/ ScanFound \/ ScanMissing
    \/ BeginCycle \/ StartOk \/ StartFails
    \/ ConnectOk \/ ConnectFails \/ ConfigUp \/ DhcpTimeout
    \/ MirrorOk \/ MirrorFails \/ FetchOk \/ FetchFails \/ ReportReturn
    \/ DisconnectReturn \/ StopReturn
------------------------------------------------------------------------------
(* The access point, the idle hook, the battery task and time. *)

Associate ==
    /\ radio = "started" /\ pc = "connect" /\ ~napping
    /\ radio' = "associated"
    /\ UNCHANGED <<pc, radioActive, power, address, outcome, status, timers, hook, battery>>

LinkLost ==
    /\ radio = "associated" /\ ~napping
    /\ radio' = "started"
    /\ UNCHANGED <<pc, radioActive, power, address, outcome, status, timers, hook, battery>>

\* The scheduler runs the idle hook only when no task is ready.
EnterNap ==
    /\ ~napping
    /\ pc = "gap" => gap > 0
    /\ ~radioActive /\ awake = 0
    /\ napping' = TRUE
    /\ UNCHANGED <<pc, link, power, address, outcome, status, timers, awake, readable, battery>>

WakeByTimer ==
    /\ napping
    /\ napping' = FALSE
    /\ UNCHANGED <<pc, link, power, address, outcome, status, timers, awake, readable, battery>>

WakeByButton ==
    /\ napping
    /\ napping' = FALSE
    /\ awake' = ButtonWindow
    /\ UNCHANGED <<pc, link, power, address, outcome, status, timers, readable, battery>>

\* Mutant: the flag is not read again after the wait.
SampleAnyTime ==
    /\ ~napping /\ pc # "scan" /\ battery \in {"first", "due"}
    /\ battery' = "rest"
    /\ UNCHANGED <<pc, link, power, address, outcome, status, timers, hook>>

SampleBattery ==
    /\ ~napping /\ pc # "scan"  \* setup() scans without an await
    /\ battery = "first" \/ (battery = "due" /\ ~radioActive)
    /\ battery' = "rest"
    /\ UNCHANGED <<pc, link, power, address, outcome, status, timers, hook>>

BatteryDue ==
    /\ ~napping /\ battery = "rest"
    /\ battery' = "due"
    /\ UNCHANGED <<pc, link, power, address, outcome, status, timers, hook>>

\* The longest stay the code allows in a phase; the driver calls have none.
Limit == [connect |-> ConnectTicks, dhcp |-> DhcpTicks, mirror |-> MirrorTicks,
          fetch |-> FetchTicks, report |-> ReportTicks]

Tick ==
    /\ ~napping
    /\ \/ pc = "gap" /\ gap > 0 /\ gap' = gap - 1 /\ UNCHANGED spent
       \/ pc \in DOMAIN Limit /\ spent < Limit[pc] /\ spent' = spent + 1 /\ UNCHANGED gap
       \/ pc \in {"start", "disconnect", "stop"} /\ UNCHANGED timers
    /\ awake' = IF awake > 0 THEN awake - 1 ELSE 0
    /\ lease' = IF lease # NoLease /\ lease.age < MaxAge
                THEN [lease EXCEPT !.age = @ + 1] ELSE lease
    /\ UNCHANGED <<pc, link, power, reused, outcome, status, napping, readable, battery>>

Next ==
    \/ FetchTask \/ DriverStops
    \/ Associate \/ LinkLost
    \/ EnterNap \/ WakeByTimer \/ WakeByButton
    \/ SampleBattery \/ BatteryDue
    \/ Tick

Spec == Init /\ [][Next]_vars

(* The executor runs a ready task, the driver answers every call, time does *)
(* not stop for good between naps, and a nap ends.                         *)
Fairness ==
    /\ WF_vars(FetchTask)
    /\ WF_vars(WakeByTimer)
    /\ SF_vars(Tick)

FairSpec == Spec /\ Fairness
------------------------------------------------------------------------------
(* Properties. *)

\* The idle hook (power.rs) never has the CPU asleep while the radio is powered,
\* whichever way the previous cycle ended and whatever the driver answered.
NapSafe == napping => radio = "stopped"

\* Between cycles RADIO_ACTIVE says what the radio does: a cycle that left by
\* any error path neither lets the CPU sleep under a live radio nor keeps it
\* awake (and the battery unsampled) for a stopped one.
FlagTracksRadio ==
    pc = "gap" /\ gap > 0 /\ (readable \/ radio # "stopped")
        => radioActive = (radio # "stopped")

\* Adaptive TX power (fetch.rs, wifi_connect.rs): tx_power has come down by one
\* step for every full streak of successes since the last failure of any kind,
\* and by nothing else.
TxFollowsHistory ==
    IF txPower > TxMin
    THEN okRun = Successes * (TxMax - txPower) + streak
    ELSE okRun >= Successes * (TxMax - TxMin) /\ streak = 0

\* STATUS.wifi_connected is true only from association to the end of the
\* cycle's teardown.
ConnectedOnlyInCycle ==
    status.connected => pc \in {"dhcp", "mirror", "fetch", "report", "disconnect", "stop"}

\* On every path through the loop of fetch_task, what it tells the idle hook
\* and the display of the radio is right.
StatusTracksRadio == FlagTracksRadio /\ ConnectedOnlyInCycle

\* "Cleared on any failure so the next cycle asks DHCP again": a static config
\* is used only straight after a successful cycle.
ReuseOnlyAfterSuccess == reused => okRun > 0

\* The address of a reused lease is not used past the lease's end, given
\* leases at least LongLeases long.
OnNetwork == pc \in {"dhcp", "mirror", "fetch", "report"}
LeaseUsable == reused /\ OnNetwork => lease.age < LeaseTime(lease.t1)

\* A kept address (fetch.rs 166-179, 398-406) is neither doubtful nor expired.
LeaseSound == ReuseOnlyAfterSuccess /\ LeaseUsable

\* Leases so long that one reused at the last moment outlives the slowest cycle.
LongLeases ==
    \A t1 \in LeaseT1s : t1 > MinT1 =>
        ReuseFor(t1) + ConnectTicks + DhcpTicks + FetchTicks + ReportTicks <= LeaseTime(t1)

\* battery.rs: every sample but the first is a resting voltage.
RestingSamples ==
    [][battery = "due" /\ battery' = "rest" => radio = "stopped"]_vars

\* Whatever fails, the fetch task gets through its cycle to the next gap.  It
\* stops for good in one way only: start_async() on a controller that runs,
\* called because is_started() could not be read, never returns.
CyclesForever ==
    \/ []<>(pc = "gap" /\ gap > 0)
    \/ []<>(pc = "setup")
    \/ ~readable /\ <>[](pc = "start" /\ radio # "stopped")

\* The radio and the sleeping CPU keep to SleepGate's protocol.
Gate == INSTANCE SleepGate
          WITH radioUp <- radio # "stopped", allowed <- ~radioActive
GateSpec == Gate!Spec
==============================================================================
