---------------------------- MODULE StationDisplay ----------------------------
(***************************************************************************)
(* From a touch to the LEDs: input_read_task polls the touch grid and      *)
(* signals changes, the fetch task publishes station data and its time,    *)
(* station_leds_task shows them (src/src/tasks/{input_read,station_leds,   *)
(* fetch,signals}.rs, spi_devices/al5887).                                 *)
(*                                                                         *)
(* A Signal holds the latest value only; taking it empties it.  The SPI    *)
(* writes never yield, so a task runs from one wait to the next in one     *)
(* step.  The bike counts are abstracted to one row of LEDs: the e-bike    *)
(* and the mechanical row are filled the same way.                         *)
(***************************************************************************)
EXTENDS Integers

CONSTANTS
    Stations,      \* stations some cell selects, with a place in station_data
    Unindexed,     \* what cells select besides: StationIdx::Unknown if the map does not
                   \* list them all, SouthLake (610, the length of station_data) if it lists it
    None,          \* StationIdx::None: nothing touched
    Empty,         \* an empty Signal, an unset Option
    Row,           \* EBIKE_LEDS.len()
    LedIdles,      \* builds: values of the LED_IDLE build variable
    MaxFetch       \* bound: fetches published

Cells == Stations \union Unindexed

ASSUME StationAssumption ==
    /\ {None, Empty} \intersect Cells = {} /\ None # Empty
    /\ Unindexed \intersect Stations = {}

ASSUME DisplayAssumption ==
    /\ Row \in Nat \ {0} /\ MaxFetch \in Nat /\ LedIdles \subseteq 0 .. 2

VARIABLES
    touch,          \* what the finger is on
    lastSignaled,   \* input_read_task's last_signaled
    stationSignal,  \* STATION_SIGNAL
    dataSignal,     \* STATION_DATA_SIGNAL: the fetch and its bike counts
    fetchSignal,    \* FETCH_SIGNAL
    published,      \* number of the last fetch published
    led,            \* where station_leds_task waits
    last,           \* its last_station
    stationData,    \* its station_data
    fetchTime,      \* its fetch_time, as the number of that fetch
    chipOn,         \* AL5887 chip enable
    regs,           \* LEDs whose AL5887 registers are non-zero
    ledStates,      \* LEDs non-zero in STATUS.led_states
    shown,          \* what the LEDs were last set for
    switched,       \* history: a touch replaced another since the last release
    ledIdle         \* LED_IDLE of this build

history == <<shown, switched>>
input == <<touch, lastSignaled, ledIdle>>
feed == <<dataSignal, fetchSignal, published>>
ledVars == <<led, last, stationData, fetchTime, chipOn, regs, ledStates, shown, switched>>
vars == <<touch, lastSignaled, stationSignal, dataSignal, fetchSignal, published, led, last,
          stationData, fetchTime, chipOn, regs, ledStates, shown, switched, ledIdle>>

Leds == 1 .. Row \union {Row + 1, Row + 2}
EmptyLed == Row + 1        \* Led6
AgeLed == Row + 2          \* Led11
Counts == [Stations -> 0 .. Row + 1]   \* a count above the row's length is capped
NoData == [fetch |-> 0, bikes |-> [s \in Stations |-> 0]]
Data == [fetch : 0 .. MaxFetch, bikes : Counts]
Nothing == [station |-> None, data |-> 0, fetch |-> 0]

\* An empty Signal is told from a full one.
ASSUME SignalAssumption == Empty \notin Nat /\ \A d \in Data : d # Empty

TypeOK ==
    /\ touch \in Cells \union {None}
    /\ lastSignaled \in Cells \union {None, Empty}
    /\ stationSignal \in Cells \union {None, Empty}
    /\ dataSignal \in Data \union {Empty}
    /\ fetchSignal \in 0 .. MaxFetch \union {Empty}
    /\ published \in 0 .. MaxFetch
    /\ led \in {"data", "fetch", "wait", "init", "pause", "panic"}
    /\ last \in Cells \union {None}
    /\ led = "init" => last \in Stations
    /\ stationData \in Data
    /\ fetchTime \in 0 .. MaxFetch
    /\ chipOn \in BOOLEAN
    /\ regs \in SUBSET Leds
    /\ ledStates \in SUBSET Leds
    /\ shown \in [station : Stations \union {None}, data : 0 .. MaxFetch, fetch : 0 .. MaxFetch]
    /\ switched \in BOOLEAN
    /\ ledIdle \in LedIdles

Init ==
    /\ touch = None
    /\ lastSignaled = Empty
    /\ stationSignal = Empty
    /\ dataSignal = Empty
    /\ fetchSignal = Empty
    /\ published = 0
    /\ led = "data"
    /\ last = None
    /\ stationData = NoData
    /\ fetchTime = 0
    /\ chipOn = TRUE
    /\ regs = {}
    /\ ledStates = {}
    /\ shown = Nothing
    /\ switched = FALSE
    /\ ledIdle \in LedIdles
------------------------------------------------------------------------------
(* The finger and input_read_task. *)

Touch(c) ==
    /\ c # touch
    /\ touch' = c
    /\ UNCHANGED <<lastSignaled, ledIdle, stationSignal, feed, ledVars>>

\* The LED task handles a signal and ends its 50 ms pause before the next poll,
\* at least 150 ms on; only while it waits for the first data do signals pile up.
LedSettled == led \in {"data", "fetch"} \/ (led = "wait" /\ stationSignal = Empty)

\* Mutant: a full signal keeps its value, as a channel of one would.
PollKeepsOld ==
    /\ LedSettled
    /\ lastSignaled # touch
    /\ stationSignal' = IF stationSignal = Empty THEN touch ELSE stationSignal
    /\ lastSignaled' = touch
    /\ UNCHANGED <<touch, ledIdle, feed, ledVars>>

Poll ==
    /\ LedSettled
    /\ lastSignaled # touch
    /\ stationSignal' = touch
    /\ lastSignaled' = touch
    /\ UNCHANGED <<touch, ledIdle, feed, ledVars>>
------------------------------------------------------------------------------
(* StationSink::finish. *)

Publish(bikes) ==
    /\ published < MaxFetch
    /\ published' = published + 1
    /\ dataSignal' = [fetch |-> published + 1, bikes |-> bikes]
    /\ fetchSignal' = published + 1
    /\ UNCHANGED <<input, stationSignal, ledVars>>
------------------------------------------------------------------------------
(* station_leds_task. *)

\* wait_with_breathing(&STATION_DATA_SIGNAL); the age LED breathes meanwhile.
TakeFirstData ==
    /\ led = "data" /\ dataSignal # Empty
    /\ stationData' = dataSignal
    /\ dataSignal' = Empty
    /\ led' = "fetch"
    /\ UNCHANGED <<input, stationSignal, fetchSignal, published, last, fetchTime, chipOn, regs,
                   ledStates, history>>

Breathe ==
    /\ led = "data"
    /\ regs' \in {{}, {AgeLed}}
    /\ UNCHANGED <<input, stationSignal, feed, led, last, stationData, fetchTime, chipOn,
                   ledStates, history>>

\* go_idle(): chip disable, and with LED_IDLE 2 a hardware shutdown.
TakeFirstFetch ==
    /\ led = "fetch" /\ fetchSignal # Empty
    /\ fetchTime' = fetchSignal
    /\ fetchSignal' = Empty
    /\ led' = "wait"
    /\ regs' = regs \ {AgeLed}
    /\ chipOn' = (ledIdle = 0)
    /\ UNCHANGED <<input, stationSignal, dataSignal, published, last, stationData, ledStates,
                   history>>

\* Mutants: the taken time unchecked, or not taken.
FetchTimeUnchecked == fetchSignal
FetchTimeNotTaken == fetchTime

NewFetchTime == IF fetchSignal # Empty THEN fetchSignal ELSE fetchTime
NewStationData == IF dataSignal # Empty THEN dataSignal ELSE stationData

\* get_leds() and get_fetch_age_leds().
LedsFor(bikes) == (IF bikes = 0 THEN {EmptyLed} ELSE {i \in 1 .. Row : i <= bikes}) \union {AgeLed}

\* A signal that repeats the current station only refreshes the fetch time.
HandleRepeat ==
    /\ led = "wait" /\ stationSignal # Empty /\ stationSignal = last
    /\ fetchTime' = NewFetchTime
    /\ stationSignal' = Empty /\ fetchSignal' = Empty
    /\ led' = "pause"
    /\ UNCHANGED <<input, dataSignal, published, last, stationData, chipOn, regs, ledStates, history>>

\* Mutant: the data taken on a release is dropped.
DataOnlyOnTouch ==
    /\ led = "wait" /\ stationSignal # Empty /\ stationSignal # last
    /\ fetchTime' = NewFetchTime
    /\ stationData' = IF stationSignal = None THEN stationData ELSE NewStationData
    /\ stationSignal' = Empty /\ fetchSignal' = Empty /\ dataSignal' = Empty
    /\ last' = stationSignal
    /\ UNCHANGED <<input, published>>

\* Both signals are taken whatever the new station is.
TakeSignals ==
    /\ led = "wait" /\ stationSignal # Empty /\ stationSignal # last
    /\ fetchTime' = NewFetchTime
    /\ stationData' = NewStationData
    /\ stationSignal' = Empty /\ fetchSignal' = Empty /\ dataSignal' = Empty
    /\ last' = stationSignal
    /\ UNCHANGED <<input, published>>

\* Mutants: the registers, or STATUS, keep what the released station lit.
RegsKeptOnRelease ==
    /\ stationSignal = None
    /\ TakeSignals
    /\ ledStates' = {} /\ chipOn' = FALSE
    /\ UNCHANGED regs
    /\ shown' = Nothing /\ switched' = FALSE
    /\ led' = "pause"

HandleRelease ==
    /\ stationSignal = None
    /\ TakeSignals
    /\ regs' = {} /\ ledStates' = {} /\ chipOn' = FALSE
    /\ shown' = Nothing /\ switched' = FALSE
    /\ led' = "pause"

\* set_vec_led() writes the LEDs it is given and no other.
Show(station, data, time, before) ==
    LET leds == LedsFor(data.bikes[station]) IN
    /\ ledStates' = leds
    /\ regs' = before \union leds
    /\ chipOn' = TRUE
    /\ shown' = [station |-> station, data |-> data.fetch, fetch |-> time]
    /\ led' = "pause"

\* A touch when nothing was shown re-enables the chip; a touch that replaces
\* another finds it enabled.
HandleTouch ==
    /\ stationSignal \in Stations
    /\ TakeSignals
    /\ ~(last = None /\ ledIdle = 2)
    /\ Show(stationSignal, NewStationData, NewFetchTime, regs)
    /\ switched' = (last # None)

\* LED_IDLE 2: the driver is initialised first, with an await of 1 ms.
HandleTouchAfterShutdown ==
    /\ stationSignal \in Stations
    /\ TakeSignals
    /\ last = None /\ ledIdle = 2
    /\ led' = "init"
    /\ regs' = {} /\ chipOn' = TRUE
    /\ UNCHANGED <<ledStates, history>>

ShowAfterInit ==
    /\ led = "init"
    /\ Show(last, stationData, fetchTime, regs)
    /\ UNCHANGED <<input, stationSignal, feed, last, stationData, fetchTime, switched>>

\* station_data[station_idx as usize] is out of bounds.
HandleUnindexed ==
    /\ stationSignal \in Unindexed
    /\ TakeSignals
    /\ led' = "panic"
    /\ UNCHANGED <<chipOn, regs, ledStates, history>>

Resume ==
    /\ led = "pause"
    /\ led' = "wait"
    /\ UNCHANGED <<input, stationSignal, feed, last, stationData, fetchTime, chipOn, regs,
                   ledStates, history>>

\* The panic handler resets the chip.
Reboot ==
    /\ led = "panic"
    /\ lastSignaled' = Empty
    /\ stationSignal' = Empty /\ dataSignal' = Empty /\ fetchSignal' = Empty
    /\ published' = 0
    /\ led' = "data" /\ last' = None
    /\ stationData' = NoData /\ fetchTime' = 0
    /\ chipOn' = TRUE /\ regs' = {} /\ ledStates' = {}
    /\ shown' = Nothing /\ switched' = FALSE
    /\ UNCHANGED <<touch, ledIdle>>

LedTask ==
    \/ TakeFirstData \/ TakeFirstFetch \/ HandleRepeat \/ HandleRelease \/ HandleTouch
    \/ HandleTouchAfterShutdown \/ ShowAfterInit \/ HandleUnindexed \/ Resume \/ Reboot

Next ==
    \/ \E c \in Cells \union {None} : Touch(c)
    \/ Poll
    \/ \E bikes \in Counts : Publish(bikes)
    \/ Breathe
    \/ LedTask

Spec == Init /\ [][Next]_vars

\* A ready task runs, and the polling task's timer always fires again.
FairSpec == Spec /\ WF_vars(Poll) /\ WF_vars(LedTask)
------------------------------------------------------------------------------
(* Properties. *)

\* A touch shows the newest published counts under the age of that same fetch,
\* although both arrive through separate signals that the LED task takes at
\* different times and that are overwritten at any time (station_leds.rs:39-50).
\* With LED_IDLE 2 a fetch may slip in while the driver starts: SameFetch.
NewestAtTouch ==
    [][ledIdle < 2 /\ shown' # shown /\ shown'.station # None =>
         shown'.data = published /\ shown'.fetch = published]_vars

\* The counts on the board and the age LED beside them are of one fetch.
SameFetch == shown.data = shown.fetch

Lit == IF chipOn THEN regs ELSE {}

\* "led_states mirrors what's actually on the physical LEDs" (Shared-State.md:32).
LedsMirrored == led \in {"wait", "pause"} => Lit = ledStates

\* STATUS and the LEDs differ only after a touch replaced another, and only
\* until the next release: set_vec_led() leaves the LEDs it is not given, and
\* the registers, the chip enable and STATUS are written separately on each path.
LedsMatchStatus == switched \/ LedsMirrored

\* "Never used as indices" (stations.rs:628): no touch makes the LED task index
\* the station data out of bounds.
NoPanic == led # "panic"

\* A touch that lasts is shown, and a release darkens the board, whatever was
\* signalled before and however the signals were overwritten.
DisplayFollows ==
    \A s \in Stations \union {None} :
        <>[](touch = s /\ published > 0) =>
            <>[](shown.station = s /\ (s = None => Lit = {}))
==============================================================================
