# Verification of the Bay Wheels controller

The firmware of an ESP32-S3 board (`src/src/`, Rust on Embassy) shows how many
bikes a touched station has. It wakes its radio about once a minute, reads the
GBFS feed, and naps in between. It runs on two patched libraries (`src/patches/`:
esp-rtos, smoltcp). Web pages flash it, give it WiFi credentials and watch it
(`src/web/`), and a Home Assistant add-on stores its reports and mirrors the feed
(`src/homeassistant/`). These TLA+ modules model the parts of that system whose
correctness depends on the order of things; TLC checks them on small instances,
and TLAPS proves theorems about all nine detailed modules, for all values of their
constants. Paths below are relative to the repository root, `src/`.

## 1. Inventory

| Part | State it keeps | Operations | Talks to | What makes it correct |
|---|---|---|---|---|
| Fetch cycle: `src/tasks/fetch.rs`, `wifi_connect.rs` | TX power and streak, kept lease with `reuse_until`, gap, driver state, `RADIO_ACTIVE`, `STATUS` | `setup`, one cycle (start, connect, DHCP, mirror or fetch, report), `teardown`, TX power steps | WiFi driver, embassy-net, idle hook (flag), battery task (flag), LED task (signals) | flag and status are right after every error path; the lease reused is valid; cycles go on |
| Light sleep: `src/power.rs` | awake-until time, sleep anchor, RC_SLOW scale | idle hook, nap, clock compensation, calibration | `RADIO_ACTIVE`, the time driver's alarm, the button | no nap under a live radio or past a deadline; firmware time stays near real time |
| Timers of esp-rtos: `patches/esp-rtos-0.2.0/src/esp_radio/timer_queue.rs`, `timer/` | the driver's timers in two lists, the scheduler's alarm | create, arm, disarm, delete, process; arm next wakeup | WiFi driver, scheduler, idle hook | lists stay sound, nothing leaks, every timer fires |
| DHCP client of smoltcp: `patches/smoltcp-0.12.0/src/socket/dhcpv4.rs` | client state, xid, three timers | dispatch, process, poll, reset | server, embassy-net, `fetch.rs` (renewal time) | it binds; no address outlives its lease |
| Battery: `src/tasks/battery.rs` | last reading in `STATUS` | one sample every few minutes | waits for `RADIO_ACTIVE` to fall | samples are resting voltages |
| Touch input: `src/tasks/input_read.rs`, `spi_devices/shift_register.rs`, `grid.rs` | `last_signaled` | poll the grid, signal a change, beat for the watchdog | `STATION_SIGNAL`, `INPUT_BEAT` | the display follows it |
| Station LEDs: `src/tasks/station_leds.rs`, `spi_devices/al5887/` | last station, data, fetch time, LED registers, `STATUS.led_states` | breathe while starting, show, release, idle | `STATION_DATA_SIGNAL`, `FETCH_SIGNAL`, `STATION_SIGNAL` | data and its age are of one fetch, the newest; STATUS says what is lit |
| Station stream: `src/tasks/station_parser.rs`, `fetch.rs` (`StationSink`), `mirror.rs` | parser phase and remainder, the station array | feed a chunk, finish | HTTP body; publishes the two signals | the result does not depend on where chunks are cut |
| Watchdog and reset record: `src/watchdog.rs`, panic handler and keep-alive loop of `bin/main.rs` | RTC RAM (record, boot count), hardware watchdog, last beat, last success, pending summary | boot report, check and feed, record and reset | every task, telemetry | stalls end, working boards are left alone, each boot names what ended the last |
| Telemetry: `src/tasks/telemetry.rs` | the pending reset summary (of the watchdog) | POST one report after a fetch | log server | the summary is not lost |
| Provisioning: `src/provisioning.rs`, `wifi_config.rs`, `web/src/wifi.ts` | NVS name and password; the web app's state and buffer | wizard questions, save, reboot; send the answers, retry | each other, over USB serial | what is saved was entered as one pair; "success" means saved |
| Log server: `homeassistant/bay_wheels_log/server.py` | ring of reports, JSONL file, feed copy | append, rotate, reload, refresh the copy | the board's report and mirror request | answered reports survive |
| Serial status: `src/tasks/serial_status.rs`, `web/src/status.ts`, `serial-frame.ts`, `tools/src/serial.ts` | receive buffer | write a frame, resynchronise, decode | each other, over USB serial | a scanner finds back to the frames |
| Boot wiring, flasher page, station tables, board mapper, scripts, the rest of the vendored crates | see `PROJECT.json` | | | |

What is hard in it:

- **Interleaving and shared flags.** The idle hook may put the CPU to sleep at any
  moment when no task is ready; one boolean, kept by the fetch loop across a dozen
  awaits and five error exits, stops it while the radio is up. The battery task
  reads the same boolean. The WiFi driver changes the timer queue while the timer
  task walks it.
- **Single-slot signals.** Data, its time and the touch travel in three signals
  that overwrite what was not taken.
- **Time that stops.** A nap stops both clocks of the board, which are then put
  forward by an estimate while an alarm is pending on one of them.
- **Lost and late messages.** DHCP retries faster than a router answers; answers
  come late, twice, or for a question given up.
- **Crash recovery.** The reset record and the boot count are words in RTC RAM,
  written one at a time and read by the next boot, whatever ended this one. NVS
  credentials are two writes, a stored report is a line that may be cut.
- **Supervision.** The stall checks run on the executor they supervise, and a
  hardware watchdog supervises them.
- **Streams.** A feed of about 250 KB passes through 1 KB chunks that cut it
  anywhere; the wizard and the web app answer each other's texts without framing.
- **Boundaries.** A result vector of eight, a station array one shorter than its
  list, `u8` counts, station ordinals that are not indices.

`PROJECT.json` lists every hazard at its line with the properties that cover it,
or the reason none does.

## 2. Modules

| Module | Models | Abstract specification / composition | Proofs |
|---|---|---|---|
| `SleepGate` | the protocol `power.rs` states: power up only with the nap revoked, permit a nap only with the radio stopped | abstract specification | |
| `RadioCycle` | fetch task, idle hook's decision, battery sampling, driver and access point | implements `SleepGate` (`Gate == INSTANCE`, property `GateSpec`) | `RadioCycleProofs` |
| `LightSleep` | idle hook's nap, the two clocks, time driver, deadlines of tasks | composes `power.rs` with the patched time driver | `LightSleepProofs` |
| `DriverTimers` | what the driver is promised of its timers: alarms that run when due | abstract specification | |
| `TimerQueue` | the WiFi driver's timers and the task that runs them | composes driver calls and timer task; implements `DriverTimers` (`Plain == INSTANCE`, `PlainSpec`, proved) | `TimerQueueProofs` |
| `DhcpClient` | the DHCP socket, what the stack applies of it, server and network | composes client, stack and server | `DhcpClientProofs` |
| `StationDisplay` | input task, LED task, the three signals, the LED driver's registers | composes both tasks with the publisher | `StationDisplayProofs` |
| `StationFeed` | a response of which a prefix arrives, then is published or dropped | abstract specification | |
| `StationStream` | parser, sink and a body cut into chunks | implements `StationFeed` (`Promise == INSTANCE`, property `FeedSpec`) | `StationStreamProofs` |
| `Watchdog` | record, boot count, keep-alive loop, hardware watchdog, summary | | `ReportProofs` |
| `Provisioning` | wizard, NVS, boot decision, web app, both streams | composes firmware and web app | `ProvisioningProofs` |
| `LogServer` | ring, file, rotation, reload, writes that stop | | `ReportProofs` |
| `MC*` | the small instances | | |

### RadioCycle

`pc` is the await at which `fetch_task` stands; an action runs from one await to
the next, with every call in between, because nothing else runs on the executor
meanwhile. `radio` is what the driver does in truth and `radioActive` is
`RADIO_ACTIVE`. The driver's answers (start, connect, disconnect, stop,
`is_started`) are nondeterministic. `readable` is chosen once: a driver that always
tells its state, or one whose `is_started` may also answer with an error.
`teardown()` is three actions (disconnect, stop, the store of the flag) since it
awaits twice and ignores both results. `FinishCycle` is the code common to the
loop's exits. The idle hook is `EnterNap`; a nap ends by the timer or the button.
`Tick` is time: every wait has the bound the code gives it (`Limit`), and a wait
past its bound blocks `Tick` until the code reacts. Here a nap is one stutter of
the clock; what it does to time is `LightSleep`'s subject.

### LightSleep

`real` is real time, `sys` the SYSTIMER, which is firmware time, and
`timer` is TIMG1 with its count and alarm. `Schedule`, `ArmNextWakeup` and
`TimerTick` are the patched time driver's `schedule`, `arm_next_wakeup` and
`timer_tick_handler`; TIMG1 fires on an exact match only. An idle pass of the hook
is one critical section, so one action, from the budget read out of the alarm to
the compensation of both clocks. `Lead` is how far short of its alarm TIMG1 is put
when a nap reached it.

The RTC counts on RC_SLOW, which esp-hal takes to run at its nominal frequency. `Unit`
stands for a million ppm and `Speed` is the board's truth: `Unit` nominal us last `Speed` us.
`Nominal(r)` is what the RTC shows of `r` of real time. `scale` is `rtc_scale_ppm`: `Unit` until
`CalibrateRtc` has measured it (`Measured`). A nap of `n` is asked of the RTC through the scale, so it
lasts `NapLength(n)`: short or long by RC_SLOW's error, in proportion, before a calibration, exact after
one. A nap that its alarm ends is credited as asked. One that the button ends is credited with what the
RTC shows, *unscaled* as in `power.rs:508-517`, or with nothing when the reading is still the one from before
the nap, as the comment there reports from hardware. `short`, `lost` and `gained` are histories of what
uncalibrated naps came up short (or long, negative), of button wakes put back at a loss, and at a gain.

Assumed: RC_SLOW keeps its speed. The rounding of the RTC's readings is left out of `Measured`, and with it
the awake part of the bracket around a nap, which `saturating_sub(sys_us)` takes out of the reading.

### TimerQueue

Each section under the queue's lock is one action: `process()` takes the queue,
then takes one timer after the other, runs its callback outside the lock and
puts it back if it is still active. The driver may create, arm, disarm and delete
between any two sections, a callback included. A linked list is the sequence of its
members; `current` is the timer in the task's hands. `delete()` is the patched one,
which marks a timer in the task's hands to be freed. `heap` keeps the addresses
that are allocated, so a list that reaches freed memory is visible. The driver sees none
of this: mapped to one alarm for each timer, every section is a `Run` of `DriverTimers`
or changes nothing.

### DhcpClient

`Dispatch` is `dispatch()` by state (DISCOVER, REQUEST, giving up, expiry, renewal
and rebinding), `RecvOffer`, `RecvAck` and `RecvNak` are `process()`, `Apply` is
embassy-net taking what `poll()` reports, `LinkChange` its reset of the socket.
Instants are ticks to go. An answer carries its age: it may arrive several times,
up to `MaxDelay` late, or never. `left` is what the server still holds of an
address's lease; an address whose lease has ended may be given to another. The
published renewal time (`lastRenew`) is the patch `fetch.rs` reads.

Assumed of the environment: `T1 <= T2 <= end` and `T1 + MaxDelay <= end` (what a
server sends or the client's defaults make of it); a server keeps an address to the
end of the last lease it granted; emitting a packet succeeds while the link is
up; one address is never given away, so a server with an address for the board
always exists, and no address given away comes back.

### StationDisplay

Every SPI write is synchronous inside, so a handler is one action from wait to
wait, except with `LED_IDLE=2`, where re-initialising the driver awaits. The first
data and the first fetch time are taken by two actions since only the LED task's
own wait stands between them. `Unindexed` are the cells whose `StationIdx` is no index into the station array:
every cell the board's map does not list, and `SouthLake` (610, with an array of 610) if a map lists it, which
none does today. `Poll` needs the LED task settled
(`LedSettled`): it pauses 50 ms after a signal and a poll comes at least 150 ms
after the last; while it waits for the first data, or holds in its start-up, signals
overwrite each other and the model lets them. A panic resets the board (`Reboot`).
Colours and the e-bike row are left out: two rows are filled by the same rule.

### StationStream

A body is positions: preamble, key, bracket, objects with separators, closing
bracket, tail. The parser's remainder is always the end of what was read, so its
length stands for it, and find-the-key, find-the-brace and save-the-remainder
become comparisons of positions. The feed is ASCII, so the path for a chunk
that is not UTF-8 is left out. A body without objects stands for an error page:
`fetch_once` reads the HTTP status only to print it. Counts are taken modulo
`2^8` as the release build does. `StationFeed` sees whole objects only: a chunk is the
`Arrive` of those that end in it, `Finish` is `Publish`, a failed read is `Drop`.

### Watchdog

`rec` is the RTC RAM record; `RecordAndReset`, `FinishRecord` and `NestedPanic` are
the moments at which a reset can find it. `Boot` is `report_last_reset()` and
`init()` together: nothing runs between them that a property sees.
`Block`/`Unblock` are a task that computes without an await, so that neither the
keep-alive loop nor the input task runs; `InputDies` is an input task that never
polls again. What ended a boot in truth is a history variable; `summary` is what
the next boot reports.

### Provisioning

A line is one value and only the texts that the web app looks for are kept. A text cut
by a chunk counts to the later chunk when the buffer is kept and to the earlier
one when it is cleared, so whole texts lose nothing. `Chunk(n)` reads any number
of them at once. `ReadTimesOut` and `LoseChunk` are the read that lost its race
against the 5 s timer and takes the next chunk with it. `Boot` decides between
wizard and tasks, and any reset clears both streams and ends the web app's; the web app
reopens and keeps its state. The user may start the next run at any time after one ended. `MaxOut`, the texts
sent and unread, is a bound of the model only: the device's write has no such limit while the port is open.

### LogServer

`append()` holds the lock throughout, so it is one action with the outcomes a
write can have: whole, stopped within the line, stopped before it. A file is its
lines, the last perhaps without its end, and an append to such a line continues it.
`load()` keeps what parses. The rotation rewrites the file from memory through a
temporary file and a rename.

## 3. Runs

| Run | Instance | Properties | Shows |
|---|---|---|---|
| `radio_cycle` | three TX power steps of two successes each, two leases (one kept, one too short), mirror and log server on, drivers of both kinds | `TypeOK` `NapSafe` `TxFollowsHistory` `StatusTracksRadio` `LeaseSound` `RestingSamples` `GateSpec` `CyclesForever` | no nap under a powered radio, the bookkeeping survives each error path, the refinement of `SleepGate`, cycles go on |
| `display` | two stations, cells without an index, all three `LED_IDLE` builds, two LEDs to a row, two fetches, any slide of the finger | `TypeOK` `LedsMatchStatus` `SameFetch` `NewestAtTouch` `DisplayFollows` | LEDs and STATUS part only after a slide; a touch shows the newest fetch under its own age; what is touched for good is shown in the end |
| `display_unlisted` | the same, one build | `NoPanic` | **violation**: a touch on an unlisted cell resets the board |
| `watchdog` | all causes of a reset, at any step, boot count that wraps | `TypeOK` `TrueBlame` `BootsCounted` `DeliveredOrPending` `StallsEnd` `NoFalseReset` | each boot reports what ended the one before; every stall ends; no reset hits a working board |
| `stream` | up to three objects of 3 bytes, every cut into chunks of 1 to 5 bytes, two preambles, counts above a byte | `TypeOK` `ParsedPrefix` `FeedSpec` | what is stored follows the bytes read; the refinement of `StationFeed`: what is published is all that one response brought |
| `stream_mirror` | objects so short that a chunk ends three and the vector takes two | `PublishedExact` | **violation**: stations are missing |
| `provisioning` | two pairs (one with an empty password), three runs of the web app, boards with and without credentials | `TypeOK` `SavedAsEntered` `AppPaired` `SuccessAfterSave` | what is saved was entered as one pair; success is reported only when both writes are done |
| `provisioning_resume` | two runs | `ResumesAfterError` | **violation**: a failed save does not lead back to the wizard |
| `timer_queue` | two timers, one-shot and periodic, timeouts of 1 and 2, two ticks | `TypeOK` `QueueSound` `WakesInTime` `Fires` | no list holds freed memory, nothing leaks, the task never sleeps past a timer, every armed timer fires |
| `light_sleep` | naps of 2 to 4 ticks, RC_SLOW 25% fast, two deadlines, delays of 1, 3, 4 and 6, twelve ticks | `TypeOK` `ClockBound` `DeadlinesKept` `AttachWindow` | no deadline is slept through but by RC_SLOW's lead after a press; firmware time stays within the stated bounds; the attach window is kept |
| `dhcp` | two addresses, one lease (T1 1, T2 2, end 4), answers slower than the DISCOVER retry, five xids, two answers under way | `TypeOK` `AddressHeld` `Binds` | no address is kept past its lease by more than an answer may be late; the board binds again and again |
| `log_server` | two reports in memory, three lines to a file, eight reports, four faults | `LogTypeOK` `LossBounded` `MemoryCoversFile` | answered reports are lost only by a write that stopped within a line; a rotation loses nothing a restart would load |

Why the bounds are enough:

- *RadioCycle.* A cycle's behaviour depends on the state at its start only through
  the TX power, the streak, the kept lease and the flag; the instance has power
  steps down to the floor and successes beyond it, a streak of two, a lease that is kept and
  one that is not, and both sides of every deadline. A tick stands for about a minute;
  no property depends on the scale, and the theorems hold for every value.
- *LightSleep.* The lengths keep the order the code relies on (lead below the shortest nap, shortest below
  longest). Delays lie below, at and above the longest nap. With `Unit` 10 and `Speed` 8 the longest nap of 4
  lasts 3 before a calibration and shows as 5 when the button ends it after one: both errors are a whole tick,
  from the largest error the calibration accepts (the board's own is 4-5%). Twelve ticks hold several naps in a row, a calibration between them and both windows. The
  run stops at `MaxTime`, so it does not check for deadlock; the theorems have no such bound in their argument.
- *TimerQueue.* Two timers are enough for one in the task's hands with one in either
  list, and for one address freed and allocated again; two ticks for a timer that is due
  and one that is not. `Never` is above every instant.
- *DhcpClient.* With `MinDelay` 2 every OFFER comes after the next DISCOVER (timeout
  1), which is the case the patched xid is for. Two answers let a late one overtake
  another; five xids leave some that are in no message, which is all a random one needs. An xid drawn
  twice is not modelled.
- *StationDisplay.* Two stations are enough for a switch; two fetches for data that is
  overwritten and for data newer than what is shown; two LEDs tell empty, part
  and full.
- *Watchdog.* The clock values are scaled down and keep the order the code relies
  on (poll < feed < hardware timeout < fetch stall); every pair of causes meets.
- *StationStream.* The key and an object are three bytes: first, middle and last are all
  cut points. The real numbers (1024, 8192, 12288, 100, 8) satisfy
  `StreamAssumption` like those of the run. An object of the Lyft feed has some 445 bytes,
  so a chunk ends at most three of them; the mirror's have some 110, so nine or
  ten. `stream` keeps to the first kind, `stream_mirror` to the second.
- *Provisioning.* Three name prompts fill the device's FIFO, and six unread texts let three more follow when the
  port opens, enough for a run to find prompts and a report left by the one before. Every property of the run is also
  proved for any such bound.
- *LogServer.* Memory and file overflow at different reports (two and three), and
  eight reports rotate the file more than once between four faults. The run ends when reports or
  faults do, so it does not check for deadlock.

Fairness:

- `RadioCycle`: weak fairness of the fetch task (a ready task runs and each driver
  call returns or is bounded) and of the timer's wake-up, strong fairness of `Tick`,
  which a nap may disable again and again. `CyclesForever` names the one way in which cycles
  stop: the driver answers the state question with an error while it is started, `start_async()` never
  returns, and only the watchdog's stall reset ends it. No network is assumed to work.
- `StationDisplay`: weak fairness of the poll and of the LED task, both of
  which wait only for timers and signals.
- `TimerQueue`: weak fairness of the timer task (it has a thread of its own and
  callbacks return), of its wake-up and of time.
- `DhcpClient`: weak fairness of the stack's poll and of time, strong
  fairness of the server's answers and of their arrival: a server asked again and again answers,
  and not every answer is lost. `Binds` speaks of a link that stays up.

Every property has a mutant in `PROJECT.json`: a plausible slip in the code (a
missing reset, an unchecked word, a swapped order, an upstream bug the patch removed) under
which TLC finds it violated.

## 4. Proofs

Each proof module holds the theorems of one component and its inductive invariant;
`ReportProofs` holds those of both ends of a report, the watchdog's record and the log server.

- **`RadioCycleProofs`**, from `TxAssumption` and `TimeAssumption` (and `LongLeases` for
  the lease). `TypeCorrect` with the bound on the streak. `NapSafety` and `ImplementsGate` from
  `SleepInv`: the flag is down only with the radio stopped (`FlagInv`) and a nap has the
  flag down (`NapInv`). `NapSafe` alone is not inductive: it says nothing of a board that is awake
  with a powered radio and the flag down. The same invariant gives `RestingSamplesOnly` and maps each
  step to a step or a stutter of `SleepGate`, and `GateIsSafe` proves that whatever does so is safe.
  `TxPowerHistory` is inductive together with the type invariant. `ReuseNeedsSuccess` and `LeaseSafety` come
  from `LeaseInv`, which relates the lease's age, the deadline chosen at its grant and the phase of the cycle;
  `LongLeases` is an assumption on the network, and `LeaseThreshold` says in numbers which leases meet
  it. `StatusExact` from `GapInv`, by phase. `AwaitsEnd` is the safety part of `CyclesForever`: every
  await keeps its bound, but for a start of a started driver whose state could not be read.
- **`LightSleepProofs`**, from `NapAssumption` (lead below the shortest nap; RC_SLOW's speed and the calibration's
  range are arbitrary). `Armed` ties TIMG1 to the earliest deadline: what is left to the alarm is what is
  left to the deadline, but for the lead a nap left over. With what a button wake can put back at most
  (`ButtonCredit`: `RtcLead` beyond the nap and beyond its budget, by arithmetic on the two conversions) it gives
  `NoDeadlineSlept`. `Aligned` (the calibration pair spans no nap, so the scale is the truth or still unset) gives
  `TimeKept`, `Windowed` (the awake window in firmware time against real time) gives `TimeToAttach`.
- **`TimerQueueProofs`**, from `TimersAssumption`. `ListSafety` is inductive with
  `LiveKept`: a timer the driver still has is not marked to be freed. `Punctual` needs `Timely`: an
  active timer is still to be looked at in this round or allowed for in `next_wakeup`. `CallsOwed` is
  an action property: what `process()` decides under the lock is right although the list was taken earlier.
  `ImplementsTimers` maps each section to a step or a stutter of `DriverTimers`; it rests on `ListSafety`, by which
  the memory the task frees is of no live timer.
- **`DhcpClientProofs`**, from `DhcpAssumption`. An ACK that has been under way for some
  time promises no more than the server still holds plus that time (`AcksCovered`), so the
  client's timers end at most `MaxDelay` after the lease (`TimersCovered`, `RenewCovered`); time does not
  pass while interface and socket differ (`Shown`). Gives `AddressLeased`; the type
  invariant holds the order of the three timers. `InterfaceFollows` is the invariant `Applied`. `OffersCount` needs
  `DiscoverCurrent`: the DISCOVER the server has is of the round's xid. It is the reason why `Binds` holds with a
  server slower than the retries.
- **`StationDisplayProofs`**. `FeedInv` says that a signal holds the newest
  publication, or the LED task does where the signal is empty: `PairedDisplay`, `FreshDisplay`.
  `LedInv` says where registers outside STATUS come from: `LedsMirror`. `SignalInv` says the like of the
  touch: what was signalled last is in the signal, in the task's hands or shown. It gives `QuietDisplay`, the
  safety part of `DisplayFollows`.
- **`StationStreamProofs`**, from `StreamAssumption` and `NoOverflow` (no chunk ends
  more objects than the result vector takes: without it the theorems are false, as `stream_mirror`
  shows). Objects lie one after the other (`Geometry`), so those that end in a chunk are
  a run of indexes (`AllTaken`), and storing runs in turn stores their union (`StoredOn`). `SearchInv`
  says that the key has not begun before the remainder, `ArrayInv` that the remainder starts at the
  object that is cut. Gives `Incremental` and `ServedExactly` for bodies of any length cut in
  any way, and with them `ImplementsFeed`: the objects that end within the bytes read are a prefix, a chunk makes
  it longer or leaves it, and what `finish()` publishes is that prefix's meaning. `ParsedPrefix` alone is not
  inductive: it says nothing of what the remainder holds.
- **`ReportProofs`, the watchdog**, from `WatchdogAssumption`. `CauseInv` relates the record's cause to what
  truly happened; `RamInv` is what RTC RAM holds at each moment a reset may strike (no magic before the
  cause is complete; a check word that matches only a count written in full): `SummaryTrue`,
  `BootNumber`, `SummaryNotLost`. `ClockInv` relates the times since the last check, feed and
  beat, with blocks bounded by `MaxBlock`: `StallsBounded`, `ResetsJustified`.
- **`ReportProofs`, the log server**, from `LogAssumption`. `LogInv`: what the file has and the memory has
  not is older than a full memory, the file is in order, and a line without its end is a debt already counted
  whose report was not answered. `LossBounded` alone is not inductive, since it says nothing of the report that
  will be lost when the next append continues such a line. The loop of `load()` and the deque are followed by least
  counterexample, since induction theorems with an operator parameter are out of the prover's reach.
  Gives `LogTypes`, `FewReportsLost`, `RotationKeeps`.
- **`ProvisioningProofs`**, from `ProvisioningAssumption`. A Yes that the wizard may take
  for its confirmation comes right after a name and its password (`YesFollowsPair`, with `SentName` and `SentPair` for
  what the web app has sent so far); `NvsInv` says that what is stored is of one pair unless a
  save stopped between its two writes. `PairsOnly`, `PairInUse`. `ReportInv` says that a report of success under way
  is of the boot that waits to reboot: `SuccessSaved`.

Only model-checked: the four liveness properties (`CyclesForever`, `DisplayFollows`,
`Fires`, `Binds`), which are outside what the prover does, though for three of them the safety
part is proved. `PlainSpec` is proved only; TLC checks the parts it rests on (`timer_queue`).


## 5. Findings

Three runs end in a violation of what the repository says of itself:
`display_unlisted`, `stream_mirror` and `provisioning_resume`. `PROJECT.json` quotes
the lines. Seen besides, without a run:

- A finger that slides from one station to another between two polls leaves the LEDs of
  the first lit until the release; `obsidian-vault/Shared-State.md:32` says that
  `led_states` mirrors the LEDs. `LedsMatchStatus` has the exception (`switched`).
- A panic inside the recording of another leaves no record, and the next boot reports that there was no
  firmware reset (`src/watchdog.rs:237`). `TrueBlame` has the exception.
- Only the name prompt of the wizard is repeated (`src/provisioning.rs:35`): once a password prompt
  or a question is lost, the wizard waits for an answer that the web app's next run never gives, until the
  board is reset.
- `fetch.rs:405` keeps any lease with T1 above 60 s for later cycles, until 90% of T1 after it was
  granted, and reads that deadline only before it connects. A cycle may then last some 665 s (550 s of
  polls and pauses in `wifi_connect.rs`, 20 s of DHCP, 90 s of fetch, 5 s of report), so the address can be in
  use past the lease's end if T1 is below some 604 s, that is, for leases under about twenty minutes
  (`LeaseThreshold`). The repository says nothing of such leases; `LeaseSafety` assumes longer ones.
- A write that stops within a line costs also the next report, which the add-on has answered
  with 200 (`homeassistant/bay_wheels_log/server.py:112`). `LossBounded` counts it.
- A nap that the button ends is put back in nominal RTC time: `src/power.rs:517` does not apply `rtc_scale_ppm`, which
  line 497 does. With a fresh reading and an RC_SLOW 4-5% fast (lines 169-171) that adds some 45 ms to a nap of 1 s, so
  firmware time can pass a deadline it should have waited for and run ahead of real time, where the comment
  (line 488) speaks of a loss only. `NapsEndInTime` and `ClockBound` allow for it (`RtcLead`); without the
  allowance TLC finds both violated. The alarm is then at most `Lead` away, so no task is left waiting.
- A run of the web app that starts while texts of a given-up one are unread can answer that run's prompts and
  take its report for its own: the pair stored is then the older one, and the page shows success. TLC finds it
  when six texts may be unread. `SuccessAfterSave` says what holds all the same.
- `STATION_DATA_LEN` is 610, and its comment says that it "Covers ordinals 0–610 (`SouthLake`)"
  (`src/stations.rs:628`): it covers 0 to 609. No board map lists `SouthLake`; one that did would make its touch panic
  like an unlisted cell, and `StationSink` drops its counts (`src/tasks/fetch.rs:489`).

## 6. Not modelled

- *Serial status frames.* The sender keeps a counter only; the scanner is a dozen lines
  whose one defect (hazard at `web/src/status.ts:215`) shows on reading and costs one frame
  of three a second.
- *Mirror and pages of the log server.* The feed copy is a dictionary replaced under a lock with
  an age check; the pages only format what is stored.
- *Battery curve, status encodings, station tables.* Constants, pure conversions and generated data.
  Their sizes appear as constants of `StationStream`; missing board maps are in `Unindexed` of `StationDisplay`.
- *The rest of smoltcp and esp-rtos.* Vendored libraries that the repository does not change; the
  patched parts are modelled. What is used of the rest enters as assumptions: ready tasks run, timers
  fire, TCP delivers a prefix of what was sent.
- *Flasher page, board mapper, build scripts, power bench, deep-sleep experiment.* Library calls,
  DOM code and tools run by hand; none keeps state the device depends on.
- *Boot wiring and logger.* Straight-line set-up and print sinks.

By lines, most of the repository is the vendored crates and generated tables, so the mapped
share is small; of the controller's own state-changing code, what is left is listed above.
