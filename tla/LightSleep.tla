------------------------------ MODULE LightSleep ------------------------------
(***************************************************************************)
(* Time under light sleep: the idle hook of src/src/power.rs between the   *)
(* timer queue and time driver of the patched esp-rtos (timer/mod.rs,      *)
(* timer/embassy.rs).  A nap stops both clocks, SYSTIMER (firmware time)   *)
(* and the scheduler's timer TIMG1; the hook then advances them by an      *)
(* estimate.  Tasks arm deadlines in firmware time.                        *)
(*                                                                         *)
(* The RTC sleeps and counts on RC_SLOW, which esp-hal takes to run at its *)
(* nominal frequency: Unit nominal us last Speed us.  The RTC is           *)
(* represented by the real time it has counted, and Nominal() is what it   *)
(* shows of it.                                                            *)
(*                                                                         *)
(* An idle pass is one critical section and so one action, the nap in it   *)
(* included.  A tick stands for 20 us to seconds: what matters is the      *)
(* order of the lengths below, and how Speed differs from Unit.            *)
(***************************************************************************)
EXTENDS Integers, FiniteSets

CONSTANTS
    MinNap, MaxNap,      \* MIN_NAP_US, MAX_NAP_US
    Lead,                \* OVERSLEEP_LEAD_US
    BootGrace,           \* BOOT_GRACE
    ButtonWindow,        \* BUTTON_AWAKE_WINDOW
    CalSpan,             \* CAL_MIN_SPAN_US
    Unit,                \* a million ppm, the scale before any calibration
    Speed,               \* real us per Unit of nominal RTC us, a property of the board
    CalMin, CalMax,      \* CAL_MIN_PPM, CAL_MAX_PPM
    Delays,              \* how far ahead tasks arm deadlines
    MaxDeadlines,        \* bound: deadlines pending at once
    MaxTime              \* bound: the last instant looked at

ASSUME NapAssumption ==
    /\ Lead \in Nat \ {0} /\ MinNap \in Nat /\ MaxNap \in Nat
    /\ Lead < MinNap /\ MinNap <= MaxNap
    /\ Unit \in Nat \ {0} /\ Speed \in Nat \ {0}
    /\ CalMin \in Nat \ {0} /\ CalMax \in Nat
    /\ BootGrace \in Nat /\ ButtonWindow \in Nat /\ CalSpan \in Nat
    /\ Delays \subseteq Nat \ {0}
    /\ MaxDeadlines \in Nat /\ MaxTime \in Nat

VARIABLES
    real,         \* real time, and what the RTC shows once latched
    sys,          \* SYSTIMER: now()
    timer,        \* TIMG1: count, alarm, alarm_en and int_raw
    alarmFor,     \* TimeDriver.current_alarm
    deadlines,    \* embassy timer queue: firmware times tasks wait for
    ready,        \* some task is ready to run
    radio,        \* RADIO_ACTIVE
    awakeUntil,   \* State.awake_until_us
    sleeping,     \* State.sleeping
    anchor,       \* State.cal_anchor
    scale,        \* State.rtc_scale_ppm
    lost,         \* history: LongestNap for each nap the button's pin ended at a loss
    gained,       \* history: RtcLead for each one it ended at a gain
    short,        \* history: what naps before the first calibration came up short
    pressedAt     \* history: real time of the last press that ended a nap

clocks == <<real, sys, timer>>
tasks == <<deadlines, ready, radio>>
cal == <<anchor, scale>>
history == <<lost, gained, short, pressedAt>>
vars == <<clocks, alarmFor, tasks, awakeUntil, sleeping, cal, history>>

Never == -1          \* u64::MAX as current_alarm
NoAnchor == [rtc |-> 0, sys |-> 0, set |-> FALSE]
Least(a, b) == IF a <= b THEN a ELSE b
Larger(a, b) == IF a >= b THEN a ELSE b

TypeOK ==
    /\ real \in Nat /\ sys \in Nat
    /\ timer.enabled => timer.count <= timer.alarm /\ ~timer.pending
    /\ timer \in [count : Nat, alarm : Nat, enabled : BOOLEAN, pending : BOOLEAN]
    /\ alarmFor \in Nat \union {Never}
    /\ deadlines \subseteq Nat
    /\ ready \in BOOLEAN /\ radio \in BOOLEAN /\ sleeping \in BOOLEAN
    /\ awakeUntil \in Nat
    /\ anchor \in [rtc : Nat, sys : Nat, set : BOOLEAN]
    /\ scale \in CalMin .. CalMax \union {Unit}
    /\ lost \in Nat /\ gained \in Nat /\ short \in Int /\ pressedAt \in Int

Init ==
    /\ real = 0 /\ sys = 0
    /\ timer = [count |-> 0, alarm |-> 0, enabled |-> FALSE, pending |-> FALSE]
    /\ alarmFor = Never
    /\ deadlines = {}
    /\ ready = TRUE /\ radio = TRUE
    /\ awakeUntil = BootGrace
    /\ sleeping = FALSE
    /\ anchor = NoAnchor /\ scale = Unit
    /\ lost = 0 /\ gained = 0 /\ short = 0 /\ pressedAt = -ButtonWindow
------------------------------------------------------------------------------
(* The scheduler's timer. *)

\* TimeBase.schedule(): from 0 to the timeout, nothing pending.
Schedule(timeout) ==
    timer' = [count |-> 0, alarm |-> timeout, enabled |-> TRUE, pending |-> FALSE]

\* arm_next_wakeup() for firmware time `at`, the alarm standing for `current`.
ArmNextWakeup(at, current) ==
    /\ alarmFor' = at
    /\ IF at = current
       THEN UNCHANGED timer
       ELSE Schedule(IF at > sys THEN at - sys ELSE 0)

\* schedule_wake(): a task waits until d from now.
ScheduleWake(d) ==
    /\ ready
    /\ deadlines' = deadlines \union {sys + d}
    /\ \E at \in deadlines' :
          (\A x \in deadlines' : at <= x) /\ ArmNextWakeup(at, alarmFor)
    /\ UNCHANGED <<real, sys, ready, radio, awakeUntil, sleeping, cal, history>>

\* timer_tick_handler(): wakes the tasks whose time has come and arms the rest.
TimerTick ==
    /\ timer.pending
    /\ deadlines' = {d \in deadlines : d > sys}
    /\ ready' = (ready \/ deadlines' # deadlines)
    /\ \/ /\ deadlines' = {}
          /\ alarmFor' = Never
          /\ timer' = [timer EXCEPT !.pending = FALSE]
       \/ \E at \in deadlines' :
             (\A x \in deadlines' : at <= x) /\ ArmNextWakeup(at, Never)
    /\ UNCHANGED <<real, sys, radio, awakeUntil, sleeping, cal, history>>

\* The alarm has fired, which clears alarm_en: count and alarm are not read again.
Fired == [count |-> 0, alarm |-> 0, enabled |-> FALSE, pending |-> TRUE]

\* A tick awake.  The comparator is only relied on to fire on an exact match.
Elapse ==
    /\ real < MaxTime
    /\ real' = real + 1 /\ sys' = sys + 1
    /\ timer' = IF ~timer.enabled THEN timer
                ELSE IF timer.count + 1 = timer.alarm
                     THEN Fired
                     ELSE [timer EXCEPT !.count = @ + 1]
    /\ UNCHANGED <<alarmFor, tasks, awakeUntil, sleeping, cal, history>>

(* Tasks: they wait, and the fetch task raises and clears RADIO_ACTIVE. *)

SetRadio ==
    /\ ready
    /\ radio' = ~radio
    /\ UNCHANGED <<clocks, alarmFor, deadlines, ready, awakeUntil, sleeping, cal, history>>

TasksIdle ==
    /\ ready
    /\ ready' = FALSE
    /\ UNCHANGED <<clocks, alarmFor, deadlines, radio, awakeUntil, sleeping, cal, history>>
------------------------------------------------------------------------------
(* The idle hook. *)

MayNotSleep == radio \/ sys < awakeUntil

\* What the RTC shows of r of real time.
Nominal(r) == (r * Unit) \div Speed

\* SYSTIMER's time against the RTC's, real_us * Unit \div nominal_us, but for
\* the last digit of the RTC's reading.
Measured == ((sys - anchor.sys) * Speed) \div (real - anchor.rtc)

\* calibrate_rtc(), or nothing when it last ran a moment ago.
CalibrateRtc ==
    \/ UNCHANGED cal
    \/ ~anchor.set /\ anchor' = [rtc |-> real, sys |-> sys, set |-> TRUE] /\ UNCHANGED scale
    \/ /\ anchor.set /\ sys - anchor.sys >= CalSpan /\ real > anchor.rtc
       /\ scale' = IF Measured \in CalMin .. CalMax THEN Measured ELSE scale
       /\ UNCHANGED anchor

\* An idle pass that may not sleep: the stretch ends, the clock is calibrated.
AwakePass ==
    /\ ~ready /\ MayNotSleep
    /\ sleeping' = FALSE
    /\ CalibrateRtc
    /\ UNCHANGED <<clocks, alarmFor, tasks, awakeUntil, history>>

\* Mutant: an alarm that has fired already is not looked at.
BudgetIgnoresPending ==
    Least(MaxNap, IF timer.enabled THEN timer.alarm - timer.count ELSE MaxNap)

\* nap_budget_us(): up to the alarm; 0 when its interrupt is pending.
NapBudget ==
    IF timer.pending
    THEN 0
    ELSE Least(MaxNap, IF timer.enabled THEN timer.alarm - timer.count ELSE MaxNap)

\* Mutant: TIMG1 is moved right up to its alarm.
AdvanceToAlarm(us) == IF timer.enabled THEN [timer EXCEPT !.count = @ + us] ELSE timer

\* advance_timg1_t0(): short of an alarm that would be reached.
AdvanceTimg1(us) ==
    CASE ~timer.enabled -> timer
      [] timer.enabled /\ timer.count + us < timer.alarm -> [timer EXCEPT !.count = @ + us]
      [] timer.enabled /\ timer.count + us >= timer.alarm ->
            [timer EXCEPT !.count = IF timer.alarm - Lead > @ THEN timer.alarm - Lead ELSE @]

\* Mutant: the anchor of the last awake stretch is kept.
KeepAnchor == UNCHANGED anchor

\* A nap that starts a sleeping stretch drops the anchor.
DropAnchor == anchor' = IF sleeping THEN anchor ELSE NoAnchor

\* The clocks after `slept` of real time, of which `credit` is put back.
Compensate(slept, credit) ==
    /\ real' = real + slept /\ real' <= MaxTime
    /\ sys' = sys + credit
    /\ timer' = IF credit > 0 THEN AdvanceTimg1(credit) ELSE timer

\* A nap of n is asked of the RTC as n * Unit \div scale nominal us, and lasts
\* as long as RC_SLOW takes for them.
NapLength(n) == (n * Speed) \div scale

\* The longest nap there is, and how far the RTC runs ahead in one of MaxNap.
LongestNap == Larger(MaxNap, (MaxNap * Speed) \div Unit)
RtcLead == Larger(0, Nominal(MaxNap) - MaxNap)

\* The RTC alarm ends the nap: it is taken to have lasted as long as asked.
NapToAlarm ==
    /\ ~ready /\ ~MayNotSleep
    /\ LET n == NapBudget
       IN /\ n >= MinNap
          /\ Compensate(NapLength(n), n)
          /\ short' = IF scale = Unit THEN short + (n - NapLength(n)) ELSE short
    /\ sleeping' = TRUE
    /\ DropAnchor
    /\ UNCHANGED <<alarmFor, tasks, awakeUntil, scale, lost, gained, pressedAt>>

\* Mutant: the window is counted from the nap's start.
OpenWindowEarly ==
    /\ awakeUntil' = sys + ButtonWindow
    /\ pressedAt' = real'
    /\ sleeping' = FALSE

OpenWindow ==
    /\ awakeUntil' = sys' + ButtonWindow
    /\ pressedAt' = real'
    /\ sleeping' = FALSE

\* The wake button's pin ends the nap at any moment.  What the RTC shows is put
\* back, unscaled: the nap in nominal us, or nothing when the reading is still
\* the one from before.  The pin may read high again: a spurious wake.
NapToButton ==
    /\ ~ready /\ ~MayNotSleep
    /\ NapBudget >= MinNap
    /\ \E slept \in 0 .. NapLength(NapBudget) : \E credit \in {0, Nominal(slept)} :
          /\ Compensate(slept, credit)
          /\ lost' = IF credit < slept THEN lost + LongestNap ELSE lost
          /\ gained' = IF credit > slept THEN gained + RtcLead ELSE gained
    /\ \/ OpenWindow
       \/ sleeping' = TRUE /\ UNCHANGED <<awakeUntil, pressedAt>>
    /\ DropAnchor
    /\ UNCHANGED <<alarmFor, tasks, scale, short>>

Nap == NapToAlarm \/ NapToButton

Next ==
    \/ \E d \in Delays : Cardinality(deadlines) < MaxDeadlines /\ ScheduleWake(d)
    \/ TimerTick \/ Elapse \/ SetRadio \/ TasksIdle \/ AwakePass \/ NapToAlarm \/ NapToButton

Spec == Init /\ [][Next]_vars
------------------------------------------------------------------------------
(* Properties. *)

\* TIMG1 is never put past its alarm and firmware time never runs away from it:
\* however naps, early wakes and re-armed alarms fall, once a deadline is
\* reached its interrupt is up, or is at most Lead away and cannot be napped over.
OnTime ==
    \A d \in deadlines :
        sys >= d => timer.pending \/ (timer.enabled /\ timer.alarm - timer.count <= Lead)

\* The CPU never sleeps through a deadline: a nap that ends by its alarm ends at
\* the earliest one at the latest, and one that the button ends overstates the
\* time by no more than RC_SLOW runs ahead in it.
NapsEndInTime ==
    [][/\ NapToAlarm => \A d \in deadlines : sys' <= d
       /\ NapToButton => \A d \in deadlines : sys' <= d + RtcLead]_vars

DeadlinesKept == []OnTime /\ NapsEndInTime

\* "At worst that loses up to one nap of firmware time per button press"
\* (power.rs:488), and gains what RC_SLOW runs ahead in one: firmware time
\* differs from real time by no more than that and by what naps before the
\* first calibration came up short, so no calibration ever measures wrong.
ClockBound ==
    /\ sys <= real + short + gained
    /\ real + short <= sys + lost

\* Press the button, then attach: no nap for a whole window of real time after
\* a reset or a press.
AttachWindow ==
    [][Nap => real >= BootGrace /\ real >= pressedAt + ButtonWindow]_vars
==============================================================================
