----------------------------- MODULE DriverTimers -----------------------------
(***************************************************************************)
(* What the WiFi driver is promised of its timers (the implementation of   *)
(* TimerImplementation in esp_radio/timer_queue.rs): a timer runs only     *)
(* while it is armed and once its time has come, a one-shot timer once for *)
(* each time it is armed, and nothing but its owner and its own run        *)
(* disarms it.  TimerQueue implements this with one list and one task.     *)
(***************************************************************************)
EXTENDS Integers

CONSTANTS
    T,          \* timers there may be
    Timeouts    \* timeouts they are armed with

VARIABLES
    now,        \* the time
    live,       \* timers created and not deleted
    alarm       \* for each timer its due time and period, or Off

Off == [on |-> FALSE]

timerVars == <<now, live, alarm>>

Init ==
    /\ now = 0
    /\ live = {}
    /\ alarm = [t \in T |-> Off]

Create(t) ==
    /\ t \notin live
    /\ live' = live \union {t}
    /\ UNCHANGED <<now, alarm>>

Arm(t, timeout, periodic) ==
    /\ t \in live
    /\ alarm' = [alarm EXCEPT ![t] =
                   [on |-> TRUE, due |-> now + timeout, period |-> timeout,
                    periodic |-> periodic]]
    /\ UNCHANGED <<now, live>>

Disarm(t) ==
    /\ t \in live
    /\ alarm' = [alarm EXCEPT ![t] = Off]
    /\ UNCHANGED <<now, live>>

Delete(t) ==
    /\ t \in live
    /\ live' = live \ {t}
    /\ alarm' = [alarm EXCEPT ![t] = Off]
    /\ UNCHANGED now

Run(t) ==
    /\ alarm[t].on /\ alarm[t].due <= now
    /\ alarm' = [alarm EXCEPT ![t] =
                   IF alarm[t].periodic
                   THEN [alarm[t] EXCEPT !.due = @ + alarm[t].period]
                   ELSE Off]
    /\ UNCHANGED <<now, live>>

Tick == now' = now + 1 /\ UNCHANGED <<live, alarm>>

Next ==
    \/ \E t \in T :
          \/ Create(t) \/ Disarm(t) \/ Delete(t) \/ Run(t)
          \/ \E d \in Timeouts, periodic \in BOOLEAN : Arm(t, d, periodic)
    \/ Tick

Spec == Init /\ [][Next]_timerVars
==============================================================================
