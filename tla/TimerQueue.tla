------------------------------ MODULE TimerQueue ------------------------------
(***************************************************************************)
(* The timers of the WiFi driver: esp_radio/timer_queue.rs of the patched  *)
(* esp-rtos.  The driver's tasks create, arm, disarm and delete timers at  *)
(* any time, a callback included; one timer task detaches the queue, runs  *)
(* what is due, puts back what is still active and sleeps until the next.  *)
(*                                                                         *)
(* Every section under the queue's lock is one action, and a callback runs *)
(* between two of them.  A linked list is the sequence of its members.     *)
(***************************************************************************)
EXTENDS Integers, Sequences, SequencesExt

CONSTANTS
    T,          \* addresses a timer may be allocated at
    Timeouts,   \* timeouts the driver arms timers with
    MaxTime,    \* bound: the last instant looked at
    Never       \* u64::MAX

ASSUME TimersAssumption ==
    /\ MaxTime \in Nat /\ Timeouts \subseteq Nat
    /\ Never \in Nat /\ \A d \in Timeouts : MaxTime + d < Never

VARIABLES
    now,          \* crate::now()
    heap,         \* addresses allocated to a timer
    live,         \* timers the driver has created and not deleted
    props,        \* TimerProperties of every address
    queue,        \* the list at head
    detached,     \* process(): the rest of the list it took
    current,      \* process(): the timer it looks at, as a list of at most one
    nextWakeup,   \* next_wakeup
    wakeAt,       \* its place in the scheduler's timer queue, Never if it is not there
    task,         \* the timer task: none, ready (or running) or asleep
    pc            \* where process() stands: at a lock or in a callback

memory == <<heap, live>>
lists == <<queue, detached, current>>
vars == <<now, heap, live, props, queue, detached, current, nextWakeup, wakeAt, task, pc>>

Fresh == [active |-> FALSE, due |-> 0, period |-> 0, periodic |-> FALSE,
          drop |-> FALSE, enqueued |-> FALSE]
Properties == [active : BOOLEAN, due : Nat, period : Nat, periodic : BOOLEAN,
               drop : BOOLEAN, enqueued : BOOLEAN]

TypeOK ==
    /\ now \in Nat
    /\ live \subseteq heap /\ heap \subseteq T
    /\ props \in [T -> Properties]
    /\ queue \in Seq(T) /\ detached \in Seq(T) /\ current \in Seq(T)
    /\ Len(current) = (IF pc \in {"call", "finish"} THEN 1 ELSE 0)
    /\ nextWakeup \in Nat /\ wakeAt \in Nat
    /\ task \in {"none", "ready", "asleep"}
    /\ pc \in {"detach", "loop", "call", "finish"}
    /\ pc = "detach" => detached = <<>>
    /\ task # "ready" => pc = "detach"
    /\ task = "none" => queue = <<>>

Init ==
    /\ now = 0
    /\ heap = {} /\ live = {}
    /\ props = [t \in T |-> Fresh]
    /\ queue = <<>> /\ detached = <<>> /\ current = <<>>
    /\ nextWakeup = 0 /\ wakeAt = Never
    /\ task = "none"
    /\ pc = "detach"
------------------------------------------------------------------------------
(* The driver's calls. *)

Create(t) ==
    /\ t \notin heap
    /\ heap' = heap \union {t} /\ live' = live \union {t}
    /\ props' = [props EXCEPT ![t] = Fresh]
    /\ UNCHANGED <<now, lists, nextWakeup, wakeAt, task, pc>>

\* Mutant: an earlier timer does not wake the task.
EnqueueWithoutResume(t, p, wakeup) ==
    /\ props' = [props EXCEPT ![t] = [p EXCEPT !.enqueued = TRUE]]
    /\ queue' = IF p.enqueued THEN queue ELSE <<t>> \o queue
    /\ nextWakeup' = IF task = "none" \/ p.due < wakeup THEN p.due ELSE wakeup
    /\ task' = IF task = "none" THEN "ready" ELSE task
    /\ UNCHANGED wakeAt

\* enqueue() of timer t with properties p, next_wakeup being at wakeup.  The
\* first timer of all creates the task; an earlier one resumes it.
Enqueue(t, p, wakeup) ==
    /\ props' = [props EXCEPT ![t] = [p EXCEPT !.enqueued = TRUE]]
    /\ queue' = IF p.enqueued THEN queue ELSE <<t>> \o queue
    /\ IF task = "none" \/ p.due < wakeup
       THEN nextWakeup' = p.due /\ task' = "ready" /\ wakeAt' = Never
       ELSE nextWakeup' = wakeup /\ UNCHANGED <<task, wakeAt>>

Arm(t, timeout, periodic) ==
    /\ t \in live
    /\ Enqueue(t, [props[t] EXCEPT !.active = TRUE, !.due = now + timeout,
                                   !.period = timeout, !.periodic = periodic],
               nextWakeup)
    /\ UNCHANGED <<now, memory, detached, current, pc>>

\* The timer stays in its list; processing skips it.
Disarm(t) ==
    /\ t \in live
    /\ props' = [props EXCEPT ![t].active = FALSE]
    /\ UNCHANGED <<now, memory, lists, nextWakeup, wakeAt, task, pc>>

\* Mutant: 0.2.0 as published, which drops only what it finds in the queue.
DeleteUpstream(t) ==
    /\ t \in live
    /\ live' = live \ {t}
    /\ IF Contains(queue, t)
       THEN /\ heap' = heap \ {t}
            /\ queue' = Remove(queue, t)
            /\ props' = [props EXCEPT ![t].enqueued = FALSE]
       ELSE /\ props' = [props EXCEPT ![t].drop = TRUE]
            /\ UNCHANGED <<heap, queue>>
    /\ UNCHANGED <<now, detached, current, nextWakeup, wakeAt, task, pc>>

\* Freed at once, unless the timer task still has it: it then frees the timer.
Delete(t) ==
    /\ t \in live
    /\ live' = live \ {t}
    /\ \/ \E i \in DOMAIN queue :
             /\ queue[i] = t
             /\ queue' = RemoveAt(queue, i)
             /\ props' = [props EXCEPT ![t].enqueued = FALSE]
             /\ heap' = heap \ {t}
       \/ /\ ~Contains(queue, t) /\ ~props[t].enqueued
          /\ heap' = heap \ {t}
          /\ UNCHANGED <<queue, props>>
       \/ /\ ~Contains(queue, t) /\ props[t].enqueued
          /\ props' = [props EXCEPT ![t].drop = TRUE]
          /\ UNCHANGED <<heap, queue>>
    /\ UNCHANGED <<now, detached, current, nextWakeup, wakeAt, task, pc>>
------------------------------------------------------------------------------
(* process(), over and over. *)

Detach ==
    /\ pc = "detach" /\ task = "ready"
    /\ detached' = queue /\ queue' = <<>>
    /\ nextWakeup' = Never
    /\ pc' = "loop"
    /\ UNCHANGED <<now, memory, props, current, wakeAt, task>>

\* The decision to run the callback; a one-shot timer is no longer active.
Check ==
    /\ pc = "loop" /\ detached # <<>>
    /\ LET t == Head(detached)
           p == props[t]
           due == p.active /\ ~p.drop /\ p.due <= now
       IN /\ current' = <<t>> /\ detached' = Tail(detached)
          /\ pc' = IF due THEN "call" ELSE "finish"
          /\ props' = IF due
                      THEN [props EXCEPT ![t] =
                              [p EXCEPT !.due = IF p.periodic THEN @ + p.period ELSE @,
                                        !.active = p.periodic]]
                      ELSE props
    /\ UNCHANGED <<now, memory, queue, nextWakeup, wakeAt, task>>

\* The callback returns; what it did to the timers are the driver's calls.
CallbackReturns ==
    /\ pc = "call"
    /\ pc' = "finish"
    /\ UNCHANGED <<now, memory, props, lists, nextWakeup, wakeAt, task>>

\* Mutant: what was armed during the callback is not put back.
FinishPutsBackPeriodic ==
    /\ pc = "finish"
    /\ LET t == current[1]
           p == [props[t] EXCEPT !.enqueued = FALSE]
       IN \/ /\ p.drop
             /\ heap' = heap \ {t}
             /\ props' = [props EXCEPT ![t] = p]
             /\ UNCHANGED <<queue, nextWakeup, wakeAt, task>>
          \/ /\ ~p.drop /\ p.active /\ (p.periodic \/ now < p.due)
             /\ Enqueue(t, p, IF p.due < nextWakeup THEN p.due ELSE nextWakeup)
             /\ UNCHANGED heap
          \/ /\ ~p.drop /\ (~p.active \/ ~(p.periodic \/ now < p.due))
             /\ props' = [props EXCEPT ![t] = p]
             /\ UNCHANGED <<heap, queue, nextWakeup, wakeAt, task>>
    /\ current' = <<>> /\ pc' = "loop"
    /\ UNCHANGED <<now, live, detached>>

\* The timer leaves the task's hands: freed, put back or left inactive.
Finish ==
    /\ pc = "finish"
    /\ LET t == current[1]
           p == [props[t] EXCEPT !.enqueued = FALSE]
       IN \/ /\ p.drop
             /\ heap' = heap \ {t}
             /\ props' = [props EXCEPT ![t] = p]
             /\ UNCHANGED <<queue, nextWakeup, wakeAt, task>>
          \/ /\ ~p.drop /\ p.active
             /\ Enqueue(t, p, IF p.due < nextWakeup THEN p.due ELSE nextWakeup)
             /\ UNCHANGED heap
          \/ /\ ~p.drop /\ ~p.active
             /\ props' = [props EXCEPT ![t] = p]
             /\ UNCHANGED <<heap, queue, nextWakeup, wakeAt, task>>
    /\ current' = <<>> /\ pc' = "loop"
    /\ UNCHANGED <<now, live, detached>>

\* Mutant: a timer that is not due ends the round.
SleepAtFirstIdle ==
    /\ pc = "loop"
    /\ detached # <<>> => props[Head(detached)].due > now
    /\ task' = IF nextWakeup <= now THEN "ready" ELSE "asleep"
    /\ wakeAt' = IF nextWakeup <= now THEN wakeAt ELSE nextWakeup
    /\ pc' = "detach"
    /\ UNCHANGED <<now, memory, props, lists, nextWakeup>>

\* sleep_until(next_wakeup), which does not sleep until an instant gone by.
SleepUntil ==
    /\ pc = "loop" /\ detached = <<>>
    /\ IF nextWakeup <= now
       THEN UNCHANGED <<wakeAt, task>>
       ELSE wakeAt' = nextWakeup /\ task' = "asleep"
    /\ pc' = "detach"
    /\ UNCHANGED <<now, memory, props, lists, nextWakeup>>

\* The scheduler's timer wakes the task.
Wake ==
    /\ task = "asleep" /\ wakeAt <= now
    /\ task' = "ready" /\ wakeAt' = Never
    /\ UNCHANGED <<now, memory, props, lists, nextWakeup, pc>>

Tick ==
    /\ now < MaxTime
    /\ now' = now + 1
    /\ UNCHANGED <<memory, props, lists, nextWakeup, wakeAt, task, pc>>

TimerTask == Detach \/ Check \/ CallbackReturns \/ Finish \/ SleepUntil

Driver ==
    \E t \in T :
        \/ Create(t) \/ Disarm(t) \/ Delete(t)
        \/ \E d \in Timeouts :
              \/ now + d <= MaxTime /\ Arm(t, d, FALSE)
              \/ d > 0 /\ Arm(t, d, TRUE)

Next == Driver \/ TimerTask \/ Wake \/ Tick

Spec == Init /\ [][Next]_vars

(* The scheduler runs a ready task, callbacks return, time goes on. *)
Fairness == WF_vars(TimerTask) /\ WF_vars(Wake) /\ WF_vars(Tick)

FairSpec == Spec /\ Fairness
------------------------------------------------------------------------------
(* Properties. *)

Members(s) == {s[i] : i \in DOMAIN s}
Held == Members(detached) \union Members(current)
Listed == Members(queue) \union Held

\* However the driver's calls fall between the sections of process(), no list
\* holds freed memory, no timer is linked twice, and `enqueued` tells which
\* timers are in some list.
ListsSound ==
    /\ Listed \subseteq heap
    /\ IsInjective(queue) /\ IsInjective(detached)
    /\ Members(queue) \intersect Held = {}
    /\ Members(detached) \intersect Members(current) = {}
    /\ \A t \in heap : props[t].enqueued <=> t \in Listed

\* The patch of delete(): memory of a deleted timer is either free or in the
\* hands of the timer task, marked to be freed.
NoLeak == \A t \in heap \ live : t \in Held /\ props[t].drop

\* The timers' memory and the lists through it (timer_queue.rs) stay sound.
QueueSound == ListsSound /\ NoLeak

\* The task never sleeps past a timer: while it sleeps, every active timer is
\* in the queue and due no earlier than the wakeup it waits for.
Waits(t) == t \in Members(queue) /\ wakeAt <= props[t].due
WakesInTime ==
    task # "ready" => \A t \in live : props[t].active => Waits(t)

\* A one-shot timer that is armed runs, unless it is disarmed or deleted.
Fires ==
    \A t \in T :
        t \in live /\ props[t].active /\ ~props[t].periodic
            ~> t \notin live \/ ~props[t].active \/ props[t].periodic

\* Seen from the driver there are no lists: every section of process() runs a
\* timer that is due, or changes nothing.
Alarm(t) ==
    IF t \in live /\ props[t].active
    THEN [on |-> TRUE, due |-> props[t].due, period |-> props[t].period,
          periodic |-> props[t].periodic]
    ELSE [on |-> FALSE]
Plain == INSTANCE DriverTimers WITH alarm <- [t \in T |-> Alarm(t)]
PlainSpec == Plain!Spec
==============================================================================
