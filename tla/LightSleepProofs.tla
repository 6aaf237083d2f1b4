--------------------------- MODULE LightSleepProofs ---------------------------
(***************************************************************************)
(* Proofs about LightSleep, for all lengths of naps, windows and delays    *)
(* and every speed of RC_SLOW.  Armed ties TIMG1 to the earliest deadline: *)
(* what is left to the alarm is what is left to the deadline, but for the  *)
(* lead a nap that reached it left over.  Aligned and Windowed are the     *)
(* same kind of bookkeeping for the calibration and for the awake window.  *)
(***************************************************************************)
EXTENDS LightSleep, TLAPS

Remaining == timer.alarm - timer.count

Armed ==
    /\ alarmFor = Never => deadlines = {}
    /\ alarmFor # Never => alarmFor \in deadlines /\ \A d \in deadlines : alarmFor <= d
    /\ timer.enabled <=> alarmFor # Never /\ ~timer.pending
    /\ timer.enabled =>
          /\ timer.count < timer.alarm
          /\ \/ sys + Remaining = alarmFor
             \/ sys + Remaining >= alarmFor /\ Remaining <= Lead

Aligned ==
    /\ scale \in {Unit, Speed}
    /\ sleeping => ~anchor.set
    /\ anchor.set => sys - anchor.sys = real - anchor.rtc

Windowed ==
    IF sys < awakeUntil
    THEN /\ awakeUntil - sys >= BootGrace - real
         /\ awakeUntil - sys >= pressedAt + ButtonWindow - real
    ELSE real >= BootGrace /\ real >= pressedAt + ButtonWindow

IInv == TypeOK /\ Armed /\ Aligned /\ Windowed /\ ClockBound
------------------------------------------------------------------------------
(* Division, as the conversions between the clocks use it. *)

LEMMA Division ==
    ASSUME NEW a \in Nat, NEW b \in Nat \ {0}
    PROVE  a \div b \in Nat /\ b * (a \div b) <= a /\ a < b * (a \div b) + b
PROOF
  BY SMT

LEMMA Product ==
    ASSUME NEW a \in Nat, NEW b \in Nat, NEW c \in Nat, a <= b
    PROVE  c * a <= c * b /\ a * c <= b * c /\ a * c \in Nat
PROOF
  BY SMT

LEMMA DivAtLeast ==
    ASSUME NEW a \in Nat, NEW b \in Nat \ {0}, NEW k \in Nat, k * b <= a
    PROVE  k <= a \div b
PROOF
<1>1. SUFFICES ASSUME a \div b + 1 <= k PROVE FALSE
  BY Division
<1>2. b * (a \div b + 1) <= b * k
  BY <1>1, Division, Product
<1> QED
  BY <1>2, Division

LEMMA DivAtMost ==
    ASSUME NEW a \in Nat, NEW b \in Nat \ {0}, NEW k \in Nat, a <= k * b
    PROVE  a \div b <= k
PROOF
<1>1. SUFFICES ASSUME k + 1 <= a \div b PROVE FALSE
  BY Division
<1>2. b * (k + 1) <= b * (a \div b)
  BY <1>1, Division, Product
<1> QED
  BY <1>2, Division

\* A nap lasts exactly as long as asked once the clock is calibrated.
LEMMA NapLengthExact ==
    ASSUME NEW n \in Nat, scale = Speed
    PROVE  NapLength(n) = n
PROOF
<1>1. Speed \in Nat \ {0} /\ n * Speed \in Nat /\ n * Speed <= n * Speed
  BY NapAssumption, Product
<1> QED
  BY <1>1, DivAtLeast, DivAtMost, Division DEF NapLength

\* No nap is longer than LongestNap.
LEMMA NapLengthRange ==
    ASSUME NEW n \in Nat, n <= MaxNap, scale \in {Unit, Speed}
    PROVE  NapLength(n) \in Nat /\ NapLength(n) <= LongestNap
PROOF
<1>1. Speed \in Nat \ {0} /\ Unit \in Nat \ {0} /\ MaxNap \in Nat
  BY NapAssumption
<1>2. n * Speed \in Nat /\ MaxNap * Speed \in Nat /\ n * Speed <= MaxNap * Speed
  BY <1>1, Product
<1> DEFINE q == (MaxNap * Speed) \div Unit
<1>3. q \in Nat /\ MaxNap <= LongestNap /\ q <= LongestNap
  BY <1>1, <1>2, Division DEF LongestNap, Larger
<1>4. CASE scale = Speed
  BY <1>3, <1>4, NapLengthExact, <1>1 DEF LongestNap, Larger
<1>5. CASE scale = Unit
  <2>1. NapLength(n) \in Nat /\ Unit * NapLength(n) <= n * Speed
    BY <1>1, <1>2, <1>5, Division DEF NapLength
  <2>2. NapLength(n) * Unit <= MaxNap * Speed
    BY <2>1, <1>1, <1>2
  <2>3. NapLength(n) <= q
    BY <2>1, <2>2, <1>1, <1>2, DivAtLeast
  <2> QED
    BY <2>1, <2>3, <1>3, <1>1 DEF LongestNap, Larger
<1> QED
  BY <1>4, <1>5

\* The RTC's lead over real time is largest in the longest stretch.
LEMMA LeadGrows ==
    ASSUME NEW r \in Nat, r <= MaxNap \/ Unit < Speed
    PROVE  Nominal(r) \in Nat /\ Nominal(r) <= r + RtcLead /\ RtcLead \in Nat
PROOF
<1>1. Speed \in Nat \ {0} /\ Unit \in Nat \ {0} /\ MaxNap \in Nat
  BY NapAssumption
<1>2. r * Unit \in Nat /\ MaxNap * Unit \in Nat
  BY <1>1, Product
<1>3. Nominal(r) \in Nat /\ Nominal(MaxNap) \in Nat
  BY <1>1, <1>2, Division DEF Nominal
<1>4. RtcLead \in Nat /\ RtcLead >= Nominal(MaxNap) - MaxNap
  BY <1>1, <1>3 DEF RtcLead, Larger
<1>5. CASE Unit < Speed
  <2>1. r * Unit <= r * Speed
    BY <1>1, <1>5, Product
  <2>2. Nominal(r) <= r
    BY <2>1, <1>1, <1>2, DivAtMost DEF Nominal
  <2> QED
    BY <2>2, <1>3, <1>4
<1>6. CASE ~(Unit < Speed) /\ r <= MaxNap
  <2> DEFINE k == MaxNap - r
  <2>1. k \in Nat /\ MaxNap = r + k /\ Nominal(r) + k \in Nat
    BY <1>1, <1>3, <1>6
  <2>2. Speed * Nominal(r) <= r * Unit
    BY <1>1, <1>2, Division DEF Nominal
  <2>3. k * Speed <= k * Unit /\ k * Unit \in Nat
    BY <1>1, <1>6, <2>1, Product
  <2>4. MaxNap * Unit = r * Unit + k * Unit
    BY <2>1, <1>1
  <2>5. (Nominal(r) + k) * Speed = Speed * Nominal(r) + k * Speed
    BY <2>1, <1>1, <1>3
  <2>6. (Nominal(r) + k) * Speed <= MaxNap * Unit
    BY <2>2, <2>3, <2>4, <2>5, <1>1, <1>2, <1>3, <2>1
  <2>7. Nominal(r) + k <= Nominal(MaxNap)
    BY <2>1, <2>6, <1>1, <1>2, DivAtLeast DEF Nominal
  <2> QED
    BY <2>7, <2>1, <1>1, <1>3, <1>4
<1> QED
  BY <1>1, <1>5, <1>6

\* What a nap ended by the button can be taken for: no more than RtcLead over
\* what it lasted and over what was asked for.
LEMMA ButtonCredit ==
    ASSUME NEW n \in Nat, n <= MaxNap, scale \in {Unit, Speed},
           NEW slept \in 0 .. NapLength(n), NEW credit \in {0, Nominal(slept)}
    PROVE  /\ slept \in Nat /\ slept <= LongestNap /\ credit \in Nat
           /\ credit <= slept + RtcLead /\ credit <= n + RtcLead /\ RtcLead \in Nat
PROOF
<1>1. Speed \in Nat \ {0} /\ Unit \in Nat \ {0} /\ MaxNap \in Nat
  BY NapAssumption
<1>2. slept \in Nat /\ slept <= NapLength(n) /\ NapLength(n) \in Nat /\ slept <= LongestNap
  BY NapLengthRange, <1>1 DEF LongestNap, Larger
<1>3. slept <= MaxNap \/ Unit < Speed
  <2>1. CASE scale = Speed
    BY <2>1, <1>1, <1>2, NapLengthExact
  <2>2. CASE scale = Unit /\ ~(Unit < Speed)
    <3>1. n * Speed <= n * Unit /\ n * Speed \in Nat
      BY <2>2, <1>1, Product
    <3>2. NapLength(n) <= n
      BY <3>1, <2>2, <1>1, DivAtMost DEF NapLength
    <3> QED
      BY <3>2, <1>1, <1>2
  <2> QED
    BY <2>1, <2>2
<1>4. Nominal(slept) \in Nat /\ Nominal(slept) <= slept + RtcLead /\ RtcLead \in Nat
  BY <1>2, <1>3, LeadGrows
<1>5. Nominal(slept) <= n + RtcLead
  <2>1. CASE scale = Speed
    BY <2>1, <1>2, <1>4, NapLengthExact
  <2>2. CASE scale = Unit
    <3>1. n * Speed \in Nat /\ slept * Unit \in Nat /\ slept * Unit <= NapLength(n) * Unit
      BY <1>1, <1>2, Product
    <3>2. Unit * NapLength(n) <= n * Speed
      BY <2>2, <3>1, <1>1, Division DEF NapLength
    <3>3. slept * Unit <= n * Speed
      BY <3>1, <3>2, <1>1, <1>2
    <3>4. Nominal(slept) <= n
      BY <3>1, <3>3, <1>1, DivAtMost DEF Nominal
    <3> QED
      BY <3>4, <1>4
  <2> QED
    BY <2>1, <2>2
<1> QED
  BY <1>2, <1>4, <1>5
------------------------------------------------------------------------------
(* What a nap does to the clocks. *)

\* A nap of which c is put back keeps Armed, and passes the earliest deadline
\* by no more than c is beyond the budget.
LEMMA NapClocks ==
    ASSUME TypeOK, Armed, NapBudget >= MinNap,
           NEW c \in Nat, NEW over \in Nat, c <= NapBudget + over,
           sys' = sys + c,
           timer' = (IF c > 0 THEN AdvanceTimg1(c) ELSE timer),
           UNCHANGED <<alarmFor, deadlines>>
    PROVE  /\ Armed'
           /\ timer' \in [count : Nat, alarm : Nat, enabled : BOOLEAN, pending : BOOLEAN]
           /\ timer'.enabled => timer'.count <= timer'.alarm /\ ~timer'.pending
           /\ \A d \in deadlines : sys' <= d + over
PROOF
<1>1. ~timer.pending /\ Lead < MinNap /\ Lead \in Nat \ {0} /\ MinNap \in Nat /\ MaxNap \in Nat
  BY NapAssumption DEF NapBudget
<1>2. timer \in [count : Nat, alarm : Nat, enabled : BOOLEAN, pending : BOOLEAN] /\ sys \in Nat
      /\ deadlines \subseteq Nat /\ alarmFor \in Nat \union {Never}
  BY DEF TypeOK
<1>3. CASE ~timer.enabled
  <2>1. timer' = timer
    BY <1>3, <1>2 DEF AdvanceTimg1
  <2>2. alarmFor = Never /\ deadlines = {}
    BY <1>3, <1>1 DEF Armed
  <2> QED
    BY <1>1, <1>2, <1>3, <2>1, <2>2 DEF Armed
<1>4. CASE timer.enabled
  <2>1. NapBudget <= Remaining /\ NapBudget \in Nat
    BY <1>1, <1>2, <1>4 DEF NapBudget, Least, Armed, Remaining
  <2>2. Remaining > Lead /\ sys + Remaining = alarmFor /\ alarmFor \in Nat
    BY <1>1, <1>2, <1>4, <2>1 DEF Armed, Remaining, Never
  <2>3. c <= Remaining + over /\ sys' <= alarmFor + over
    BY <1>2, <2>1, <2>2 DEF Remaining
  <2>4. \A d \in deadlines : sys' <= d + over
    BY <1>1, <1>2, <1>4, <2>2, <2>3 DEF Armed
  <2>5. CASE c = 0
    <3>1. timer' = timer /\ sys' = sys
      BY <2>5, <1>2
    <3> QED
      <4>1. Remaining' = Remaining
        BY <3>1 DEF Remaining
      <4>2. Armed'
        BY <3>1, <4>1 DEF Armed
      <4> QED
        BY <3>1, <4>2, <2>4, <1>2 DEF TypeOK
  <2>6. CASE c > 0 /\ timer.count + c < timer.alarm
    <3>1. timer' = [timer EXCEPT !.count = @ + c]
      BY <2>6, <1>2, <1>4, <2>3 DEF AdvanceTimg1
    <3>2. /\ timer'.count = timer.count + c /\ timer'.alarm = timer.alarm
          /\ timer'.enabled /\ ~timer'.pending
          /\ timer' \in [count : Nat, alarm : Nat, enabled : BOOLEAN, pending : BOOLEAN]
      BY <3>1, <1>2, <1>1, <1>4, <2>3
    <3>3. Remaining' = Remaining - c /\ sys' + Remaining' = alarmFor
      BY <3>2, <2>2, <2>3, <1>2 DEF Remaining
    <3> QED
      BY <3>2, <3>3, <2>2, <2>4, <2>6, <1>2, <1>4, <1>1 DEF Armed
  <2>7. CASE c > 0 /\ timer.count + c >= timer.alarm
    <3>1. timer' = [timer EXCEPT !.count = timer.alarm - Lead]
      BY <2>7, <1>4, <1>1, <1>2, <2>2 DEF AdvanceTimg1, Remaining
    <3>2. /\ timer'.count = timer.alarm - Lead /\ timer'.alarm = timer.alarm
          /\ timer'.enabled /\ ~timer'.pending
          /\ timer' \in [count : Nat, alarm : Nat, enabled : BOOLEAN, pending : BOOLEAN]
      BY <3>1, <1>2, <1>1, <1>4, <2>2 DEF Remaining
    <3>3. c >= Remaining /\ sys' >= alarmFor
      BY <2>7, <2>2, <2>3, <1>2 DEF Remaining
    <3>4. Remaining' = Lead /\ sys' + Remaining' >= alarmFor
      BY <3>2, <3>3, <2>2, <1>1, <1>2 DEF Remaining
    <3> QED
      BY <3>2, <3>4, <2>2, <2>4, <1>1, <1>2, <1>4 DEF Armed
  <2> QED
    BY <2>3, <2>5, <2>6, <2>7, <1>2
<1> QED
  BY <1>2, <1>3, <1>4

\* A nap's budget is a length no longer than MaxNap.
LEMMA BudgetRange ==
    ASSUME TypeOK
    PROVE  NapBudget \in Int /\ NapBudget <= MaxNap
PROOF
  BY NapAssumption DEF TypeOK, NapBudget, Least
------------------------------------------------------------------------------
(* Every step keeps the invariant. *)

LEMMA InvInit == Init => IInv
PROOF
<1> SUFFICES ASSUME Init PROVE IInv
  OBVIOUS
<1>1. TypeOK
  <2>1. BootGrace \in Nat /\ ButtonWindow \in Nat
    BY NapAssumption
  <2>2. pressedAt \in Int /\ awakeUntil \in Nat
    BY <2>1 DEF Init
  <2>3. /\ timer \in [count : Nat, alarm : Nat, enabled : BOOLEAN, pending : BOOLEAN]
        /\ ~timer.enabled
    BY DEF Init
  <2>4. anchor \in [rtc : Nat, sys : Nat, set : BOOLEAN]
    BY DEF Init, NoAnchor
  <2>5. scale \in CalMin .. CalMax \union {Unit}
    BY DEF Init
  <2>6. real \in Nat /\ sys \in Nat /\ lost \in Nat /\ gained \in Nat /\ short \in Int
    BY DEF Init
  <2>7. alarmFor \in Nat \union {Never} /\ deadlines \subseteq Nat
    BY DEF Init
  <2>8. ready \in BOOLEAN /\ radio \in BOOLEAN /\ sleeping \in BOOLEAN
    BY DEF Init
  <2>9. timer.enabled => timer.count <= timer.alarm /\ ~timer.pending
    BY <2>3
  <2> QED
    BY <2>2, <2>3, <2>4, <2>5, <2>6, <2>7, <2>8, <2>9, Zenon DEF TypeOK
<1>2. Armed
  BY DEF Init, Armed, Never
<1>3. Aligned
  BY DEF Init, Aligned, NoAnchor
<1>4. Windowed
  BY NapAssumption DEF Init, Windowed
<1>6. ClockBound
  BY DEF Init, ClockBound
<1> QED
  BY <1>1, <1>2, <1>3, <1>4, <1>6 DEF IInv

\* Arming for a later instant starts the timer for what is left until then.
LEMMA ArmLater ==
    ASSUME TypeOK, NEW at \in Nat, NEW current \in Int, at > sys, at # current,
           ArmNextWakeup(at, current), sys' = sys,
           at \in deadlines', \A d \in deadlines' : at <= d
    PROVE  /\ Armed'
           /\ timer' \in [count : Nat, alarm : Nat, enabled : BOOLEAN, pending : BOOLEAN]
           /\ timer'.enabled => timer'.count <= timer'.alarm /\ ~timer'.pending
PROOF
<1>1. sys \in Nat
  BY DEF TypeOK
<1>2. timer' = [count |-> 0, alarm |-> at - sys, enabled |-> TRUE, pending |-> FALSE] /\ alarmFor' = at
  BY DEF ArmNextWakeup, Schedule
<1>3. Remaining' = at - sys /\ at # Never /\ at - sys > 0
  BY <1>1, <1>2 DEF Remaining, Never
<1> QED
  BY <1>1, <1>2, <1>3 DEF Armed

LEMMA ScheduleStep ==
    ASSUME IInv, NEW d \in Delays, ScheduleWake(d)
    PROVE  IInv'
PROOF
<1> USE DEF IInv
<1>1. d \in Nat /\ d > 0 /\ sys \in Nat /\ deadlines \subseteq Nat /\ alarmFor \in Nat \union {Never}
  BY NapAssumption DEF TypeOK
<1>2. PICK at \in deadlines' : (\A x \in deadlines' : at <= x) /\ ArmNextWakeup(at, alarmFor)
  BY DEF ScheduleWake
<1>3. deadlines' = deadlines \union {sys + d} /\ deadlines' \subseteq Nat /\ at \in Nat
  BY <1>1, <1>2 DEF ScheduleWake
<1>4. UNCHANGED <<real, sys, ready, radio, awakeUntil, sleeping, anchor, scale, lost, gained, short, pressedAt>>
  BY DEF ScheduleWake, cal, history
<1>5. /\ Armed'
      /\ timer' \in [count : Nat, alarm : Nat, enabled : BOOLEAN, pending : BOOLEAN]
      /\ timer'.enabled => timer'.count <= timer'.alarm /\ ~timer'.pending
  <2>1. CASE at = alarmFor
    <3>1. timer' = timer /\ alarmFor' = alarmFor
      BY <2>1, <1>2 DEF ArmNextWakeup
    <3> QED
      BY <3>1, <2>1, <1>1, <1>2, <1>3, <1>4 DEF Armed, Remaining, TypeOK, Never
  <2>2. CASE at # alarmFor
    <3>1. at > sys
      BY <2>2, <1>1, <1>2, <1>3 DEF Armed
    <3>2. alarmFor \in Int
      BY <1>1 DEF Never
    <3> QED
      BY <3>1, <3>2, <2>2, <1>2, <1>3, <1>4, ArmLater
  <2> QED
    BY <2>1, <2>2
<1>6. TypeOK'
  <2>1. alarmFor' \in Nat
    BY <1>2, <1>3 DEF ArmNextWakeup
  <2> QED
    BY <1>3, <1>4, <1>5, <2>1 DEF TypeOK
<1> QED
  BY <1>4, <1>5, <1>6 DEF Aligned, Windowed, ClockBound

LEMMA TickStep == IInv /\ TimerTick => IInv'
PROOF
<1> SUFFICES ASSUME IInv, TimerTick PROVE IInv'
  OBVIOUS
<1> USE DEF IInv
<1>1. sys \in Nat /\ deadlines \subseteq Nat /\ timer \in [count : Nat, alarm : Nat, enabled : BOOLEAN, pending : BOOLEAN]
  BY DEF TypeOK
<1>2. deadlines' = {d \in deadlines : d > sys} /\ deadlines' \subseteq Nat /\ ready' \in BOOLEAN
  BY <1>1 DEF TimerTick, TypeOK
<1>3. UNCHANGED <<real, sys, radio, awakeUntil, sleeping, anchor, scale, lost, gained, short, pressedAt>>
  BY DEF TimerTick, cal, history
<1>4. /\ Armed'
      /\ timer' \in [count : Nat, alarm : Nat, enabled : BOOLEAN, pending : BOOLEAN]
      /\ timer'.enabled => timer'.count <= timer'.alarm /\ ~timer'.pending
      /\ alarmFor' \in Nat \union {Never}
  <2>1. CASE deadlines' = {} /\ alarmFor' = Never /\ timer' = [timer EXCEPT !.pending = FALSE]
    <3>1. ~timer.enabled
      BY DEF TimerTick, TypeOK
    <3> QED
      BY <2>1, <3>1, <1>1 DEF Armed
  <2>2. CASE \E at \in deadlines' :
                (\A x \in deadlines' : at <= x) /\ ArmNextWakeup(at, Never)
    <3>1. PICK at \in deadlines' : (\A x \in deadlines' : at <= x) /\ ArmNextWakeup(at, Never)
      BY <2>2
    <3>2. at \in Nat /\ at > sys /\ Never \in Int /\ at # Never
      BY <3>1, <1>1, <1>2 DEF Never
    <3>3. alarmFor' = at
      BY <3>1 DEF ArmNextWakeup
    <3> QED
      BY <3>1, <3>2, <3>3, <1>3, ArmLater
  <2> QED
    BY <2>1, <2>2 DEF TimerTick
<1>5. TypeOK'
  BY <1>2, <1>3, <1>4 DEF TypeOK
<1> QED
  BY <1>3, <1>4, <1>5 DEF Aligned, Windowed, ClockBound

LEMMA ElapseStep == IInv /\ Elapse => IInv'
PROOF
<1> SUFFICES ASSUME IInv, Elapse PROVE IInv'
  OBVIOUS
<1> USE DEF IInv
<1>1. /\ sys \in Nat /\ real \in Nat /\ awakeUntil \in Nat /\ pressedAt \in Int
      /\ deadlines \subseteq Nat /\ alarmFor \in Nat \union {Never}
      /\ timer \in [count : Nat, alarm : Nat, enabled : BOOLEAN, pending : BOOLEAN]
      /\ lost \in Nat /\ gained \in Nat /\ short \in Int
      /\ anchor \in [rtc : Nat, sys : Nat, set : BOOLEAN]
  BY DEF TypeOK
<1>2. real' = real + 1 /\ sys' = sys + 1
  BY DEF Elapse
<1>3. UNCHANGED <<alarmFor, deadlines, ready, radio, awakeUntil, sleeping, anchor, scale, lost, gained, short, pressedAt>>
  BY DEF Elapse, tasks, cal, history
<1>4. /\ Armed'
      /\ timer' \in [count : Nat, alarm : Nat, enabled : BOOLEAN, pending : BOOLEAN]
      /\ timer'.enabled => timer'.count <= timer'.alarm /\ ~timer'.pending
  <2>1. CASE ~timer.enabled
    <3>1. timer' = timer
      BY <2>1 DEF Elapse
    <3> QED
      BY <3>1, <2>1, <1>1, <1>3 DEF Armed
  <2>2. CASE timer.enabled /\ timer.count + 1 = timer.alarm
    <3>1. timer' = [count |-> 0, alarm |-> 0, enabled |-> FALSE, pending |-> TRUE]
      BY <2>2 DEF Elapse, Fired
    <3> QED
      BY <3>1, <2>2, <1>1, <1>3 DEF Armed
  <2>3. CASE timer.enabled /\ timer.count + 1 # timer.alarm
    <3>1. timer' = [timer EXCEPT !.count = @ + 1]
      BY <2>3 DEF Elapse
    <3>2. /\ timer'.count = timer.count + 1 /\ timer'.alarm = timer.alarm
          /\ timer'.enabled /\ timer'.pending = timer.pending
          /\ timer' \in [count : Nat, alarm : Nat, enabled : BOOLEAN, pending : BOOLEAN]
      BY <3>1, <2>3, <1>1
    <3>3. Remaining' = Remaining - 1 /\ timer'.count < timer'.alarm
      BY <3>2, <2>3, <1>1 DEF Remaining, Armed
    <3>4. sys' + Remaining' = sys + Remaining /\ Remaining' <= Remaining
      BY <3>3, <1>1, <1>2 DEF Remaining
    <3>5. Lead \in Nat /\ Remaining \in Int
      BY NapAssumption, <1>1 DEF Remaining
    <3> QED
      BY <3>2, <3>3, <3>4, <3>5, <2>3, <1>1, <1>3 DEF Armed
  <2> QED
    BY <2>1, <2>2, <2>3
<1>5. TypeOK'
  BY <1>1, <1>2, <1>3, <1>4 DEF TypeOK
<1>6. Aligned'
  BY <1>1, <1>2, <1>3 DEF Aligned
<1>7. Windowed'
  BY <1>1, <1>2, <1>3, NapAssumption DEF Windowed
<1>8. ClockBound'
  BY <1>1, <1>2, <1>3 DEF ClockBound
<1> QED
  BY <1>4, <1>5, <1>6, <1>7, <1>8
LEMMA RadioStep == IInv /\ (SetRadio \/ TasksIdle) => IInv'
PROOF
<1> SUFFICES ASSUME IInv, SetRadio \/ TasksIdle PROVE IInv'
  OBVIOUS
<1>1. /\ UNCHANGED <<clocks, alarmFor, deadlines, awakeUntil, sleeping, cal, history>>
      /\ radio' \in BOOLEAN /\ ready' \in BOOLEAN
  BY DEF SetRadio, TasksIdle, IInv, TypeOK
<1> QED
  BY <1>1 DEF IInv, TypeOK, Armed, Remaining, Aligned, Windowed, ClockBound, clocks, cal, history

LEMMA AwakeStep == IInv /\ AwakePass => IInv'
PROOF
<1> SUFFICES ASSUME IInv, AwakePass PROVE IInv'
  OBVIOUS
<1> USE DEF IInv
<1>1. /\ UNCHANGED <<real, sys, timer, alarmFor, deadlines, ready, radio, awakeUntil, lost, gained, short, pressedAt>>
      /\ sleeping' = FALSE /\ CalibrateRtc
  BY DEF AwakePass, clocks, tasks, history
<1>2. /\ anchor \in [rtc : Nat, sys : Nat, set : BOOLEAN] /\ real \in Nat /\ sys \in Nat
      /\ scale \in CalMin .. CalMax \union {Unit} /\ Speed \in Nat \ {0}
  BY NapAssumption DEF TypeOK
<1>3. /\ anchor' \in [rtc : Nat, sys : Nat, set : BOOLEAN]
      /\ scale' \in CalMin .. CalMax \union {Unit}
      /\ Aligned'
  <2>1. CASE UNCHANGED cal
    BY <2>1, <1>1, <1>2 DEF cal, Aligned
  <2>2. CASE ~anchor.set /\ anchor' = [rtc |-> real, sys |-> sys, set |-> TRUE] /\ UNCHANGED scale
    BY <2>2, <1>1, <1>2 DEF Aligned
  <2>3. CASE /\ anchor.set /\ real > anchor.rtc
             /\ scale' = IF Measured \in CalMin .. CalMax THEN Measured ELSE scale
             /\ UNCHANGED anchor
    <3> DEFINE span == real - anchor.rtc
    <3>1. span \in Nat \ {0} /\ sys - anchor.sys = span
      BY <2>3, <1>2 DEF Aligned
    <3>2. span * Speed \in Nat /\ span * Speed <= Speed * span /\ Speed * span <= span * Speed
      BY <3>1, <1>2, Product
    <3>3. Measured = (span * Speed) \div span
      BY <3>1 DEF Measured
    <3>4. Measured = Speed
      BY <3>1, <3>2, <3>3, <1>2, DivAtLeast, DivAtMost, Division
    <3> QED
      BY <2>3, <3>4, <1>1, <1>2 DEF Aligned
  <2> QED
    BY <1>1, <2>1, <2>2, <2>3 DEF CalibrateRtc
<1>4. TypeOK'
  BY <1>1, <1>3 DEF TypeOK
<1>5. Armed' /\ Windowed' /\ ClockBound'
  BY <1>1 DEF Armed, Remaining, Windowed, ClockBound
<1> QED
  BY <1>3, <1>4, <1>5

LEMMA AlarmNapStep == IInv /\ NapToAlarm => IInv'
PROOF
<1> SUFFICES ASSUME IInv, NapToAlarm PROVE IInv'
  OBVIOUS
<1> USE DEF IInv
<1> DEFINE n == NapBudget
           slept == NapLength(n)
<1>1. /\ Compensate(slept, n) /\ n >= MinNap
      /\ short' = IF scale = Unit THEN short + (n - slept) ELSE short
  BY DEF NapToAlarm
<1>2. n \in Nat /\ n > 0 /\ n <= MaxNap
  BY <1>1, BudgetRange, NapAssumption
<1>3. /\ sys \in Nat /\ real \in Nat /\ awakeUntil \in Nat /\ pressedAt \in Int
      /\ lost \in Nat /\ gained \in Nat /\ short \in Int /\ scale \in {Unit, Speed}
  BY DEF TypeOK, Aligned
<1>4. slept \in Nat /\ (scale # Unit => slept = n)
  <2>1. slept \in Nat
    BY <1>2, <1>3, NapLengthRange
  <2>2. scale # Unit => slept = n
    BY <1>2, <1>3, NapLengthExact
  <2> QED
    BY <2>1, <2>2
<1> HIDE DEF n, slept
<1>5. real' = real + slept /\ sys' = sys + n /\ timer' = AdvanceTimg1(n)
  BY <1>1, <1>2 DEF Compensate
<1>6. /\ UNCHANGED <<alarmFor, deadlines, ready, radio, awakeUntil, scale, lost, gained, pressedAt>>
      /\ sleeping' = TRUE /\ DropAnchor /\ ~MayNotSleep
  BY DEF NapToAlarm, tasks
<1>7. /\ Armed'
      /\ timer' \in [count : Nat, alarm : Nat, enabled : BOOLEAN, pending : BOOLEAN]
      /\ timer'.enabled => timer'.count <= timer'.alarm /\ ~timer'.pending
  <2>1. n <= NapBudget + 0 /\ NapBudget >= MinNap /\ NapBudget = n
    BY <1>1, <1>2 DEF n
  <2> QED
    BY <1>2, <1>5, <1>6, <2>1, NapClocks
<1>8. anchor' \in [rtc : Nat, sys : Nat, set : BOOLEAN] /\ ~anchor'.set
  BY <1>6 DEF DropAnchor, NoAnchor, TypeOK, Aligned
<1>9. TypeOK'
  <2>1. short' \in Int
    BY <1>1, <1>2, <1>3, <1>4
  <2> QED
    BY <2>1, <1>2, <1>3, <1>4, <1>5, <1>6, <1>7, <1>8 DEF TypeOK
<1>10. Aligned'
  BY <1>3, <1>6, <1>8 DEF Aligned
<1>11. Windowed'
  BY <1>2, <1>3, <1>4, <1>5, <1>6, NapAssumption DEF Windowed, MayNotSleep
<1>12. ClockBound'
  BY <1>1, <1>2, <1>3, <1>4, <1>5, <1>6 DEF ClockBound
<1> QED
  BY <1>7, <1>9, <1>10, <1>11, <1>12

LEMMA ButtonNapStep == IInv /\ NapToButton => IInv'
PROOF
<1> SUFFICES ASSUME IInv, NapToButton PROVE IInv'
  OBVIOUS
<1> USE DEF IInv
<1> DEFINE n == NapBudget
<1>1. n \in Nat /\ n <= MaxNap /\ n >= MinNap
  BY BudgetRange, NapAssumption DEF NapToButton
<1>2. PICK slept \in 0 .. NapLength(n) : \E credit \in {0, Nominal(slept)} :
         /\ Compensate(slept, credit)
         /\ lost' = IF credit < slept THEN lost + LongestNap ELSE lost
         /\ gained' = IF credit > slept THEN gained + RtcLead ELSE gained
  BY DEF NapToButton
<1>3. PICK credit \in {0, Nominal(slept)} :
         /\ Compensate(slept, credit)
         /\ lost' = IF credit < slept THEN lost + LongestNap ELSE lost
         /\ gained' = IF credit > slept THEN gained + RtcLead ELSE gained
  BY <1>2
<1>4. /\ slept \in Nat /\ slept <= LongestNap /\ credit \in Nat
      /\ credit <= slept + RtcLead /\ credit <= n + RtcLead /\ RtcLead \in Nat
  <2>1. scale \in {Unit, Speed}
    BY DEF Aligned
  <2> QED
    BY <1>1, <2>1, ButtonCredit
<1>5. /\ sys \in Nat /\ real \in Nat /\ awakeUntil \in Nat /\ pressedAt \in Int
      /\ lost \in Nat /\ gained \in Nat /\ short \in Int
  BY DEF TypeOK
<1>6. /\ real' = real + slept /\ sys' = sys + credit
      /\ timer' = IF credit > 0 THEN AdvanceTimg1(credit) ELSE timer
  BY <1>3 DEF Compensate
<1>7. /\ UNCHANGED <<alarmFor, deadlines, ready, radio, scale, short>>
      /\ DropAnchor /\ ~MayNotSleep
      /\ \/ awakeUntil' = sys' + ButtonWindow /\ pressedAt' = real' /\ sleeping' = FALSE
         \/ sleeping' = TRUE /\ UNCHANGED <<awakeUntil, pressedAt>>
  BY DEF NapToButton, OpenWindow, tasks
<1>8. /\ Armed'
      /\ timer' \in [count : Nat, alarm : Nat, enabled : BOOLEAN, pending : BOOLEAN]
      /\ timer'.enabled => timer'.count <= timer'.alarm /\ ~timer'.pending
  BY <1>1, <1>4, <1>6, <1>7, NapClocks
<1>9. anchor' \in [rtc : Nat, sys : Nat, set : BOOLEAN] /\ ~anchor'.set
  BY <1>7 DEF DropAnchor, NoAnchor, TypeOK, Aligned
<1>10. TypeOK'
  <2>1. awakeUntil' \in Nat /\ pressedAt' \in Int /\ sleeping' \in BOOLEAN
    <3>1. ButtonWindow \in Nat
      BY NapAssumption
    <3>2. awakeUntil' \in Nat /\ pressedAt' \in Int
      BY <3>1, <1>4, <1>5, <1>6, <1>7
    <3> QED
      BY <3>2, <1>7
  <2>2. lost' \in Nat /\ gained' \in Nat
    <3>1. LongestNap \in Nat
      BY <1>4, NapAssumption, Product, Division DEF LongestNap, Larger
    <3> QED
      BY <3>1, <1>3, <1>4, <1>5
  <2> QED
    BY <2>1, <2>2, <1>4, <1>5, <1>6, <1>7, <1>8, <1>9 DEF TypeOK
<1>11. Aligned'
  BY <1>7, <1>9 DEF Aligned
<1>12. Windowed'
  BY <1>4, <1>5, <1>6, <1>7, NapAssumption DEF Windowed, MayNotSleep
<1>13. ClockBound'
  <2>1. LongestNap \in Nat
    BY <1>4, NapAssumption, Product, Division DEF LongestNap, Larger
  <2>2. sys' <= real' + short' + gained'
    BY <2>1, <1>3, <1>4, <1>5, <1>6, <1>7 DEF ClockBound
  <2>3. real' + short' <= sys' + lost'
    BY <2>1, <1>3, <1>4, <1>5, <1>6, <1>7 DEF ClockBound
  <2> QED
    BY <2>2, <2>3 DEF ClockBound
<1> QED
  BY <1>8, <1>10, <1>11, <1>12, <1>13

LEMMA InvStep == IInv /\ [Next]_vars => IInv'
PROOF
<1> SUFFICES ASSUME IInv, [Next]_vars PROVE IInv'
  OBVIOUS
<1>1. ASSUME NEW d \in Delays, ScheduleWake(d) PROVE IInv'
  BY <1>1, ScheduleStep
<1>2. CASE UNCHANGED vars
  BY <1>2 DEF vars, clocks, tasks, cal, history, IInv, TypeOK, Armed, Remaining,
              Aligned, Windowed, ClockBound
<1> QED
  BY <1>1, <1>2, TickStep, ElapseStep, RadioStep, AwakeStep, AlarmNapStep, ButtonNapStep DEF Next

LEMMA Invariance == Spec => []IInv
PROOF
  BY InvInit, InvStep, PTL DEF Spec
------------------------------------------------------------------------------
\* Every variable keeps its type, and TIMG1 never runs past an armed alarm.
THEOREM TypeCorrect == Spec => []TypeOK
PROOF
<1>1. IInv => TypeOK
  BY DEF IInv
<1> QED
  BY <1>1, Invariance, PTL

\* Firmware time falls behind real time by no more than a nap per button wake,
\* and runs ahead by no more than RC_SLOW does in one, and never by a wrong scale.
THEOREM TimeKept == Spec => []ClockBound
PROOF
<1>1. IInv => ClockBound
  BY DEF IInv
<1> QED
  BY <1>1, Invariance, PTL

\* No nap that ends by its alarm runs over a deadline, one that the button ends
\* by RtcLead at most, and none is overdue without its interrupt at hand.
THEOREM NoDeadlineSlept == Spec => DeadlinesKept
PROOF
<1>1. IInv => OnTime
  <2> SUFFICES ASSUME IInv, NEW d \in deadlines, sys >= d, ~timer.pending
               PROVE  timer.enabled /\ timer.alarm - timer.count <= Lead
    BY DEF OnTime, IInv, TypeOK
  <2>1. /\ sys \in Nat /\ d \in Nat /\ alarmFor \in Nat \union {Never} /\ Lead \in Nat
        /\ timer \in [count : Nat, alarm : Nat, enabled : BOOLEAN, pending : BOOLEAN]
    BY NapAssumption DEF IInv, TypeOK
  <2>2. alarmFor # Never /\ alarmFor <= d /\ timer.enabled
    BY DEF IInv, Armed
  <2>3. Remaining \in Nat /\ Remaining > 0 /\ (sys + Remaining = alarmFor \/ Remaining <= Lead)
    BY <2>1, <2>2 DEF IInv, Armed, Remaining, Never
  <2> QED
    BY <2>1, <2>2, <2>3 DEF Never, Remaining
<1>2. IInv /\ [Next]_vars
         => [/\ NapToAlarm => \A d \in deadlines : sys' <= d
             /\ NapToButton => \A d \in deadlines : sys' <= d + RtcLead]_vars
  <2> SUFFICES ASSUME IInv
               PROVE  /\ NapToAlarm => \A d \in deadlines : sys' <= d
                      /\ NapToButton => \A d \in deadlines : sys' <= d + RtcLead
    OBVIOUS
  <2>1. TypeOK /\ Armed /\ scale \in {Unit, Speed}
    BY DEF IInv, Aligned
  <2>2. NapBudget >= MinNap => NapBudget \in Nat /\ NapBudget <= MaxNap
    BY <2>1, BudgetRange, NapAssumption
  <2>3. ASSUME NapToAlarm PROVE \A d \in deadlines : sys' <= d
    <3>1. /\ NapBudget >= MinNap /\ sys' = sys + NapBudget
          /\ timer' = IF NapBudget > 0 THEN AdvanceTimg1(NapBudget) ELSE timer
          /\ UNCHANGED <<alarmFor, deadlines>>
      BY <2>3 DEF NapToAlarm, Compensate, tasks
    <3>2. NapBudget \in Nat /\ NapBudget <= NapBudget + 0 /\ deadlines \subseteq Nat
      BY <2>1, <2>2, <3>1 DEF TypeOK
    <3>3. \A d \in deadlines : sys' <= d + 0
      BY <2>1, <3>1, <3>2, NapClocks
    <3> QED
      BY <3>2, <3>3
  <2>4. ASSUME NapToButton PROVE \A d \in deadlines : sys' <= d + RtcLead
    <3>1. NapBudget >= MinNap /\ UNCHANGED <<alarmFor, deadlines>>
      BY <2>4 DEF NapToButton, tasks
    <3>2. PICK slept \in 0 .. NapLength(NapBudget) : \E credit \in {0, Nominal(slept)} :
             Compensate(slept, credit)
      BY <2>4 DEF NapToButton
    <3>3. PICK credit \in {0, Nominal(slept)} : Compensate(slept, credit)
      BY <3>2
    <3>4. credit \in Nat /\ credit <= NapBudget + RtcLead /\ RtcLead \in Nat
      BY <2>1, <2>2, <3>1, ButtonCredit
    <3>5. sys' = sys + credit /\ timer' = IF credit > 0 THEN AdvanceTimg1(credit) ELSE timer
      BY <3>3 DEF Compensate
    <3> QED
      BY <2>1, <3>1, <3>4, <3>5, NapClocks
  <2> QED
    BY <2>3, <2>4
<1> QED
  BY <1>1, <1>2, Invariance, PTL DEF DeadlinesKept, NapsEndInTime, Spec

\* The attach window is real time, whatever naps do to the clocks.
THEOREM TimeToAttach == Spec => AttachWindow
PROOF
<1>1. IInv /\ [Next]_vars
         => [Nap => real >= BootGrace /\ real >= pressedAt + ButtonWindow]_vars
  <2> SUFFICES ASSUME IInv, Nap PROVE real >= BootGrace /\ real >= pressedAt + ButtonWindow
    OBVIOUS
  <2>1. sys \in Nat /\ awakeUntil \in Nat /\ ~(sys < awakeUntil)
    BY DEF IInv, TypeOK, Nap, NapToAlarm, NapToButton, MayNotSleep
  <2> QED
    BY <2>1 DEF IInv, Windowed
<1> QED
  BY <1>1, Invariance, PTL DEF AttachWindow, Spec
==============================================================================
