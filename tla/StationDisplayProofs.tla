------------------------- MODULE StationDisplayProofs -------------------------
(***************************************************************************)
(* Proofs about StationDisplay: the types, the pairing of counts and age   *)
(* in what is shown, and the agreement of the LEDs with STATUS.led_states. *)
(***************************************************************************)
EXTENDS StationDisplay, TLAPS

USE StationAssumption, DisplayAssumption, SignalAssumption
    DEF StationAssumption, DisplayAssumption, SignalAssumption

(* Types. *)

LEMMA NewTypes ==
    ASSUME TypeOK
    PROVE  /\ NewFetchTime \in 0 .. MaxFetch
           /\ NewStationData \in Data
BY DEF TypeOK, NewFetchTime, NewStationData

LEMMA DataFields ==
    ASSUME NEW d \in Data
    PROVE  d.fetch \in 0 .. MaxFetch /\ d.bikes \in Counts
BY DEF Data

LEMMA NoDataType == NoData \in Data /\ NoData.fetch = 0
<1>1. [s \in Stations |-> 0] \in Counts
  BY DEF Counts
<1>2. QED
  BY <1>1 DEF NoData, Data

LEMMA LedsType ==
    ASSUME NEW n \in 0 .. Row + 1
    PROVE  LedsFor(n) \in SUBSET Leds
BY DEF LedsFor, Leds, EmptyLed, AgeLed

Screens == [station : Stations \union {None}, data : 0 .. MaxFetch, fetch : 0 .. MaxFetch]

LEMMA NothingType == Nothing \in Screens
BY DEF Nothing, Screens

LEMMA TypeInit == Init => TypeOK
<1> SUFFICES ASSUME Init PROVE TypeOK
  OBVIOUS
<1>1. 0 \in 0 .. MaxFetch
  OBVIOUS
<1>2. shown \in Screens /\ stationData \in Data
  BY NoDataType, NothingType DEF Init
<1>3. QED
  BY <1>1, <1>2 DEF Init, TypeOK, Screens

LEMMA TakeType ==
    ASSUME TypeOK, TakeSignals
    PROVE  /\ touch' = touch /\ lastSignaled' = lastSignaled /\ ledIdle' = ledIdle
           /\ published' = published
           /\ fetchTime' \in 0 .. MaxFetch /\ stationData' \in Data
           /\ stationSignal' = Empty /\ fetchSignal' = Empty /\ dataSignal' = Empty
           /\ last' = stationSignal /\ last' \in Cells \union {None}
BY NewTypes DEF TakeSignals, TypeOK, input

LEMMA ShowType ==
    ASSUME NEW s \in Stations, NEW d \in Data, NEW n \in 0 .. MaxFetch,
           NEW before \in SUBSET Leds, Show(s, d, n, before)
    PROVE  /\ regs' \in SUBSET Leds /\ ledStates' \in SUBSET Leds
           /\ chipOn' = TRUE /\ led' = "pause"
           /\ shown' \in Screens
           /\ shown' = [station |-> s, data |-> d.fetch, fetch |-> n]
           /\ regs' = before \union ledStates'
<1>1. d.fetch \in 0 .. MaxFetch /\ d.bikes[s] \in 0 .. Row + 1
  BY DataFields DEF Counts
<1>2. LedsFor(d.bikes[s]) \in SUBSET Leds
  BY <1>1, LedsType
<1>3. QED
  BY <1>1, <1>2 DEF Show, Screens

LEMMA TypeNext == TypeOK /\ [Next]_vars => TypeOK'
<1> SUFFICES ASSUME TypeOK, [Next]_vars PROVE TypeOK'
  OBVIOUS
<1>1. ASSUME NEW c \in Cells \union {None}, Touch(c) PROVE TypeOK'
  BY <1>1 DEF Touch, TypeOK, feed, ledVars, history
<1>2. CASE Poll
  BY <1>2 DEF Poll, TypeOK, feed, ledVars, history
<1>3. ASSUME NEW bikes \in Counts, Publish(bikes) PROVE TypeOK'
  <2>1. published' \in 0 .. MaxFetch /\ fetchSignal' \in 0 .. MaxFetch
    BY <1>3 DEF Publish, TypeOK
  <2>2. dataSignal' \in Data
    BY <1>3, <2>1 DEF Publish, Data
  <2>3. QED
    BY <1>3, <2>1, <2>2 DEF Publish, TypeOK, input, ledVars, history
<1>4. CASE Breathe
  BY <1>4 DEF Breathe, TypeOK, input, feed, history, Leds, AgeLed
<1>5. CASE TakeFirstData
  BY <1>5 DEF TakeFirstData, TypeOK, input, history
<1>6. CASE TakeFirstFetch
  BY <1>6 DEF TakeFirstFetch, TypeOK, input, history
<1>7. CASE HandleRepeat
  BY <1>7, NewTypes DEF HandleRepeat, TypeOK, input, history
<1>8. CASE HandleRelease
  BY <1>8, TakeType, NothingType DEF HandleRelease, TypeOK, Screens
<1>9. CASE HandleTouch
  BY <1>9, TakeType, NewTypes, ShowType DEF HandleTouch, TypeOK, Screens
<1>10. CASE HandleTouchAfterShutdown
  BY <1>10, TakeType DEF HandleTouchAfterShutdown, TypeOK, history
<1>11. CASE HandleUnindexed
  BY <1>11, TakeType DEF HandleUnindexed, TypeOK, history
<1>12. CASE Resume
  BY <1>12 DEF Resume, TypeOK, input, feed, history
<1>13. CASE Reboot
  <2>1. 0 \in 0 .. MaxFetch
    OBVIOUS
  <2>2. shown' \in Screens /\ stationData' \in Data
    BY <1>13, NoDataType, NothingType DEF Reboot
  <2>3. QED
    BY <1>13, <2>1, <2>2 DEF Reboot, TypeOK, Screens
<1>14. CASE ShowAfterInit
  <2>1. last \in Stations /\ Show(last, stationData, fetchTime, regs)
    BY <1>14 DEF ShowAfterInit, TypeOK
  <2>2. shown' \in Screens /\ regs' \in SUBSET Leds /\ ledStates' \in SUBSET Leds
        /\ chipOn' = TRUE /\ led' = "pause"
    BY <2>1, ShowType DEF TypeOK
  <2>3. QED
    BY <1>14, <2>2 DEF ShowAfterInit, TypeOK, input, feed, Screens
<1>15. CASE UNCHANGED vars
  BY <1>15 DEF vars, TypeOK
<1>16. QED
  BY <1>1, <1>2, <1>3, <1>4, <1>5, <1>6, <1>7, <1>8, <1>9, <1>10, <1>11, <1>12, <1>13, <1>14,
     <1>15 DEF Next, LedTask

\* Every value of the station display keeps its range.
THEOREM TypeCorrect == Spec => []TypeOK
BY TypeInit, TypeNext, PTL DEF Spec
------------------------------------------------------------------------------
(* Counts and their age. *)

\* A signal holds the newest publication or none; where it holds none, the LED
\* task has that publication.
FeedInv ==
    /\ NewStationData.fetch = published
    /\ NewFetchTime = published
    /\ led = "init" => stationData.fetch = fetchTime /\ ledIdle = 2
    /\ SameFetch

LEMMA FeedTaken ==
    ASSUME FeedInv, TakeSignals
    PROVE  /\ stationData'.fetch = published /\ fetchTime' = published
           /\ published' = published /\ ledIdle' = ledIdle
           /\ NewStationData'.fetch = published' /\ NewFetchTime' = published'
BY DEF FeedInv, TakeSignals, NewStationData, NewFetchTime, input

LEMMA FeedNext == TypeOK /\ FeedInv /\ [Next]_vars => FeedInv'
<1> SUFFICES ASSUME TypeOK, FeedInv, [Next]_vars PROVE FeedInv'
  OBVIOUS
<1> USE DEF FeedInv, SameFetch, NewStationData, NewFetchTime, input, feed, ledVars, history
<1>1. ASSUME NEW c \in Cells \union {None}, Touch(c) PROVE FeedInv'
  BY <1>1 DEF Touch
<1>2. CASE Poll
  BY <1>2 DEF Poll
<1>3. ASSUME NEW bikes \in Counts, Publish(bikes) PROVE FeedInv'
  <2>1. dataSignal' \in Data /\ fetchSignal' \in Nat
    BY <1>3 DEF Publish, Data, TypeOK
  <2>2. dataSignal' # Empty /\ fetchSignal' # Empty /\ dataSignal'.fetch = published'
    BY <1>3, <2>1 DEF Publish
  <2>3. QED
    BY <1>3, <2>2 DEF Publish
<1>4. CASE Breathe \/ TakeFirstData \/ TakeFirstFetch \/ HandleRepeat \/ Resume
  BY <1>4 DEF Breathe, TakeFirstData, TakeFirstFetch, HandleRepeat, Resume
<1>5. CASE HandleRelease
  BY <1>5, FeedTaken DEF HandleRelease, Nothing
<1>6. CASE HandleTouch
  <2>1. shown'.data = published /\ shown'.fetch = published /\ led' = "pause"
    BY <1>6 DEF HandleTouch, Show
  <2>2. QED
    BY <1>6, <2>1, FeedTaken DEF HandleTouch
<1>7. CASE HandleTouchAfterShutdown \/ HandleUnindexed
  BY <1>7, FeedTaken DEF HandleTouchAfterShutdown, HandleUnindexed
<1>8. CASE ShowAfterInit
  BY <1>8 DEF ShowAfterInit, Show
<1>9. CASE Reboot
  BY <1>9, NoDataType DEF Reboot, Nothing
<1>10. CASE UNCHANGED vars
  BY <1>10 DEF vars
<1>11. QED
  BY <1>1, <1>2, <1>3, <1>4, <1>5, <1>6, <1>7, <1>8, <1>9, <1>10 DEF Next, LedTask

LEMMA FeedInvariant == Spec => []FeedInv
<1>1. Init => FeedInv
  BY NoDataType DEF Init, FeedInv, SameFetch, NewStationData, NewFetchTime, Nothing
<1>2. QED
  BY <1>1, FeedNext, TypeCorrect, PTL DEF Spec

\* The age beside the counts is theirs, in every build.
THEOREM PairedDisplay == Spec => []SameFetch
BY FeedInvariant, PTL DEF FeedInv

\* Where the driver need not be initialised, a touch shows the newest fetch.
THEOREM FreshDisplay == Spec => NewestAtTouch
<1>1. TypeOK /\ FeedInv /\ [Next]_vars =>
        [ledIdle < 2 /\ shown' # shown /\ shown'.station # None =>
            shown'.data = published /\ shown'.fetch = published]_vars
  <2> SUFFICES ASSUME FeedInv, Next, ledIdle < 2, shown' # shown, shown'.station # None
               PROVE  shown'.data = published /\ shown'.fetch = published
    OBVIOUS
  <2>1. CASE HandleTouch
    BY <2>1 DEF HandleTouch, Show, FeedInv
  <2>2. CASE HandleRelease \/ Reboot
    BY <2>2 DEF HandleRelease, Reboot, Nothing
  <2>3. CASE ShowAfterInit
    BY <2>3 DEF ShowAfterInit, FeedInv
  <2>4. QED
    BY <2>1, <2>2, <2>3
       DEF Next, LedTask, Touch, Poll, Publish, Breathe, TakeFirstData, TakeFirstFetch, HandleRepeat,
           HandleTouchAfterShutdown, HandleUnindexed, Resume, input, feed, ledVars, history
<1>2. QED
  BY <1>1, TypeCorrect, FeedInvariant, PTL DEF Spec, NewestAtTouch
------------------------------------------------------------------------------
(* LEDs and STATUS. *)

\* Registers outside what STATUS holds are left over from a station shown since
\* the last release, or are the age LED breathing before the first data.
LedInv ==
    /\ led \in {"data", "fetch"} => regs \subseteq {AgeLed} /\ ledStates = {} /\ last = None
    /\ led \in {"wait", "pause"} /\ last = None => regs = {} /\ ledStates = {}
    /\ led = "init" => regs = {} /\ chipOn
    /\ led \in {"wait", "pause"} /\ last # None => chipOn
    /\ led \in {"wait", "pause"} /\ ~switched => regs = ledStates

LEMMA LedNext == TypeOK /\ LedInv /\ [Next]_vars => LedInv'
<1> SUFFICES ASSUME TypeOK, LedInv, [Next]_vars PROVE LedInv'
  OBVIOUS
<1> USE DEF LedInv, input, feed, ledVars, history
<1>1. ASSUME NEW c \in Cells \union {None}, Touch(c) PROVE LedInv'
  BY <1>1 DEF Touch
<1>2. CASE Poll \/ \E bikes \in Counts : Publish(bikes)
  BY <1>2 DEF Poll, Publish
<1>3. CASE Breathe \/ TakeFirstData \/ TakeFirstFetch
  BY <1>3 DEF Breathe, TakeFirstData, TakeFirstFetch
<1>4. CASE HandleRepeat \/ Resume
  BY <1>4 DEF HandleRepeat, Resume
<1>5. CASE HandleRelease \/ HandleUnindexed
  BY <1>5 DEF HandleRelease, HandleUnindexed, TakeSignals
<1>6. CASE HandleTouch
  <2>1. /\ last' \in Stations /\ chipOn' /\ led' = "pause"
        /\ regs' = regs \union ledStates' /\ switched' = (last # None) /\ led = "wait"
    BY <1>6 DEF HandleTouch, Show, TakeSignals
  <2>2. ~switched' => regs' = ledStates'
    BY <2>1
  <2>3. None \notin Stations
    BY DEF Cells
  <2>4. QED
    BY <2>1, <2>2, <2>3
<1>7. CASE HandleTouchAfterShutdown
  BY <1>7 DEF HandleTouchAfterShutdown, TakeSignals
<1>8. CASE ShowAfterInit
  <2>1. /\ last' = last /\ last \in Stations /\ chipOn' /\ led' = "pause"
        /\ regs' = regs \union ledStates' /\ regs = {}
    BY <1>8 DEF ShowAfterInit, Show, TypeOK
  <2>2. None \notin Stations
    BY DEF Cells
  <2>3. QED
    BY <2>1, <2>2
<1>9. CASE Reboot
  BY <1>9 DEF Reboot
<1>10. CASE UNCHANGED vars
  BY <1>10 DEF vars
<1>11. QED
  BY <1>1, <1>2, <1>3, <1>4, <1>5, <1>6, <1>7, <1>8, <1>9, <1>10 DEF Next, LedTask

\* STATUS.led_states is what the LEDs show, unless a touch replaced another.
THEOREM LedsMirror == Spec => []LedsMatchStatus
<1>1. Init => LedInv
  BY DEF Init, LedInv
<1>2. TypeOK /\ LedInv => LedsMatchStatus
  BY DEF TypeOK, LedInv, LedsMatchStatus, LedsMirrored, Lit
<1>3. QED
  BY <1>1, <1>2, LedNext, TypeCorrect, PTL DEF Spec
------------------------------------------------------------------------------
(* What is shown once nothing is under way. *)

\* A full signal holds what was last signalled; an empty one leaves it with the
\* LED task, which shows it wherever it waits.
SignalInv ==
    /\ stationSignal # Empty => stationSignal = lastSignaled
    /\ stationSignal = Empty => lastSignaled \in {Empty, last}
    /\ lastSignaled = Empty => last = None
    /\ led \in {"data", "fetch"} => last = None /\ shown = Nothing
    /\ led \in {"wait", "pause"} => shown.station = last

LEMMA SignalNext == TypeOK /\ SignalInv /\ [Next]_vars => SignalInv'
<1> SUFFICES ASSUME TypeOK, SignalInv, [Next]_vars PROVE SignalInv'
  OBVIOUS
<1> USE DEF SignalInv, input, feed, ledVars, history, Nothing
<1>0. touch # Empty
  BY DEF TypeOK, Cells
<1>1. ASSUME NEW c \in Cells \union {None}, Touch(c) PROVE SignalInv'
  BY <1>1 DEF Touch
<1>2. CASE Poll
  BY <1>0, <1>2 DEF Poll
<1>3. CASE \E bikes \in Counts : Publish(bikes)
  BY <1>3 DEF Publish
<1>4. CASE Breathe \/ TakeFirstData \/ TakeFirstFetch
  BY <1>4 DEF Breathe, TakeFirstData, TakeFirstFetch
<1>5. CASE HandleRepeat \/ Resume
  BY <1>5 DEF HandleRepeat, Resume
<1>6. CASE HandleRelease
  BY <1>6 DEF HandleRelease, TakeSignals
<1>7. CASE HandleUnindexed
  BY <1>7 DEF HandleUnindexed, TakeSignals
<1>8. CASE HandleTouch
  <2>1. /\ stationSignal = lastSignaled /\ stationSignal # Empty
        /\ last' = stationSignal /\ stationSignal' = Empty /\ lastSignaled' = lastSignaled
        /\ led' = "pause" /\ shown'.station = stationSignal
    BY <1>8 DEF HandleTouch, TakeSignals, Show
  <2>2. QED
    BY <2>1
<1>9. CASE HandleTouchAfterShutdown
  BY <1>9 DEF HandleTouchAfterShutdown, TakeSignals
<1>10. CASE ShowAfterInit
  <2>1. /\ last' = last /\ stationSignal' = stationSignal /\ lastSignaled' = lastSignaled
        /\ led' = "pause" /\ shown'.station = last
    BY <1>10 DEF ShowAfterInit, Show
  <2>2. QED
    BY <2>1
<1>11. CASE Reboot
  BY <1>11 DEF Reboot
<1>12. CASE UNCHANGED vars
  BY <1>12 DEF vars
<1> QED
  BY <1>1, <1>2, <1>3, <1>4, <1>5, <1>6, <1>7, <1>8, <1>9, <1>10, <1>11, <1>12 DEF Next, LedTask

\* While the LED task waits with nothing signalled, the board shows what was
\* signalled last, and is dark if that was a release: a signal that overwrites
\* another, or that comes while the driver starts, is never lost.
SettledDisplay ==
    led = "wait" /\ stationSignal = Empty /\ lastSignaled # Empty
        => /\ shown.station = lastSignaled
           /\ lastSignaled = None => Lit = {} /\ ledStates = {}

\* What DisplayFollows comes to, stated of every quiet moment.
THEOREM QuietDisplay == Spec => []SettledDisplay
<1>1. Init => SignalInv /\ LedInv
  BY DEF Init, SignalInv, LedInv, Nothing
<1>2. SignalInv /\ LedInv => SettledDisplay
  BY DEF SignalInv, LedInv, SettledDisplay, Lit
<1> QED
  BY <1>1, <1>2, SignalNext, LedNext, TypeCorrect, PTL DEF Spec
==============================================================================
