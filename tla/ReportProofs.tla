---------------------------- MODULE ReportProofs ----------------------------
(***************************************************************************)
(* Proofs about the two ends of a report, for every setting of their       *)
(* constants: Watchdog, the board that keeps a reset record until it is    *)
(* delivered, and LogServer, the add-on that keeps what it has answered.   *)
(*                                                                         *)
(* RamInv relates RTC RAM to the way the boot ended, ClockInv the three    *)
(* clocks to each other; LogInv relates the add-on's memory, its file and  *)
(* what it has answered.                                                   *)
(***************************************************************************)
EXTENDS Watchdog, LogServer, FiniteSetTheorems, WellFoundedInduction, TLAPS

USE DEF Causes, Reasons, Numbers, clocks, tasks, ram, report, Free, CheckDue, PollDue

\* While the firmware runs, RTC RAM holds no complete record and a fitting boot
\* number; after a reset the record, if complete, is of the boot that ended.
RamInv ==
    /\ phase # "boot" => /\ ~rec.magic
                         /\ rec.cause \in Causes \union {"none"}
                         /\ TrueBlame
                         /\ BootsCounted
                         /\ DeliveredOrPending
    /\ phase = "record" => rec.cause \in Causes
    /\ phase = "boot" =>
         /\ IF rec.magic THEN reason = "CoreSw" /\ ended = rec.cause /\ ended \in Causes
                         ELSE ended \in {reason, "NestedPanic"}
         /\ ended = "NestedPanic" => reason = "CoreSw"
         /\ IF count.fits /\ reason # "PowerOn" THEN count.n = boots ELSE boots = 0

\* No clock of a task runs away from the feeding of the RWDT.
ClockInv ==
    phase = "run" =>
        /\ sinceFed <= RwdtTimeout
        /\ sinceOk <= FetchStall + sinceFed
        /\ busy = 0 => sinceFed <= FeedEvery + MaxBlock
        /\ busy > 0 => sinceFed < FeedEvery + busy
        /\ moved => sincePoll <= sinceFed
        /\ inputDead => sincePoll <= FeedEvery + MaxBlock + sinceFed
        /\ ~inputDead => /\ busy = 0 => sincePoll <= PollEvery + MaxBlock
                         /\ busy > 0 => sincePoll < PollEvery + busy
                         /\ ~moved => sinceFed <= sincePoll
------------------------------------------------------------------------------
(* Every variable keeps its type.                                          *)

LEMMA ModBound == \A n \in Nat : n % CountModulus \in Numbers
  BY WatchdogAssumption DEF WatchdogAssumption

LEMMA OneWraps == (0 + 1) % CountModulus = 1
  BY WatchdogAssumption DEF WatchdogAssumption

LEMMA Erased == \A c \in [n : Numbers, fits : {FALSE}] :
                  c \in [n : Numbers, fits : BOOLEAN] /\ ~c.fits
  OBVIOUS

LEMMA Restarted == 0 \in Numbers /\ 1 \in Numbers /\ 0 \in 0 .. RwdtTimeout
  BY WatchdogAssumption DEF WatchdogAssumption

\* A record that is complete, or about to be, has a cause.
CauseInv == phase = "record" \/ rec.magic => rec.cause \in Causes

TypeInv == TypeOK /\ CauseInv

LEMMA TypeInit == Init => TypeInv
<1> SUFFICES ASSUME Init PROVE TypeInv
  OBVIOUS
<1>1. count \in [n : Numbers, fits : BOOLEAN]
  BY Erased DEF Init
<1>2. rec \in [magic : BOOLEAN, cause : Causes \union {"none"}]
  BY DEF Init
<1>3. CauseInv
  BY DEF Init, CauseInv
<1>4. reason \in Reasons /\ ended = reason /\ summary = reason
  BY DEF Init
<1>6. TypeOK
  BY <1>1, <1>2, <1>4, Restarted DEF Init, TypeOK
<1> QED
  BY <1>3, <1>6 DEF TypeInv

\* Writing a record keeps the types.
LEMMA RecordTyped ==
  ASSUME TypeOK, NEW c \in Causes, RecordAndReset(c)
  PROVE  TypeInv'
<1>1. rec' \in [magic : BOOLEAN, cause : Causes \union {"none"}] /\ rec'.cause = c
  BY DEF RecordAndReset, TypeOK
<1>2. TypeOK'
  BY <1>1 DEF RecordAndReset, TypeOK
<1> QED
  BY <1>1, <1>2 DEF TypeInv, CauseInv

\* What the boot number becomes.
LEMMA BootCounts ==
  ASSUME TypeOK, CountBoot
  PROVE  /\ count' \in [n : Numbers, fits : BOOLEAN]
         /\ count'.fits
         /\ count'.n = IF count.fits /\ reason # "PowerOn" THEN (count.n + 1) % CountModulus ELSE 1
<1>1. count.n \in Nat /\ (count.n + 1) % CountModulus \in Numbers
  <2>1. count.n \in Numbers
    BY DEF TypeOK
  <2>2. count.n + 1 \in Nat
    BY <2>1
  <2> QED
    BY <2>1, <2>2, ModBound
<1> DEFINE next == IF count.fits /\ reason # "PowerOn" THEN (count.n + 1) % CountModulus ELSE 1
<1>2. next \in Numbers
  BY <1>1, Restarted
<1>3. count' = [n |-> next, fits |-> TRUE]
  BY DEF CountBoot
<1> HIDE DEF next
<1>4. count' \in [n : Numbers, fits : BOOLEAN] /\ count'.fits /\ count'.n = next
  BY <1>2, <1>3
<1> QED
  BY <1>4 DEF next

LEMMA TypeStep == TypeInv /\ [Next]_vars => TypeInv'
<1> SUFFICES ASSUME TypeInv, [Next]_vars PROVE TypeInv'
  OBVIOUS
<1>0. TypeOK /\ CauseInv
  BY DEF TypeInv
<1> USE <1>0, WatchdogAssumption DEF WatchdogAssumption, TypeInv, CauseInv
<1>1. CASE Boot
  <2>1. boots' \in Numbers
    <3>1. boots + 1 \in Nat
      BY DEF TypeOK
    <3> QED
      BY <1>1, <3>1, ModBound DEF Boot
  <2>2. count' \in [n : Numbers, fits : BOOLEAN]
    BY <1>1, BootCounts DEF Boot
  <2>3. rec' \in [magic : BOOLEAN, cause : Causes \union {"none"}]
    BY <1>1 DEF Boot, ReportLastReset, TypeOK
  <2>4. summary' \in Causes \union Reasons \union {"NoRecord"}
    BY <1>1 DEF Boot, ReportLastReset, TypeOK
  <2>5. ~rec'.magic
    BY <1>1 DEF Boot, ReportLastReset, TypeOK
  <2> QED
    BY <1>1, <2>1, <2>2, <2>3, <2>4, <2>5, Restarted DEF Boot, ReportLastReset, TypeOK
<1>2. CASE FinishRecord
  <2>1. rec' \in [magic : BOOLEAN, cause : Causes \union {"none"}] /\ rec'.cause = rec.cause
    BY <1>2 DEF FinishRecord, TypeOK
  <2> QED
    BY <1>2, <2>1 DEF FinishRecord, ResetWith, TypeOK
<1>3. CASE NestedPanic
  BY <1>3 DEF NestedPanic, ResetWith, TypeOK
<1>4. CASE Panic
  BY <1>4, RecordTyped DEF Panic
<1>5. CASE RwdtFires
  BY <1>5 DEF RwdtFires, ResetWith, TypeOK
<1>6. CASE ExternalReset
  BY <1>6 DEF ExternalReset, ResetWith, TypeOK
<1>7. CASE PowerLoss
  <2>1. count' \in [n : Numbers, fits : BOOLEAN]
    BY <1>7, Erased DEF PowerLoss
  <2>2. rec' \in [magic : BOOLEAN, cause : Causes \union {"none"}]
    BY <1>7 DEF PowerLoss
  <2> QED
    BY <1>7, <2>1, <2>2, Restarted DEF PowerLoss, TypeOK
<1>8. CASE CheckAndFeed
  <2>1. CASE sinceOk > FetchStall
    BY <1>8, <2>1, RecordTyped DEF CheckAndFeed
  <2>2. CASE ~(sinceOk > FetchStall) /\ ~moved
    BY <1>8, <2>2, RecordTyped DEF CheckAndFeed
  <2>3. CASE ~(sinceOk > FetchStall) /\ moved
    <3>1. /\ sinceFed' = 0 /\ moved' = FALSE
          /\ UNCHANGED <<phase, reason, rec, count, summary, pending, serverHas, sinceOk, sincePoll,
                         inputDead, busy, ended, boots>>
      BY <1>8, <2>3 DEF CheckAndFeed
    <3>2. CauseInv'
      BY <3>1
    <3>3. sinceFed' \in 0 .. RwdtTimeout /\ moved' \in BOOLEAN
      BY <3>1, Restarted
    <3>4. TypeOK'
      BY <3>1, <3>3 DEF TypeOK
    <3> QED
      BY <3>2, <3>4
  <2> QED
    BY <2>1, <2>2, <2>3
<1>9. CASE InputPoll
  BY <1>9 DEF InputPoll, TypeOK
<1>10. CASE InputDies
  BY <1>10 DEF InputDies, TypeOK
<1>11. CASE FetchSucceeds
  BY <1>11 DEF FetchSucceeds, TypeOK
<1>12. CASE Block
  BY <1>12 DEF Block, TypeOK
<1>13. CASE Unblock
  BY <1>13 DEF Unblock, TypeOK
<1>14. CASE SendReport
  <2>1. serverHas' \in BOOLEAN
    BY <1>14 DEF SendReport, TypeOK
  <2>2. pending' \in BOOLEAN
    BY <1>14, <2>1, Zenon DEF SendReport
  <2> QED
    BY <1>14, <2>1, <2>2 DEF SendReport, TypeOK
<1>15. CASE Tick
  BY <1>15 DEF Tick, TypeOK
<1>16. CASE UNCHANGED vars
  BY <1>16 DEF vars, TypeOK
<1> QED
  BY <1>1, <1>2, <1>3, <1>4, <1>5, <1>6, <1>7, <1>8, <1>9, <1>10, <1>11, <1>12, <1>13, <1>14, <1>15, <1>16 DEF Next

\* TypeOK holds in every reachable state.
THEOREM TypeCorrect == Spec => []TypeOK
<1>1. TypeInv => TypeOK
  BY DEF TypeInv
<1> QED
  BY <1>1, TypeInit, TypeStep, PTL DEF Spec

------------------------------------------------------------------------------
(* RTC RAM and the summary.                                                *)

LEMMA RamInit == Init => RamInv
<1> SUFFICES ASSUME Init PROVE RamInv
  OBVIOUS
<1>1. ~count.fits
  BY Erased DEF Init
<1>2. ~rec.magic /\ phase = "boot" /\ ended = reason /\ ended # "NestedPanic" /\ boots = 0
  BY DEF Init
<1> QED
  BY <1>1, <1>2 DEF RamInv

LEMMA RamStep == TypeOK /\ RamInv /\ [Next]_vars => RamInv'
<1> SUFFICES ASSUME TypeOK, RamInv, [Next]_vars PROVE RamInv'
  OBVIOUS
<1> USE WatchdogAssumption DEF WatchdogAssumption
<1>1. CASE Boot
  <2>1. ~rec'.magic /\ rec'.cause \in Causes \union {"none"}
    BY <1>1 DEF Boot, ReportLastReset, TypeOK
  <2>2. TrueBlame'
    BY <1>1 DEF Boot, ReportLastReset, TypeOK, RamInv, TrueBlame
  <2>3. BootsCounted'
    <3>1. count'.n = boots'
      BY <1>1, BootCounts, OneWraps DEF Boot, RamInv
    <3> QED
      BY <1>1, <3>1, BootCounts DEF Boot, BootsCounted
  <2>4. DeliveredOrPending'
    BY <1>1 DEF Boot, ReportLastReset, DeliveredOrPending
  <2>5. phase' = "run"
    BY <1>1 DEF Boot
  <2> QED
    BY <2>1, <2>2, <2>3, <2>4, <2>5 DEF RamInv
<1>2. CASE FinishRecord
  BY <1>2 DEF FinishRecord, ResetWith, TypeOK, RamInv, TrueBlame, BootsCounted, DeliveredOrPending
<1>3. CASE NestedPanic
  BY <1>3 DEF NestedPanic, ResetWith, TypeOK, RamInv, TrueBlame, BootsCounted, DeliveredOrPending
<1>4. CASE Panic
  BY <1>4 DEF Panic, RecordAndReset, TypeOK, RamInv, TrueBlame, BootsCounted, DeliveredOrPending
<1>5. CASE RwdtFires
  BY <1>5 DEF RwdtFires, ResetWith, TypeOK, RamInv, TrueBlame, BootsCounted, DeliveredOrPending
<1>6. CASE ExternalReset
  BY <1>6 DEF ExternalReset, ResetWith, TypeOK, RamInv, TrueBlame, BootsCounted, DeliveredOrPending
<1>7. CASE PowerLoss
  BY <1>7 DEF PowerLoss, TypeOK, RamInv, TrueBlame, BootsCounted, DeliveredOrPending
<1>8. CASE CheckAndFeed
  BY <1>8 DEF CheckAndFeed, RecordAndReset, TypeOK, RamInv, TrueBlame, BootsCounted, DeliveredOrPending
<1>9. CASE InputPoll
  BY <1>9 DEF InputPoll, TypeOK, RamInv, TrueBlame, BootsCounted, DeliveredOrPending
<1>10. CASE InputDies
  BY <1>10 DEF InputDies, TypeOK, RamInv, TrueBlame, BootsCounted, DeliveredOrPending
<1>11. CASE FetchSucceeds
  BY <1>11 DEF FetchSucceeds, TypeOK, RamInv, TrueBlame, BootsCounted, DeliveredOrPending
<1>12. CASE Block
  BY <1>12 DEF Block, TypeOK, RamInv, TrueBlame, BootsCounted, DeliveredOrPending
<1>13. CASE Unblock
  BY <1>13 DEF Unblock, TypeOK, RamInv, TrueBlame, BootsCounted, DeliveredOrPending
<1>14. CASE SendReport
  BY <1>14 DEF SendReport, TypeOK, RamInv, TrueBlame, BootsCounted, DeliveredOrPending
<1>15. CASE Tick
  BY <1>15 DEF Tick, TypeOK, RamInv, TrueBlame, BootsCounted, DeliveredOrPending
<1>16. CASE UNCHANGED vars
  BY <1>16 DEF vars, TypeOK, RamInv, TrueBlame, BootsCounted, DeliveredOrPending
<1> QED
  BY <1>1, <1>2, <1>3, <1>4, <1>5, <1>6, <1>7, <1>8, <1>9, <1>10, <1>11, <1>12, <1>13, <1>14, <1>15, <1>16 DEF Next

LEMMA RamAlways == Spec => []RamInv
  BY RamInit, RamStep, TypeCorrect, PTL DEF Spec

\* The summary a boot reports is true of the boot before it, or says only what
\* the hardware said (report_last_reset, record_and_reset).
THEOREM SummaryTrue == Spec => []TrueBlame
<1>1. RamInv => TrueBlame
  BY DEF RamInv, TrueBlame
<1> QED
  BY <1>1, RamAlways, PTL

\* The boot number in RTC RAM is the number of boots since power-on.
THEOREM BootNumber == Spec => []BootsCounted
<1>1. RamInv => BootsCounted
  BY DEF RamInv, BootsCounted
<1> QED
  BY <1>1, RamAlways, PTL

\* RESET_SUMMARY_PENDING is cleared only once the log server has the summary.
THEOREM SummaryNotLost == Spec => []DeliveredOrPending
<1>1. RamInv => DeliveredOrPending
  BY DEF RamInv, DeliveredOrPending
<1> QED
  BY <1>1, RamAlways, PTL

------------------------------------------------------------------------------
(* The clocks.                                                             *)

LEMMA ClockInit == Init => ClockInv
  BY DEF Init, ClockInv

LEMMA ClockStep == TypeOK /\ ClockInv /\ [Next]_vars => ClockInv'
<1> SUFFICES ASSUME TypeOK, ClockInv, [Next]_vars PROVE ClockInv'
  OBVIOUS
<1> USE WatchdogAssumption DEF WatchdogAssumption
<1>1. CASE Boot
  BY <1>1 DEF Boot, CountBoot, ReportLastReset, TypeOK, ClockInv
<1>2. CASE FinishRecord
  BY <1>2 DEF FinishRecord, ResetWith, TypeOK, ClockInv
<1>3. CASE NestedPanic
  BY <1>3 DEF NestedPanic, ResetWith, TypeOK, ClockInv
<1>4. CASE Panic
  BY <1>4 DEF Panic, RecordAndReset, TypeOK, ClockInv
<1>5. CASE RwdtFires
  BY <1>5 DEF RwdtFires, ResetWith, TypeOK, ClockInv
<1>6. CASE ExternalReset
  BY <1>6 DEF ExternalReset, ResetWith, TypeOK, ClockInv
<1>7. CASE PowerLoss
  BY <1>7 DEF PowerLoss, TypeOK, ClockInv
<1>8. CASE CheckAndFeed
  BY <1>8 DEF CheckAndFeed, RecordAndReset, TypeOK, ClockInv
<1>9. CASE InputPoll
  BY <1>9 DEF InputPoll, TypeOK, ClockInv
<1>10. CASE InputDies
  BY <1>10 DEF InputDies, TypeOK, ClockInv
<1>11. CASE FetchSucceeds
  BY <1>11 DEF FetchSucceeds, TypeOK, ClockInv
<1>12. CASE Block
  BY <1>12 DEF Block, TypeOK, ClockInv
<1>13. CASE Unblock
  BY <1>13 DEF Unblock, TypeOK, ClockInv
<1>14. CASE SendReport
  BY <1>14 DEF SendReport, TypeOK, ClockInv
<1>15. CASE Tick
  BY <1>15 DEF Tick, TypeOK, ClockInv
<1>16. CASE UNCHANGED vars
  BY <1>16 DEF vars, TypeOK, ClockInv
<1> QED
  BY <1>1, <1>2, <1>3, <1>4, <1>5, <1>6, <1>7, <1>8, <1>9, <1>10, <1>11, <1>12, <1>13, <1>14, <1>15, <1>16 DEF Next

LEMMA ClockAlways == Spec => []ClockInv
  BY ClockInit, ClockStep, TypeCorrect, PTL DEF Spec

\* A fetch loop or input task that stalls is reset within a bound given by the
\* constants, hang or no hang.
THEOREM StallsBounded == Spec => []StallsEnd
<1>1. TypeOK /\ ClockInv => StallsEnd
  BY WatchdogAssumption DEF WatchdogAssumption, TypeOK, ClockInv, StallsEnd
<1> QED
  BY <1>1, ClockAlways, TypeCorrect, PTL

\* The watchdog resets only boards that stalled or hung.
THEOREM ResetsJustified == Spec => NoFalseReset
<1> DEFINE Justified ==
      /\ phase = "run" /\ phase' = "record" /\ rec'.cause = "InputStall" => inputDead
      /\ phase = "run" /\ phase' = "boot" /\ reason' = "RtcWdt" => busy > MaxBlock
<1>1. ASSUME TypeOK, ClockInv, [Next]_vars PROVE [Justified]_vars
  <2> USE WatchdogAssumption, <1>1 DEF WatchdogAssumption
  <2>1. CASE CheckAndFeed
    BY <2>1 DEF CheckAndFeed, RecordAndReset, TypeOK, ClockInv
  <2>2. CASE RwdtFires
    BY <2>2 DEF RwdtFires, ResetWith, TypeOK, ClockInv
  <2>3. CASE Panic
    BY <2>3 DEF Panic, RecordAndReset, TypeOK
  <2>4. CASE ExternalReset
    BY <2>4 DEF ExternalReset, ResetWith
  <2>5. CASE PowerLoss
    BY <2>5 DEF PowerLoss
  <2>6. CASE phase # "run" \/ phase' = "run"
    BY <2>6
  <2>7. CASE UNCHANGED vars
    BY <2>7
  <2> QED
    BY <2>1, <2>2, <2>3, <2>4, <2>5, <2>6, <2>7
    DEF Next, Boot, FinishRecord, NestedPanic, InputPoll, InputDies, FetchSucceeds, Block,
        Unblock, SendReport, Tick
<1> QED
  BY <1>1, ClockAlways, TypeCorrect, PTL DEF Spec, NoFalseReset
------------------------------------------------------------------------------
(* The log server add-on.                                                  *)

Increasing(s) == \A i, j \in DOMAIN s : i < j => s[i] < s[j]

\* mem, a deque of reports up to top, misses of S only what is older than a full
\* deque.
Covers(mem, S, top) ==
    /\ mem \in Seq(1 .. top) /\ Len(mem) <= Keep
    /\ Increasing(mem)
    /\ \A n \in S \ Ids(mem) : Len(mem) = Keep /\ \A i \in DOMAIN mem : n < mem[i]

\* A file's reports are in the order they came, and only the last line may be
\* without its end.
FileOK(f, top) ==
    /\ f \in Seq(Lines)
    /\ \A i \in DOMAIN f : /\ f[i].report <= top
                           /\ i < Len(f) => f[i].ended
    /\ \A i, j \in DOMAIN f :
           i < j /\ f[i].report # Garbage /\ f[j].report # Garbage
           => f[i].report < f[j].report

\* The line without its end, which the next report will spoil.
Debt == IF Unended(file) THEN 1 ELSE 0

LogInv ==
    /\ LogTypeOK
    /\ FileOK(file, received)
    /\ up => Covers(reports, Readable(file), received)
    /\ Unended(file) => file[Len(file)].report \notin answered
    /\ Cardinality(Missing) + Debt <= torn
------------------------------------------------------------------------------
(* The deque. *)

\* Numbers have a least one.
LEMMA Least ==
    ASSUME NEW T \in SUBSET Nat, T # {}
    PROVE  \E m \in T : \A y \in T : m <= y
PROOF
<1>1. PICK m \in T : \A y \in T : ~ (<<y, m>> \in OpToRel(<, Nat))
  BY NatLessThanWellFounded, WFMin
<1>2. \A y \in T : ~ (y < m)
  BY <1>1 DEF OpToRel
<1> QED
  BY <1>2

LEMMA KeepPos == Keep \in Nat /\ Keep >= 1
  BY LogAssumption DEF LogAssumption

\* A report let in is covered at once, and what it pushes out is older.
LEMMA Push ==
    ASSUME NEW a \in Nat, NEW n \in Nat, n > a,
           NEW mem, NEW S \in SUBSET Nat, Covers(mem, S, a)
    PROVE  Covers(Newest(Append(mem, n)), S \union {n}, n)
PROOF
<1>1. /\ mem \in Seq(1 .. a) /\ Len(mem) \in Nat /\ Len(mem) <= Keep /\ Increasing(mem)
      /\ \A x \in S \ Ids(mem) : Len(mem) = Keep /\ \A i \in DOMAIN mem : x < mem[i]
      /\ \A i \in 1 .. Len(mem) : mem[i] \in 1 .. a
      /\ DOMAIN mem = 1 .. Len(mem)
  BY DEF Covers
<1>2. 1 .. a \subseteq 1 .. n /\ n \in 1 .. n
  OBVIOUS
<1>3. mem \in Seq(1 .. n)
  BY <1>1, <1>2
<1> DEFINE s == Append(mem, n)
<1>4. /\ s \in Seq(1 .. n) /\ Len(s) = Len(mem) + 1
      /\ \A i \in 1 .. Len(mem) : s[i] = mem[i]
      /\ s[Len(mem) + 1] = n
  BY <1>2, <1>3
<1>5. Increasing(s)
  <2> SUFFICES ASSUME NEW i \in 1 .. Len(mem) + 1, NEW j \in 1 .. Len(mem) + 1, i < j
               PROVE  s[i] < s[j]
    BY <1>4 DEF Increasing
  <2>1. i \in 1 .. Len(mem)
    BY <1>1
  <2>2. CASE j = Len(mem) + 1
    BY <2>1, <2>2, <1>1, <1>4
  <2>3. CASE j \in 1 .. Len(mem)
    BY <2>1, <2>3, <1>1, <1>4 DEF Increasing
  <2> QED
    BY <2>2, <2>3, <1>1
<1> HIDE DEF s
<1>l. Len(mem) \in Nat /\ Len(mem) <= Keep /\ Len(s) = Len(mem) + 1
  BY <1>1, <1>4
<1>6. CASE Len(mem) < Keep
  <2>1. Newest(s) = s
    BY <1>l, <1>6, KeepPos DEF Newest
  <2>2. \A x \in (S \union {n}) \ Ids(s) : x \in S \ Ids(mem)
    BY <1>1, <1>4 DEF Ids
  <2>3. ASSUME NEW x \in (S \union {n}) \ Ids(s) PROVE FALSE
    <3>1. Len(mem) = Keep
      BY <2>2, <2>3, <1>1
    <3> QED
      BY <3>1, <1>l, <1>6, KeepPos
  <2>4. Len(s) <= Keep
    BY <1>l, <1>6, KeepPos
  <2> QED
    BY <2>1, <2>3, <2>4, <1>4, <1>5 DEF Covers, s
<1>7. CASE Len(mem) = Keep
  <2> DEFINE r == SubSeq(s, 2, Keep + 1)
  <2>1. Newest(s) = r
    BY <1>l, <1>7, KeepPos DEF Newest
  <2>2. /\ r \in Seq(1 .. n) /\ Len(r) = Keep
        /\ \A i \in 1 .. Keep : r[i] = s[i + 1]
    BY <1>4, <1>7, KeepPos
  <2> HIDE DEF r
  <2>3. Increasing(r)
    <3> SUFFICES ASSUME NEW i \in 1 .. Keep, NEW j \in 1 .. Keep, i < j PROVE r[i] < r[j]
      BY <2>2 DEF Increasing
    <3>1. i + 1 \in DOMAIN s /\ j + 1 \in DOMAIN s /\ i + 1 < j + 1
      BY <1>4, <1>l, <1>7, KeepPos
    <3> QED
      BY <3>1, <2>2, <1>5 DEF Increasing
  <2>4. ASSUME NEW x \in (S \union {n}) \ Ids(r), NEW i \in DOMAIN r PROVE x < r[i]
    <3>1. i \in 1 .. Keep /\ r[i] = s[i + 1] /\ i + 1 \in 1 .. Len(mem) + 1
      BY <2>2, <1>7
    <3>2. r[Keep] = n /\ Keep \in DOMAIN r
      BY <2>2, <1>4, <1>7, KeepPos
    <3>3. x # n
      BY <3>2 DEF Ids
    <3>4. CASE x \in Ids(mem)
      <4>1. PICK j \in 1 .. Len(mem) : x = mem[j]
        BY <1>1, <3>4 DEF Ids
      <4>2. j = 1
        <5> SUFFICES ASSUME j # 1 PROVE FALSE
          OBVIOUS
        <5>0. j \in 1 .. Keep /\ j - 1 \in 1 .. Keep /\ (j - 1) + 1 = j
          BY <1>7, KeepPos
        <5>1. j - 1 \in 1 .. Keep /\ r[j - 1] = s[j]
          BY <5>0, <2>2
        <5>2. x = r[j - 1] /\ j - 1 \in DOMAIN r
          BY <5>1, <4>1, <1>4, <2>2
        <5> QED
          BY <5>2 DEF Ids
      <4>3. s[1] < s[i + 1]
        BY <3>1, <1>4, <1>5, <1>7, KeepPos DEF Increasing
      <4> QED
        BY <4>1, <4>2, <4>3, <3>1, <1>4
    <3>5. CASE x \notin Ids(mem)
      <4>1. x \in S \ Ids(mem)
        BY <3>3, <3>5
      <4>0. 1 \in DOMAIN mem /\ Keep \in DOMAIN mem
        BY <1>1, <1>7, KeepPos
      <4>2. x < mem[1] /\ mem[1] = s[1]
        BY <4>0, <4>1, <1>1, <1>4
      <4>3. s[1] < s[i + 1] /\ s[1] \in 1 .. n /\ s[i + 1] \in 1 .. n
        <5>1. 1 \in DOMAIN s /\ i + 1 \in DOMAIN s /\ 1 < i + 1
          BY <3>1, <1>4, <1>l, <1>7, KeepPos
        <5> QED
          BY <5>1, <1>4, <1>5 DEF Increasing
      <4>4. CASE i + 1 \in 1 .. Len(mem)
        BY <4>1, <4>4, <1>1, <1>4, <3>1
      <4>5. CASE i + 1 = Len(mem) + 1
        <5>1. x < mem[Keep] /\ mem[Keep] \in 1 .. a
          BY <4>0, <4>1, <1>1
        <5>2. r[i] = n
          BY <4>5, <3>1, <1>4
        <5>3. x \in Nat /\ mem[Keep] \in Nat /\ mem[Keep] < n
          BY <5>1, <4>1
        <5> QED
          BY <5>1, <5>2, <5>3
      <4> QED
        BY <4>4, <4>5, <3>1
    <3> QED
      BY <3>4, <3>5
  <2> QED
    BY <2>1, <2>2, <2>3, <2>4 DEF Covers, s
<1>8. Len(mem) < Keep \/ Len(mem) = Keep
  BY <1>l, KeepPos
<1> QED
  BY <1>6, <1>7, <1>8 DEF s

\* What covers a set covers what is in it, and up to any later report.
LEMMA CoversLess ==
    ASSUME NEW a \in Nat, NEW b \in Nat, a <= b, NEW mem, NEW S, NEW T,
           Covers(mem, S, a), T \subseteq S
    PROVE  Covers(mem, T, b)
PROOF
<1>1. 1 .. a \subseteq 1 .. b
  OBVIOUS
<1>2. mem \in Seq(1 .. b)
  BY <1>1 DEF Covers
<1> QED
  BY <1>2 DEF Covers

\* Of the newest Keep reports none is missing from a deque that covers them.
LEMMA Window ==
    ASSUME NEW top \in Nat, NEW mem, NEW S, Covers(mem, S, top),
           NEW n \in Nat, n \in S, n + Keep > top
    PROVE  n \in Ids(mem)
PROOF
<1> SUFFICES ASSUME n \notin Ids(mem) PROVE FALSE
  OBVIOUS
<1>1. /\ DOMAIN mem = 1 .. Keep
      /\ \A i \in 1 .. Keep : mem[i] \in Nat /\ mem[i] <= top /\ n < mem[i]
      /\ \A i, j \in 1 .. Keep : i < j => mem[i] < mem[j]
  BY DEF Covers, Increasing
<1> DEFINE T == {i \in 1 .. Keep : mem[i] < n + i}
<1>2. Keep \in T
  <2>1. Keep \in 1 .. Keep
    BY KeepPos
  <2> QED
    BY <2>1, <1>1
<1>3. PICK m \in T : \A y \in T : m <= y
  <2>1. T \in SUBSET Nat
    OBVIOUS
  <2> HIDE DEF T
  <2> QED
    BY <1>2, <2>1, Least
<1>4. m \in 1 .. Keep /\ mem[m] < n + m
  BY <1>3
<1>5. m # 1
  BY <1>1, <1>4
<1>6. m - 1 \in 1 .. Keep /\ m - 1 \notin T
  BY <1>3, <1>4, <1>5, KeepPos
<1>7. mem[m - 1] >= n + (m - 1) /\ mem[m - 1] < mem[m]
  BY <1>1, <1>4, <1>6, KeepPos
<1> QED
  BY <1>1, <1>4, <1>6, <1>7
------------------------------------------------------------------------------
(* load(). *)

\* One line's part of load().
Step(f, g, i) ==
    IF i = 0 THEN <<>>
    ELSE IF f[i].report = Garbage THEN g[i - 1]
    ELSE Newest(Append(g[i - 1], f[i].report))

\* The loop of load() runs over the whole file.
LEMMA LoadRuns ==
    ASSUME NEW f, NEW top \in Nat, FileOK(f, top)
    PROVE  \E g : /\ g = [i \in 0 .. Len(f) |-> Step(f, g, i)]
                  /\ Load(f) = g[Len(f)]
PROOF
<1>1. Len(f) \in Nat
  BY DEF FileOK
<1> DEFINE N == Len(f)
           Run(n) == \E g : g = [i \in 0 .. n |-> Step(f, g, i)]
           T == {n \in 0 .. N : ~Run(n)}
<1>2. ASSUME NEW n \in 0 .. N, n > 0, Run(n - 1) PROVE Run(n)
  <2>1. PICK g : g = [i \in 0 .. n - 1 |-> Step(f, g, i)]
    BY <1>2
  <2> DEFINE h == [i \in 0 .. n |-> IF i = n THEN Step(f, g, n) ELSE g[i]]
  <2>2. \A i \in 0 .. n : h[i] = Step(f, h, i)
    <3> TAKE i \in 0 .. n
    <3>1. i # 0 => h[i - 1] = g[i - 1]
      BY <1>2, <1>1
    <3>2. Step(f, h, i) = Step(f, g, i)
      BY <3>1, <1>1 DEF Step
    <3>3. i # n => g[i] = Step(f, g, i)
      BY <2>1, <1>1
    <3> QED
      BY <3>2, <3>3
  <2>3. h = [i \in 0 .. n |-> Step(f, h, i)]
    BY <2>2
  <2> HIDE DEF h
  <2> QED
    BY <2>3
<1>3. Run(0)
  <2> DEFINE h == [i \in 0 .. 0 |-> <<>>]
  <2>1. h = [i \in 0 .. 0 |-> Step(f, h, i)]
    BY DEF Step
  <2> HIDE DEF h
  <2> QED
    BY <2>1
<1>4. T = {}
  <2> SUFFICES ASSUME T # {} PROVE FALSE
    OBVIOUS
  <2>1. T \subseteq Nat
    BY <1>1
  <2> HIDE DEF T
  <2>2. PICK m \in T : \A y \in T : m <= y
    BY <2>1, Least
  <2>3. \A y \in T : ~ (y < m)
    BY <2>1, <2>2
  <2> USE DEF T
  <2> HIDE DEF Run
  <2>4. m \in 0 .. N /\ ~Run(m)
    BY <2>2
  <2>5. m # 0
    BY <2>4, <1>3
  <2>6. m - 1 \in 0 .. N /\ m - 1 < m
    BY <2>4, <2>5, <1>1
  <2>7. Run(m - 1)
    BY <2>3, <2>6
  <2> QED
    BY <1>2, <2>4, <2>5, <2>7, <1>1
<1>5. Run(N)
  BY <1>4, <1>1
<1> DEFINE loaded == CHOOSE g : g = [i \in 0 .. Len(f) |->
                        IF i = 0 THEN <<>>
                        ELSE IF f[i].report = Garbage THEN g[i - 1]
                        ELSE Newest(Append(g[i - 1], f[i].report))]
<1>6. loaded = [i \in 0 .. Len(f) |-> Step(f, loaded, i)]
  BY <1>5 DEF Step
<1>7. Load(f) = loaded[Len(f)]
  BY DEF Load
<1> HIDE DEF loaded
<1> QED
  BY <1>6, <1>7

\* load() covers what the file has.
LEMMA LoadCovers ==
    ASSUME NEW f, NEW top \in Nat, FileOK(f, top)
    PROVE  Covers(Load(f), Readable(f), top)
PROOF
<1>1. /\ Len(f) \in Nat /\ DOMAIN f = 1 .. Len(f)
      /\ \A i \in 1 .. Len(f) : f[i].report \in 0 .. top
      /\ \A i, j \in 1 .. Len(f) :
             i < j /\ f[i].report # Garbage /\ f[j].report # Garbage
             => f[i].report < f[j].report
  <2>1. \A i \in 1 .. Len(f) : f[i].report \in Nat
    <3> TAKE i \in 1 .. Len(f)
    <3>1. f[i] \in Lines
      BY DEF FileOK
    <3> QED
      BY <3>1 DEF Lines
  <2> QED
    BY <2>1 DEF FileOK
<1>2. PICK g : /\ g = [i \in 0 .. Len(f) |-> Step(f, g, i)]
               /\ Load(f) = g[Len(f)]
  BY LoadRuns
<1>3. \A i \in 0 .. Len(f) : g[i] = Step(f, g, i)
  BY <1>2
<1> DEFINE Got(i) == {f[k].report : k \in 1 .. i} \ {Garbage}
           Good(i) == \E a \in 0 .. top :
                         /\ Covers(g[i], Got(i), a)
                         /\ \A k \in 1 .. Len(f) :
                               k > i /\ f[k].report # Garbage => f[k].report > a
           T == {i \in 0 .. Len(f) : ~Good(i)}
<1>4. Good(0)
  <2>1. g[0] = <<>>
    BY <1>1, <1>3 DEF Step
  <2>2. Got(0) = {}
    OBVIOUS
  <2>3. Covers(<<>>, {}, 0)
    BY KeepPos DEF Covers, Increasing
  <2>4. \A k \in 1 .. Len(f) : f[k].report # Garbage => f[k].report > 0
    BY <1>1 DEF Garbage
  <2> HIDE DEF Got
  <2>5. Covers(g[0], Got(0), 0)
    BY <2>1, <2>2, <2>3, Zenon
  <2>6. 0 \in 0 .. top
    OBVIOUS
  <2> QED
    BY <2>4, <2>5, <2>6
<1>5. ASSUME NEW i \in 1 .. Len(f), Good(i - 1) PROVE Good(i)
  <2>1. PICK a \in 0 .. top : /\ Covers(g[i - 1], Got(i - 1), a)
                              /\ \A k \in 1 .. Len(f) :
                                   k > i - 1 /\ f[k].report # Garbage => f[k].report > a
    BY <1>5
  <2>2. Got(i) = (Got(i - 1) \union {f[i].report}) \ {Garbage}
    <3>1. 1 .. i = (1 .. (i - 1)) \union {i}
      OBVIOUS
    <3> QED
      BY <3>1
  <2>3. g[i] = IF f[i].report = Garbage THEN g[i - 1]
                                        ELSE Newest(Append(g[i - 1], f[i].report))
    BY <1>1, <1>3 DEF Step
  <2>4. CASE f[i].report = Garbage
    <3>1. Got(i) = Got(i - 1) /\ g[i] = g[i - 1]
      BY <2>2, <2>3, <2>4
    <3>2. \A k \in 1 .. Len(f) : k > i => k > i - 1
      BY <1>1
    <3> HIDE DEF Got
    <3> QED
      BY <2>1, <3>1, <3>2
  <2>5. CASE f[i].report # Garbage
    <3> DEFINE n == f[i].report
    <3>1. n \in Nat /\ n \in 0 .. top /\ n > a /\ a \in Nat
      BY <1>1, <2>1, <2>5
    <3>2. Got(i - 1) \in SUBSET Nat
      <4>1. \A k \in 1 .. i - 1 : k \in 1 .. Len(f)
        BY <1>1
      <4> QED
        BY <1>1, <4>1
    <3>3. Got(i) = Got(i - 1) \union {n}
      BY <2>2, <2>5
    <3>4. g[i] = Newest(Append(g[i - 1], n))
      BY <2>3, <2>5
    <3>5. \A k \in 1 .. Len(f) : k > i /\ f[k].report # Garbage => f[k].report > n
      BY <1>1, <2>5
    <3>6. Covers(g[i - 1], Got(i - 1), a)
      BY <2>1
    <3> HIDE DEF Got, n
    <3>7. Covers(g[i], Got(i), n)
      BY <3>1, <3>2, <3>3, <3>4, <3>6, Push
    <3> QED
      BY <3>1, <3>5, <3>7
  <2> QED
    BY <2>4, <2>5
<1>6. T = {}
  <2> SUFFICES ASSUME T # {} PROVE FALSE
    OBVIOUS
  <2>1. T \subseteq Nat
    BY <1>1
  <2> HIDE DEF T
  <2>2. PICK m \in T : \A y \in T : m <= y
    BY <2>1, Least
  <2>3. \A y \in T : ~ (y < m)
    BY <2>1, <2>2
  <2> USE DEF T
  <2> HIDE DEF Good
  <2>4. m \in 0 .. Len(f) /\ ~Good(m)
    BY <2>2
  <2>5. m # 0
    BY <2>4, <1>4
  <2>6. m \in 1 .. Len(f) /\ m - 1 \in 0 .. Len(f) /\ m - 1 < m
    BY <2>4, <2>5, <1>1
  <2>7. Good(m - 1)
    BY <2>3, <2>6
  <2> QED
    BY <1>5, <2>4, <2>6, <2>7
<1>7. Good(Len(f))
  <2> HIDE DEF Good
  <2>1. Len(f) \in 0 .. Len(f)
    BY <1>1
  <2> QED
    BY <1>6, <2>1
<1>8. Readable(f) = Got(Len(f))
  BY <1>1 DEF Readable
<1>9. PICK a \in 0 .. top : Covers(g[Len(f)], Got(Len(f)), a)
  BY <1>7
<1> HIDE DEF Got
<1> QED
  BY <1>2, <1>8, <1>9, CoversLess
------------------------------------------------------------------------------
(* The file. *)

\* A file's lines.
LEMMA FileLines ==
    ASSUME NEW f, NEW top \in Nat, FileOK(f, top)
    PROVE  /\ f \in Seq(Lines) /\ Len(f) \in Nat /\ DOMAIN f = 1 .. Len(f)
           /\ \A i \in 1 .. Len(f) : f[i].report \in 0 .. top /\ f[i].ended \in BOOLEAN
           /\ \A i \in 1 .. Len(f) : i < Len(f) => f[i].ended
           /\ \A i, j \in 1 .. Len(f) :
                  i < j /\ f[i].report # Garbage /\ f[j].report # Garbage
                  => f[i].report < f[j].report
PROOF
<1>1. f \in Seq(Lines) /\ Len(f) \in Nat /\ DOMAIN f = 1 .. Len(f)
  BY DEF FileOK
<1>2. \A i \in 1 .. Len(f) : f[i].report \in Nat /\ f[i].ended \in BOOLEAN
  <2> TAKE i \in 1 .. Len(f)
  <2>1. f[i] \in Lines
    BY <1>1
  <2> QED
    BY <2>1 DEF Lines
<1> QED
  BY <1>1, <1>2 DEF FileOK

\* What a write of report n, of up to a + 1, to the file f leaves in w.
WroteTo(f, n, whole, a, w) ==
    /\ FileOK(w, a + 1)
    /\ Unended(w) <=> ~whole
    /\ w[Len(w)].report \in {Garbage, n}
    /\ Readable(w) \subseteq Readable(f) \union {n}
    /\ ~Unended(f) => Readable(w) = (Readable(f) \union {n}) \ {Garbage}
    /\ Unended(f) => Readable(f) \subseteq Readable(w) \union {f[Len(f)].report}

\* A line goes to the end of a file, or spoils the last one.
LEMMA WrittenFile ==
    ASSUME NEW f, NEW a \in Nat, FileOK(f, a), NEW n \in {Garbage, a + 1},
           NEW whole \in BOOLEAN
    PROVE  WroteTo(f, n, whole, a, Written(f, n, whole))
PROOF
<1> DEFINE N == Len(f)
           w == Written(f, n, whole)
<1>1. /\ f \in Seq(Lines) /\ N \in Nat /\ DOMAIN f = 1 .. N
      /\ \A i \in 1 .. N : f[i].report \in 0 .. a /\ f[i].ended \in BOOLEAN
      /\ \A i \in 1 .. N : i < N => f[i].ended
      /\ \A i, j \in 1 .. N :
             i < j /\ f[i].report # Garbage /\ f[j].report # Garbage
             => f[i].report < f[j].report
  BY FileLines
<1>2. CASE ~Unended(f)
  <2> DEFINE l == [report |-> n, ended |-> whole]
  <2>1. l \in Lines /\ l.report = n /\ l.ended = whole /\ n \in Nat
    BY DEF Lines, Garbage
  <2>2. w = Append(f, l)
    BY <1>2 DEF Written
  <2> HIDE DEF l, w
  <2>3. /\ w \in Seq(Lines) /\ Len(w) = N + 1 /\ DOMAIN w = 1 .. N + 1
        /\ \A i \in 1 .. N : w[i] = f[i]
        /\ w[N + 1] = l
    BY <1>1, <2>1, <2>2
  <2>4. \A i \in 1 .. N + 1 : i # N + 1 => i \in 1 .. N
    BY <1>1
  <2>5. \A i \in 1 .. N : f[i].ended
    <3>1. f # <<>> => f[N].ended
      BY <1>2 DEF Unended
    <3> QED
      BY <3>1, <1>1
  <2>6. \A i \in 1 .. N + 1 : w[i].report <= a + 1 /\ (i < N + 1 => w[i].ended)
    <3> TAKE i \in 1 .. N + 1
    <3>1. CASE i = N + 1
      BY <3>1, <2>1, <2>3, <1>1 DEF Garbage
    <3>2. CASE i \in 1 .. N
      BY <3>2, <2>3, <2>5, <1>1
    <3> QED
      BY <3>1, <3>2, <2>4
  <2>7. ASSUME NEW i \in 1 .. N + 1, NEW j \in 1 .. N + 1, i < j,
               w[i].report # Garbage, w[j].report # Garbage
        PROVE  w[i].report < w[j].report
    <3>1. i \in 1 .. N /\ w[i].report = f[i].report
      BY <2>7, <2>3, <1>1
    <3>2. CASE j = N + 1
      BY <3>1, <3>2, <2>1, <2>3, <2>7, <1>1 DEF Garbage
    <3>3. CASE j \in 1 .. N
      BY <3>1, <3>3, <2>3, <2>7, <1>1
    <3> QED
      BY <3>2, <3>3, <2>4
  <2>8. FileOK(w, a + 1)
    BY <2>3, <2>6, <2>7 DEF FileOK
  <2>9. Unended(w) <=> ~whole
    BY <2>1, <2>3, <1>1 DEF Unended
  <2>10. w # <<>> /\ w[Len(w)].report = n
    BY <2>1, <2>3, <1>1
  <2>11. Readable(w) = (Readable(f) \union {n}) \ {Garbage}
    <3>1. \A x : (\E i \in 1 .. N + 1 : x = w[i].report)
                  <=> x = n \/ \E i \in 1 .. N : x = f[i].report
      <4>1. N + 1 \in 1 .. N + 1 /\ \A i \in 1 .. N : i \in 1 .. N + 1
        BY <1>1
      <4> QED
        BY <4>1, <2>1, <2>3, <2>4
    <3>2. /\ Readable(w) = {w[i].report : i \in 1 .. N + 1} \ {Garbage}
          /\ Readable(f) = {f[i].report : i \in 1 .. N} \ {Garbage}
      BY <2>3, <1>1 DEF Readable
    <3> QED
      BY <3>1, <3>2
  <2>13. WroteTo(f, n, whole, a, w)
    BY <2>8, <2>9, <2>10, <2>11, <1>2 DEF WroteTo
  <2> QED
    BY <2>13 DEF w
<1>3. CASE Unended(f)
  <2> DEFINE l == [report |-> Garbage, ended |-> whole]
  <2>1. l \in Lines /\ l.report = Garbage /\ l.ended = whole
    BY DEF Lines, Garbage
  <2>2. w = [f EXCEPT ![N] = l]
    BY <1>3 DEF Written
  <2>0. N \in 1 .. N
    BY <1>1, <1>3 DEF Unended
  <2> HIDE DEF l, w
  <2>3. /\ w \in Seq(Lines) /\ Len(w) = N /\ DOMAIN w = 1 .. N
        /\ \A i \in 1 .. N : i # N => w[i] = f[i]
        /\ w[N] = l
    BY <1>1, <2>0, <2>1, <2>2
  <2>4. w # <<>> /\ w[Len(w)] = l
    <3>1. Len(w) = N /\ w[N] = l
      BY <2>3
    <3> HIDE DEF N
    <3>2. Len(w) # 0
      BY <3>1, <2>0
    <3> QED
      BY <3>1, <3>2
  <2>5. \A i \in 1 .. N : i # N => i < N
    <3>1. N \in Nat
      BY <1>1
    <3> HIDE DEF N
    <3> QED
      BY <3>1
  <2>6. \A i \in 1 .. N : w[i].report <= a + 1 /\ (i < N => w[i].ended)
    <3> TAKE i \in 1 .. N
    <3>1. CASE i = N
      BY <3>1, <2>1, <2>3, <1>1 DEF Garbage
    <3>2. CASE i # N
      <4>1. w[i] = f[i] /\ i < N
        BY <3>2, <2>3, <2>5
      <4> QED
        BY <4>1, <1>1
    <3> QED
      BY <3>1, <3>2
  <2>7. ASSUME NEW i \in 1 .. N, NEW j \in 1 .. N, i < j,
               w[i].report # Garbage, w[j].report # Garbage
        PROVE  w[i].report < w[j].report
    <3>1. j # N /\ i # N
      BY <2>1, <2>3, <2>7, <1>1
    <3> QED
      BY <3>1, <2>3, <2>7, <1>1
  <2>8. FileOK(w, a + 1)
    BY <2>3, <2>6, <2>7 DEF FileOK
  <2>9. Unended(w) <=> ~whole
    <3>1. w # <<>> /\ w[Len(w)] = l
      BY <2>4
    <3> QED
      BY <3>1, <2>1 DEF Unended
  <2>10. w # <<>> /\ w[Len(w)].report = Garbage
    <3>1. w # <<>> /\ w[Len(w)] = l
      BY <2>4
    <3> QED
      BY <3>1, <2>1
  <2>11. Readable(w) \subseteq Readable(f)
    <3> SUFFICES ASSUME NEW i \in 1 .. N, w[i].report # Garbage
                 PROVE  w[i].report \in Readable(f)
      BY <2>3 DEF Readable
    <3>1. w[i] = f[i]
      BY <2>1, <2>3
    <3> QED
      BY <3>1, <1>1 DEF Readable
  <2>12. Readable(f) \subseteq Readable(w) \union {f[N].report}
    <3> SUFFICES ASSUME NEW i \in 1 .. N, f[i].report # Garbage, i # N
                 PROVE  f[i].report \in Readable(w)
      BY <1>1 DEF Readable
    <3>1. w[i] = f[i]
      BY <2>3
    <3> QED
      BY <3>1, <2>3 DEF Readable
  <2>13. WroteTo(f, n, whole, a, w)
    BY <2>8, <2>9, <2>10, <2>11, <2>12, <1>3 DEF WroteTo
  <2> QED
    BY <2>13 DEF w
<1> QED
  BY <1>2, <1>3

\* The rotated file holds what the memory does.
LEMMA RotatedFile ==
    ASSUME NEW top \in Nat, NEW mem, NEW S, Covers(mem, S, top)
    PROVE  /\ FileOK(Rotated(mem), top) /\ ~Unended(Rotated(mem))
           /\ Readable(Rotated(mem)) = Ids(mem)
PROOF
<1>1. /\ Len(mem) \in Nat /\ DOMAIN mem = 1 .. Len(mem)
      /\ \A i \in 1 .. Len(mem) : mem[i] \in 1 .. top
      /\ \A i, j \in 1 .. Len(mem) : i < j => mem[i] < mem[j]
  BY DEF Covers, Increasing
<1> DEFINE w == Rotated(mem)
<1>2. \A i \in 1 .. Len(mem) : /\ w[i].report = mem[i] /\ w[i].ended
                               /\ w[i] \in Lines
  BY <1>1 DEF Rotated, Lines
<1>3. w \in Seq(Lines) /\ DOMAIN w = 1 .. Len(mem) /\ Len(w) = Len(mem)
  BY <1>1 DEF Rotated, Lines
<1> HIDE DEF w
<1>4. FileOK(w, top)
  BY <1>1, <1>2, <1>3 DEF FileOK
<1>5. ~Unended(w)
  BY <1>1, <1>2, <1>3 DEF Unended
<1>6. Readable(w) = Ids(mem)
  <2>1. \A i \in 1 .. Len(mem) : mem[i] # Garbage
    BY <1>1 DEF Garbage
  <2> QED
    BY <2>1, <1>1, <1>2, <1>3 DEF Readable, Ids
<1> QED
  BY <1>4, <1>5, <1>6 DEF w
------------------------------------------------------------------------------
(* A report comes in. *)

\* Of the newest Keep reports, those of answers that f has not.
MissingIn(f, answers, top) == {n \in answers : n + Keep > top} \ Readable(f)

LEMMA MissingLess ==
    ASSUME NEW f, NEW h, NEW a \in Nat, NEW answers \in SUBSET (1 .. a),
           \A x \in answers : x + Keep > a + 1 /\ x \in Readable(f) => x \in Readable(h)
    PROVE  MissingIn(h, answers, a + 1) \subseteq MissingIn(f, answers, a)
PROOF
<1> SUFFICES ASSUME NEW x \in answers, x + Keep > a + 1, x \notin Readable(h)
             PROVE  x + Keep > a /\ x \notin Readable(f)
  BY DEF MissingIn
<1>1. x \in Nat
  OBVIOUS
<1> QED
  BY <1>1, KeepPos

\* Whatever of report a + 1 a stopped write or a rotation leaves in the file, no
\* answered report is lost, nor is a report of the file missed in the memory.
LEMMA FileStep ==
    ASSUME NEW f, NEW a \in Nat, FileOK(f, a),
           NEW answers \in SUBSET (1 .. a), Unended(f) => f[Len(f)].report \notin answers,
           NEW mem, Covers(mem, Readable(f) \union {a + 1}, a + 1),
           NEW h \in Stopped(f, a + 1) \union {Written(f, a + 1, TRUE), Rotated(mem)}
    PROVE  /\ FileOK(h, a + 1)
           /\ Covers(mem, Readable(h), a + 1)
           /\ Unended(h) => h[Len(h)].report \notin answers
           /\ MissingIn(h, answers, a + 1) \subseteq MissingIn(f, answers, a)
PROOF
<1> DEFINE n == a + 1
<1>0. n \in Nat /\ n \notin answers /\ Garbage \notin answers /\ a <= n
  BY DEF Garbage
<1>1. CASE h = f
  <2>1. FileOK(f, n)
    <3>1. \A i \in DOMAIN f : f[i].report <= n
      BY FileLines
    <3> QED
      BY <3>1 DEF FileOK
  <2>2. Covers(mem, Readable(f), n)
    BY <1>0, CoversLess
  <2>3. MissingIn(f, answers, n) \subseteq MissingIn(f, answers, a)
    BY MissingLess
  <2> QED
    BY <1>1, <2>1, <2>2, <2>3
<1>2. ASSUME NEW m \in {Garbage, n}, NEW whole \in BOOLEAN, h = Written(f, m, whole)
      PROVE  /\ FileOK(h, n)
             /\ Covers(mem, Readable(h), n)
             /\ Unended(h) => h[Len(h)].report \notin answers
             /\ MissingIn(h, answers, n) \subseteq MissingIn(f, answers, a)
  <2>1. WroteTo(f, m, whole, a, h)
    BY <1>2, WrittenFile
  <2>2. Readable(h) \subseteq Readable(f) \union {n}
    BY <2>1 DEF WroteTo, Readable
  <2>3. Covers(mem, Readable(h), n)
    BY <1>0, <2>2, CoversLess
  <2>4. \A x \in answers : x \in Readable(f) => x \in Readable(h)
    BY <1>0, <2>1 DEF WroteTo
  <2>5. MissingIn(h, answers, n) \subseteq MissingIn(f, answers, a)
    BY <2>4, MissingLess
  <2> QED
    BY <1>0, <2>1, <2>3, <2>5 DEF WroteTo
<1>3. CASE h = Rotated(mem)
  <2>1. FileOK(h, n) /\ ~Unended(h) /\ Readable(h) = Ids(mem)
    BY <1>0, <1>3, RotatedFile
  <2>2. Covers(mem, Ids(mem), n)
    BY DEF Covers
  <2>3. ASSUME NEW x \in answers, x + Keep > n, x \in Readable(f) PROVE x \in Ids(mem)
    BY <2>3, <1>0, Window
  <2>4. MissingIn(h, answers, n) \subseteq MissingIn(f, answers, a)
    BY <2>1, <2>3, MissingLess
  <2> QED
    BY <2>1, <2>2, <2>4
<1> QED
  BY <1>1, <1>2, <1>3 DEF Stopped

\* A report written in full and answered is lost only to a line without an end.
LEMMA PostStep ==
    ASSUME NEW f, NEW a \in Nat, FileOK(f, a),
           NEW answers \in SUBSET (1 .. a), Unended(f) => f[Len(f)].report \notin answers,
           NEW mem, Covers(mem, Readable(f) \union {a + 1}, a + 1),
           NEW h \in {Written(f, a + 1, TRUE), Rotated(mem)}
    PROVE  /\ ~Unended(h)
           /\ MissingIn(h, answers \union {a + 1}, a + 1)
                 \subseteq MissingIn(f, answers, a) \union {a + 1}
           /\ ~Unended(f) => MissingIn(h, answers \union {a + 1}, a + 1)
                                \subseteq MissingIn(f, answers, a)
PROOF
<1>1. MissingIn(h, answers, a + 1) \subseteq MissingIn(f, answers, a)
  BY FileStep
<1>2. MissingIn(h, answers \union {a + 1}, a + 1)
        \subseteq MissingIn(h, answers, a + 1) \union ({a + 1} \ Readable(h))
  BY DEF MissingIn
<1>3. CASE h = Written(f, a + 1, TRUE)
  <2>1. WroteTo(f, a + 1, TRUE, a, h)
    BY <1>3, WrittenFile
  <2>2. a + 1 # Garbage
    BY DEF Garbage
  <2> QED
    BY <1>1, <1>2, <2>1, <2>2 DEF WroteTo
<1>4. CASE h = Rotated(mem)
  <2>1. ~Unended(h) /\ Readable(h) = Ids(mem)
    BY <1>4, RotatedFile
  <2>2. a + 1 \in Ids(mem)
    <3>1. a + 1 \in Nat /\ a + 1 + Keep > a + 1
      BY KeepPos
    <3> QED
      BY <3>1, Window
  <2> QED
    BY <1>1, <1>2, <2>1, <2>2
<1> QED
  BY <1>3, <1>4
------------------------------------------------------------------------------
(* The invariant. *)

LEMMA MissingFinite ==
    ASSUME LogTypeOK
    PROVE  IsFiniteSet(Missing) /\ Cardinality(Missing) \in Nat
PROOF
<1>1. IsFiniteSet(1 .. received)
  BY FS_Interval DEF LogTypeOK
<1>2. Missing \subseteq 1 .. received
  BY DEF LogTypeOK, Missing
<1> QED
  BY <1>1, <1>2, FS_Subset, FS_CardinalityType

\* What an incoming report finds, and what of it the memory has.
LEMMA Entered ==
    ASSUME LogInv, NEW n \in 1 .. MaxReports, Enter(n)
    PROVE  /\ n = received + 1 /\ received' = n /\ received \in Nat
           /\ FileOK(file, received) /\ answered \in SUBSET (1 .. received)
           /\ Unended(file) => file[Len(file)].report \notin answered
           /\ Covers(reports', Readable(file) \union {n}, n)
PROOF
<1>1. /\ received \in Nat /\ FileOK(file, received) /\ answered \in SUBSET (1 .. received)
      /\ Covers(reports, Readable(file), received)
      /\ Unended(file) => file[Len(file)].report \notin answered
  BY DEF LogInv, LogTypeOK, Enter
<1>2. Readable(file) \in SUBSET Nat
  BY <1>1, FileLines DEF Readable
<1>3. n = received + 1 /\ received' = n /\ reports' = Newest(Append(reports, n))
  BY DEF Enter
<1>4. n \in Nat /\ n > received
  BY <1>1, <1>3
<1>5. Covers(Newest(Append(reports, n)), Readable(file) \union {n}, n)
  BY <1>1, <1>2, <1>4, Push
<1> QED
  BY <1>1, <1>3, <1>5

LEMMA MissingIs == Missing = MissingIn(file, answered, received)
  BY DEF Missing, MissingIn

LEMMA MissingIsNext == Missing' = MissingIn(file', answered', received')
  BY DEF Missing, MissingIn

LEMMA CountLess ==
    ASSUME NEW S, IsFiniteSet(S), NEW T, T \subseteq S
    PROVE  Cardinality(T) \in Nat /\ Cardinality(T) <= Cardinality(S)
  BY FS_Subset, FS_CardinalityType

LEMMA CountOneMore ==
    ASSUME NEW S, IsFiniteSet(S), NEW x, NEW T, T \subseteq S \union {x}
    PROVE  Cardinality(T) \in Nat /\ Cardinality(T) <= Cardinality(S) + 1
PROOF
<1>1. /\ IsFiniteSet(S \union {x})
      /\ Cardinality(S \union {x}) \in {Cardinality(S), Cardinality(S) + 1}
  BY FS_AddElement
<1>2. Cardinality(T) \in Nat /\ Cardinality(T) <= Cardinality(S \union {x})
  BY <1>1, CountLess
<1>3. Cardinality(S) \in Nat
  BY FS_CardinalityType
<1> QED
  BY <1>1, <1>2, <1>3

\* What is left of LogInv' once the file and the memory are known to be in order.
LEMMA LogInvAgain ==
    ASSUME received' \in Nat, FileOK(file', received'), reports' \in Seq(1 .. received'),
           Len(reports') <= Keep, up' \in BOOLEAN, answered' \subseteq 1 .. received',
           torn' \in Nat, faults' \in Nat,
           up' => Covers(reports', Readable(file'), received'),
           Unended(file') => file'[Len(file')].report \notin answered',
           Cardinality(Missing') + Debt' <= torn'
    PROVE  LogInv'
PROOF
<1>1. LogTypeOK'
  BY DEF LogTypeOK, FileOK
<1> QED
  BY <1>1 DEF LogInv

LEMMA LogInitInv == LogInit => LogInv
PROOF
<1> SUFFICES ASSUME LogInit PROVE LogInv
  OBVIOUS
<1>1. Missing = {} /\ Debt = 0
  BY DEF LogInit, Missing, Debt, Unended
<1>2. Cardinality(Missing) = 0
  BY <1>1, FS_EmptySet
<1>3. FileOK(file, received)
  BY DEF LogInit, FileOK
<1>4. LogTypeOK
  <2>1. <<>> \in Seq(1 .. 0) /\ <<>> \in Seq(Lines) /\ Len(<<>>) = 0 /\ DOMAIN <<>> = {}
    OBVIOUS
  <2>2. reports = <<>> /\ file = <<>> /\ received = 0 /\ answered = {}
    BY DEF LogInit
  <2>3. reports \in Seq(1 .. received) /\ Len(reports) <= Keep
    BY <2>1, <2>2, KeepPos
  <2>4. /\ file \in Seq(Lines)
        /\ \A i \in DOMAIN file : /\ file[i].report <= received
                                  /\ i < Len(file) => file[i].ended
    BY <2>1, <2>2
  <2>5. up \in BOOLEAN /\ torn \in Nat /\ faults \in Nat /\ received \in Nat
    BY DEF LogInit
  <2>6. answered \subseteq 1 .. received
    BY <2>2
  <2> QED
    BY <2>3, <2>4, <2>5, <2>6 DEF LogTypeOK
<1> QED
  BY <1>1, <1>2, <1>3, <1>4 DEF LogInit, LogInv, Unended

\* A report that a stopped write lets in, and what the write does to the file.
LEMMA StopStep ==
    ASSUME LogInv, NEW n \in 1 .. MaxReports, Enter(n), Fault, UNCHANGED answered,
           file' \in Stopped(file, n) \union {Written(file, n, TRUE), Rotated(reports')},
           torn' = IF Unended(file') /\ file' # file THEN torn + 1 ELSE torn,
           up' \in BOOLEAN
    PROVE  LogInv'
PROOF
<1>1. /\ n = received + 1 /\ received' = n /\ received \in Nat
      /\ FileOK(file, received) /\ answered \in SUBSET (1 .. received)
      /\ Unended(file) => file[Len(file)].report \notin answered
      /\ Covers(reports', Readable(file) \union {n}, n)
  BY Entered
<1>2. /\ FileOK(file', n)
      /\ Covers(reports', Readable(file'), n)
      /\ Unended(file') => file'[Len(file')].report \notin answered
      /\ MissingIn(file', answered, n) \subseteq MissingIn(file, answered, received)
  BY <1>1, FileStep
<1>3. /\ torn \in Nat /\ faults' \in Nat /\ Debt \in {0, 1}
      /\ Cardinality(Missing) + Debt <= torn
      /\ IsFiniteSet(Missing) /\ Cardinality(Missing) \in Nat
  BY MissingFinite DEF LogInv, LogTypeOK, Fault, Debt
<1>4. Missing' \subseteq Missing
  BY <1>1, <1>2, MissingIs, MissingIsNext
<1>5. Cardinality(Missing') \in Nat /\ Cardinality(Missing') <= Cardinality(Missing)
  BY <1>3, <1>4, CountLess
<1>6. torn' \in Nat /\ Cardinality(Missing') + Debt' <= torn'
  <2>1. CASE Unended(file') /\ file' # file
    <3>1. torn' = torn + 1 /\ Debt' = 1
      BY <2>1 DEF Debt
    <3> QED
      BY <3>1, <1>3, <1>5
  <2>2. CASE ~Unended(file')
    <3>1. torn' = torn /\ Debt' = 0
      BY <2>2 DEF Debt
    <3> QED
      BY <3>1, <1>3, <1>5
  <2>3. CASE file' = file
    <3>1. torn' = torn /\ Debt' = Debt
      BY <2>3 DEF Debt
    <3> QED
      BY <3>1, <1>3, <1>5
  <2> QED
    BY <2>1, <2>2, <2>3
<1>7. reports' \in Seq(1 .. n) /\ Len(reports') <= Keep
  BY <1>2 DEF Covers
<1>8. answered \subseteq 1 .. n
  BY <1>1
<1> QED
  BY <1>1, <1>2, <1>3, <1>6, <1>7, <1>8, LogInvAgain

LEMMA PostInv == LogInv /\ Post => LogInv'
PROOF
<1> SUFFICES ASSUME LogInv, Post PROVE LogInv'
  OBVIOUS
<1>0. PICK n \in 1 .. MaxReports :
        /\ Enter(n)
        /\ file' \in {Written(file, n, TRUE), Rotated(reports')}
        /\ answered' = answered \union {n}
        /\ UNCHANGED <<up, torn, faults>>
  BY DEF Post
<1>1. /\ n = received + 1 /\ received' = n /\ received \in Nat
      /\ FileOK(file, received) /\ answered \in SUBSET (1 .. received)
      /\ Unended(file) => file[Len(file)].report \notin answered
      /\ Covers(reports', Readable(file) \union {n}, n)
  BY <1>0, Entered
<1>2. FileOK(file', n) /\ Covers(reports', Readable(file'), n)
  BY <1>0, <1>1, FileStep
<1>3. /\ ~Unended(file')
      /\ MissingIn(file', answered', n)
            \subseteq MissingIn(file, answered, received) \union {n}
      /\ ~Unended(file) => MissingIn(file', answered', n)
                              \subseteq MissingIn(file, answered, received)
  BY <1>0, <1>1, PostStep
<1>4. /\ torn \in Nat /\ torn' = torn /\ faults' \in Nat /\ up' \in BOOLEAN
      /\ Cardinality(Missing) + Debt <= torn
      /\ IsFiniteSet(Missing) /\ Cardinality(Missing) \in Nat
  BY <1>0, MissingFinite DEF LogInv, LogTypeOK
<1>5. Debt' = 0
  BY <1>3 DEF Debt
<1>6. Cardinality(Missing') + Debt' <= torn'
  <2>1. CASE Unended(file)
    <3>1. Debt = 1
      BY <2>1 DEF Debt
    <3>2. Missing' \subseteq Missing \union {n}
      BY <1>1, <1>3, MissingIs, MissingIsNext
    <3>3. Cardinality(Missing') \in Nat /\ Cardinality(Missing') <= Cardinality(Missing) + 1
      BY <3>2, <1>4, CountOneMore
    <3> QED
      BY <3>1, <3>3, <1>4, <1>5
  <2>2. CASE ~Unended(file)
    <3>1. Debt = 0
      BY <2>2 DEF Debt
    <3>2. Missing' \subseteq Missing
      BY <2>2, <1>1, <1>3, MissingIs, MissingIsNext
    <3>3. Cardinality(Missing') \in Nat /\ Cardinality(Missing') <= Cardinality(Missing)
      BY <3>2, <1>4, CountLess
    <3> QED
      BY <3>1, <3>3, <1>4, <1>5
  <2> QED
    BY <2>1, <2>2
<1>7. reports' \in Seq(1 .. n) /\ Len(reports') <= Keep
  BY <1>2 DEF Covers
<1>8. answered' \subseteq 1 .. n
  <2>1. n \in 1 .. n /\ \A x \in 1 .. received : x \in 1 .. n
    BY <1>1
  <2> QED
    BY <2>1, <1>0, <1>1
<1> QED
  BY <1>1, <1>2, <1>3, <1>4, <1>6, <1>7, <1>8, LogInvAgain

LEMMA StartInv == LogInv /\ Start => LogInv'
PROOF
<1> SUFFICES ASSUME LogInv, Start PROVE LogInv'
  OBVIOUS
<1>1. received \in Nat /\ FileOK(file, received)
  BY DEF LogInv, LogTypeOK
<1>2. Covers(reports', Readable(file), received)
  BY <1>1, LoadCovers DEF Start
<1>3. reports' \in Seq(1 .. received) /\ Len(reports') <= Keep
  BY <1>2 DEF Covers
<1>4. Missing' = Missing /\ Debt' = Debt
  BY DEF Start, Missing, Debt
<1> QED
  BY <1>1, <1>2, <1>3, <1>4, LogInvAgain DEF Start, LogInv, LogTypeOK

\* Every step keeps the invariant.
LEMMA LogNextInv == LogInv /\ [LogNext]_logVars => LogInv'
PROOF
<1> SUFFICES ASSUME LogInv, [LogNext]_logVars PROVE LogInv'
  OBVIOUS
<1>1. CASE Start
  BY <1>1, StartInv
<1>2. CASE Post
  BY <1>2, PostInv
<1>3. CASE PostFails
  <2>1. PICK n \in 1 .. MaxReports :
          /\ Enter(n) /\ Fault
          /\ file' \in Stopped(file, n) \union {Written(file, n, TRUE), Rotated(reports')}
          /\ torn' = IF Unended(file') /\ file' # file THEN torn + 1 ELSE torn
          /\ UNCHANGED <<up, answered>>
    BY <1>3 DEF PostFails
  <2>2. up' \in BOOLEAN
    BY <2>1 DEF LogInv, LogTypeOK
  <2> QED
    BY <2>1, <2>2, StopStep
<1>4. CASE StopInPost
  <2>1. PICK n \in 1 .. MaxReports :
          /\ Enter(n) /\ Fault
          /\ file' \in Stopped(file, n) \union {Written(file, n, TRUE), Rotated(reports')}
          /\ torn' = IF Unended(file') /\ file' # file THEN torn + 1 ELSE torn
          /\ up' = FALSE
          /\ UNCHANGED answered
    BY <1>4 DEF StopInPost
  <2> QED
    BY <2>1, StopStep
<1>5. CASE Stop
  <2>1. Missing' = Missing /\ Debt' = Debt
    BY <1>5 DEF Stop, Missing, Debt
  <2>2. faults' \in Nat /\ ~up'
    BY <1>5 DEF Stop, Fault, LogInv, LogTypeOK
  <2> QED
    BY <1>5, <2>1, <2>2, LogInvAgain DEF Stop, LogInv, LogTypeOK
<1>6. CASE UNCHANGED logVars
  BY <1>6 DEF logVars, LogInv, LogTypeOK, Missing, Debt
<1> QED
  BY <1>1, <1>2, <1>3, <1>4, <1>5, <1>6 DEF LogNext

LEMMA LogInvHolds == LogSpec => []LogInv
  BY LogInitInv, LogNextInv, PTL DEF LogSpec

\* The add-on's variables keep their types: among them, the deque its bound, and
\* a line without its end its place, the last.
THEOREM LogTypes == LogSpec => []LogTypeOK
  BY LogInvHolds, PTL DEF LogInv

\* However often it is stopped and however its writes end, the store loses no
\* more answered reports than writes have stopped within a line.
THEOREM FewReportsLost == LogSpec => []LossBounded
PROOF
<1>1. LogInv => LossBounded
  <2> SUFFICES ASSUME LogInv PROVE Cardinality(Missing) <= torn
    BY DEF LossBounded
  <2>1. Cardinality(Missing) \in Nat /\ torn \in Nat
    BY MissingFinite DEF LogInv, LogTypeOK
  <2>2. Cardinality(Missing) + Debt <= torn /\ Debt \in {0, 1}
    BY DEF LogInv, Debt
  <2> QED
    BY <2>1, <2>2
<1> QED
  BY <1>1, LogInvHolds, PTL

\* Whatever the file was left with, what its reports are and the memory's are not
\* is older than a full memory.
THEOREM RotationKeeps == LogSpec => []MemoryCoversFile
PROOF
<1>1. LogInv => MemoryCoversFile
  BY DEF LogInv, MemoryCoversFile, Covers, Ids
<1> QED
  BY <1>1, LogInvHolds, PTL
==============================================================================
