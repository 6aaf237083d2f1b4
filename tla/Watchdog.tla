------------------------------- MODULE Watchdog -------------------------------
(***************************************************************************)
(* Self-recovery (src/src/watchdog.rs, the keep-alive loop and the panic   *)
(* handler of bin/main.rs) with the delivery of the reset summary          *)
(* (tasks/telemetry.rs): stalls, hangs and panics end in a reset, and the  *)
(* next boot says why.                                                     *)
(*                                                                         *)
(* Time is counted in ticks.  A task that computes without an await blocks *)
(* the one executor; a block that never ends is a hang.                    *)
(***************************************************************************)
EXTENDS Integers

CONSTANTS
    PollEvery,      \* POLL_IDLE_MS, the input task's longest pause
    FeedEvery,      \* FEED_EVERY_SECS
    MaxBlock,       \* longest block that ends by itself
    RwdtTimeout,    \* RWDT_TIMEOUT_SECS
    FetchStall,     \* FETCH_STALL_SECS
    CountModulus    \* boot numbers wrap here (2^32)

ASSUME WatchdogAssumption ==
    /\ PollEvery \in Nat \ {0} /\ FeedEvery \in Nat /\ MaxBlock \in Nat
    /\ RwdtTimeout \in Nat /\ FetchStall \in Nat
    /\ PollEvery + MaxBlock < FeedEvery
    /\ FeedEvery + MaxBlock < RwdtTimeout
    /\ CountModulus \in Nat \ {0, 1}

VARIABLES
    phase,       \* boot, run, or record: record_and_reset before the magic
    reason,      \* reset_reason(): the hardware's account of the last reset
    rec,         \* RESET_RECORD in RTC RAM: its magic and its cause
    count,       \* BOOT_COUNT in RTC RAM: the number and whether the check fits
    summary,     \* RESET_SUMMARY
    pending,     \* RESET_SUMMARY_PENDING
    sinceOk,     \* ticks since last_fetch_at, or since boot
    sinceFed,    \* ticks since the RWDT was fed and the keep-alive timer set
    sincePoll,   \* ticks since the input task's last poll
    moved,       \* INPUT_HEARTBEAT # last_input_beat
    inputDead,   \* the input task never polls again
    busy,        \* 0: executor free; else 1 + the ticks it has been blocked
    ended,       \* history: how the previous boot ended
    boots,       \* history: boots since power-on
    serverHas    \* history: the log server holds this boot's summary

clocks == <<sinceOk, sinceFed, sincePoll>>
tasks == <<moved, inputDead, busy>>
ram == <<rec, count>>
report == <<summary, pending, serverHas>>
vars == <<phase, reason, rec, count, summary, pending, sinceOk, sinceFed, sincePoll, moved,
          inputDead, busy, ended, boots, serverHas>>

Causes == {"Panic", "FetchStall", "InputStall"}
Reasons == {"PowerOn", "CoreSw", "RtcWdt", "Other"}
Numbers == 0 .. CountModulus - 1

TypeOK ==
    /\ phase \in {"boot", "run", "record"}
    /\ reason \in Reasons
    /\ rec \in [magic : BOOLEAN, cause : Causes \union {"none"}]
    /\ count \in [n : Numbers, fits : BOOLEAN]
    /\ summary \in Causes \union Reasons \union {"NoRecord"}
    /\ pending \in BOOLEAN /\ serverHas \in BOOLEAN
    /\ sinceOk \in Nat /\ sinceFed \in 0 .. RwdtTimeout /\ sincePoll \in Nat
    /\ moved \in BOOLEAN /\ inputDead \in BOOLEAN
    /\ busy \in Nat
    /\ ended \in Causes \union Reasons \union {"NestedPanic"}
    /\ boots \in Numbers

\* Power-on, or the first boot after flashing: RTC RAM holds anything, a magic
\* or a fitting check word only by a chance in 2^32.
Init ==
    /\ phase = "boot"
    /\ reason \in {"PowerOn", "CoreSw"} /\ ended = reason
    /\ rec = [magic |-> FALSE, cause |-> "none"]
    /\ count \in [n : Numbers, fits : {FALSE}]
    /\ summary = reason /\ pending = FALSE /\ serverHas = FALSE
    /\ sinceOk = 0 /\ sinceFed = 0 /\ sincePoll = 0
    /\ moved = FALSE /\ inputDead = FALSE /\ busy = 0
    /\ boots = 0
------------------------------------------------------------------------------
(* Boot: report_last_reset() and init(). *)

\* Mutants: the check word is not compared; the number does not wrap.
CountWithoutWrap ==
    LET valid == count.fits /\ reason # "PowerOn"
    IN  count' = [n |-> IF valid THEN count.n + 1 ELSE 1, fits |-> TRUE]

CountUnchecked ==
    LET next == IF reason # "PowerOn" THEN (count.n + 1) % CountModulus ELSE 1
    IN  count' = [n |-> next, fits |-> TRUE]

CountBoot ==
    LET valid == count.fits /\ reason # "PowerOn"
        next == IF valid THEN (count.n + 1) % CountModulus ELSE 1
    IN  count' = [n |-> next, fits |-> TRUE]

\* The firmware's own record if there is one, else the hardware reason.
ReportLastReset ==
    /\ summary' = IF rec.magic THEN rec.cause
                  ELSE IF reason = "CoreSw" THEN "NoRecord" ELSE reason
    /\ rec' = [rec EXCEPT !.magic = FALSE]
    /\ pending' = TRUE

Boot ==
    /\ phase = "boot"
    /\ CountBoot
    /\ ReportLastReset
    /\ phase' = "run"
    /\ sinceOk' = 0 /\ sinceFed' = 0 /\ sincePoll' = 0
    /\ moved' = FALSE /\ inputDead' = FALSE /\ busy' = 0
    /\ serverHas' = FALSE
    /\ boots' = (boots + 1) % CountModulus
    /\ UNCHANGED <<reason, ended>>
------------------------------------------------------------------------------
(* Ways to reset. *)

ResetWith(why, how) ==
    /\ phase' = "boot"
    /\ reason' = why
    /\ ended' = how
    /\ UNCHANGED <<count, report, clocks, tasks, boots>>

\* Mutant: the magic is written before the rest.
MagicFirst(cause) ==
    /\ phase' = "record"
    /\ rec' = [magic |-> TRUE, cause |-> cause]
    /\ UNCHANGED <<reason, count, report, clocks, tasks, ended, boots>>

\* record_and_reset() writes everything but the magic...
RecordAndReset(cause) ==
    /\ phase' = "record"
    /\ rec' = [rec EXCEPT !.cause = cause]
    /\ UNCHANGED <<reason, count, report, clocks, tasks, ended, boots>>

\* ... and then the magic.
FinishRecord ==
    /\ phase = "record"
    /\ rec' = [rec EXCEPT !.magic = TRUE]
    /\ ResetWith("CoreSw", rec.cause)

\* A panic while the message is formatted or the stack walked: PANICKING is set.
NestedPanic ==
    /\ phase = "record"
    /\ ResetWith("CoreSw", "NestedPanic")
    /\ UNCHANGED rec

Panic ==
    /\ phase = "run"
    /\ RecordAndReset("Panic")

RwdtFires ==
    /\ phase # "boot" /\ sinceFed = RwdtTimeout
    /\ ResetWith("RtcWdt", "RtcWdt")
    /\ UNCHANGED rec

\* Flashing, a debugger or a brownout.
ExternalReset ==
    /\ phase # "boot"
    /\ \E why \in {"CoreSw", "Other"} : ResetWith(why, why)
    /\ UNCHANGED rec

PowerLoss ==
    /\ phase # "boot"
    /\ phase' = "boot"
    /\ reason' = "PowerOn" /\ ended' = "PowerOn"
    /\ rec' = [magic |-> FALSE, cause |-> "none"]
    /\ count' \in [n : Numbers, fits : {FALSE}]
    /\ boots' = 0
    /\ UNCHANGED <<report, clocks, tasks>>
------------------------------------------------------------------------------
(* The tasks. *)

Free == phase = "run" /\ busy = 0
CheckDue == sinceFed >= FeedEvery
PollDue == ~inputDead /\ sincePoll >= PollEvery

\* Mutant: the RWDT is fed whatever the fetch loop does.
FeedBeforeCheck ==
    /\ Free /\ CheckDue
    /\ IF ~moved
       THEN RecordAndReset("InputStall")
       ELSE /\ sinceFed' = 0 /\ moved' = FALSE
            /\ UNCHANGED <<phase, reason, ram, report, sinceOk, sincePoll, inputDead, busy, ended,
                           boots>>

CheckAndFeed ==
    /\ Free /\ CheckDue
    /\ IF sinceOk > FetchStall
       THEN RecordAndReset("FetchStall")
       ELSE IF ~moved
       THEN RecordAndReset("InputStall")
       ELSE /\ sinceFed' = 0 /\ moved' = FALSE
            /\ UNCHANGED <<phase, reason, ram, report, sinceOk, sincePoll, inputDead, busy, ended,
                           boots>>

\* Mutant: the heartbeat is bumped only when the touch changed.
PollWithoutBeat ==
    /\ Free /\ ~inputDead /\ sincePoll > 0
    /\ sincePoll' = 0
    /\ moved' \in {moved, TRUE}
    /\ UNCHANGED <<phase, reason, ram, report, sinceOk, sinceFed, inputDead, busy, ended, boots>>

InputPoll ==
    /\ Free /\ ~inputDead /\ sincePoll > 0
    /\ sincePoll' = 0 /\ moved' = TRUE
    /\ UNCHANGED <<phase, reason, ram, report, sinceOk, sinceFed, inputDead, busy, ended, boots>>

InputDies ==
    /\ Free /\ ~inputDead
    /\ inputDead' = TRUE
    /\ sincePoll' = 0
    /\ UNCHANGED <<phase, reason, ram, report, sinceOk, sinceFed, moved, busy, ended, boots>>

\* StationSink::finish().
FetchSucceeds ==
    /\ Free
    /\ sinceOk' = 0
    /\ UNCHANGED <<phase, reason, ram, report, sinceFed, sincePoll, tasks, ended, boots>>

\* A pass over the ready tasks ends before the next one blocks the executor.
Block ==
    /\ Free /\ ~CheckDue /\ ~PollDue
    /\ busy' = 1
    /\ UNCHANGED <<phase, reason, ram, report, clocks, moved, inputDead, ended, boots>>

Unblock ==
    /\ phase = "run" /\ busy \in 1 .. MaxBlock + 1
    /\ busy' = 0
    /\ UNCHANGED <<phase, reason, ram, report, clocks, moved, inputDead, ended, boots>>

\* Mutant: delivered whatever the server answers.
ReportAnyAnswer ==
    /\ Free /\ pending
    /\ serverHas' \in {serverHas, TRUE}
    /\ pending' = FALSE
    /\ UNCHANGED <<phase, reason, ram, summary, clocks, tasks, ended, boots>>

\* send_report(): the POST may be lost, or only its answer.
SendReport ==
    /\ Free /\ pending
    /\ serverHas' \in {serverHas, TRUE}
    /\ pending' \in {TRUE} \union {~serverHas'}
    /\ UNCHANGED <<phase, reason, ram, summary, clocks, tasks, ended, boots>>

\* What is due on a free executor runs before time goes on.
Tick ==
    /\ phase # "boot" /\ sinceFed < RwdtTimeout
    /\ Free => ~CheckDue /\ ~PollDue
    /\ sinceFed' = sinceFed + 1 /\ sinceOk' = sinceOk + 1 /\ sincePoll' = sincePoll + 1
    /\ busy' = IF busy > 0 THEN busy + 1 ELSE 0
    /\ UNCHANGED <<phase, reason, ram, report, moved, inputDead, ended, boots>>

Next ==
    \/ Boot
    \/ FinishRecord \/ NestedPanic \/ Panic \/ RwdtFires \/ ExternalReset \/ PowerLoss
    \/ CheckAndFeed \/ InputPoll \/ InputDies \/ FetchSucceeds \/ Block \/ Unblock \/ SendReport
    \/ Tick

Spec == Init /\ [][Next]_vars
------------------------------------------------------------------------------
(* Properties. *)

\* The summary names the way the previous boot ended: never a cause left in RTC
\* RAM by an earlier boot or by a record the RWDT or a power loss cut short, and
\* never the hardware's bare reason when the record was complete.
TrueBlame ==
    phase # "boot" /\ ended \notin {"CoreSw", "NestedPanic"} => summary = ended

\* The boot number in every report counts the boots since power-on or flashing,
\* whatever RTC RAM held before.
BootsCounted == phase # "boot" => count = [n |-> boots, fits |-> TRUE]

\* The summary is not given up before the log server has it.
DeliveredOrPending == phase # "boot" => pending \/ serverHas

\* A stalled fetch loop or a dead input task is gone from the board within the
\* given time, also when the executor hangs on the way.
StallsEnd ==
    phase = "run" =>
        /\ sinceOk <= FetchStall + RwdtTimeout
        /\ inputDead => sincePoll <= FeedEvery + MaxBlock + RwdtTimeout

\* The watchdog blames the input task only when it is dead, and the RWDT ends a
\* boot only that hangs or never got its record written: a long block, or the
\* keep-alive loop running before the input task after it, resets nobody.
NoFalseReset ==
    [][/\ phase = "run" /\ phase' = "record" /\ rec'.cause = "InputStall" => inputDead
       /\ phase = "run" /\ phase' = "boot" /\ reason' = "RtcWdt" => busy > MaxBlock]_vars
==============================================================================
