------------------------------ MODULE LogServer ------------------------------
(***************************************************************************)
(* The report store of the log server add-on                               *)
(* (homeassistant/bay_wheels_log/server.py): the newest reports in memory, *)
(* the same as JSON lines in a file, a rotation that rewrites the file     *)
(* from memory.  A write may stop anywhere (the disk is full, the add-on   *)
(* is stopped); a restart loads the lines that parse.                      *)
(*                                                                         *)
(* Reports are numbered as the lock lets them in.  The lock is held for    *)
(* all of append(), so an append is one action.                            *)
(***************************************************************************)
EXTENDS Integers, Sequences, FiniteSets

CONSTANTS
    Keep,        \* KEEP, deque's maxlen
    MaxLines,    \* lines that fit in MAX_FILE_BYTES
    MaxReports,  \* bound: reports sent
    MaxFaults    \* bound: writes that stop, and restarts

ASSUME LogAssumption ==
    /\ Keep \in Nat \ {0} /\ MaxLines \in Nat
    /\ MaxReports \in Nat /\ MaxFaults \in Nat

VARIABLES
    up,        \* the add-on runs
    reports,   \* reports: the deque
    file,      \* reports.jsonl: its lines, the last one perhaps without its end
    received,  \* how many reports have been let in
    answered,  \* history: those answered with 200
    torn,      \* history: writes that stopped within a line
    faults     \* bound's counter

logVars == <<up, reports, file, received, answered, torn, faults>>

Garbage == 0   \* a line that does not parse: a piece of a report, or two run together
Lines == [report : Nat, ended : BOOLEAN]

LogTypeOK ==
    /\ up \in BOOLEAN
    /\ reports \in Seq(1 .. received) /\ Len(reports) <= Keep
    /\ file \in Seq(Lines)
    /\ \A i \in DOMAIN file : /\ file[i].report <= received
                              /\ i < Len(file) => file[i].ended
    /\ received \in Nat /\ answered \subseteq 1 .. received
    /\ torn \in Nat /\ faults \in Nat

LogInit ==
    /\ up = FALSE
    /\ reports = <<>> /\ file = <<>>
    /\ received = 0 /\ answered = {}
    /\ torn = 0 /\ faults = 0
------------------------------------------------------------------------------
\* Mutant: a deque without maxlen.
Unlimited(s) == s

\* deque(maxlen=KEEP): the newest Keep of s.
Newest(s) == IF Len(s) <= Keep THEN s ELSE SubSeq(s, Len(s) - Keep + 1, Len(s))

Unended(f) == f # <<>> /\ ~f[Len(f)].ended

\* Text appended to the file goes on with a line that was left without its end.
Written(f, report, ended) ==
    IF Unended(f)
    THEN [f EXCEPT ![Len(f)] = [report |-> Garbage, ended |-> ended]]
    ELSE Append(f, [report |-> report, ended |-> ended])

\* What of report n's line a write that stops may leave: nothing, a piece, all
\* but the line's end.
Stopped(f, n) == {f, Written(f, Garbage, FALSE), Written(f, n, FALSE)}

\* The rotated file: what is in memory, moved into place at once.
Rotated(mem) == [i \in DOMAIN mem |-> [report |-> mem[i], ended |-> TRUE]]

\* The reports of a file's lines that parse.
Readable(f) == {f[i].report : i \in DOMAIN f} \ {Garbage}

\* Mutant: the deque is filled from the file until it is full.
LoadOldest(f) ==
    LET loaded[i \in 0 .. Len(f)] ==
          IF i = 0 THEN <<>>
          ELSE IF f[i].report = Garbage \/ Len(loaded[i - 1]) = Keep THEN loaded[i - 1]
          ELSE Append(loaded[i - 1], f[i].report)
    IN  loaded[Len(f)]

\* load(): line by line into the deque.
Load(f) ==
    LET loaded[i \in 0 .. Len(f)] ==
          IF i = 0 THEN <<>>
          ELSE IF f[i].report = Garbage THEN loaded[i - 1]
          ELSE Newest(Append(loaded[i - 1], f[i].report))
    IN  loaded[Len(f)]
------------------------------------------------------------------------------
(* do_POST() and append(). *)

Enter(n) ==
    /\ up /\ received < MaxReports
    /\ n = received + 1
    /\ received' = n
    /\ reports' = Newest(Append(reports, n))

\* Written, rotated if the file is too long, answered.
Post ==
    \E n \in 1 .. MaxReports :
        /\ Enter(n)
        /\ file' = IF Len(Written(file, n, TRUE)) > MaxLines
                   THEN Rotated(reports')
                   ELSE Written(file, n, TRUE)
        /\ answered' = answered \union {n}
        /\ UNCHANGED <<up, torn, faults>>

Fault == faults < MaxFaults /\ faults' = faults + 1

\* OSError on the way: the handler ends without an answer, the add-on goes on,
\* and the report is in memory.  In the line, or in the temporary file.
PostFails ==
    \E n \in 1 .. MaxReports :
        /\ Enter(n) /\ Fault
        /\ \/ file' \in Stopped(file, n)
           \/ file' = Written(file, n, TRUE) /\ Len(file') > MaxLines
        /\ torn' = IF Unended(file') /\ file' # file THEN torn + 1 ELSE torn
        /\ UNCHANGED <<up, answered>>

\* Mutant: the file is truncated and rewritten in place.
StopMidRewrite ==
    \E n \in 1 .. MaxReports :
        /\ Enter(n) /\ Fault
        /\ \E k \in 0 .. Len(reports') : file' = Rotated(SubSeq(reports', 1, k))
        /\ up' = FALSE
        /\ UNCHANGED <<answered, torn>>

\* The add-on is stopped in append(), at any point of it.
StopInPost ==
    \E n \in 1 .. MaxReports :
        /\ Enter(n) /\ Fault
        /\ \/ file' \in Stopped(file, n) \union {Written(file, n, TRUE)}
           \/ Len(Written(file, n, TRUE)) > MaxLines /\ file' = Rotated(reports')
        /\ torn' = IF Unended(file') /\ file' # file THEN torn + 1 ELSE torn
        /\ up' = FALSE
        /\ UNCHANGED answered

Stop ==
    /\ up /\ Fault
    /\ up' = FALSE
    /\ UNCHANGED <<reports, file, received, answered, torn>>

Start ==
    /\ ~up
    /\ up' = TRUE
    /\ reports' = Load(file)
    /\ UNCHANGED <<file, received, answered, torn, faults>>

LogNext == Start \/ Post \/ PostFails \/ StopInPost \/ Stop

LogSpec == LogInit /\ [][LogNext]_logVars
------------------------------------------------------------------------------
(* Properties. *)

Ids(s) == {s[i] : i \in DOMAIN s}

\* Of the newest Keep reports, those answered that the file has not.
Missing == {n \in answered : n + Keep > received} \ Readable(file)

\* "JSON lines in /data (persistent across add-on restarts)" (server.py:4): of
\* the newest Keep reports, no more answered ones are missing from the file than
\* writes have stopped within a line.  A stopped write costs one report besides
\* its own, the next one, and none through restarts and rotations.
LossBounded == Cardinality(Missing) <= torn

\* A rotation loses nothing that a restart would have loaded, but for what is
\* older than a full memory: what the file has and the memory has not is older.
MemoryCoversFile ==
    up => \A n \in Readable(file) \ Ids(reports) :
              Len(reports) = Keep /\ \A m \in Ids(reports) : n < m
==============================================================================
