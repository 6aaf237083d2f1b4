----------------------------- MODULE Provisioning -----------------------------
(***************************************************************************)
(* The WiFi setup wizard of the firmware (src/src/provisioning.rs,         *)
(* wifi_config.rs, bin/main.rs) and the web app that answers it            *)
(* (src/web/src/wifi.ts), over the two byte streams of a USB serial port.  *)
(*                                                                         *)
(* A line is one value: the web app writes text and CR LF at once and each *)
(* of the wizard's readers takes both.  Of what the wizard prints only the *)
(* texts the web app looks for are kept; a text cut by a chunk counts to   *)
(* the later chunk if the buffer is kept and to the earlier if cleared.    *)
(***************************************************************************)
EXTENDS Naturals, Sequences, Functions

CONSTANTS
    Ssids, Passwords,  \* lines: network names and passwords
    Pairs,             \* credentials a user enters
    EmptyLine, Yes, No,\* other lines
    None,              \* an NVS key that is not set, a variable not yet assigned
    Fifo,              \* name prompts the device's 64-byte FIFO holds, 3
    MaxOut,            \* bound: texts not yet read while the port is open
    MaxRuns,           \* bound: runs of the web app
    MaxOrphans         \* bound: reads that lost to the 5 s timer

\* Neither field of the credentials can be taken for an answer to a question.
ASSUME ProvisioningAssumption ==
    /\ {EmptyLine, Yes, No} \intersect Ssids = {}
    /\ {Yes, No} \intersect Passwords = {} /\ Yes # No /\ EmptyLine \notin {Yes, No}
    /\ None \notin Ssids \union Passwords
    /\ Pairs \subseteq [ssid : Ssids, password : Passwords]
    /\ Fifo \in Nat \ {0} /\ MaxOut \in Nat /\ MaxOut >= Fifo /\ MaxRuns \in Nat /\ MaxOrphans \in Nat

VARIABLES
    dev,       \* what the device waits for, or does
    ssidIn,    \* run_provisioning()'s ssid
    pwdIn,     \* and its password
    nvs,       \* the stored credentials
    torn,      \* history: the two stored values are of different saves
    out,       \* texts from the device, not yet read
    inp,       \* lines to the device, not yet read
    host,      \* runProvisioning()'s state, "off" without a run
    cred,      \* the credentials of the run
    buf,       \* the texts in its buf
    linked,    \* its reader's stream is alive
    orphans,   \* reads pending since a timeout
    runs, entered  \* history: runs so far, the credentials of all of them

device == <<dev, ssidIn, pwdIn, nvs, torn>>
web == <<host, cred, buf, linked, orphans, runs, entered>>
vars == <<dev, ssidIn, pwdIn, nvs, torn, out, inp, host, cred, buf, linked, orphans, runs, entered>>

Lines == Ssids \union Passwords \union {EmptyLine, Yes, No}
Texts == {"ssid?", "password?", "save?", "saved", "error"}
Asking == {"ssid", "password", "confirm", "retry"}
Waiting == {"ssid", "pwd", "confirm", "result"}
Unset == [ssid |-> None, password |-> None]

TypeOK ==
    /\ dev \in Asking \union {"saveSsid", "savePassword", "saved", "failed", "cancelled", "app"}
    /\ ssidIn \in Lines \union {None} /\ pwdIn \in Lines \union {None}
    /\ nvs \in [ssid : Ssids \union {None}, password : Passwords \union {None}]
    /\ torn \in BOOLEAN
    /\ out \in Seq(Texts) /\ Len(out) <= MaxOut
    /\ inp \in Seq(Lines)
    /\ host \in Waiting \union {"off", "done"}
    /\ cred \in Pairs \union {Unset}
    /\ buf \subseteq Texts
    /\ linked \in BOOLEAN /\ orphans \in 0 .. MaxOrphans
    /\ runs \in 0 .. MaxRuns /\ entered \subseteq Pairs

\* The wizard runs at the first boot of an erased board; a board in use was
\* provisioned before and its wizard is entered with the button.
Init ==
    /\ dev = "ssid"
    /\ nvs \in Pairs \union {Unset}
    /\ entered = {nvs} \ {Unset}
    /\ torn = FALSE /\ ssidIn = None /\ pwdIn = None
    /\ out = <<"ssid?">> /\ inp = <<>>
    /\ host = "off" /\ cred = Unset
    /\ buf = {} /\ linked = FALSE /\ orphans = 0 /\ runs = 0
------------------------------------------------------------------------------
(* The firmware. *)

\* What the FIFO holds: a summary or report with what it follows is too long.
InFifo(texts) ==
    /\ Len(texts) <= Fifo
    /\ \A i \in 2 .. Len(texts) : texts[i] \in {"ssid?", "password?"}

\* write_str(): blocks until the FIFO takes the text; an open port empties it
\* into the computer's memory, and there MaxOut is a bound of the model only.
WriteStr(text) ==
    /\ out' = Append(out, text)
    /\ IF linked THEN Len(out') <= MaxOut ELSE InFifo(out')

ReadLine(asked) == dev = asked /\ inp # <<>> /\ inp' = Tail(inp)

\* The prompt is repeated after 2 s without a byte.
Beacon ==
    /\ dev = "ssid" /\ inp = <<>>
    /\ WriteStr("ssid?")
    /\ UNCHANGED <<device, inp, web>>

\* An empty name is refused and the prompt printed again.
ReadSsid ==
    /\ ReadLine("ssid")
    /\ ssidIn' = Head(inp)
    /\ IF Head(inp) = EmptyLine
       THEN dev' = "ssid" /\ WriteStr("ssid?")
       ELSE dev' = "password" /\ WriteStr("password?")
    /\ UNCHANGED <<pwdIn, nvs, torn, web>>

ReadPassword ==
    /\ ReadLine("password")
    /\ pwdIn' = Head(inp)
    /\ dev' = "confirm" /\ WriteStr("save?")
    /\ UNCHANGED <<ssidIn, nvs, torn, web>>

\* Mutant: what is not a refusal counts as consent.
ReadConfirmUnlessNo ==
    /\ ReadLine("confirm")
    /\ dev' = IF Head(inp) = No THEN "retry" ELSE "saveSsid"
    /\ UNCHANGED <<ssidIn, pwdIn, nvs, torn, out, web>>

ReadConfirm ==
    /\ ReadLine("confirm")
    /\ dev' = IF Head(inp) = Yes THEN "saveSsid" ELSE "retry"
    /\ UNCHANGED <<ssidIn, pwdIn, nvs, torn, out, web>>

ReadRetry ==
    /\ ReadLine("retry")
    /\ IF Head(inp) = No
       THEN dev' = "cancelled" /\ UNCHANGED out
       ELSE dev' = "ssid" /\ WriteStr("ssid?")
    /\ UNCHANGED <<ssidIn, pwdIn, nvs, torn, web>>

\* Mutants: swapped arguments, and an error that is not propagated.
SavePasswordAsSsid ==
    /\ dev = "saveSsid"
    /\ nvs' = [nvs EXCEPT !.ssid = pwdIn]
    /\ dev' = "savePassword"
    /\ UNCHANGED <<torn, ssidIn, pwdIn, out, inp, web>>

SavePasswordOrNot ==
    /\ dev = "savePassword"
    /\ nvs' \in {nvs, [nvs EXCEPT !.password = pwdIn]}
    /\ torn' = FALSE
    /\ dev' = "saved" /\ WriteStr("saved")
    /\ UNCHANGED <<ssidIn, pwdIn, inp, web>>

\* save_credentials(): the two values are two writes.
SaveSsid ==
    /\ dev = "saveSsid"
    /\ nvs' = [nvs EXCEPT !.ssid = ssidIn]
    /\ torn' = (nvs.password # None)
    /\ dev' = "savePassword"
    /\ UNCHANGED <<ssidIn, pwdIn, out, inp, web>>

SavePassword ==
    /\ dev = "savePassword"
    /\ nvs' = [nvs EXCEPT !.password = pwdIn]
    /\ torn' = FALSE
    /\ dev' = "saved" /\ WriteStr("saved")
    /\ UNCHANGED <<ssidIn, pwdIn, inp, web>>

\* Opening NVS or either write fails.
SaveFails ==
    /\ dev \in {"saveSsid", "savePassword"}
    /\ dev' = "failed" /\ WriteStr("error")
    /\ UNCHANGED <<ssidIn, pwdIn, nvs, torn, inp, web>>

\* Mutant: a missing password is read as an empty one.
SsidStored(readable) == readable /\ nvs.ssid # None

\* get_wifi_credentials(): whatever cannot be read counts as missing.
Stored(readable) == readable /\ nvs.ssid # None /\ nvs.password # None

\* main() up to the wizard or the tasks.  USB enumerates anew.
Boot(button, readable) ==
    /\ dev' = IF button \/ ~Stored(readable) THEN "ssid" ELSE "app"
    /\ out' = IF dev' = "ssid" THEN <<"ssid?">> ELSE <<>>
    /\ inp' = <<>>
    /\ ssidIn' = None /\ pwdIn' = None
    /\ linked' = FALSE
    /\ UNCHANGED <<nvs, torn, host, cred, buf, orphans, runs, entered>>

Reboot == dev \in {"saved", "failed", "cancelled"} /\ \E b, r \in BOOLEAN : Boot(b, r)

\* The reset button, or the plug.
Reset == dev \notin {"saved", "failed", "cancelled"} /\ \E b, r \in BOOLEAN : Boot(b, r)
------------------------------------------------------------------------------
(* The web app. *)

\* A click, at any time: texts and lines of an earlier run may be under way.
StartRun(c) ==
    /\ host = "off" /\ runs < MaxRuns
    /\ host' = "ssid" /\ cred' = c
    /\ linked' = TRUE /\ buf' = {} /\ orphans' = 0
    /\ runs' = runs + 1 /\ entered' = entered \union {c}
    /\ UNCHANGED <<device, out, inp>>

\* A read brings the first n texts.
Chunk(n) ==
    /\ linked /\ orphans = 0
    /\ out' = SubSeq(out, n + 1, Len(out))
    /\ UNCHANGED <<device, cred, linked, orphans, runs, entered>>

Received(n) == buf \union Range(SubSeq(out, 1, n))

Answer(line, next) == inp' = Append(inp, line) /\ host' = next /\ buf' = {}

\* A prompt in state pwd makes it send the name again.
SendSsid(n) ==
    /\ host \in {"ssid", "pwd"} /\ "ssid?" \in Received(n)
    /\ Answer(cred.ssid, "pwd")
    /\ Chunk(n)

SendPassword(n) ==
    /\ host = "pwd" /\ "password?" \in Received(n) /\ "ssid?" \notin Received(n)
    /\ Answer(cred.password, "confirm")
    /\ Chunk(n)

SendYes(n) ==
    /\ host = "confirm" /\ "save?" \in Received(n)
    /\ Answer(Yes, "result")
    /\ Chunk(n)

Succeed(n) ==
    /\ host = "result" /\ "saved" \in Received(n)
    /\ host' = "done" /\ buf' = Received(n)
    /\ UNCHANGED inp
    /\ Chunk(n)

StartOver(n) ==
    /\ host = "result" /\ "error" \in Received(n) /\ "saved" \notin Received(n)
    /\ host' = "ssid" /\ buf' = {}
    /\ UNCHANGED inp
    /\ Chunk(n)

Awaited == [ssid |-> {"ssid?"}, pwd |-> {"ssid?", "password?"}, confirm |-> {"save?"},
            result |-> {"saved", "error"}]

KeepReading(n) ==
    /\ host \in Waiting /\ Awaited[host] \intersect Received(n) = {}
    /\ buf' = Received(n)
    /\ UNCHANGED <<host, inp>>
    /\ Chunk(n)

\* 5 s of silence: the race is lost but the read stays pending.  At its prompt
\* the device prints every 2 s.
ReadTimesOut ==
    /\ host \in Waiting /\ linked /\ out = <<>> /\ dev # "ssid" /\ orphans < MaxOrphans
    /\ orphans' = orphans + 1
    /\ UNCHANGED <<device, out, inp, host, cred, buf, linked, runs, entered>>

\* What comes next goes to the read nobody waits for.
LoseChunk(n) ==
    /\ host \in Waiting /\ linked /\ orphans > 0
    /\ out' = SubSeq(out, n + 1, Len(out))
    /\ orphans' = orphans - 1
    /\ UNCHANGED <<device, inp, host, cred, buf, linked, runs, entered>>

\* The stream ended with the device's reset; the run keeps its state.
Reopen ==
    /\ host \in Waiting /\ ~linked
    /\ linked' = TRUE /\ buf' = {} /\ orphans' = 0
    /\ UNCHANGED <<device, out, inp, host, cred, runs, entered>>

\* Success, the 2 min deadline, a port that cannot be opened again, or the user
\* leaves.  Closing the port drops what the computer had read ahead.
EndRun ==
    /\ host # "off"
    /\ \E n \in 0 .. Len(out) : out' = SubSeq(out, n + 1, Len(out)) /\ InFifo(out')
    /\ host' = "off" /\ linked' = FALSE /\ buf' = {} /\ orphans' = 0
    /\ UNCHANGED <<device, inp, cred, runs, entered>>

\* Someone at a terminal answers the question a run left open.
AnswerRetry(line) ==
    /\ host = "off" /\ dev = "retry" /\ inp = <<>>
    /\ inp' = <<line>>
    /\ UNCHANGED <<device, out, web>>

Next ==
    \/ Beacon \/ ReadSsid \/ ReadPassword \/ ReadConfirm \/ ReadRetry
    \/ SaveSsid \/ SavePassword \/ SaveFails \/ Reboot \/ Reset
    \/ \E c \in Pairs : StartRun(c)
    \/ \E n \in DOMAIN out :
          \/ SendSsid(n) \/ SendPassword(n) \/ SendYes(n) \/ Succeed(n) \/ StartOver(n)
          \/ KeepReading(n) \/ LoseChunk(n)
    \/ ReadTimesOut \/ Reopen \/ EndRun
    \/ \E line \in {Yes, No} : AnswerRetry(line)

Spec == Init /\ [][Next]_vars
------------------------------------------------------------------------------
(* Properties. *)

\* However prompts and answers cross, and a name is sent twice or a run given
\* up between two lines, what the wizard saves was entered as one pair.
SavedAsEntered ==
    dev \in {"saveSsid", "savePassword"} => [ssid |-> ssidIn, password |-> pwdIn] \in entered

\* "WiFi configured!" (wifi.ts:290) is said only when both writes of
\* save_credentials() are done: the board holds a pair that was entered, and
\* waits to reboot with it.  Not a text of a boot before, nor of a save that
\* failed, nor one of the two writes is ever taken for success.
SuccessAfterSave ==
    [][host # "done" /\ host' = "done" => dev = "saved" /\ nvs \in entered /\ ~torn]_vars

\* The board leaves the wizard for its tasks only with a pair that was entered
\* together, unless a save over an older pair stopped between its two writes.
AppPaired == dev = "app" /\ ~torn => nvs \in entered

\* "Provisioning will resume automatically on the next boot" (provisioning.rs:100).
ResumesAfterError == [][dev = "failed" => dev' \in {"failed", "ssid"}]_vars
==============================================================================
