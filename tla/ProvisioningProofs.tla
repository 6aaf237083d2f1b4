-------------------------- MODULE ProvisioningProofs --------------------------
(***************************************************************************)
(* Theorems about Provisioning, for any credentials, FIFO and bounds.      *)
(*                                                                         *)
(* The wizard saves on Yes, and only a run that has just sent a name and   *)
(* its password sends one.  So it is enough to look at what each Yes comes *)
(* after: the lines yet unread, and before them the answers the wizard     *)
(* holds.  A reset drops both.  When prompts are sent does not matter.     *)
(***************************************************************************)
EXTENDS Provisioning, SequenceTheorems, TLAPS

Pair(s, p) == [ssid |-> s, password |-> p] \in entered

\* A Yes that the wizard may come to take for its confirmation follows a pair.
UnreadFollows ==
    \A i \in DOMAIN inp : i >= 3 /\ inp[i] = Yes => Pair(inp[i - 2], inp[i - 1])

YesFollowsPair ==
    /\ UnreadFollows
    /\ dev = "password" /\ Len(inp) >= 2 /\ inp[2] = Yes => Pair(ssidIn, inp[1])
    /\ dev = "confirm" /\ Len(inp) >= 1 /\ inp[1] = Yes => Pair(ssidIn, pwdIn)

\* What the run has sent so far is still the last thing on its way.
SentName ==
    host = "pwd" =>
        /\ Len(inp) >= 1 => inp[Len(inp)] = cred.ssid
        /\ Len(inp) = 0 /\ dev = "password" => ssidIn = cred.ssid

SentPair ==
    host = "confirm" =>
        /\ Len(inp) >= 1 => inp[Len(inp)] = cred.password
        /\ Len(inp) >= 2 => inp[Len(inp) - 1] = cred.ssid
        /\ Len(inp) = 1 /\ dev = "password" => ssidIn = cred.ssid
        /\ Len(inp) = 0 /\ dev = "confirm" => ssidIn = cred.ssid /\ pwdIn = cred.password

LineInv ==
    /\ host \in Waiting => cred \in entered
    /\ YesFollowsPair /\ SentName /\ SentPair

\* The two writes: the stored values are of one pair unless torn.
NvsInv ==
    /\ dev = "savePassword" => nvs.ssid = ssidIn
    /\ dev = "app" => nvs.ssid # None /\ nvs.password # None
    /\ ~torn /\ nvs.ssid # None /\ nvs.password # None => nvs \in entered

IInv == TypeOK /\ LineInv /\ SavedAsEntered /\ NvsInv
------------------------------------------------------------------------------
(* Texts under way. *)

LEMMA Constants ==
    /\ Yes # No /\ Yes # EmptyLine
    /\ None \notin Ssids /\ None \notin Passwords
    /\ Yes \notin Ssids /\ Yes \notin Passwords
    /\ Fifo \in Nat \ {0} /\ MaxOut \in Nat /\ MaxOut >= Fifo
    /\ MaxRuns \in Nat /\ MaxOrphans \in Nat
    /\ \A c \in Pairs : /\ c \in [ssid : Ssids, password : Passwords]
                        /\ c.ssid \in Ssids /\ c.password \in Passwords
                        /\ c = [ssid |-> c.ssid, password |-> c.password]
                        /\ c # Unset
PROOF
<1>1. \A c \in [ssid : Ssids, password : Passwords] :
         /\ c.ssid \in Ssids /\ c.password \in Passwords
         /\ c = [ssid |-> c.ssid, password |-> c.password]
  OBVIOUS
<1>2. None \notin Ssids /\ None \notin Passwords
  BY ProvisioningAssumption
<1>3. \A c \in [ssid : Ssids, password : Passwords] : c # Unset
  BY <1>1, <1>2 DEF Unset
<1> QED
  BY <1>1, <1>2, <1>3, ProvisioningAssumption

LEMMA WriteTyped ==
    ASSUME TypeOK, NEW text \in Texts, WriteStr(text)
    PROVE  out' \in Seq(Texts) /\ Len(out') <= MaxOut
PROOF
<1>1. out \in Seq(Texts)
  BY DEF TypeOK
<1>2. out' \in Seq(Texts)
  BY <1>1, AppendProperties DEF WriteStr
<1>3. Len(out') \in Nat
  BY <1>2
<1>4. Len(out') <= MaxOut
  BY <1>3, Constants DEF WriteStr, InFifo
<1> QED
  BY <1>2, <1>4

LEMMA DropTyped ==
    ASSUME out \in Seq(Texts), Len(out) <= MaxOut, NEW n \in 0 .. Len(out)
    PROVE  /\ SubSeq(out, n + 1, Len(out)) \in Seq(Texts)
           /\ Len(SubSeq(out, n + 1, Len(out))) <= MaxOut
PROOF
<1> DEFINE rest == SubSeq(out, n + 1, Len(out))
<1>1. Len(out) \in Nat /\ n \in Nat /\ n <= Len(out) /\ MaxOut \in Nat
  BY Constants
<1>2. \A i \in n + 1 .. Len(out) : out[i] \in Texts
  BY <1>1, ElementOfSeq
<1>3. rest \in Seq(Texts) /\ Len(rest) = IF n + 1 <= Len(out) THEN Len(out) - (n + 1) + 1 ELSE 0
  BY <1>1, <1>2, SubSeqProperties
<1> HIDE DEF rest
<1>4. Len(rest) <= MaxOut
  BY <1>1, <1>3
<1> QED
  BY <1>3, <1>4 DEF rest

LEMMA ReceivedTyped ==
    ASSUME TypeOK, NEW n \in DOMAIN out
    PROVE  Received(n) \subseteq Texts
PROOF
<1>1. out \in Seq(Texts) /\ buf \subseteq Texts
  BY DEF TypeOK
<1>2. n \in Nat /\ n <= Len(out) /\ Len(out) \in Nat
  BY <1>1
<1>3. \A i \in 1 .. n : out[i] \in Texts
  BY <1>1, <1>2, ElementOfSeq
<1>4. SubSeq(out, 1, n) \in Seq(Texts)
  BY <1>2, <1>3, SubSeqProperties
<1>5. Range(SubSeq(out, 1, n)) \subseteq Texts
  BY <1>4, RangeOfSeq
<1> QED
  BY <1>1, <1>5 DEF Received
------------------------------------------------------------------------------
(* Lines under way. *)

\* The wizard takes the first line.
LEMMA ReadLines ==
    ASSUME NEW s \in Seq(Lines), s # <<>>
    PROVE  /\ Head(s) = s[1] /\ Head(s) \in Lines /\ Tail(s) \in Seq(Lines)
           /\ Len(s) \in Nat /\ Len(s) >= 1 /\ Len(Tail(s)) = Len(s) - 1
           /\ DOMAIN s = 1 .. Len(s) /\ DOMAIN Tail(s) = 1 .. Len(s) - 1
           /\ \A i \in 1 .. Len(s) - 1 : Tail(s)[i] = s[i + 1]
PROOF
<1>1. Len(s) \in Nat /\ Len(s) >= 1 /\ DOMAIN s = 1 .. Len(s)
  BY EmptySeq, LenProperties
<1>2. /\ Tail(s) \in Seq(Lines) /\ Len(Tail(s)) = Len(s) - 1
      /\ Head(s) \in Lines
      /\ \A i \in 1 .. Len(Tail(s)) : Tail(s)[i] = s[i + 1]
  BY HeadTailProperties
<1>3. Head(s) = s[1]
  OBVIOUS
<1> QED
  BY <1>1, <1>2, <1>3, LenProperties

\* What stays unread still follows.
LEMMA RestFollows ==
    ASSUME inp \in Seq(Lines), inp # <<>>, inp' = Tail(inp), UNCHANGED entered, UnreadFollows
    PROVE  UnreadFollows'
PROOF
<1>1. /\ Len(inp) \in Nat /\ DOMAIN inp = 1 .. Len(inp) /\ DOMAIN inp' = 1 .. Len(inp) - 1
      /\ \A i \in 1 .. Len(inp) - 1 : inp'[i] = inp[i + 1]
  BY ReadLines
<1> SUFFICES ASSUME NEW i \in DOMAIN inp', i >= 3, inp'[i] = Yes
             PROVE  [ssid |-> inp'[i - 2], password |-> inp'[i - 1]] \in entered'
  BY DEF UnreadFollows, Pair
<1>2. i \in Int /\ i + 1 \in DOMAIN inp /\ inp[i + 1] = Yes /\ i + 1 >= 3
  BY <1>1
<1>3. Pair(inp[(i + 1) - 2], inp[(i + 1) - 1])
  BY <1>2 DEF UnreadFollows
<1>4. inp'[i - 2] = inp[(i + 1) - 2] /\ inp'[i - 1] = inp[(i + 1) - 1]
  BY <1>1
<1> QED
  BY <1>3, <1>4 DEF Pair

\* The web app adds a line.
LEMMA SendLine ==
    ASSUME NEW s \in Seq(Lines), NEW l \in Lines
    PROVE  /\ Append(s, l) \in Seq(Lines) /\ Len(s) \in Nat
           /\ Len(Append(s, l)) = Len(s) + 1
           /\ DOMAIN Append(s, l) = 1 .. Len(s) + 1 /\ DOMAIN s = 1 .. Len(s)
           /\ \A i \in 1 .. Len(s) : Append(s, l)[i] = s[i]
           /\ Append(s, l)[Len(s) + 1] = l
PROOF
  BY AppendProperties, LenProperties
------------------------------------------------------------------------------
LEMMA InvInit == Init => IInv
PROOF
<1> SUFFICES ASSUME Init PROVE IInv
  OBVIOUS
<1>1. nvs \in [ssid : Ssids \union {None}, password : Passwords \union {None}]
  BY Constants DEF Init, Unset
<1>2. out \in Seq(Texts) /\ Len(out) <= MaxOut
  BY Constants DEF Init, Texts
<1>3. inp \in Seq(Lines) /\ Len(inp) = 0 /\ DOMAIN inp = {}
  BY DEF Init
<1>4. TypeOK
  <2>1. cred \in Pairs \union {Unset} /\ entered \subseteq Pairs
    BY DEF Init
  <2>2. 0 \in 0 .. MaxOrphans /\ 0 \in 0 .. MaxRuns
    BY Constants
  <2> QED
    BY <1>1, <1>2, <1>3, <2>1, <2>2 DEF Init, TypeOK, Asking
<1>5. LineInv
  BY <1>3 DEF Init, LineInv, YesFollowsPair, UnreadFollows, SentName, SentPair, Waiting
<1>6. NvsInv
  BY Constants DEF Init, NvsInv, Unset
<1> QED
  BY <1>4, <1>5, <1>6 DEF IInv, SavedAsEntered, Init

\* The wizard reads a line: what it held and what it read stay in order.
LEMMA ReadNameStep == IInv /\ ReadSsid => IInv'
PROOF
<1> SUFFICES ASSUME IInv, ReadSsid PROVE IInv'
  OBVIOUS
<1>1. inp \in Seq(Lines) /\ inp # <<>> /\ inp' = Tail(inp) /\ dev = "ssid" /\ ssidIn' = Head(inp)
  BY DEF IInv, TypeOK, ReadSsid, ReadLine
<1>2. /\ Head(inp) = inp[1] /\ Head(inp) \in Lines /\ inp' \in Seq(Lines)
      /\ Len(inp) \in Nat /\ Len(inp) >= 1 /\ Len(inp') = Len(inp) - 1
      /\ DOMAIN inp = 1 .. Len(inp) /\ DOMAIN inp' = 1 .. Len(inp) - 1
      /\ \A i \in 1 .. Len(inp) - 1 : inp'[i] = inp[i + 1]
  BY <1>1, ReadLines
<1>3. /\ dev' \in {"ssid", "password"}
      /\ UNCHANGED <<pwdIn, nvs, torn, host, cred, buf, linked, orphans, runs, entered>>
      /\ WriteStr("ssid?") \/ WriteStr("password?")
  BY DEF ReadSsid, web
<1>4. TypeOK'
  <2>1. out' \in Seq(Texts) /\ Len(out') <= MaxOut
    BY <1>3, WriteTyped DEF IInv, Texts
  <2> QED
    BY <2>1, <1>1, <1>2, <1>3 DEF IInv, TypeOK, Asking
<1>5. LineInv'
  <2>1. UnreadFollows'
    BY <1>1, <1>3, RestFollows DEF IInv, LineInv, YesFollowsPair
  <2>2. ASSUME Len(inp') >= 2, inp'[2] = Yes PROVE Pair(inp[1], inp[2]) /\ inp'[1] = inp[2]
    <3>1. 3 \in DOMAIN inp /\ inp[3] = Yes /\ inp'[1] = inp[2]
      BY <1>2, <2>2
    <3>2. \A i \in DOMAIN inp : i >= 3 /\ inp[i] = Yes => Pair(inp[i - 2], inp[i - 1])
      BY DEF IInv, LineInv, YesFollowsPair, UnreadFollows
    <3>3. Pair(inp[3 - 2], inp[3 - 1])
      BY <3>1, <3>2
    <3> QED
      BY <3>1, <3>3
  <2>3. YesFollowsPair'
    BY <1>1, <1>2, <1>3, <2>1, <2>2 DEF YesFollowsPair, Pair
  <2>4. SentName'
    BY <1>1, <1>2, <1>3 DEF IInv, LineInv, SentName
  <2>5. SentPair'
    BY <1>1, <1>2, <1>3 DEF IInv, LineInv, SentPair
  <2> QED
    BY <2>3, <2>4, <2>5, <1>3 DEF IInv, LineInv
<1> QED
  BY <1>3, <1>4, <1>5 DEF IInv, SavedAsEntered, NvsInv

LEMMA ReadPasswordStep == IInv /\ ReadPassword => IInv'
PROOF
<1> SUFFICES ASSUME IInv, ReadPassword PROVE IInv'
  OBVIOUS
<1>1. inp \in Seq(Lines) /\ inp # <<>> /\ inp' = Tail(inp) /\ dev = "password" /\ pwdIn' = Head(inp)
  BY DEF IInv, TypeOK, ReadPassword, ReadLine
<1>2. /\ Head(inp) = inp[1] /\ Head(inp) \in Lines /\ inp' \in Seq(Lines)
      /\ Len(inp) \in Nat /\ Len(inp) >= 1 /\ Len(inp') = Len(inp) - 1
      /\ DOMAIN inp = 1 .. Len(inp) /\ DOMAIN inp' = 1 .. Len(inp) - 1
      /\ \A i \in 1 .. Len(inp) - 1 : inp'[i] = inp[i + 1]
  BY <1>1, ReadLines
<1>3. /\ dev' = "confirm" /\ WriteStr("save?")
      /\ UNCHANGED <<ssidIn, nvs, torn, host, cred, buf, linked, orphans, runs, entered>>
  BY DEF ReadPassword, web
<1>4. TypeOK'
  <2>1. out' \in Seq(Texts) /\ Len(out') <= MaxOut
    BY <1>3, WriteTyped DEF IInv, Texts
  <2> QED
    BY <2>1, <1>1, <1>2, <1>3 DEF IInv, TypeOK, Asking
<1>5. LineInv'
  <2>1. UnreadFollows'
    BY <1>1, <1>3, RestFollows DEF IInv, LineInv, YesFollowsPair
  <2>2. ASSUME Len(inp') >= 1, inp'[1] = Yes PROVE Pair(ssidIn, inp[1])
    <3>1. Len(inp) >= 2 /\ inp[2] = Yes
      BY <1>2, <2>2
    <3> QED
      BY <1>1, <3>1 DEF IInv, LineInv, YesFollowsPair
  <2>3. YesFollowsPair'
    BY <1>1, <1>2, <1>3, <2>1, <2>2 DEF YesFollowsPair, Pair
  <2>4. SentName'
    BY <1>1, <1>2, <1>3 DEF IInv, LineInv, SentName
  <2>5. SentPair'
    BY <1>1, <1>2, <1>3 DEF IInv, LineInv, SentPair
  <2> QED
    BY <2>3, <2>4, <2>5, <1>3 DEF IInv, LineInv
<1> QED
  BY <1>3, <1>4, <1>5 DEF IInv, SavedAsEntered, NvsInv

LEMMA ReadAnswerStep == IInv /\ (ReadConfirm \/ ReadRetry) => IInv'
PROOF
<1> SUFFICES ASSUME IInv, ReadConfirm \/ ReadRetry PROVE IInv'
  OBVIOUS
<1>1. inp \in Seq(Lines) /\ inp # <<>> /\ inp' = Tail(inp) /\ dev \in {"confirm", "retry"}
  BY DEF IInv, TypeOK, ReadConfirm, ReadRetry, ReadLine
<1>2. /\ Head(inp) = inp[1] /\ inp' \in Seq(Lines)
      /\ Len(inp) \in Nat /\ Len(inp) >= 1 /\ Len(inp') = Len(inp) - 1
      /\ DOMAIN inp = 1 .. Len(inp) /\ DOMAIN inp' = 1 .. Len(inp) - 1
      /\ \A i \in 1 .. Len(inp) - 1 : inp'[i] = inp[i + 1]
  BY <1>1, ReadLines
<1>3. /\ dev' \in {"saveSsid", "retry", "cancelled", "ssid"}
      /\ UNCHANGED <<ssidIn, pwdIn, nvs, torn, host, cred, buf, linked, orphans, runs, entered>>
      /\ UNCHANGED out \/ WriteStr("ssid?")
      /\ dev' = "saveSsid" => dev = "confirm" /\ Head(inp) = Yes
  BY DEF ReadConfirm, ReadRetry, ReadLine, web
<1>4. TypeOK'
  <2>1. out' \in Seq(Texts) /\ Len(out') <= MaxOut
    <3>1. CASE UNCHANGED out
      BY <3>1 DEF IInv, TypeOK
    <3>2. CASE WriteStr("ssid?")
      BY <3>2, WriteTyped DEF IInv, Texts
    <3> QED
      BY <3>1, <3>2, <1>3
  <2> QED
    BY <2>1, <1>1, <1>2, <1>3 DEF IInv, TypeOK, Asking
<1>5. LineInv'
  <2>1. UnreadFollows'
    BY <1>1, <1>3, RestFollows DEF IInv, LineInv, YesFollowsPair
  <2>3. YesFollowsPair'
    BY <1>3, <2>1 DEF YesFollowsPair
  <2>4. SentName'
    BY <1>1, <1>2, <1>3 DEF IInv, LineInv, SentName
  <2>5. SentPair'
    BY <1>1, <1>2, <1>3 DEF IInv, LineInv, SentPair
  <2> QED
    BY <2>3, <2>4, <2>5, <1>3 DEF IInv, LineInv
<1>6. dev' = "saveSsid" => Pair(ssidIn, pwdIn)
  BY <1>2, <1>3 DEF IInv, LineInv, YesFollowsPair
<1>7. SavedAsEntered'
  BY <1>3, <1>6 DEF SavedAsEntered, Pair
<1> QED
  BY <1>3, <1>4, <1>5, <1>7 DEF IInv, NvsInv

\* The two writes of a save, and one that fails.
LEMMA SaveStep == IInv /\ (SaveSsid \/ SavePassword \/ SaveFails) => IInv'
PROOF
<1> SUFFICES ASSUME IInv, SaveSsid \/ SavePassword \/ SaveFails PROVE IInv'
  OBVIOUS
<1>1. /\ UNCHANGED <<ssidIn, pwdIn, inp, host, cred, buf, linked, orphans, runs, entered>>
      /\ dev' \in {"savePassword", "saved", "failed"} /\ dev \in {"saveSsid", "savePassword"}
      /\ UNCHANGED out \/ WriteStr("saved") \/ WriteStr("error")
  BY DEF SaveSsid, SavePassword, SaveFails, web
<1>2. Pair(ssidIn, pwdIn) /\ ssidIn \in Ssids /\ pwdIn \in Passwords
  <2>1. [ssid |-> ssidIn, password |-> pwdIn] \in entered
    BY <1>1 DEF IInv, SavedAsEntered
  <2>2. [ssid |-> ssidIn, password |-> pwdIn] \in Pairs
    BY <2>1 DEF IInv, TypeOK
  <2>3. [ssid |-> ssidIn, password |-> pwdIn].ssid \in Ssids
        /\ [ssid |-> ssidIn, password |-> pwdIn].password \in Passwords
    BY <2>2, Constants
  <2> QED
    BY <2>1, <2>3 DEF Pair
<1>3. nvs \in [ssid : Ssids \union {None}, password : Passwords \union {None}] /\ torn \in BOOLEAN
  BY DEF IInv, TypeOK
<1>4. /\ nvs' \in [ssid : Ssids \union {None}, password : Passwords \union {None}] /\ torn' \in BOOLEAN
      /\ NvsInv'
  <2>1. CASE SaveSsid
    <3>1. nvs' = [nvs EXCEPT !.ssid = ssidIn] /\ torn' = (nvs.password # None) /\ dev' = "savePassword"
      BY <2>1 DEF SaveSsid
    <3>2. nvs'.ssid = ssidIn /\ nvs'.password = nvs.password
          /\ nvs' \in [ssid : Ssids \union {None}, password : Passwords \union {None}]
      BY <1>2, <1>3, <3>1
    <3> QED
      BY <1>1, <3>1, <3>2 DEF NvsInv
  <2>2. CASE SavePassword
    <3>1. nvs' = [nvs EXCEPT !.password = pwdIn] /\ torn' = FALSE /\ dev' = "saved" /\ nvs.ssid = ssidIn
      BY <2>2 DEF SavePassword, IInv, NvsInv
    <3>2. nvs' = [ssid |-> ssidIn, password |-> pwdIn]
          /\ nvs' \in [ssid : Ssids \union {None}, password : Passwords \union {None}]
      BY <1>2, <1>3, <3>1
    <3>3. nvs' \in entered'
      BY <1>1, <1>2, <3>2 DEF Pair
    <3> QED
      BY <3>1, <3>2, <3>3 DEF NvsInv
  <2>3. CASE SaveFails
    BY <2>3, <1>1, <1>3 DEF SaveFails, IInv, NvsInv
  <2> QED
    BY <2>1, <2>2, <2>3
<1>5. TypeOK'
  <2>1. out' \in Seq(Texts) /\ Len(out') <= MaxOut
    <3>1. CASE UNCHANGED out
      BY <3>1 DEF IInv, TypeOK
    <3>2. CASE WriteStr("saved") \/ WriteStr("error")
      BY <3>2, WriteTyped DEF IInv, Texts
    <3> QED
      BY <3>1, <3>2, <1>1
  <2> QED
    BY <2>1, <1>1, <1>4 DEF IInv, TypeOK
<1>6. LineInv'
  BY <1>1 DEF IInv, LineInv, YesFollowsPair, UnreadFollows, SentName, SentPair, Pair
<1>7. SavedAsEntered'
  BY <1>1, <1>2 DEF SavedAsEntered, Pair
<1> QED
  BY <1>4, <1>5, <1>6, <1>7 DEF IInv

\* A boot drops what was read and what was not.
LEMMA BootStep == ASSUME IInv, NEW b \in BOOLEAN, NEW r \in BOOLEAN, Boot(b, r) PROVE IInv'
PROOF
<1>1. /\ dev' \in {"ssid", "app"} /\ inp' = <<>> /\ ssidIn' = None /\ pwdIn' = None /\ linked' = FALSE
      /\ out' \in {<<"ssid?">>, <<>>}
      /\ dev' = "app" => nvs.ssid # None /\ nvs.password # None
      /\ UNCHANGED <<nvs, torn, host, cred, buf, orphans, runs, entered>>
  BY DEF Boot, Stored
<1>2. out' \in Seq(Texts) /\ Len(out') <= MaxOut
  <2>1. MaxOut \in Nat /\ 1 <= MaxOut
    BY Constants
  <2>2. "ssid?" \in Texts
    BY DEF Texts
  <2>3. CASE out' = <<>>
    BY <2>1, <2>3
  <2>4. CASE out' = <<"ssid?">>
    BY <2>1, <2>2, <2>4
  <2> QED
    BY <1>1, <2>3, <2>4
<1>3. inp' \in Seq(Lines) /\ Len(inp') = 0 /\ DOMAIN inp' = {}
  BY <1>1
<1>4. TypeOK'
  BY <1>1, <1>2, <1>3 DEF IInv, TypeOK, Asking
<1>5. LineInv'
  BY <1>1, <1>3 DEF IInv, LineInv, YesFollowsPair, UnreadFollows, SentName, SentPair
<1> QED
  BY <1>1, <1>4, <1>5 DEF IInv, SavedAsEntered, NvsInv
------------------------------------------------------------------------------
(* The web app. *)

LEMMA StartRunStep == ASSUME IInv, NEW c \in Pairs, StartRun(c) PROVE IInv'
PROOF
<1>1. /\ UNCHANGED <<dev, ssidIn, pwdIn, nvs, torn, out, inp>>
      /\ host' = "ssid" /\ cred' = c /\ linked' = TRUE /\ buf' = {} /\ orphans' = 0
      /\ runs' = runs + 1 /\ runs < MaxRuns /\ entered' = entered \union {c}
  BY DEF StartRun, device
<1>2. TypeOK'
  BY <1>1, Constants DEF IInv, TypeOK, Waiting
<1>3. LineInv'
  BY <1>1 DEF IInv, LineInv, YesFollowsPair, UnreadFollows, SentName, SentPair, Pair
<1> QED
  BY <1>1, <1>2, <1>3 DEF IInv, SavedAsEntered, NvsInv

\* A read that answers nothing.
LEMMA QuietStep ==
    ASSUME IInv, out' \in Seq(Texts), Len(out') <= MaxOut,
           host' \in {host, "ssid", "done", "off"}, host' \in Waiting => host \in Waiting,
           buf' \subseteq Texts, linked' \in BOOLEAN, orphans' \in 0 .. MaxOrphans,
           UNCHANGED <<dev, ssidIn, pwdIn, nvs, torn, inp, cred, runs, entered>>
    PROVE  IInv'
PROOF
<1>1. TypeOK'
  BY DEF IInv, TypeOK, Waiting
<1>2. LineInv'
  BY DEF IInv, LineInv, YesFollowsPair, UnreadFollows, SentName, SentPair, Pair, Waiting
<1> QED
  BY <1>1, <1>2 DEF IInv, SavedAsEntered, NvsInv

\* A line is sent after what the run sent before it.
LEMMA AnswerStep ==
    ASSUME IInv, NEW n \in DOMAIN out, Chunk(n),
           \/ host \in {"ssid", "pwd"} /\ Answer(cred.ssid, "pwd")
           \/ host = "pwd" /\ Answer(cred.password, "confirm")
           \/ host = "confirm" /\ Answer(Yes, "result")
    PROVE  IInv'
PROOF
<1>1. PICK l \in Lines :
         /\ inp' = Append(inp, l) /\ buf' = {}
         /\ \/ host' = "pwd" /\ l = cred.ssid /\ l # Yes
            \/ host = "pwd" /\ host' = "confirm" /\ l = cred.password /\ l # Yes
            \/ host = "confirm" /\ host' = "result"
  <2>1. cred \in Pairs
    BY DEF IInv, TypeOK, LineInv, Waiting
  <2>2. cred.ssid \in Ssids /\ cred.password \in Passwords
    BY <2>1, Constants
  <2> QED
    BY <2>2, Constants DEF Answer, Lines
<1>2. /\ inp \in Seq(Lines) /\ inp' \in Seq(Lines) /\ Len(inp) \in Nat
      /\ Len(inp') = Len(inp) + 1
      /\ DOMAIN inp' = 1 .. Len(inp) + 1 /\ DOMAIN inp = 1 .. Len(inp)
      /\ \A i \in 1 .. Len(inp) : inp'[i] = inp[i]
      /\ inp'[Len(inp) + 1] = l
  <2>1. inp \in Seq(Lines)
    BY DEF IInv, TypeOK
  <2> QED
    BY <2>1, <1>1, SendLine
<1>3. /\ UNCHANGED <<dev, ssidIn, pwdIn, nvs, torn, cred, linked, orphans, runs, entered>>
      /\ out' = SubSeq(out, n + 1, Len(out))
      /\ host \in Waiting /\ host' \in Waiting
  BY <1>1 DEF Chunk, device, Waiting
<1>4. TypeOK'
  <2>1. out' \in Seq(Texts) /\ Len(out') <= MaxOut
    <3>1. out \in Seq(Texts) /\ Len(out) <= MaxOut
      BY DEF IInv, TypeOK
    <3>2. n \in 0 .. Len(out)
      BY <3>1
    <3> QED
      BY <1>3, <3>1, <3>2, DropTyped
  <2> QED
    BY <2>1, <1>1, <1>2, <1>3 DEF IInv, TypeOK
<1>5. cred = [ssid |-> cred.ssid, password |-> cred.password] /\ cred \in entered
  <2>1. cred \in entered /\ cred \in Pairs
    BY <1>3 DEF IInv, TypeOK, LineInv
  <2> QED
    BY <2>1, Constants
<1>6. UnreadFollows'
  <2> SUFFICES ASSUME NEW i \in DOMAIN inp', i >= 3, inp'[i] = Yes
               PROVE  [ssid |-> inp'[i - 2], password |-> inp'[i - 1]] \in entered'
    BY DEF UnreadFollows, Pair
  <2>1. i \in Int /\ i - 1 \in 1 .. Len(inp) /\ i - 2 \in 1 .. Len(inp)
        /\ inp'[i - 1] = inp[i - 1] /\ inp'[i - 2] = inp[i - 2]
    BY <1>2
  <2>2. CASE i <= Len(inp)
    <3>1. i \in DOMAIN inp /\ inp[i] = Yes
      BY <1>2, <2>1, <2>2
    <3>2. Pair(inp[i - 2], inp[i - 1])
      BY <3>1 DEF IInv, LineInv, YesFollowsPair, UnreadFollows
    <3> QED
      BY <2>1, <3>2, <1>3 DEF Pair
  <2>3. CASE i = Len(inp) + 1
    <3>1. host = "confirm"
      BY <1>1, <1>2, <2>3
    <3>2. inp[i - 1] = cred.password /\ inp[i - 2] = cred.ssid
      BY <1>2, <2>3, <3>1 DEF IInv, LineInv, SentPair
    <3> QED
      BY <2>1, <3>2, <1>3, <1>5
  <2> QED
    BY <1>2, <2>1, <2>2, <2>3
<1>7. YesFollowsPair'
  <2>1. ASSUME dev = "password", Len(inp') >= 2, inp'[2] = Yes PROVE Pair(ssidIn, inp'[1])
    <3>1. CASE Len(inp) >= 2
      BY <1>2, <2>1, <3>1 DEF IInv, LineInv, YesFollowsPair
    <3>2. CASE Len(inp) = 1
      <4>1. host = "confirm"
        BY <1>1, <1>2, <2>1, <3>2
      <4>2. ssidIn = cred.ssid /\ inp[1] = cred.password /\ inp'[1] = inp[1]
        BY <1>2, <2>1, <3>2, <4>1 DEF IInv, LineInv, SentPair
      <4> QED
        BY <4>2, <1>5 DEF Pair
    <3> QED
      BY <1>2, <2>1, <3>1, <3>2
  <2>2. ASSUME dev = "confirm", Len(inp') >= 1, inp'[1] = Yes PROVE Pair(ssidIn, pwdIn)
    <3>1. CASE Len(inp) >= 1
      BY <1>2, <2>2, <3>1 DEF IInv, LineInv, YesFollowsPair
    <3>2. CASE Len(inp) = 0
      <4>1. host = "confirm"
        BY <1>1, <1>2, <2>2, <3>2
      <4>2. ssidIn = cred.ssid /\ pwdIn = cred.password
        BY <2>2, <3>2, <4>1 DEF IInv, LineInv, SentPair
      <4> QED
        BY <4>2, <1>5 DEF Pair
    <3> QED
      BY <1>2, <3>1, <3>2
  <2> QED
    BY <1>3, <1>6, <2>1, <2>2 DEF YesFollowsPair, Pair
<1>8. SentName'
  BY <1>1, <1>2, <1>3 DEF SentName
<1>9. SentPair'
  <2> SUFFICES ASSUME host' = "confirm" PROVE SentPair'
    BY DEF SentPair
  <2>1. host = "pwd" /\ l = cred.password
    BY <1>1
  <2> QED
    BY <2>1, <1>2, <1>3 DEF IInv, LineInv, SentName, SentPair
<1> QED
  BY <1>3, <1>4, <1>5, <1>7, <1>8, <1>9 DEF IInv, LineInv, SavedAsEntered, NvsInv

\* An answer typed at a terminal is the only line there is.
LEMMA TypedStep == ASSUME IInv, NEW line \in {Yes, No}, AnswerRetry(line) PROVE IInv'
PROOF
<1>1. /\ host = "off" /\ dev = "retry" /\ inp' = <<line>>
      /\ UNCHANGED <<dev, ssidIn, pwdIn, nvs, torn, out, host, cred, buf, linked, orphans, runs, entered>>
  BY DEF AnswerRetry, device, web
<1>2. inp' \in Seq(Lines) /\ Len(inp') = 1 /\ DOMAIN inp' = {1}
  BY <1>1 DEF Lines
<1>3. TypeOK'
  BY <1>1, <1>2 DEF IInv, TypeOK
<1>4. LineInv'
  BY <1>1, <1>2 DEF IInv, LineInv, YesFollowsPair, UnreadFollows, SentName, SentPair, Waiting
<1> QED
  BY <1>1, <1>3, <1>4 DEF IInv, SavedAsEntered, NvsInv

\* The web app's reads, timeouts and ends.
LEMMA WebStep ==
    ASSUME IInv,
           \/ \E n \in DOMAIN out :
                 \/ SendSsid(n) \/ SendPassword(n) \/ SendYes(n) \/ Succeed(n) \/ StartOver(n)
                 \/ KeepReading(n) \/ LoseChunk(n)
           \/ ReadTimesOut \/ Reopen \/ EndRun
    PROVE  IInv'
PROOF
<1>1. out \in Seq(Texts) /\ Len(out) <= MaxOut /\ buf \subseteq Texts /\ linked \in BOOLEAN
      /\ orphans \in 0 .. MaxOrphans /\ MaxOrphans \in Nat
  BY Constants DEF IInv, TypeOK
<1>2. ASSUME NEW n \in DOMAIN out, SendSsid(n) \/ SendPassword(n) \/ SendYes(n) PROVE IInv'
  BY <1>2, AnswerStep DEF SendSsid, SendPassword, SendYes
<1>3. ASSUME NEW n \in DOMAIN out, Succeed(n) \/ StartOver(n) \/ KeepReading(n) PROVE IInv'
  <2>1. n \in 0 .. Len(out)
    BY <1>1
  <2>2. SubSeq(out, n + 1, Len(out)) \in Seq(Texts) /\ Len(SubSeq(out, n + 1, Len(out))) <= MaxOut
    BY <1>1, <2>1, DropTyped
  <2>3. Received(n) \subseteq Texts
    BY ReceivedTyped DEF IInv
  <2>4. /\ out' = SubSeq(out, n + 1, Len(out)) /\ buf' \subseteq Texts
        /\ host' \in {host, "ssid", "done"} /\ host \in Waiting
        /\ UNCHANGED <<dev, ssidIn, pwdIn, nvs, torn, inp, cred, linked, orphans, runs, entered>>
    BY <1>3, <2>3 DEF Succeed, StartOver, KeepReading, Chunk, device, Waiting
  <2> QED
    BY <1>1, <2>2, <2>4, QuietStep
<1>4. ASSUME NEW n \in DOMAIN out, LoseChunk(n) PROVE IInv'
  <2>1. n \in 0 .. Len(out)
    BY <1>1
  <2>2. SubSeq(out, n + 1, Len(out)) \in Seq(Texts) /\ Len(SubSeq(out, n + 1, Len(out))) <= MaxOut
    BY <1>1, <2>1, DropTyped
  <2>3. /\ out' = SubSeq(out, n + 1, Len(out)) /\ orphans' = orphans - 1 /\ orphans > 0
        /\ UNCHANGED <<dev, ssidIn, pwdIn, nvs, torn, inp, host, cred, buf, linked, runs, entered>>
    BY <1>4 DEF LoseChunk, device
  <2> QED
    BY <1>1, <2>2, <2>3, QuietStep
<1>5. CASE ReadTimesOut
  <2>1. /\ orphans' = orphans + 1 /\ orphans < MaxOrphans
        /\ UNCHANGED <<dev, ssidIn, pwdIn, nvs, torn, out, inp, host, cred, buf, linked, runs, entered>>
    BY <1>5 DEF ReadTimesOut, device
  <2> QED
    BY <1>1, <2>1, QuietStep
<1>6. CASE Reopen
  <2>1. /\ linked' = TRUE /\ buf' = {} /\ orphans' = 0
        /\ UNCHANGED <<dev, ssidIn, pwdIn, nvs, torn, out, inp, host, cred, runs, entered>>
    BY <1>6 DEF Reopen, device
  <2> QED
    BY <1>1, <2>1, QuietStep
<1>7. CASE EndRun
  <2>1. PICK n \in 0 .. Len(out) : out' = SubSeq(out, n + 1, Len(out))
    BY <1>7 DEF EndRun
  <2>2. out' \in Seq(Texts) /\ Len(out') <= MaxOut
    BY <1>1, <2>1, DropTyped
  <2>3. /\ host' = "off" /\ linked' = FALSE /\ buf' = {} /\ orphans' = 0
        /\ UNCHANGED <<dev, ssidIn, pwdIn, nvs, torn, inp, cred, runs, entered>>
    BY <1>7 DEF EndRun, device
  <2>4. host' \notin Waiting
    BY <2>3 DEF Waiting
  <2>5. orphans' \in 0 .. MaxOrphans
    BY <1>1, <2>3
  <2>6. linked' \in BOOLEAN /\ buf' \subseteq Texts
    BY <2>3
  <2> QED
    BY <2>2, <2>3, <2>4, <2>5, <2>6, QuietStep
<1> QED
  BY <1>2, <1>3, <1>4, <1>5, <1>6, <1>7

LEMMA InvStep == IInv /\ [Next]_vars => IInv'
PROOF
<1> SUFFICES ASSUME IInv, [Next]_vars PROVE IInv'
  OBVIOUS
<1>1. CASE Beacon
  <2>1. WriteStr("ssid?")
        /\ UNCHANGED <<dev, ssidIn, pwdIn, nvs, torn, inp, host, cred, buf, linked, orphans, runs, entered>>
    BY <1>1 DEF Beacon, device, web
  <2>2. out' \in Seq(Texts) /\ Len(out') <= MaxOut
    BY <2>1, WriteTyped DEF IInv, Texts
  <2> QED
    BY <2>1, <2>2, QuietStep DEF IInv, TypeOK
<1>2. CASE Reboot \/ Reset
  BY <1>2, BootStep DEF Reboot, Reset
<1>3. ASSUME NEW c \in Pairs, StartRun(c) PROVE IInv'
  BY <1>3, StartRunStep
<1>4. ASSUME NEW line \in {Yes, No}, AnswerRetry(line) PROVE IInv'
  BY <1>4, TypedStep
<1>5. CASE UNCHANGED vars
  BY <1>5, QuietStep DEF vars, IInv, TypeOK
<1> QED
  BY <1>1, <1>2, <1>3, <1>4, <1>5, ReadNameStep, ReadPasswordStep, ReadAnswerStep, SaveStep, WebStep
     DEF Next

LEMMA Invariance == Spec => []IInv
PROOF
  BY InvInit, InvStep, PTL DEF Spec
------------------------------------------------------------------------------
\* Types of both ends and of what is under way.
THEOREM TypeCorrect == Spec => []TypeOK
PROOF
<1>1. IInv => TypeOK
  BY DEF IInv
<1> QED
  BY <1>1, Invariance, PTL

\* What save_credentials() is given was entered as one pair, whichever prompts
\* repeat or are lost and wherever runs and boots end.
THEOREM PairsOnly == Spec => []SavedAsEntered
PROOF
<1>1. IInv => SavedAsEntered
  BY DEF IInv
<1> QED
  BY <1>1, Invariance, PTL

\* main() starts the tasks on an entered pair, unless a save stopped between its
\* two writes.
THEOREM PairInUse == Spec => []AppPaired
PROOF
<1>1. IInv => AppPaired
  BY DEF IInv, NvsInv, AppPaired
<1> QED
  BY <1>1, Invariance, PTL
------------------------------------------------------------------------------
(* The report of success. *)

\* The text that reports a save is read, or still to be read, only while the
\* device waits to reboot after it, and then NVS holds the pair it took.
ReportInv ==
    /\ \A i \in DOMAIN out : out[i] = "saved" => dev = "saved"
    /\ linked /\ "saved" \in buf => dev = "saved"
    /\ dev = "saved" => nvs = [ssid |-> ssidIn, password |-> pwdIn] /\ nvs \in entered /\ ~torn

\* A text is added behind those under way, and some are taken from their front.
LEMMA TextAdded ==
    ASSUME TypeOK, NEW text \in Texts, WriteStr(text),
           NEW i \in DOMAIN out', out'[i] = "saved", text # "saved"
    PROVE  \E j \in DOMAIN out : out[j] = "saved"
PROOF
<1>1. out \in Seq(Texts) /\ out' = Append(out, text)
  BY DEF TypeOK, WriteStr
<1>2. /\ Len(out) \in Nat /\ DOMAIN out = 1 .. Len(out) /\ DOMAIN out' = 1 .. Len(out) + 1
      /\ \A j \in 1 .. Len(out) : out'[j] = out[j]
      /\ out'[Len(out) + 1] = text
  BY <1>1, AppendProperties, LenProperties
<1> QED
  BY <1>2

LEMMA TextsTaken ==
    ASSUME TypeOK, NEW n \in 0 .. Len(out), out' = SubSeq(out, n + 1, Len(out)),
           NEW i \in DOMAIN out'
    PROVE  \E j \in DOMAIN out : out[j] = out'[i]
PROOF
<1>1. out \in Seq(Texts) /\ Len(out) \in Nat /\ DOMAIN out = 1 .. Len(out)
  BY LenProperties DEF TypeOK
<1>2. \A j \in n + 1 .. Len(out) : out[j] \in Texts
  BY <1>1, ElementOfSeq
<1>3. /\ Len(out') = IF n + 1 <= Len(out) THEN Len(out) - (n + 1) + 1 ELSE 0
      /\ out' \in Seq(Texts)
      /\ \A k \in 1 .. Len(out') : out'[k] = out[n + 1 + k - 1]
  BY <1>1, <1>2, SubSeqProperties
<1>4. DOMAIN out' = 1 .. Len(out')
  BY <1>3, LenProperties
<1> DEFINE N == Len(out)
           L == Len(out')
<1>5. /\ N \in Nat /\ DOMAIN out = 1 .. N
      /\ i \in 1 .. L /\ L = IF n + 1 <= N THEN N - (n + 1) + 1 ELSE 0
      /\ n \in 0 .. N
  BY <1>1, <1>3, <1>4
<1> HIDE DEF N, L
<1>6. n + i \in 1 .. N /\ n + 1 + i - 1 = n + i
  BY <1>5
<1>7. out'[i] = out[n + 1 + i - 1]
  BY <1>3, <1>4
<1> QED
  BY <1>5, <1>6, <1>7

LEMMA TextRead ==
    ASSUME TypeOK, NEW n \in DOMAIN out, "saved" \in Received(n)
    PROVE  "saved" \in buf \/ \E j \in DOMAIN out : out[j] = "saved"
PROOF
<1>1. out \in Seq(Texts) /\ Len(out) \in Nat /\ DOMAIN out = 1 .. Len(out)
  BY LenProperties DEF TypeOK
<1>2. \A j \in 1 .. n : out[j] \in Texts
  BY <1>1, ElementOfSeq
<1> DEFINE first == SubSeq(out, 1, n)
<1>3. /\ first \in Seq(Texts) /\ Len(first) = n
      /\ \A k \in 1 .. n : first[k] = out[k]
  BY <1>1, <1>2, SubSeqProperties
<1>4. DOMAIN first = 1 .. n
  BY <1>3, LenProperties
<1>5. Range(first) = {first[k] : k \in 1 .. n}
  BY <1>4 DEF Range
<1> QED
  BY <1>1, <1>3, <1>5 DEF Received

LEMMA ReportInit == Init => ReportInv
PROOF
  BY DEF Init, ReportInv

\* The device: it prints that text on one way only, with both values written.
LEMMA ReportDevice ==
    ASSUME IInv, ReportInv,
           \/ Beacon \/ ReadSsid \/ ReadPassword \/ ReadConfirm \/ ReadRetry
           \/ SaveSsid \/ SavePassword \/ SaveFails
    PROVE  ReportInv'
PROOF
<1>1. UNCHANGED <<buf, linked, entered>> /\ dev # "saved"
  BY DEF Beacon, ReadSsid, ReadPassword, ReadConfirm, ReadRetry, ReadLine, SaveSsid, SavePassword,
         SaveFails, web
<1>2. ~(\E j \in DOMAIN out : out[j] = "saved") /\ ~(linked /\ "saved" \in buf)
  BY <1>1 DEF ReportInv
<1>3. CASE SavePassword
  <2>1. /\ dev' = "saved" /\ nvs' = [nvs EXCEPT !.password = pwdIn]
        /\ nvs.ssid = ssidIn /\ UNCHANGED <<ssidIn, pwdIn>>
        /\ [ssid |-> ssidIn, password |-> pwdIn] \in entered /\ ~torn'
    BY <1>3 DEF SavePassword, IInv, NvsInv, SavedAsEntered
  <2>2. nvs \in [ssid : Ssids \union {None}, password : Passwords \union {None}]
    BY DEF IInv, TypeOK
  <2>3. nvs' = [ssid |-> ssidIn, password |-> pwdIn]
    BY <2>1, <2>2
  <2> QED
    BY <1>1, <2>1, <2>3 DEF ReportInv
<1>4. CASE \/ Beacon \/ ReadSsid \/ ReadPassword \/ ReadConfirm \/ ReadRetry
           \/ SaveSsid \/ SaveFails
  <2>1. dev' # "saved"
    BY <1>4, <1>1 DEF Beacon, ReadSsid, ReadPassword, ReadConfirm, ReadRetry, SaveSsid, SaveFails,
         device
  <2>2. UNCHANGED out \/ \E text \in Texts \ {"saved"} : WriteStr(text)
    BY <1>4 DEF Beacon, ReadSsid, ReadPassword, ReadConfirm, ReadRetry, SaveSsid, SaveFails, Texts
  <2>3. ~(\E i \in DOMAIN out' : out'[i] = "saved")
    <3>1. CASE UNCHANGED out
      BY <3>1, <1>2
    <3>2. ASSUME NEW text \in Texts \ {"saved"}, WriteStr(text)
          PROVE  ~(\E i \in DOMAIN out' : out'[i] = "saved")
      BY <3>2, <1>2, TextAdded DEF IInv
    <3> QED
      BY <2>2, <3>1, <3>2
  <2> QED
    BY <1>1, <1>2, <2>1, <2>3 DEF ReportInv
<1> QED
  BY <1>3, <1>4

\* A boot cuts the link and what was under way on it.
LEMMA ReportBoot ==
    ASSUME NEW b \in BOOLEAN, NEW r \in BOOLEAN, Boot(b, r) PROVE ReportInv'
PROOF
<1>1. linked' = FALSE /\ dev' \in {"ssid", "app"} /\ out' \in {<<"ssid?">>, <<>>}
  BY DEF Boot
<1>2. \A i \in DOMAIN out' : out'[i] # "saved"
  <2>1. CASE out' = <<>>
    BY <2>1
  <2>2. CASE out' = <<"ssid?">>
    BY <2>2
  <2> QED
    BY <1>1, <2>1, <2>2
<1> QED
  BY <1>1, <1>2 DEF ReportInv

\* The web app: it keeps of what it reads no more than was there.
LEMMA ReportWeb ==
    ASSUME IInv, ReportInv, UNCHANGED <<dev, ssidIn, pwdIn, nvs, torn>>, entered \subseteq entered',
           NEW n \in 0 .. Len(out), out' = SubSeq(out, n + 1, Len(out)),
           \/ buf' = {}
           \/ UNCHANGED <<buf, linked>>
           \/ n \in DOMAIN out /\ linked /\ buf' = Received(n)
    PROVE  ReportInv'
PROOF
<1>1. \A i \in DOMAIN out' : out'[i] = "saved" => dev = "saved"
  BY TextsTaken DEF IInv, ReportInv
<1>2. linked' /\ "saved" \in buf' => dev = "saved"
  <2>1. CASE n \in DOMAIN out /\ linked /\ buf' = Received(n)
    BY <2>1, TextRead DEF IInv, ReportInv
  <2> QED
    BY <2>1 DEF ReportInv
<1> QED
  BY <1>1, <1>2 DEF ReportInv

\* Nothing is taken.
LEMMA ReportIdle ==
    ASSUME IInv, ReportInv, UNCHANGED <<dev, ssidIn, pwdIn, nvs, torn, out>>, entered \subseteq entered',
           buf' = {} \/ UNCHANGED <<buf, linked>>
    PROVE  ReportInv'
  BY DEF ReportInv

LEMMA ReportStep == IInv /\ ReportInv /\ [Next]_vars => ReportInv'
PROOF
<1> SUFFICES ASSUME IInv, ReportInv, [Next]_vars PROVE ReportInv'
  OBVIOUS
<1>1. out \in Seq(Texts) /\ Len(out) \in Nat /\ DOMAIN out = 1 .. Len(out)
  BY LenProperties DEF IInv, TypeOK
<1>2. CASE Reboot \/ Reset
  BY <1>2, ReportBoot DEF Reboot, Reset
<1>3. ASSUME NEW c \in Pairs, StartRun(c) PROVE ReportInv'
  BY <1>3, ReportIdle DEF StartRun, device
<1>4. ASSUME NEW n \in DOMAIN out,
             \/ SendSsid(n) \/ SendPassword(n) \/ SendYes(n) \/ Succeed(n) \/ StartOver(n)
             \/ KeepReading(n) \/ LoseChunk(n)
      PROVE  ReportInv'
  <2>1. n \in 0 .. Len(out)
    BY <1>1
  <2>2. /\ UNCHANGED <<dev, ssidIn, pwdIn, nvs, torn, entered>>
        /\ out' = SubSeq(out, n + 1, Len(out))
        /\ \/ buf' = {}
           \/ UNCHANGED <<buf, linked>>
           \/ linked /\ buf' = Received(n)
    BY <1>4 DEF SendSsid, SendPassword, SendYes, Succeed, StartOver, KeepReading, LoseChunk, Chunk,
           Answer, device
  <2> QED
    BY <2>1, <2>2, ReportWeb
<1>5. CASE ReadTimesOut \/ Reopen
  BY <1>5, ReportIdle DEF ReadTimesOut, Reopen, device
<1>6. CASE EndRun
  <2>1. PICK n \in 0 .. Len(out) : out' = SubSeq(out, n + 1, Len(out))
    BY <1>6 DEF EndRun
  <2>2. UNCHANGED <<dev, ssidIn, pwdIn, nvs, torn, entered>> /\ buf' = {}
    BY <1>6 DEF EndRun, device
  <2> QED
    BY <2>1, <2>2, ReportWeb
<1>7. ASSUME NEW line \in {Yes, No}, AnswerRetry(line) PROVE ReportInv'
  BY <1>7, ReportIdle DEF AnswerRetry, device, web
<1>8. CASE UNCHANGED vars
  BY <1>8, ReportIdle DEF vars
<1> QED
  BY <1>2, <1>3, <1>4, <1>5, <1>6, <1>7, <1>8, ReportDevice DEF Next

\* runProvisioning() reports success only when both writes of
\* save_credentials() are done, never on the text of an earlier save, for any
\* credentials, any FIFO and any number of texts under way.
THEOREM SuccessSaved == Spec => SuccessAfterSave
PROOF
<1>1. IInv /\ ReportInv /\ [Next]_vars
        => [host # "done" /\ host' = "done"
              => dev = "saved" /\ nvs \in entered /\ ~torn]_vars
  <2> SUFFICES ASSUME IInv, ReportInv, Next, host # "done", host' = "done"
               PROVE  dev = "saved" /\ nvs \in entered /\ ~torn
    OBVIOUS
  <2>1. PICK n \in DOMAIN out : Succeed(n)
    BY DEF Next, Beacon, ReadSsid, ReadPassword, ReadConfirm, ReadRetry, SaveSsid, SavePassword,
           SaveFails, Reboot, Reset, Boot, StartRun, SendSsid, SendPassword, SendYes, StartOver,
           KeepReading, LoseChunk, ReadTimesOut, Reopen, EndRun, AnswerRetry, Answer, web
  <2>2. "saved" \in buf \/ \E j \in DOMAIN out : out[j] = "saved"
    BY <2>1, TextRead DEF Succeed, IInv
  <2>3. linked
    BY <2>1 DEF Succeed, Chunk
  <2> QED
    BY <2>2, <2>3 DEF ReportInv
<1> QED
  BY <1>1, ReportInit, ReportStep, Invariance, PTL DEF Spec, SuccessAfterSave
==============================================================================
