--------------------------- MODULE DhcpClientProofs ---------------------------
(***************************************************************************)
(* Proofs about DhcpClient, for any addresses, leases, timeouts and        *)
(* delays.  An ACK that has been under way for some time promises no more  *)
(* than the server still holds plus that time (AcksCovered); the client    *)
(* takes its timers from it, so they run out at most MaxDelay after the    *)
(* server's lease (TimersCovered); and time does not pass while the        *)
(* interface shows another configuration than the socket (Shown).          *)
(***************************************************************************)
EXTENDS DhcpClient, TLAPS

AcksCovered ==
    \A m \in answers : m.kind = "ack" =>
        m.lease \in Leases /\ m.lease.end <= left[m.addr] + m.age

TimersCovered == state = "renewing" => timers.end <= left[addr] + MaxDelay

RenewCovered == state = "renewing" /\ changed => lastRenew <= left[addr]

Shown ==
    /\ ~linkUp => state = "discovering" /\ iface = None
    /\ iface # None /\ ~changed => state = "renewing" /\ addr = iface
    /\ state = "requesting" => addr # None

Asked == request.kind = "request" => request.addr # None

IInv == TypeOK /\ AcksCovered /\ TimersCovered /\ RenewCovered /\ Shown /\ Asked /\ LeaseCovers
------------------------------------------------------------------------------
LEMMA XidTyped == ASSUME xid \in Xids PROVE RandomXid \in Xids
PROOF
<1>1. CASE Xids \subseteq XidsInUse
  <2>1. \E x \in Xids : Xids \subseteq XidsInUse \/ x \notin XidsInUse
    BY <1>1
  <2> QED
    BY <2>1 DEF RandomXid
<1>2. CASE ~(Xids \subseteq XidsInUse)
  <2>1. \E x \in Xids : Xids \subseteq XidsInUse \/ x \notin XidsInUse
    BY <1>2
  <2> QED
    BY <2>1 DEF RandomXid
<1> QED
  BY <1>1, <1>2

LEMMA Constants ==
    /\ None \notin Addrs /\ FirstXid \in Xids
    /\ NoMessage \in [kind : {"none", "discover", "request"}, xid : Xids, addr : Addrs \union {None}]
    /\ NoTimers \in [t1 : Nat, t2 : Nat, end : Nat]
    /\ \A l \in Leases : /\ l \in [t1 : Nat, t2 : Nat, end : Nat]
                         /\ l.t1 <= l.t2 /\ l.t2 <= l.end /\ l.t1 + MaxDelay <= l.end
    /\ DiscoverTimeout \in Nat /\ MinRenew \in Nat /\ MaxDelay \in Nat
    /\ Retries \in Nat /\ AtOnce \in [in : Nat, count : 0 .. Retries, first : BOOLEAN]
PROOF
<1>1. FirstXid \in Xids
  BY DhcpAssumption DEF FirstXid
<1> QED
  BY <1>1, DhcpAssumption DEF NoMessage, NoTimers, AtOnce

LEMMA InvInit == Init => IInv
PROOF
<1> SUFFICES ASSUME Init PROVE IInv
  OBVIOUS
<1>1. left \in [Addrs -> Int]
  BY Constants DEF Init
<1>2. TypeOK
  BY <1>1, Constants DEF Init, TypeOK
<1> QED
  BY <1>2, Constants DEF Init, IInv, AcksCovered, TimersCovered, RenewCovered, Shown, Asked,
     LeaseCovers, NoMessage

\* Going back to the first DISCOVER keeps the invariant.
LEMMA ResetStep ==
    ASSUME IInv, Reset, UNCHANGED <<xid, lastRenew, net, server>>,
           \/ UNCHANGED <<linkUp, iface>> /\ linkUp
           \/ linkUp' = ~linkUp /\ iface' = None
    PROVE  IInv'
PROOF
<1>1. TypeOK'
  <2>1. changed' \in BOOLEAN
    BY DEF IInv, TypeOK, Reset
  <2>2. linkUp' \in BOOLEAN /\ iface' \in Addrs \union {None}
    BY DEF IInv, TypeOK
  <2> QED
    BY <2>1, <2>2, Constants DEF IInv, TypeOK, Reset, net, server
<1>2. AcksCovered' /\ TimersCovered' /\ RenewCovered' /\ Asked'
  BY DEF IInv, AcksCovered, TimersCovered, RenewCovered, Asked, Reset, net, server
<1>3. Shown'
  BY DEF IInv, Shown, Reset, TypeOK
<1>4. LeaseCovers'
  BY DEF IInv, LeaseCovers, server
<1> QED
  BY <1>1, <1>2, <1>3, <1>4 DEF IInv

LEMMA SendStep ==
    ASSUME IInv, SendDiscover \/ SendRequest
    PROVE  IInv'
PROOF
<1>1. /\ UNCHANGED <<state, addr, timers, rebinding, changed, lastRenew, linkUp, iface, answers, left, taken>>
      /\ xid' \in Xids /\ state # "renewing"
      /\ state = "discovering" \/ state = "requesting"
  BY XidTyped DEF IInv, TypeOK, SendDiscover, SendRequest, server
<1>2. request' \in [kind : {"none", "discover", "request"}, xid : Xids, addr : Addrs \union {None}]
      /\ (request'.kind = "request" => request'.addr # None)
  <2>1. CASE SendDiscover
    BY <2>1, <1>1 DEF SendDiscover, Send
  <2>2. CASE SendRequest
    BY <2>2, <1>1 DEF SendRequest, Send, IInv, TypeOK, Shown
  <2> QED
    BY <2>1, <2>2
<1>3. retry' \in [in : Nat, count : 0 .. Retries, first : BOOLEAN]
  <2>1. CASE SendDiscover
    BY <2>1, Constants DEF SendDiscover
  <2>2. CASE SendRequest
    <3>1. retry \in [in : Nat, count : 0 .. Retries, first : BOOLEAN]
      BY DEF IInv, TypeOK
    <3>2. RequestTimeout * 2 ^ (retry.count \div 2) \in Nat
      BY <3>1, DhcpAssumption
    <3> DEFINE wait == RequestTimeout * 2 ^ (retry.count \div 2)
    <3>3. retry' = [retry EXCEPT !.in = wait, !.count = retry.count + 1] /\ retry.count < Retries
      BY <2>2 DEF SendRequest
    <3>4. wait \in Nat
      BY <3>2
    <3> HIDE DEF wait
    <3>5. retry.count + 1 \in 0 .. Retries
      BY <3>1, <3>3, Constants
    <3> QED
      BY <3>1, <3>3, <3>4, <3>5
  <2> QED
    BY <2>1, <2>2
<1>4. TypeOK'
  BY <1>1, <1>2, <1>3 DEF IInv, TypeOK
<1> QED
  BY <1>1, <1>2, <1>4 DEF IInv, AcksCovered, TimersCovered, RenewCovered, Shown, Asked, LeaseCovers

LEMMA RenewStep == IInv /\ SendRenew => IInv'
PROOF
<1> SUFFICES ASSUME IInv, SendRenew PROVE IInv'
  OBVIOUS
<1>1. /\ UNCHANGED <<state, retry, addr, changed, lastRenew, linkUp, iface, answers, left, taken>>
      /\ xid' \in Xids /\ state = "renewing" /\ rebinding' \in BOOLEAN
      /\ request' = [kind |-> "request", xid |-> xid', addr |-> addr]
  BY XidTyped DEF IInv, TypeOK, SendRenew, server, Send
<1>2. /\ timers \in [t1 : Nat, t2 : Nat, end : Nat] /\ MinRenew \in Nat
      /\ addr \in Addrs
      /\ ~rebinding => timers.t1 <= timers.t2 /\ timers.t2 <= timers.end
  BY <1>1, Constants DEF IInv, TypeOK
<1>3. /\ timers' \in [t1 : Nat, t2 : Nat, end : Nat] /\ timers'.end = timers.end
      /\ ~rebinding' => timers'.t1 <= timers'.t2 /\ timers'.t2 <= timers'.end
  <2>1. CASE rebinding'
    <3>1. timers' = [timers EXCEPT !.t2 = Most(MinRenew, timers.end \div 2)]
      BY <2>1 DEF SendRenew
    <3>2. timers.end \div 2 \in Nat
      BY <1>2
    <3>3. Most(MinRenew, timers.end \div 2) \in Nat
      BY <3>2, <1>2 DEF Most
    <3> QED
      BY <3>1, <3>3, <2>1, <1>2
  <2>2. CASE ~rebinding'
    <3>1. timers' = [timers EXCEPT !.t1 = Least(Most(MinRenew, timers.t2 \div 2), timers.t2)]
      BY <2>2 DEF SendRenew
    <3>2. timers.t2 \div 2 \in Nat /\ ~rebinding
      <4>1. ~rebinding
        BY <2>2 DEF SendRenew
      <4>2. timers.t2 \in Nat
        BY <1>2
      <4> QED
        BY <4>1, <4>2
    <3>3. /\ Least(Most(MinRenew, timers.t2 \div 2), timers.t2) \in Nat
          /\ Least(Most(MinRenew, timers.t2 \div 2), timers.t2) <= timers.t2
      BY <3>2, <1>2 DEF Most, Least
    <3> QED
      BY <3>1, <3>2, <3>3, <1>2
  <2> QED
    BY <2>1, <2>2
<1>4. TypeOK'
  BY <1>1, <1>2, <1>3 DEF IInv, TypeOK
<1> QED
  BY <1>1, <1>2, <1>3, <1>4, Constants
     DEF IInv, AcksCovered, TimersCovered, RenewCovered, Shown, Asked, LeaseCovers

LEMMA OfferStep ==
    ASSUME IInv, NEW m \in answers, RecvOffer(m)
    PROVE  IInv'
PROOF
<1>1. /\ UNCHANGED <<timers, rebinding, xid, changed, lastRenew, linkUp, iface, request, answers, left, taken>>
      /\ state' = "requesting" /\ addr' = m.addr /\ m.addr \in Addrs /\ state = "discovering" /\ linkUp
      /\ retry' = [in |-> 0, count |-> 0, first |-> FALSE]
  BY DEF RecvOffer, Arrived, IInv, TypeOK, net, server
<1>2. TypeOK'
  BY <1>1, Constants DEF IInv, TypeOK
<1> QED
  BY <1>1, <1>2, Constants
     DEF IInv, AcksCovered, TimersCovered, RenewCovered, Shown, Asked, LeaseCovers

LEMMA AckStep ==
    ASSUME IInv, NEW m \in answers, RecvAck(m)
    PROVE  IInv'
PROOF
<1>1. /\ UNCHANGED <<xid, linkUp, iface, request, answers, left, taken>>
      /\ state' = "renewing" /\ addr' = m.addr /\ m.addr \in Addrs /\ linkUp
      /\ timers' = m.lease /\ rebinding' = FALSE /\ retry' = AtOnce
      /\ lastRenew' = m.lease.t1 /\ m.kind = "ack"
      /\ changed' = (changed \/ state = "requesting" \/ addr # m.addr)
  BY DEF RecvAck, Arrived, IInv, TypeOK, net, server
<1>2. /\ m.lease \in Leases /\ m.lease.end <= left[m.addr] + m.age
      /\ m.age \in Nat /\ m.age <= MaxDelay /\ left[m.addr] \in Int /\ MaxDelay \in Nat
  BY <1>1, Constants DEF IInv, AcksCovered, TypeOK
<1>3. /\ m.lease \in [t1 : Nat, t2 : Nat, end : Nat]
      /\ m.lease.t1 <= m.lease.t2 /\ m.lease.t2 <= m.lease.end
      /\ m.lease.t1 + MaxDelay <= m.lease.end
  BY <1>2, Constants
<1>4. TypeOK'
  <2>1. changed' \in BOOLEAN
    BY <1>1 DEF IInv, TypeOK
  <2> QED
    BY <1>1, <1>3, <2>1, Constants DEF IInv, TypeOK
<1>5. TimersCovered' /\ RenewCovered'
  BY <1>1, <1>2, <1>3 DEF TimersCovered, RenewCovered
<1>6. Shown'
  BY <1>1 DEF IInv, Shown, TypeOK
<1>7. AcksCovered' /\ Asked' /\ LeaseCovers'
  BY <1>1 DEF IInv, AcksCovered, Asked, LeaseCovers
<1> QED
  BY <1>4, <1>5, <1>6, <1>7 DEF IInv

LEMMA ApplyStep == IInv /\ Apply => IInv' /\ (iface' # None => lastRenew' <= left'[iface'])
PROOF
<1> SUFFICES ASSUME IInv, Apply PROVE IInv' /\ (iface' # None => lastRenew' <= left'[iface'])
  OBVIOUS
<1>1. /\ UNCHANGED <<state, retry, addr, timers, rebinding, xid, lastRenew, linkUp, request, answers, left, taken>>
      /\ changed' = FALSE /\ changed /\ linkUp
      /\ iface' = IF state = "renewing" THEN addr ELSE None
  BY DEF Apply, net, server
<1>2. TypeOK'
  BY <1>1 DEF IInv, TypeOK
<1>3. iface' # None => state = "renewing" /\ iface' = addr /\ addr \in Addrs
  BY <1>1 DEF IInv, TypeOK
<1>4. LeaseCovers' /\ (iface' # None => lastRenew' <= left'[iface'])
  BY <1>1, <1>3, Constants DEF IInv, TypeOK, LeaseCovers, TimersCovered, RenewCovered
<1> QED
  BY <1>1, <1>2, <1>3, <1>4 DEF IInv, AcksCovered, TimersCovered, RenewCovered, Shown, Asked

LEMMA AnswerStep == IInv /\ (OnDiscover \/ OnRequest) => IInv'
PROOF
<1> SUFFICES ASSUME IInv, OnDiscover \/ OnRequest PROVE IInv'
  OBVIOUS
<1>1. /\ UNCHANGED <<state, retry, addr, timers, rebinding, xid, changed, lastRenew, linkUp, iface, taken>>
      /\ request' = NoMessage /\ left \in [Addrs -> Int]
      /\ request \in [kind : {"none", "discover", "request"}, xid : Xids, addr : Addrs \union {None}]
      /\ answers \subseteq [kind : {"offer", "ack", "nak"}, xid : Xids, addr : Addrs,
                            lease : Leases \union {NoTimers}, age : 0 .. MaxDelay]
      /\ 0 \in 0 .. MaxDelay
  BY Constants DEF IInv, TypeOK, OnDiscover, OnRequest, socket, server
<1>2. \E kind \in {"offer", "ack", "nak"}, a \in Addrs, l \in Leases \union {NoTimers} :
         /\ Answer(kind, a, l)
         /\ \/ UNCHANGED left /\ kind # "ack"
            \/ l \in Leases /\ left' = [left EXCEPT ![a] = Most(@, l.end)]
  <2>1. CASE OnDiscover
    BY <2>1 DEF OnDiscover, server
  <2>2. CASE OnRequest
    <3>1. request.addr \in Addrs
      BY <2>2, <1>1 DEF OnRequest, IInv, Asked
    <3> QED
      BY <2>2, <3>1 DEF OnRequest
  <2> QED
    BY <2>1, <2>2
<1>3. PICK kind \in {"offer", "ack", "nak"}, a \in Addrs, l \in Leases \union {NoTimers} :
         /\ Answer(kind, a, l)
         /\ \/ UNCHANGED left /\ kind # "ack"
            \/ l \in Leases /\ left' = [left EXCEPT ![a] = Most(@, l.end)]
  BY <1>2
<1> DEFINE new == [kind |-> kind, xid |-> request.xid, addr |-> a, lease |-> l, age |-> 0]
<1>4. answers' = answers \union {new}
  BY <1>3 DEF Answer
<1>5. /\ left' \in [Addrs -> Int] /\ \A b \in Addrs : left[b] <= left'[b]
      /\ kind = "ack" => l \in Leases /\ l.end <= left'[a]
  <2>1. CASE UNCHANGED left /\ kind # "ack"
    BY <2>1, <1>1
  <2>2. CASE l \in Leases /\ left' = [left EXCEPT ![a] = Most(@, l.end)]
    <3>1. l.end \in Nat
      BY <2>2, Constants
    <3>2. /\ Most(left[a], l.end) \in Int /\ left[a] <= Most(left[a], l.end)
          /\ l.end <= Most(left[a], l.end)
      BY <3>1, <1>1 DEF Most
    <3> QED
      BY <3>2, <2>2, <1>1
  <2> QED
    BY <2>1, <2>2, <1>3
<1>6. TypeOK'
  <2>1. new \in [kind : {"offer", "ack", "nak"}, xid : Xids, addr : Addrs,
                 lease : Leases \union {NoTimers}, age : 0 .. MaxDelay]
    BY <1>1
  <2>2. answers' \subseteq [kind : {"offer", "ack", "nak"}, xid : Xids, addr : Addrs,
                            lease : Leases \union {NoTimers}, age : 0 .. MaxDelay]
    BY <2>1, <1>1, <1>4
  <2> QED
    BY <2>2, <1>1, <1>5, Constants DEF IInv, TypeOK
<1>7. AcksCovered'
  <2> SUFFICES ASSUME NEW m \in answers', m.kind = "ack"
               PROVE  m.lease \in Leases /\ m.lease.end <= left'[m.addr] + m.age
    BY DEF AcksCovered
  <2>1. CASE m \in answers
    <3>1. m.lease \in Leases /\ m.lease.end <= left[m.addr] + m.age /\ m.addr \in Addrs /\ m.age \in Nat
      BY <2>1, <1>1 DEF IInv, AcksCovered
    <3>2. m.lease.end \in Nat
      BY <3>1, Constants
    <3> QED
      BY <3>1, <3>2, <1>1, <1>5
  <2>2. CASE m = new
    <3>1. m.lease = l /\ m.addr = a /\ m.age = 0 /\ kind = "ack"
      BY <2>2
    <3>2. left'[a] \in Int
      BY <1>5
    <3> QED
      BY <3>1, <3>2, <1>5
  <2> QED
    BY <2>1, <2>2, <1>4
<1>8. TimersCovered' /\ RenewCovered' /\ LeaseCovers'
  <2>1. TypeOK /\ TimersCovered /\ RenewCovered /\ LeaseCovers
    BY DEF IInv
  <2>2. state = "renewing" => addr \in Addrs
    BY <2>1 DEF TypeOK
  <2>3. iface # None => iface \in Addrs
    BY <2>1 DEF TypeOK
  <2> QED
    BY <2>1, <2>2, <2>3, <1>1, <1>5, Constants DEF TypeOK, TimersCovered, RenewCovered, LeaseCovers
<1>9. Shown' /\ Asked'
  BY <1>1 DEF IInv, Shown, Asked, NoMessage
<1> QED
  BY <1>6, <1>7, <1>8, <1>9 DEF IInv

LEMMA TickStep == IInv /\ Tick => IInv'
PROOF
<1> SUFFICES ASSUME IInv, Tick PROVE IInv'
  OBVIOUS
<1>1. /\ UNCHANGED <<state, addr, rebinding, xid, changed, lastRenew, linkUp, iface, taken>>
      /\ request' = NoMessage /\ left \in [Addrs -> Int] /\ MaxDelay \in Nat
      /\ retry \in [in : Nat, count : 0 .. Retries, first : BOOLEAN]
      /\ timers \in [t1 : Nat, t2 : Nat, end : Nat]
  BY Constants DEF IInv, TypeOK, Tick
<1>2. \A n \in Nat : Down(n) \in Nat /\ Down(n) <= n /\ (n > 0 => Down(n) = n - 1)
  BY DEF Down
<1>3. left' = [a \in Addrs |-> IF left[a] > -MaxDelay - 1 THEN left[a] - 1 ELSE left[a]]
  BY DEF Tick
<1>4. /\ left' \in [Addrs -> Int]
      /\ \A a \in Addrs : left[a] > -MaxDelay - 1 => left'[a] = left[a] - 1
  BY <1>1, <1>3
<1>5. /\ timers' = [t1 |-> Down(timers.t1), t2 |-> Down(timers.t2), end |-> Down(timers.end)]
      /\ retry' = [retry EXCEPT !.in = Down(retry.in)]
  BY DEF Tick
<1>6. /\ timers' \in [t1 : Nat, t2 : Nat, end : Nat]
      /\ retry' \in [in : Nat, count : 0 .. Retries, first : BOOLEAN]
      /\ timers.t1 <= timers.t2 => timers'.t1 <= timers'.t2
      /\ timers.t2 <= timers.end => timers'.t2 <= timers'.end
  BY <1>1, <1>2, <1>5 DEF Down
<1>7. \A m \in answers' : \E n \in answers :
         n.age < MaxDelay /\ m = [n EXCEPT !.age = n.age + 1]
  BY DEF Tick
<1>8. answers \subseteq [kind : {"offer", "ack", "nak"}, xid : Xids, addr : Addrs,
                         lease : Leases \union {NoTimers}, age : 0 .. MaxDelay]
  BY DEF IInv, TypeOK
<1>9. TypeOK'
  <2>1. answers' \subseteq [kind : {"offer", "ack", "nak"}, xid : Xids, addr : Addrs,
                            lease : Leases \union {NoTimers}, age : 0 .. MaxDelay]
    <3> SUFFICES ASSUME NEW m \in answers'
                 PROVE  m \in [kind : {"offer", "ack", "nak"}, xid : Xids, addr : Addrs,
                               lease : Leases \union {NoTimers}, age : 0 .. MaxDelay]
      OBVIOUS
    <3>1. PICK n \in answers : n.age < MaxDelay /\ m = [n EXCEPT !.age = n.age + 1]
      BY <1>7
    <3> QED
      BY <3>1, <1>1, <1>8
  <2> QED
    BY <2>1, <1>1, <1>4, <1>6, Constants DEF IInv, TypeOK
<1>10. AcksCovered'
  <2> SUFFICES ASSUME NEW m \in answers', m.kind = "ack"
               PROVE  m.lease \in Leases /\ m.lease.end <= left'[m.addr] + m.age
    BY DEF AcksCovered
  <2>1. PICK n \in answers : n.age < MaxDelay /\ m = [n EXCEPT !.age = n.age + 1]
    BY <1>7
  <2>2. /\ m.kind = n.kind /\ m.lease = n.lease /\ m.addr = n.addr /\ m.age = n.age + 1
        /\ n.addr \in Addrs /\ n.age \in Nat
    BY <2>1, <1>1, <1>8
  <2>3. n.lease \in Leases /\ n.lease.end <= left[n.addr] + n.age
    BY <2>2 DEF IInv, AcksCovered
  <2>4. n.lease.end \in Nat
    BY <2>3, Constants
  <2>5. left[n.addr] \in Int
    BY <2>2, <1>1
  <2>6. left[n.addr] > -MaxDelay - 1
    BY <2>1, <2>2, <2>3, <2>4, <2>5, <1>1
  <2> QED
    BY <2>2, <2>3, <2>4, <2>5, <2>6, <1>4
<1>11. state = "renewing" => linkUp /\ ~changed /\ timers.end > 0 /\ addr \in Addrs
  <2> SUFFICES ASSUME state = "renewing" PROVE linkUp /\ ~changed /\ timers.end > 0 /\ addr \in Addrs
    OBVIOUS
  <2>1. linkUp
    BY DEF IInv, Shown
  <2>2. ~changed /\ PollAt > 0
    BY <2>1 DEF Tick
  <2>3. timers.end > 0
    BY <2>2, <1>1 DEF PollAt, Least
  <2> QED
    BY <2>1, <2>2, <2>3 DEF IInv, TypeOK
<1>12. TimersCovered' /\ RenewCovered'
  <2>1. RenewCovered'
    BY <1>1, <1>11 DEF RenewCovered
  <2>2. TimersCovered'
    <3> SUFFICES ASSUME state = "renewing" PROVE timers'.end <= left'[addr] + MaxDelay
      BY <1>1 DEF TimersCovered
    <3>1. timers'.end = timers.end - 1 /\ timers.end <= left[addr] + MaxDelay /\ left[addr] \in Int
      BY <1>1, <1>2, <1>5, <1>11 DEF IInv, TimersCovered
    <3>2. left'[addr] = left[addr] - 1
      BY <3>1, <1>1, <1>4, <1>11
    <3> QED
      BY <3>1, <3>2, <1>1
  <2> QED
    BY <2>1, <2>2
<1>13. LeaseCovers'
  <2> SUFFICES ASSUME iface # None PROVE left'[iface] >= -MaxDelay
    BY <1>1 DEF LeaseCovers
  <2>1. linkUp /\ ~changed
    BY DEF IInv, Shown, Tick
  <2>2. state = "renewing" /\ addr = iface
    BY <2>1 DEF IInv, Shown
  <2>3. timers.end > 0 /\ timers.end <= left[iface] + MaxDelay /\ iface \in Addrs /\ left[iface] \in Int
    BY <2>2, <1>1, <1>11 DEF IInv, TimersCovered
  <2>4. left'[iface] = left[iface] - 1
    BY <2>3, <1>1, <1>4
  <2> QED
    BY <2>3, <2>4, <1>1
<1>14. Shown' /\ Asked'
  BY <1>1 DEF IInv, Shown, Asked, NoMessage
<1> QED
  BY <1>9, <1>10, <1>12, <1>13, <1>14 DEF IInv

LEMMA InvStep == IInv /\ [Next]_vars => IInv'
PROOF
<1> SUFFICES ASSUME IInv, [Next]_vars PROVE IInv'
  OBVIOUS
<1>1. CASE GiveUpRequest \/ LeaseExpired
  BY <1>1, ResetStep DEF GiveUpRequest, LeaseExpired
<1>2. ASSUME NEW m \in answers, RecvNak(m) PROVE IInv'
  BY <1>2, ResetStep DEF RecvNak, Arrived
<1>3. CASE LinkChange
  BY <1>3, ResetStep DEF LinkChange
<1>4. ASSUME NEW a \in Addrs, GiveToOther(a) PROVE IInv'
  BY <1>4 DEF GiveToOther, IInv, TypeOK, AcksCovered, TimersCovered, RenewCovered, Shown, Asked,
              LeaseCovers, socket, net
<1>5. CASE UNCHANGED vars
  BY <1>5 DEF vars, IInv, TypeOK, AcksCovered, TimersCovered, RenewCovered, Shown, Asked,
              LeaseCovers, socket, net, server
<1> QED
  BY <1>1, <1>2, <1>3, <1>4, <1>5, SendStep, RenewStep, OfferStep, AckStep, ApplyStep,
     AnswerStep, TickStep DEF Next

LEMMA Invariance == Spec => []IInv
PROOF
  BY InvInit, InvStep, PTL DEF Spec
------------------------------------------------------------------------------
\* Types, and the order of the three renewal times.
THEOREM TypeCorrect == Spec => []TypeOK
PROOF
<1>1. IInv => TypeOK
  BY DEF IInv
<1> QED
  BY <1>1, Invariance, PTL

\* Only Apply puts an address on the interface, and it does so within the lease.
LEMMA ReuseStep ==
    IInv /\ [Next]_vars
        => [/\ LeaseCovers'
            /\ iface' \notin {None, iface} => lastRenew' <= left'[iface']]_vars
PROOF
<1> SUFFICES ASSUME IInv, Next
             PROVE  LeaseCovers' /\ (iface' \notin {None, iface} => lastRenew' <= left'[iface'])
  OBVIOUS
<1>1. LeaseCovers'
  BY InvStep DEF IInv
<1>2. ASSUME iface' \notin {None, iface} PROVE Apply
  BY <1>2 DEF Next, SendDiscover, SendRequest, GiveUpRequest, LeaseExpired, SendRenew, RecvOffer,
         RecvAck, RecvNak, LinkChange, OnDiscover, OnRequest, GiveToOther, Tick
<1> QED
  BY <1>1, <1>2, ApplyStep

\* The address in use is leased, and the reuse window lies within the lease.
THEOREM AddressLeased == Spec => AddressHeld
PROOF
  BY ReuseStep, Invariance, PTL DEF AddressHeld, Spec
------------------------------------------------------------------------------
\* The interface has the client's address, or none, whenever no change of the
\* configuration is still to be reported by poll().
Applied == ~changed => iface = (IF state = "renewing" THEN addr ELSE None)

LEMMA AppliedStep == IInv /\ Applied /\ [Next]_vars => Applied'
PROOF
<1> SUFFICES ASSUME IInv, Applied, [Next]_vars PROVE Applied'
  OBVIOUS
<1> USE DEF Applied
<1>1. CASE SendDiscover \/ SendRequest \/ SendRenew
  BY <1>1 DEF SendDiscover, SendRequest, SendRenew
<1>2. CASE GiveUpRequest \/ LeaseExpired
  BY <1>2 DEF GiveUpRequest, LeaseExpired, Reset
<1>3. ASSUME NEW m \in answers, RecvOffer(m) \/ RecvAck(m) \/ RecvNak(m) PROVE Applied'
  BY <1>3 DEF RecvOffer, RecvAck, RecvNak, Arrived, Reset
<1>4. CASE Apply \/ LinkChange
  BY <1>4 DEF Apply, LinkChange, Reset
<1>5. CASE OnDiscover \/ OnRequest \/ \E a \in Addrs : GiveToOther(a)
  BY <1>5 DEF OnDiscover, OnRequest, GiveToOther, socket
<1>6. CASE Tick \/ UNCHANGED vars
  BY <1>6 DEF Tick, vars, socket
<1> QED
  BY <1>1, <1>2, <1>3, <1>4, <1>5, <1>6 DEF Next

\* An address gained, changed or lost always reaches the interface.
THEOREM InterfaceFollows == Spec => []Applied
PROOF
<1>1. Init => Applied
  BY DEF Init, Applied
<1> QED
  BY <1>1, AppliedStep, Invariance, PTL DEF Spec
------------------------------------------------------------------------------
\* A round of discovery lasts from its first DISCOVER until an OFFER is taken
\* or the socket is reset.
InRound == state = "discovering" /\ ~retry.first

\* While it lasts the xid stays, and every OFFER the server sends in it carries
\* that xid: an OFFER to the first DISCOVER counts however many retries later
\* it comes, which is what the patch of the client is for.
LateOffersCount ==
    [][/\ InRound /\ InRound' => xid' = xid
       /\ InRound => \A m \in answers' \ answers :
             m.kind = "offer" /\ m.age = 0 => m.xid = xid]_vars

DiscoverCurrent == InRound /\ request.kind = "discover" => request.xid = xid

LEMMA RoundStep ==
    IInv /\ DiscoverCurrent /\ [Next]_vars
        => DiscoverCurrent' /\ (InRound /\ InRound' => xid' = xid)
PROOF
<1> SUFFICES ASSUME IInv, DiscoverCurrent, [Next]_vars, InRound'
             PROVE  /\ request'.kind = "discover" => request'.xid = xid'
                    /\ InRound => xid' = xid
  BY DEF DiscoverCurrent
<1> USE DEF DiscoverCurrent, InRound
<1>1. CASE SendDiscover
  BY <1>1 DEF SendDiscover, Send
<1>2. CASE SendRequest \/ SendRenew
  BY <1>2 DEF SendRequest, SendRenew
<1>3. CASE GiveUpRequest \/ LeaseExpired \/ LinkChange
  BY <1>3 DEF GiveUpRequest, LeaseExpired, LinkChange, Reset, AtOnce
<1>4. ASSUME NEW m \in answers, RecvOffer(m) \/ RecvAck(m) \/ RecvNak(m)
      PROVE  FALSE
  BY <1>4 DEF RecvOffer, RecvAck, RecvNak, Reset, AtOnce
<1>5. CASE Apply \/ \E a \in Addrs : GiveToOther(a)
  BY <1>5 DEF Apply, GiveToOther, socket, net
<1>6. CASE OnDiscover \/ OnRequest
  BY <1>6 DEF OnDiscover, OnRequest, socket, NoMessage
<1>7. CASE Tick
  <2>1. /\ state' = state /\ xid' = xid /\ request'.kind = "none"
        /\ retry' = [retry EXCEPT !.in = Down(@)]
    BY <1>7 DEF Tick, NoMessage
  <2>2. retry'.first = retry.first
    BY <2>1 DEF IInv, TypeOK
  <2> QED
    BY <2>1, <2>2
<1>8. CASE UNCHANGED vars
  BY <1>8 DEF vars, socket, net
<1> QED
  BY <1>1, <1>2, <1>3, <1>4, <1>5, <1>6, <1>7, <1>8 DEF Next

LEMMA OfferXid ==
    ASSUME IInv, DiscoverCurrent, Next, InRound, NEW m \in answers' \ answers,
           m.kind = "offer", m.age = 0
    PROVE  m.xid = xid
PROOF
<1>1. CASE OnDiscover
  <2>1. m.xid = request.xid /\ request.kind = "discover"
    BY <1>1 DEF OnDiscover, Answer
  <2> QED
    BY <2>1 DEF DiscoverCurrent
<1>2. CASE OnRequest
  BY <1>2 DEF OnRequest, Answer
<1>3. CASE Tick
  <2>1. PICK n \in answers : m = [n EXCEPT !.age = @ + 1]
    BY <1>3 DEF Tick
  <2>2. m.age = n.age + 1 /\ n.age \in Nat
    BY <2>1, Constants DEF IInv, TypeOK
  <2> QED
    BY <2>2
<1>4. CASE ~(OnDiscover \/ OnRequest \/ Tick)
  BY <1>4 DEF Next, SendDiscover, SendRequest, GiveUpRequest, LeaseExpired, SendRenew, RecvOffer,
     RecvAck, RecvNak, Apply, LinkChange, GiveToOther, net
<1> QED
  BY <1>1, <1>2, <1>3, <1>4

\* The reason why Binds holds with a server slower than the retries.
THEOREM OffersCount == Spec => LateOffersCount
PROOF
<1>1. Init => DiscoverCurrent
  BY DEF Init, DiscoverCurrent, InRound, AtOnce
<1>2. IInv /\ DiscoverCurrent /\ [Next]_vars
        => [/\ InRound /\ InRound' => xid' = xid
            /\ InRound => \A m \in answers' \ answers :
                  m.kind = "offer" /\ m.age = 0 => m.xid = xid]_vars
  BY RoundStep, OfferXid
<1> QED
  BY <1>1, <1>2, RoundStep, Invariance, PTL DEF Spec, LateOffersCount
==============================================================================
