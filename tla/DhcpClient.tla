------------------------------ MODULE DhcpClient ------------------------------
(***************************************************************************)
(* The patched smoltcp DHCP client (patches/smoltcp-0.12.0,                *)
(* socket/dhcpv4.rs) as the firmware drives it: embassy-net resets the     *)
(* socket on every link change and applies what poll() reports, fetch.rs   *)
(* reads the renewal time it publishes.  Server and network are external:  *)
(* a request arrives at once or never, an answer arrives late, several     *)
(* times or never, and an address whose lease has ended may go to others.  *)
(*                                                                         *)
(* Instants are ticks to go.  An xid only ever matters by being one that   *)
(* is in use or not, so a random xid is just any that is not.              *)
(***************************************************************************)
EXTENDS Integers, FiniteSets

CONSTANTS
    Addrs, None,         \* the server's addresses; no address
    Leases,              \* leases it gives: [t1, t2, end] after parse_ack's defaults
    DiscoverTimeout,     \* retry_config.discover_timeout
    RequestTimeout,      \* retry_config.initial_request_timeout
    Retries,             \* retry_config.request_retries
    MinRenew,            \* retry_config.min_renew_timeout
    MinDelay, MaxDelay,  \* how long answers are under way
    Xids,                \* transaction ids, some to spare
    MaxAnswers           \* bound: answers under way at once

ASSUME DhcpAssumption ==
    /\ None \notin Addrs
    /\ Leases \subseteq [t1 : Nat \ {0}, t2 : Nat, end : Nat]
    /\ \A l \in Leases : l.t1 <= l.t2 /\ l.t2 <= l.end /\ l.t1 + MaxDelay <= l.end
    /\ DiscoverTimeout \in Nat \ {0} /\ RequestTimeout \in Nat \ {0}
    /\ Retries \in Nat /\ MinRenew \in Nat \ {0}
    /\ MinDelay \in Nat /\ MaxDelay \in Nat /\ MinDelay <= MaxDelay
    /\ MaxAnswers \in Nat
    /\ Xids # {}
    /\ \A tries \in 0 .. Retries : RequestTimeout * 2 ^ (tries \div 2) \in Nat

VARIABLES
    state,      \* ClientState: "discovering", "requesting" or "renewing"
    retry,      \* retry_at and retry of the first two; first: retry_at is 0
    addr,       \* RequestState.requested_ip, RenewState.config.address
    timers,     \* RenewState: renew_at, rebind_at, expires_at
    rebinding,  \* RenewState.rebinding
    xid,        \* Socket.transaction_id
    changed,    \* Socket.config_changed
    lastRenew,  \* LAST_RENEW_SECS
    linkUp,     \* the link, as embassy-net last saw it
    iface,      \* the address on the interface
    request,    \* the client's message, if it is yet to reach the server
    answers,    \* the server's messages under way
    left,       \* the server's: what is left of our lease of an address
    taken       \* the server's: addresses given to others

socket == <<state, retry, addr, timers, rebinding, xid, changed, lastRenew>>
net == <<request, answers>>
server == <<left, taken>>
vars == <<socket, linkUp, iface, net, server>>

FirstXid == CHOOSE x \in Xids : TRUE
NoMessage == [kind |-> "none", xid |-> FirstXid, addr |-> None]
NoTimers == [t1 |-> 0, t2 |-> 0, end |-> 0]
AtOnce == [in |-> 0, count |-> 0, first |-> TRUE]
Least(a, b) == IF a <= b THEN a ELSE b
Most(a, b) == IF a >= b THEN a ELSE b

TypeOK ==
    /\ state \in {"discovering", "requesting", "renewing"}
    /\ retry \in [in : Nat, count : 0 .. Retries, first : BOOLEAN]
    /\ addr \in Addrs \union {None} /\ iface \in Addrs \union {None}
    /\ timers \in [t1 : Nat, t2 : Nat, end : Nat]
    /\ rebinding \in BOOLEAN /\ changed \in BOOLEAN /\ linkUp \in BOOLEAN
    /\ xid \in Xids /\ lastRenew \in Nat
    /\ request \in [kind : {"none", "discover", "request"}, xid : Xids, addr : Addrs \union {None}]
    /\ answers \subseteq [kind : {"offer", "ack", "nak"}, xid : Xids, addr : Addrs,
                          lease : Leases \union {NoTimers}, age : 0 .. MaxDelay]
    /\ left \in [Addrs -> Int] /\ taken \subseteq Addrs
    \* "Must be less or equal than rebind_at" and so on (dhcpv4.rs:89-108).
    /\ state = "renewing" =>
          /\ addr # None
          /\ ~rebinding => timers.t1 <= timers.t2
          /\ ~rebinding => timers.t2 <= timers.end

Init ==
    /\ state = "discovering" /\ retry = AtOnce /\ addr = None
    /\ timers = NoTimers /\ rebinding = FALSE
    /\ xid = FirstXid /\ changed = TRUE /\ lastRenew = 0
    /\ linkUp = FALSE /\ iface = None
    /\ request = NoMessage /\ answers = {}
    /\ left = [a \in Addrs |-> -MaxDelay] /\ taken = {}
------------------------------------------------------------------------------
(* Sending: Socket::dispatch(), run when poll_at() is due. *)

\* What the socket is to be polled at, in ticks from now.
PollAt ==
    IF state = "renewing"
    THEN Least(timers.end, IF rebinding THEN timers.t2 ELSE Least(timers.t1, timers.t2))
    ELSE retry.in

XidsInUse == {xid, request.xid} \union {m.xid : m \in answers}
RandomXid ==
    CHOOSE x \in Xids : Xids \subseteq XidsInUse \/ x \notin XidsInUse

Send(kind, x, a) == request' = [kind |-> kind, xid |-> x, addr |-> a]

\* Mutant: the loss of the configuration is not reported.
QuietReset ==
    /\ state' = "discovering" /\ retry' = AtOnce
    /\ addr' = None /\ timers' = NoTimers /\ rebinding' = FALSE
    /\ UNCHANGED changed

\* reset(): back to the first DISCOVER; the configuration, if any, is void.
Reset ==
    /\ changed' = (changed \/ state = "renewing")
    /\ state' = "discovering" /\ retry' = AtOnce
    /\ addr' = None /\ timers' = NoTimers /\ rebinding' = FALSE

\* Mutant: upstream's client draws a new xid for each DISCOVER.
NewXidEachTime ==
    /\ linkUp /\ state = "discovering" /\ retry.in = 0
    /\ xid' = RandomXid
    /\ Send("discover", xid', None)
    /\ retry' = [in |-> DiscoverTimeout, count |-> 0, first |-> FALSE]
    /\ UNCHANGED <<state, addr, timers, rebinding, changed, lastRenew, linkUp, iface, answers, server>>

\* Retransmitted DISCOVERs keep the xid of the first one.
SendDiscover ==
    /\ linkUp /\ state = "discovering" /\ retry.in = 0
    /\ xid' = IF retry.first THEN RandomXid ELSE xid
    /\ Send("discover", xid', None)
    /\ retry' = [in |-> DiscoverTimeout, count |-> 0, first |-> FALSE]
    /\ UNCHANGED <<state, addr, timers, rebinding, changed, lastRenew, linkUp, iface, answers, server>>

\* The timeout doubles every two tries.
SendRequest ==
    /\ linkUp /\ state = "requesting" /\ retry.in = 0 /\ retry.count < Retries
    /\ xid' = RandomXid
    /\ Send("request", xid', addr)
    /\ retry' = [retry EXCEPT !.in = RequestTimeout * 2 ^ (retry.count \div 2), !.count = @ + 1]
    /\ UNCHANGED <<state, addr, timers, rebinding, changed, lastRenew, linkUp, iface, answers, server>>

GiveUpRequest ==
    /\ linkUp /\ state = "requesting" /\ retry.in = 0 /\ retry.count = Retries
    /\ Reset
    /\ UNCHANGED <<xid, lastRenew, linkUp, iface, net, server>>

LeaseExpired ==
    /\ linkUp /\ state = "renewing" /\ timers.end = 0
    /\ Reset
    /\ UNCHANGED <<xid, lastRenew, linkUp, iface, net, server>>

\* Mutant: a renewal is retried no earlier than MinRenew from now, come T2 or not.
RetryPastT2 ==
    /\ linkUp /\ state = "renewing" /\ timers.end > 0
    /\ timers.t1 = 0 /\ (rebinding => timers.t2 = 0)
    /\ rebinding' = (rebinding \/ timers.t2 = 0)
    /\ xid' = RandomXid
    /\ Send("request", xid', addr)
    /\ timers' = IF rebinding'
                 THEN [timers EXCEPT !.t2 = Most(MinRenew, timers.end \div 2)]
                 ELSE [timers EXCEPT !.t1 = Most(MinRenew, timers.t2 \div 2)]
    /\ UNCHANGED <<state, retry, addr, changed, lastRenew, linkUp, iface, answers, server>>

\* Renewing goes to the server, rebinding to any; both wait half of what is
\* left before they try again.
SendRenew ==
    /\ linkUp /\ state = "renewing" /\ timers.end > 0
    /\ timers.t1 = 0 /\ (rebinding => timers.t2 = 0)
    /\ rebinding' = (rebinding \/ timers.t2 = 0)
    /\ xid' = RandomXid
    /\ Send("request", xid', addr)
    /\ timers' =
          IF rebinding'
          THEN [timers EXCEPT !.t2 = Most(MinRenew, timers.end \div 2)]
          ELSE [timers EXCEPT !.t1 = Least(Most(MinRenew, timers.t2 \div 2), timers.t2)]
    /\ UNCHANGED <<state, retry, addr, changed, lastRenew, linkUp, iface, answers, server>>

Dispatch == SendDiscover \/ SendRequest \/ GiveUpRequest \/ LeaseExpired \/ SendRenew
------------------------------------------------------------------------------
(* Receiving: Socket::process(); an answer with another xid is dropped. *)

Arrived(m, kind) == linkUp /\ m.kind = kind /\ m.xid = xid /\ m.age >= MinDelay

RecvOffer(m) ==
    /\ Arrived(m, "offer") /\ state = "discovering"
    /\ state' = "requesting" /\ addr' = m.addr
    /\ retry' = [in |-> 0, count |-> 0, first |-> FALSE]
    /\ UNCHANGED <<timers, rebinding, xid, changed, lastRenew, linkUp, iface, net, server>>

\* parse_ack() publishes the lease's times; a first lease or another address is
\* a configuration change.
RecvAck(m) ==
    /\ Arrived(m, "ack") /\ state \in {"requesting", "renewing"}
    /\ changed' = (changed \/ state = "requesting" \/ addr # m.addr)
    /\ state' = "renewing" /\ addr' = m.addr
    /\ timers' = m.lease /\ rebinding' = FALSE /\ retry' = AtOnce
    /\ lastRenew' = m.lease.t1
    /\ UNCHANGED <<xid, linkUp, iface, net, server>>

RecvNak(m) ==
    /\ Arrived(m, "nak") /\ state \in {"requesting", "renewing"}
    /\ Reset
    /\ UNCHANGED <<xid, lastRenew, linkUp, iface, net, server>>
------------------------------------------------------------------------------
(* embassy-net, external: it polls the socket and follows the link. *)

\* poll(): Configured or Deconfigured, after every run of the stack.
Apply ==
    /\ linkUp /\ changed
    /\ changed' = FALSE
    /\ iface' = IF state = "renewing" THEN addr ELSE None
    /\ UNCHANGED <<state, retry, addr, timers, rebinding, xid, lastRenew, linkUp, net, server>>

LinkChange ==
    /\ linkUp' = ~linkUp
    /\ Reset
    /\ iface' = None
    /\ UNCHANGED <<xid, lastRenew, net, server>>

(* The server, external.  It keeps an address until the last lease it gave *)
(* of it has ended.                                                       *)

Answer(kind, a, lease) ==
    /\ Cardinality(answers) < MaxAnswers
    /\ answers' = answers \union
        {[kind |-> kind, xid |-> request.xid, addr |-> a, lease |-> lease, age |-> 0]}

OnDiscover ==
    /\ request.kind = "discover"
    /\ \E a \in Addrs \ taken : Answer("offer", a, NoTimers)
    /\ request' = NoMessage
    /\ UNCHANGED <<socket, linkUp, iface, server>>

OnRequest ==
    /\ request.kind = "request"
    /\ \/ /\ request.addr \notin taken
          /\ \E l \in Leases : /\ Answer("ack", request.addr, l)
                               /\ left' = [left EXCEPT ![request.addr] = Most(@, l.end)]
       \/ /\ request.addr \in taken
          /\ Answer("nak", request.addr, NoTimers)
          /\ UNCHANGED left
    /\ request' = NoMessage
    /\ UNCHANGED <<socket, linkUp, iface, taken>>

\* Bound: one address is never given away, and none comes back.
GiveToOther(a) ==
    /\ left[a] <= 0
    /\ a \notin taken /\ Addrs \ taken # {a}
    /\ taken' = taken \union {a}
    /\ UNCHANGED <<socket, linkUp, iface, net, left>>

\* A tick, once all that is due now is done.
Down(n) == IF n > 0 THEN n - 1 ELSE 0

Tick ==
    /\ linkUp => PollAt > 0 /\ ~changed
    /\ retry' = [retry EXCEPT !.in = Down(@)]
    /\ timers' = [t1 |-> Down(timers.t1), t2 |-> Down(timers.t2), end |-> Down(timers.end)]
    /\ request' = NoMessage
    /\ answers' = {[m EXCEPT !.age = @ + 1] : m \in {n \in answers : n.age < MaxDelay}}
    \* bound: time since a lease ended counts no further than it matters
    /\ left' = [a \in Addrs |-> IF left[a] > -MaxDelay - 1 THEN left[a] - 1 ELSE left[a]]
    /\ UNCHANGED <<state, addr, rebinding, xid, changed, lastRenew, linkUp, iface, taken>>

Next ==
    \/ SendDiscover \/ SendRequest \/ GiveUpRequest \/ LeaseExpired \/ SendRenew
    \/ \E m \in answers : RecvOffer(m) \/ RecvAck(m) \/ RecvNak(m)
    \/ Apply \/ LinkChange
    \/ OnDiscover \/ OnRequest \/ \E a \in Addrs : GiveToOther(a)
    \/ Tick

Spec == Init /\ [][Next]_vars

\* The stack runs and time passes; a server asked again and again answers, and
\* not every answer is lost.
FairSpec ==
    /\ Spec
    /\ WF_vars(Dispatch) /\ WF_vars(Apply) /\ WF_vars(Tick)
    /\ SF_vars(OnDiscover) /\ SF_vars(OnRequest)
    /\ SF_vars(\E m \in answers : RecvOffer(m))
    /\ SF_vars(\E m \in answers : RecvAck(m) \/ RecvNak(m))
------------------------------------------------------------------------------
(* Properties. *)

LeaseCovers == iface # None => left[iface] >= -MaxDelay

\* The interface never keeps an address for longer after the server's lease of
\* it ended than an answer can be late, through lost, repeated and late answers,
\* resets and refused renewals; and the renewal time fetch.rs reads when an
\* address comes up, and reuses the address for, lies within the server's lease.
AddressHeld ==
    [][/\ LeaseCovers'
       /\ iface' \notin {None, iface} => lastRenew' <= left'[iface']]_vars

\* "With the patched smoltcp keeping the xid across retries, so a late OFFER
\* still counts" (network.rs:33): while the link stays up the board comes to an
\* address again and again, also with a server slower than the DISCOVER retry.
Binds == <>[]linkUp => []<>(iface # None)
==============================================================================
