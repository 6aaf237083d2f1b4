--------------------------- MODULE TimerQueueProofs ---------------------------
(***************************************************************************)
(* Theorems about TimerQueue, for every set of timers and of timeouts.     *)
(***************************************************************************)
EXTENDS TimerQueue, SequenceTheorems, TLAPS

------------------------------------------------------------------------------
(* Lists. *)

\* Linking a timer at the head.
LEMMA Push ==
    ASSUME NEW S, NEW s \in Seq(S), NEW t \in S
    PROVE  /\ <<t>> \o s \in Seq(S)
           /\ Members(<<t>> \o s) = {t} \union Members(s)
           /\ IsInjective(s) /\ t \notin Members(s) => IsInjective(<<t>> \o s)
<1> DEFINE u == <<t>> \o s
<1>1. /\ u \in Seq(S) /\ Len(u) = Len(s) + 1 /\ u[1] = t
      /\ DOMAIN u = 1 .. Len(s) + 1 /\ DOMAIN s = 1 .. Len(s) /\ Len(s) \in Nat
  OBVIOUS
<1>2. \A i \in 1 .. Len(s) : u[i + 1] = s[i]
  OBVIOUS
<1>3. \A i \in DOMAIN u : i # 1 => i - 1 \in DOMAIN s /\ u[i] = s[i - 1]
  BY <1>1, <1>2
<1>6. \A i \in DOMAIN s : i + 1 \in DOMAIN u /\ u[i + 1] = s[i]
  BY <1>1, <1>2
<1> HIDE DEF u
<1>4. Members(u) = {t} \union Members(s)
  <2>1. 1 \in DOMAIN u
    BY <1>1
  <2>2. QED
    BY <1>1, <1>3, <1>6, <2>1 DEF Members
<1>5. ASSUME IsInjective(s), t \notin Members(s) PROVE IsInjective(u)
  <2> SUFFICES ASSUME NEW i \in DOMAIN u, NEW j \in DOMAIN u, u[i] = u[j] PROVE i = j
    BY DEF IsInjective
  <2>1. i \in Nat /\ j \in Nat
    BY <1>1
  <2>2. CASE i = 1 \/ j = 1
    BY <1>1, <1>3, <1>5, <2>2 DEF Members
  <2>3. CASE i # 1 /\ j # 1
    <3>1. s[i - 1] = s[j - 1] /\ i - 1 \in DOMAIN s /\ j - 1 \in DOMAIN s
      BY <1>3, <2>3
    <3>2. i - 1 = j - 1
      BY <1>5, <3>1 DEF IsInjective
    <3>3. QED
      BY <2>1, <3>2
  <2>4. QED
    BY <2>2, <2>3
<1>7. QED
  BY <1>1, <1>4, <1>5 DEF u

\* Taking the first timer off.
LEMMA Pop ==
    ASSUME NEW S, NEW s \in Seq(S), s # <<>>
    PROVE  /\ Head(s) \in S /\ Tail(s) \in Seq(S)
           /\ Members(s) = {Head(s)} \union Members(Tail(s))
           /\ IsInjective(s) => Head(s) \notin Members(Tail(s)) /\ IsInjective(Tail(s))
<1>1. /\ Len(s) >= 1 /\ Head(s) = s[1] /\ Tail(s) \in Seq(S) /\ Len(Tail(s)) = Len(s) - 1
      /\ \A i \in 1 .. Len(s) - 1 : Tail(s)[i] = s[i + 1]
  OBVIOUS
<1>2. \A i \in DOMAIN s : i # 1 => i - 1 \in DOMAIN Tail(s) /\ Tail(s)[i - 1] = s[i]
  BY <1>1
<1>3. Members(s) = {Head(s)} \union Members(Tail(s))
  <2>1. 1 \in DOMAIN s
    BY <1>1
  <2> DEFINE u == Tail(s)
  <2>2. \A j \in DOMAIN u : j + 1 \in DOMAIN s /\ u[j] = s[j + 1]
    BY <1>1
  <2>3. \A j \in DOMAIN s : j # 1 => j - 1 \in DOMAIN u /\ u[j - 1] = s[j]
    BY <1>2
  <2> HIDE DEF u
  <2>4. Members(s) = {s[1]} \union Members(u)
    BY <2>1, <2>2, <2>3 DEF Members
  <2>5. QED
    BY <1>1, <2>4 DEF u
<1>4. ASSUME IsInjective(s) PROVE Head(s) \notin Members(Tail(s)) /\ IsInjective(Tail(s))
  <2> DEFINE u == Tail(s)
  <2>1. \A j \in DOMAIN u : j \in Nat /\ j + 1 \in DOMAIN s /\ u[j] = s[j + 1] /\ j + 1 # 1
    BY <1>1
  <2>2. 1 \in DOMAIN s
    BY <1>1
  <2>3. Head(s) \notin Members(u)
    BY <1>1, <1>4, <2>1, <2>2 DEF IsInjective, Members
  <2>4. ASSUME NEW j \in DOMAIN u, NEW k \in DOMAIN u, u[j] = u[k] PROVE j = k
    <3>1. j + 1 = k + 1
      BY <1>4, <2>1, <2>4 DEF IsInjective
    <3>2. QED
      BY <2>1, <3>1
  <2>5. QED
    BY <2>3, <2>4 DEF IsInjective
<1>5. QED
  BY <1>1, <1>3, <1>4

\* Bypassing one timer.
LEMMA Bypass ==
    ASSUME NEW S, NEW s \in Seq(S), NEW i \in DOMAIN s, IsInjective(s)
    PROVE  /\ RemoveAt(s, i) \in Seq(S)
           /\ Members(RemoveAt(s, i)) = Members(s) \ {s[i]}
           /\ IsInjective(RemoveAt(s, i))
<1> DEFINE u == RemoveAt(s, i)
<1>1. /\ u \in Seq(S) /\ Len(u) = Len(s) - 1
      /\ \A j \in 1 .. Len(s) - 1 : u[j] = IF j < i THEN s[j] ELSE s[j + 1]
  <2> DEFINE a == SubSeq(s, 1, i - 1)
             b == SubSeq(s, i + 1, Len(s))
  <2>1. i \in 1 .. Len(s) /\ Len(s) \in Nat
    OBVIOUS
  <2>8. \A j \in 1 .. Len(s) : s[j] \in S
    OBVIOUS
  <2>2. a \in Seq(S) /\ Len(a) = i - 1 /\ \A j \in 1 .. i - 1 : a[j] = s[j]
    <3>1. \A j \in 1 .. i - 1 : s[j] \in S
      BY <2>1, <2>8
    <3>2. /\ a \in Seq(S) /\ Len(a) = IF 1 <= i - 1 THEN (i - 1) - 1 + 1 ELSE 0
          /\ \A j \in 1 .. (i - 1) - 1 + 1 : a[j] = s[1 + j - 1]
      BY <2>1, <3>1, SubSeqProperties
    <3> HIDE DEF a
    <3>3. QED
      BY <2>1, <3>2
  <2>3. b \in Seq(S) /\ Len(b) = Len(s) - i /\ \A j \in 1 .. Len(s) - i : b[j] = s[i + j]
    <3>1. \A j \in i + 1 .. Len(s) : s[j] \in S
      BY <2>1, <2>8
    <3>2. /\ b \in Seq(S)
          /\ Len(b) = IF i + 1 <= Len(s) THEN Len(s) - (i + 1) + 1 ELSE 0
          /\ \A j \in 1 .. Len(s) - (i + 1) + 1 : b[j] = s[(i + 1) + j - 1]
      BY <2>1, <3>1, SubSeqProperties
    <3> HIDE DEF b
    <3>3. QED
      BY <2>1, <3>2
  <2>4. u = a \o b
    BY DEF RemoveAt
  <2> HIDE DEF a, b, u
  <2>5. u \in Seq(S) /\ Len(u) = Len(s) - 1
    BY <2>1, <2>2, <2>3, <2>4
  <2>6. ASSUME NEW j \in 1 .. Len(s) - 1 PROVE u[j] = IF j < i THEN s[j] ELSE s[j + 1]
    <3>1. CASE j < i
      BY <2>1, <2>2, <2>3, <2>4, <3>1
    <3>2. CASE ~(j < i)
      <4>1. u[j] = b[j - (i - 1)]
        <5>1. j \in 1 .. Len(a) + Len(b) /\ ~(j <= Len(a))
          BY <2>1, <2>2, <2>3, <3>2
        <5>2. (a \o b)[j] = b[j - Len(a)]
          BY <2>2, <2>3, <5>1, ConcatProperties
        <5>3. QED
          BY <2>2, <2>4, <5>2
      <4>2. j - (i - 1) \in 1 .. Len(s) - i /\ i + (j - (i - 1)) = j + 1
        BY <2>1, <3>2
      <4>3. QED
        BY <2>3, <3>2, <4>1, <4>2
    <3>3. QED
      BY <3>1, <3>2
  <2>7. QED
    BY <2>5, <2>6
<1>2. \A j \in DOMAIN s : /\ j < i => j \in DOMAIN u /\ u[j] = s[j]
                          /\ j > i => j - 1 \in DOMAIN u /\ u[j - 1] = s[j]
  BY <1>1
<1>3. Members(u) = Members(s) \ {s[i]}
  <2>1. ASSUME NEW j \in DOMAIN u PROVE u[j] \in Members(s) \ {s[i]}
    BY <1>1, <2>1 DEF Members, IsInjective
  <2>2. ASSUME NEW j \in DOMAIN s, s[j] # s[i] PROVE s[j] \in Members(u)
    <3>1. j < i \/ j > i
      BY <2>2
    <3>2. QED
      BY <1>2, <2>2, <3>1 DEF Members
  <2>3. QED
    BY <2>1, <2>2 DEF Members
<1>4. IsInjective(u)
  <2> SUFFICES ASSUME NEW j \in DOMAIN u, NEW k \in DOMAIN u, u[j] = u[k] PROVE j = k
    BY DEF IsInjective
  <2> HIDE DEF u
  <2> DEFINE at(x) == IF x < i THEN x ELSE x + 1
  <2>1. /\ j \in Nat /\ at(j) \in DOMAIN s /\ u[j] = s[at(j)]
        /\ k \in Nat /\ at(k) \in DOMAIN s /\ u[k] = s[at(k)]
    BY <1>1
  <2>2. at(j) = at(k)
    BY <2>1 DEF IsInjective
  <2>3. QED
    BY <2>1, <2>2
<1>5. QED
  BY <1>1, <1>3, <1>4
------------------------------------------------------------------------------
(* The inductive invariant. *)

\* A timer the driver still has is not marked to be freed.
LiveKept == \A t \in live : ~props[t].drop

\* An active timer is either still to be looked at in this round, or queued and
\* allowed for in next_wakeup, at which the task, if asleep, wakes.
Timely ==
    /\ task = "asleep" => wakeAt = nextWakeup
    /\ \A t \in live :
         props[t].active => t \in Held \/ (t \in Members(queue) /\ nextWakeup <= props[t].due)

IInv == TypeOK /\ ListsSound /\ NoLeak /\ LiveKept /\ Timely

LEMMA EmptyMembers == Members(<<>>) = {}
BY DEF Members

LEMMA OneMember == ASSUME NEW t PROVE Members(<<t>>) = {t}
BY DEF Members

\* What Enqueue does, whatever list the timer is in.
LEMMA EnqueueEffect ==
    ASSUME TypeOK, ListsSound, NEW t \in T, NEW p \in Properties, NEW wakeup \in Nat,
           ~p.enqueued => t \notin Members(queue),
           Enqueue(t, p, wakeup)
    PROVE  /\ props' = [props EXCEPT ![t] = [p EXCEPT !.enqueued = TRUE]]
           /\ props' \in [T -> Properties]
           /\ queue' \in Seq(T) /\ IsInjective(queue')
           /\ Members(queue') = Members(queue) \union (IF p.enqueued THEN {} ELSE {t})
           /\ nextWakeup' \in Nat /\ nextWakeup' <= p.due
           /\ task # "none" => nextWakeup' <= wakeup
           /\ wakeAt' \in Nat
           /\ \/ task' = "ready"
              \/ task' = task /\ wakeAt' = wakeAt /\ nextWakeup' = wakeup /\ task # "none"
<1>1. [p EXCEPT !.enqueued = TRUE] \in Properties
  BY DEF Properties
<1>2. queue' = IF p.enqueued THEN queue ELSE <<t>> \o queue
  BY DEF Enqueue
<1>3. queue' \in Seq(T) /\ IsInjective(queue')
      /\ Members(queue') = Members(queue) \union (IF p.enqueued THEN {} ELSE {t})
  <2>1. CASE p.enqueued
    BY <1>2, <2>1 DEF TypeOK, ListsSound
  <2>2. CASE ~p.enqueued
    <3>1. queue \in Seq(T) /\ IsInjective(queue) /\ t \notin Members(queue)
      BY <2>2 DEF TypeOK, ListsSound
    <3>2. QED
      BY <1>2, <2>2, <3>1, Push
  <2>3. QED
    BY <2>1, <2>2
<1>4. p.due \in Nat /\ nextWakeup \in Nat /\ wakeAt \in Nat /\ task \in {"none", "ready", "asleep"}
  BY DEF Properties, TypeOK
<1>5. QED
  BY <1>1, <1>3, <1>4, TimersAssumption DEF TimersAssumption, Enqueue, TypeOK
------------------------------------------------------------------------------
(* One lemma per action. *)

\* A step that leaves the lists alone.
LEMMA SameLists ==
    ASSUME ListsSound, UNCHANGED lists, Listed \subseteq heap',
           \A x \in heap' : props'[x].enqueued <=> x \in Listed
    PROVE  ListsSound' /\ Held' = Held /\ Listed' = Listed
<1>1. queue' = queue /\ detached' = detached /\ current' = current
  BY DEF lists
<1>2. Held' = Held /\ Listed' = Listed
  BY <1>1 DEF Listed, Held, Members
<1>3. /\ IsInjective(queue') /\ IsInjective(detached')
      /\ Members(queue') \intersect Held' = {}
      /\ Members(detached') \intersect Members(current') = {}
  BY <1>1, <1>2 DEF ListsSound
<1>4. QED
  BY <1>2, <1>3 DEF ListsSound

LEMMA CreateStep == ASSUME IInv, NEW t \in T, Create(t) PROVE IInv'
<1> USE DEF IInv, Create, memory, lists
<1>1. Fresh \in Properties
  BY DEF Fresh, Properties
<1>2. /\ queue' = queue /\ detached' = detached /\ current' = current
      /\ \A x \in T \ {t} : props'[x] = props[x]
      /\ props'[t] = Fresh /\ t \notin Listed /\ Listed' = Listed /\ Held' = Held
      /\ Members(queue)' = Members(queue)
  BY DEF TypeOK, ListsSound, Listed, Held, Members
<1>3. TypeOK'
  BY <1>1, <1>2 DEF TypeOK
<1>4. ListsSound'
  <2>1. \A x \in heap' : props'[x].enqueued <=> x \in Listed
    BY <1>2 DEF ListsSound, Fresh, TypeOK
  <2>2. Listed \subseteq heap'
    BY DEF ListsSound
  <2>3. QED
    BY <2>1, <2>2, SameLists
<1>5. NoLeak' /\ LiveKept'
  BY <1>2 DEF NoLeak, LiveKept, Fresh, TypeOK
<1>6. Timely'
  <2>1. ASSUME NEW x \in live', props'[x].active
        PROVE  x \in Held' \/ (x \in Members(queue)' /\ nextWakeup' <= props'[x].due)
    <3>1. x \in T /\ x # t /\ x \in live
      BY <1>2, <2>1 DEF Fresh, TypeOK
    <3>2. QED
      BY <1>2, <2>1, <3>1 DEF Timely
  <2>2. task' = "asleep" => wakeAt' = nextWakeup'
    BY DEF Timely
  <2>3. QED
    BY <2>1, <2>2 DEF Timely
<1>7. QED
  BY <1>3, <1>4, <1>5, <1>6

LEMMA ArmStep ==
    ASSUME IInv, NEW t \in T, NEW d \in Timeouts, NEW b \in BOOLEAN, Arm(t, d, b)
    PROVE  IInv'
<1> DEFINE p == [props[t] EXCEPT !.active = TRUE, !.due = now + d, !.period = d, !.periodic = b]
<1>1. p \in Properties /\ p.enqueued = props[t].enqueued /\ p.drop = props[t].drop
  <2>1. now \in Nat /\ d \in Nat /\ now + d \in Nat
    BY TimersAssumption DEF TimersAssumption, IInv, TypeOK
  <2>2. props[t] \in Properties
    BY DEF IInv, TypeOK
  <2>3. QED
    BY <2>1, <2>2 DEF Properties
<1>2. t \in live /\ t \in heap /\ nextWakeup \in Nat
  BY DEF Arm, IInv, TypeOK
<1>3. ~p.enqueued => t \notin Members(queue)
  BY <1>1, <1>2 DEF IInv, ListsSound, Listed
<1> HIDE DEF p
<1>4. Enqueue(t, p, nextWakeup)
  BY DEF Arm, p
<1>5. /\ props' = [props EXCEPT ![t] = [p EXCEPT !.enqueued = TRUE]]
      /\ props' \in [T -> Properties]
      /\ queue' \in Seq(T) /\ IsInjective(queue')
      /\ Members(queue') = Members(queue) \union (IF p.enqueued THEN {} ELSE {t})
      /\ nextWakeup' \in Nat /\ nextWakeup' <= p.due
      /\ task # "none" => nextWakeup' <= nextWakeup
      /\ wakeAt' \in Nat
      /\ \/ task' = "ready"
         \/ task' = task /\ wakeAt' = wakeAt /\ nextWakeup' = nextWakeup /\ task # "none"
  BY <1>1, <1>2, <1>3, <1>4, EnqueueEffect DEF IInv
<1>6. /\ now' = now /\ heap' = heap /\ live' = live /\ pc' = pc
      /\ detached' = detached /\ current' = current /\ Held' = Held
  BY DEF Arm, memory, Held, Members
<1>7. /\ \A x \in T \ {t} : props'[x] = props[x]
      /\ props'[t].enqueued /\ props'[t].drop = props[t].drop /\ props'[t].due = p.due
      /\ p.due \in Nat
  BY <1>1, <1>5 DEF Properties, IInv, TypeOK
<1>8. Members(queue') = Members(queue) \union (IF props[t].enqueued THEN {} ELSE {t})
  BY <1>1, <1>5
<1>9. t \in Listed' /\ Listed' = Listed \union {t}
  <2>1. Listed' = Members(queue') \union Held'
    BY DEF Listed, Members
  <2>2. props[t].enqueued <=> t \in Listed
    BY <1>2 DEF IInv, ListsSound
  <2>3. QED
    BY <1>6, <1>8, <2>1, <2>2 DEF Listed
<1>10. TypeOK'
  BY <1>5, <1>6 DEF IInv, TypeOK
<1>11. ListsSound'
  <2>1. IsInjective(queue') /\ IsInjective(detached')
    BY <1>5, <1>6 DEF IInv, ListsSound
  <2>2. Members(queue') \intersect Held' = {} /\ Listed' \subseteq heap'
    BY <1>2, <1>6, <1>8, <1>9 DEF IInv, ListsSound, Listed
  <2>3. Members(detached') \intersect Members(current') = {}
    BY <1>6 DEF IInv, ListsSound, Members
  <2>4. ASSUME NEW x \in heap' PROVE props'[x].enqueued <=> x \in Listed'
    BY <1>6, <1>7, <1>9, <2>4 DEF IInv, ListsSound, TypeOK
  <2>5. QED
    BY <2>1, <2>2, <2>3, <2>4 DEF ListsSound
<1>12. NoLeak' /\ LiveKept'
  BY <1>2, <1>6, <1>7 DEF IInv, NoLeak, LiveKept, TypeOK
<1>13. Timely'
  <2>1. task' = "asleep" => wakeAt' = nextWakeup'
    BY <1>5 DEF IInv, Timely
  <2>2. ASSUME NEW x \in live', props'[x].active
        PROVE  x \in Held' \/ (x \in Members(queue') /\ nextWakeup' <= props'[x].due)
    <3>1. CASE x = t
      BY <1>5, <1>6, <1>7, <1>9, <3>1 DEF Listed
    <3>2. CASE x # t
      <4>1. x \in T /\ x \in live /\ props'[x] = props[x]
        BY <1>6, <1>7, <2>2, <3>2 DEF IInv, TypeOK
      <4>2. x \in Held \/ (x \in Members(queue) /\ nextWakeup <= props[x].due)
        BY <2>2, <4>1 DEF IInv, Timely
      <4>3. x \in Members(queue) => task # "none"
        BY EmptyMembers DEF IInv, TypeOK
      <4>4. props[x].due \in Nat
        BY <4>1 DEF IInv, TypeOK, Properties
      <4>5. QED
        BY <1>2, <1>5, <1>6, <1>8, <4>1, <4>2, <4>3, <4>4
    <3>3. QED
      BY <3>1, <3>2
  <2>3. QED
    BY <2>1, <2>2 DEF Timely
<1>14. QED
  BY <1>10, <1>11, <1>12, <1>13 DEF IInv

LEMMA DisarmStep == ASSUME IInv, NEW t \in T, Disarm(t) PROVE IInv'
<1> USE DEF IInv, Disarm, memory
<1>1. /\ props' \in [T -> Properties]
      /\ \A x \in T : /\ props'[x].enqueued = props[x].enqueued
                      /\ props'[x].drop = props[x].drop
                      /\ props'[x].due = props[x].due
                      /\ props'[x].active => props[x].active
  BY DEF TypeOK, Properties
<1>2. ListsSound' /\ Held' = Held /\ Members(queue') = Members(queue)
  <2>1. \A x \in heap' : props'[x].enqueued <=> x \in Listed
    BY <1>1 DEF ListsSound, TypeOK
  <2>2. QED
    BY <2>1, SameLists DEF ListsSound, lists
<1>3. TypeOK'
  BY <1>1 DEF TypeOK, lists
<1>4. NoLeak' /\ LiveKept'
  BY <1>1, <1>2 DEF NoLeak, LiveKept, TypeOK
<1>5. Timely'
  BY <1>1, <1>2 DEF Timely, TypeOK
<1>6. QED
  BY <1>2, <1>3, <1>4, <1>5

LEMMA DeleteStep == ASSUME IInv, NEW t \in T, Delete(t) PROVE IInv'
<1>1. /\ t \in live /\ t \in heap /\ live' = live \ {t}
      /\ now' = now /\ detached' = detached /\ current' = current
      /\ nextWakeup' = nextWakeup /\ wakeAt' = wakeAt /\ task' = task /\ pc' = pc
      /\ Held' = Held /\ Listed' = Members(queue') \union Held
  BY DEF Delete, IInv, TypeOK, Held, Listed, Members
<1>2. Contains(queue, t) <=> t \in Members(queue)
  BY DEF Contains, Members, IInv, TypeOK
<1>3. /\ props' \in [T -> Properties] /\ queue' \in Seq(T) /\ IsInjective(queue')
      /\ \A x \in T \ {t} : props'[x] = props[x]
      /\ Members(queue') = Members(queue) \ {t}
      /\ queue = <<>> => queue' = <<>>
      /\ \/ heap' = heap \ {t} /\ t \notin Held
         \/ heap' = heap /\ t \in Held /\ props'[t].drop /\ props'[t].enqueued
  <2>1. CASE \E i \in DOMAIN queue :
               /\ queue[i] = t /\ queue' = RemoveAt(queue, i)
               /\ props' = [props EXCEPT ![t].enqueued = FALSE] /\ heap' = heap \ {t}
    <3>1. PICK i \in DOMAIN queue :
               /\ queue[i] = t /\ queue' = RemoveAt(queue, i)
               /\ props' = [props EXCEPT ![t].enqueued = FALSE] /\ heap' = heap \ {t}
      BY <2>1
    <3>2. queue \in Seq(T) /\ IsInjective(queue)
      BY DEF IInv, TypeOK, ListsSound
    <3>3. /\ queue' \in Seq(T) /\ IsInjective(queue')
          /\ Members(queue') = Members(queue) \ {t}
      BY <3>1, <3>2, Bypass
    <3>4. t \notin Held /\ queue # <<>>
      BY <3>1 DEF Members, IInv, ListsSound
    <3>5. props' \in [T -> Properties] /\ \A x \in T \ {t} : props'[x] = props[x]
      BY <3>1 DEF IInv, TypeOK, Properties
    <3>6. QED
      BY <3>1, <3>3, <3>4, <3>5
  <2>2. CASE /\ ~Contains(queue, t) /\ ~props[t].enqueued
             /\ heap' = heap \ {t} /\ UNCHANGED <<queue, props>>
    BY <1>1, <1>2, <2>2 DEF IInv, TypeOK, ListsSound, Listed
  <2>3. CASE /\ ~Contains(queue, t) /\ props[t].enqueued
             /\ props' = [props EXCEPT ![t].drop = TRUE] /\ UNCHANGED <<heap, queue>>
    <3>1. t \in Held
      BY <1>1, <1>2, <2>3 DEF IInv, ListsSound, Listed
    <3>2. props' \in [T -> Properties] /\ \A x \in T \ {t} : props'[x] = props[x]
      BY <2>3 DEF IInv, TypeOK, Properties
    <3>3. props'[t].drop /\ props'[t].enqueued
      BY <2>3 DEF IInv, TypeOK, Properties
    <3>4. QED
      BY <1>2, <2>3, <3>1, <3>2, <3>3 DEF IInv, TypeOK, ListsSound
  <2>4. QED
    BY <2>1, <2>2, <2>3 DEF Delete
<1>4. TypeOK'
  BY <1>1, <1>3 DEF IInv, TypeOK
<1>5. ListsSound'
  <2>1. IsInjective(detached') /\ Members(detached') \intersect Members(current') = {}
    BY <1>1 DEF IInv, ListsSound
  <2>2. Members(queue') \intersect Held' = {} /\ Listed' \subseteq heap'
    BY <1>1, <1>3 DEF IInv, ListsSound, Listed
  <2>3. ASSUME NEW x \in heap' PROVE props'[x].enqueued <=> x \in Listed'
    BY <1>1, <1>3, <2>3 DEF IInv, ListsSound, Listed, TypeOK
  <2>4. QED
    BY <1>3, <2>1, <2>2, <2>3 DEF ListsSound
<1>6. NoLeak' /\ LiveKept'
  BY <1>1, <1>3 DEF IInv, NoLeak, LiveKept, TypeOK
<1>7. Timely'
  BY <1>1, <1>3 DEF IInv, Timely, TypeOK
<1>8. QED
  BY <1>4, <1>5, <1>6, <1>7 DEF IInv

LEMMA NoCurrent == IInv /\ pc \in {"detach", "loop"} => current = <<>> /\ Members(current) = {}
BY EmptyMembers DEF IInv, TypeOK

LEMMA DetachStep == ASSUME IInv, Detach PROVE IInv'
<1>1. detached = <<>> /\ current = <<>> /\ Members(current) = {} /\ Members(detached) = {}
  BY NoCurrent, EmptyMembers DEF Detach, IInv, TypeOK
<1>2. queue' = <<>> /\ detached' = queue /\ current' = current
  BY DEF Detach
<1>3. /\ Members(queue') = {} /\ Members(detached') = Members(queue)
      /\ Members(current') = {} /\ Held' = Members(queue)
      /\ Held = {} /\ Listed' = Listed
  <2>1. Members(queue') = {} /\ Members(detached') = Members(queue) /\ Members(current') = {}
    BY <1>1, <1>2, EmptyMembers
  <2>2. /\ Held' = Members(detached') \union Members(current')
        /\ Listed' = Members(queue') \union Held'
    BY DEF Held, Listed, Members
  <2>3. QED
    BY <1>1, <2>1, <2>2 DEF Held, Listed
<1>4. TypeOK'
  BY TimersAssumption DEF TimersAssumption, IInv, TypeOK, Detach, memory
<1>5. ListsSound'
  <2>1. IsInjective(queue') /\ IsInjective(detached')
    BY DEF Detach, IInv, ListsSound, IsInjective
  <2>2. QED
    BY <1>3, <2>1 DEF Detach, IInv, ListsSound, memory
<1>6. NoLeak' /\ LiveKept' /\ Timely'
  BY <1>3 DEF IInv, NoLeak, LiveKept, Timely, Detach, memory
<1>7. QED
  BY <1>4, <1>5, <1>6 DEF IInv

LEMMA CheckStep == ASSUME IInv, Check PROVE IInv'
<1> DEFINE t == Head(detached)
<1>1. detached \in Seq(T) /\ detached # <<>> /\ pc = "loop"
  BY DEF Check, IInv, TypeOK
<1>2. /\ t \in T /\ Tail(detached) \in Seq(T)
      /\ Members(detached) = {t} \union Members(Tail(detached))
      /\ t \notin Members(Tail(detached)) /\ IsInjective(Tail(detached))
  BY <1>1, Pop DEF IInv, ListsSound
<1> HIDE DEF t
<1>3. /\ current' = <<t>> /\ detached' = Tail(detached)
      /\ now' = now /\ heap' = heap /\ live' = live /\ queue' = queue
      /\ nextWakeup' = nextWakeup /\ wakeAt' = wakeAt /\ task' = task
      /\ pc' \in {"call", "finish"} /\ task = "ready"
  BY <1>1 DEF Check, memory, t, IInv, TypeOK
<1>4. /\ Members(current') = {t} /\ Members(current) = {}
      /\ Held' = Held /\ Listed' = Listed
  <2>1. Members(current') = {t} /\ Members(current) = {}
    BY <1>1, <1>3, OneMember, NoCurrent
  <2>2. /\ Held' = Members(detached') \union Members(current')
        /\ Listed' = Members(queue') \union Held'
    BY DEF Held, Listed, Members
  <2>3. QED
    BY <1>2, <1>3, <2>1, <2>2 DEF Held, Listed
<1>5. /\ props' \in [T -> Properties]
      /\ \A x \in T : /\ props'[x].enqueued = props[x].enqueued
                      /\ props'[x].drop = props[x].drop
                      /\ props'[x].active => props[x].active
                      /\ x # t => props'[x] = props[x]
  <2>1. CASE props' = props
    BY <2>1 DEF IInv, TypeOK
  <2>2. CASE props' = [props EXCEPT ![t] =
                [props[t] EXCEPT !.due = IF props[t].periodic THEN @ + props[t].period ELSE @,
                                 !.active = props[t].periodic]]
             /\ props[t].active
    <3>1. props \in [T -> Properties] /\ props[t] \in Properties
      BY <1>2 DEF IInv, TypeOK
    <3>2. [props[t] EXCEPT !.due = IF props[t].periodic THEN @ + props[t].period ELSE @,
                           !.active = props[t].periodic] \in Properties
      <4> DEFINE due == IF props[t].periodic THEN props[t].due + props[t].period ELSE props[t].due
      <4>1. props[t].due \in Nat /\ props[t].period \in Nat /\ props[t].periodic \in BOOLEAN
        BY <3>1 DEF Properties
      <4>2. due \in Nat
        BY <4>1
      <4> HIDE DEF due
      <4>3. [props[t] EXCEPT !.due = due, !.active = props[t].periodic] \in Properties
        BY <3>1, <4>1, <4>2 DEF Properties
      <4>4. QED
        BY <4>3 DEF due
    <3>4. /\ props'[t].enqueued = props[t].enqueued /\ props'[t].drop = props[t].drop
          /\ \A x \in T \ {t} : props'[x] = props[x]
      BY <1>2, <2>2, <3>1 DEF Properties
    <3>5. QED
      BY <1>2, <2>2, <3>1, <3>2, <3>4
  <2>3. QED
    BY <2>1, <2>2 DEF Check, t
<1>6. TypeOK'
  <2>1. current' \in Seq(T) /\ Len(current') = 1
    BY <1>2, <1>3
  <2>2. QED
    BY <1>2, <1>3, <1>5, <2>1 DEF IInv, TypeOK
<1>7. ListsSound'
  <2>1. Members(queue') \intersect Held' = {} /\ Members(detached') \intersect Members(current') = {}
    BY <1>2, <1>3, <1>4 DEF IInv, ListsSound
  <2>2. \A x \in heap' : props'[x].enqueued <=> x \in Listed'
    BY <1>3, <1>4, <1>5 DEF IInv, ListsSound, TypeOK
  <2>3. QED
    BY <1>2, <1>3, <1>4, <2>1, <2>2 DEF IInv, ListsSound
<1>8. NoLeak' /\ LiveKept'
  BY <1>3, <1>4, <1>5 DEF IInv, NoLeak, LiveKept, TypeOK
<1>9. Timely'
  <2>1. ASSUME NEW x \in live', props'[x].active
        PROVE  x \in Held' \/ (x \in Members(queue') /\ nextWakeup' <= props'[x].due)
    <3>1. x \in T /\ x \in live /\ props[x].active
      BY <1>3, <1>5, <2>1 DEF IInv, TypeOK
    <3>2. x = t \/ props'[x] = props[x]
      BY <1>5, <3>1
    <3>3. QED
      BY <1>2, <1>3, <1>4, <3>1, <3>2 DEF IInv, Timely, Held
  <2>2. QED
    BY <1>3, <2>1 DEF IInv, Timely
<1>10. QED
  BY <1>3, <1>6, <1>7, <1>8, <1>9 DEF IInv

LEMMA FinishStep == ASSUME IInv, Finish PROVE IInv'
<1> DEFINE t == current[1]
           p == [props[t] EXCEPT !.enqueued = FALSE]
<1>1. /\ pc = "finish" /\ task = "ready" /\ current = <<t>> /\ t \in T
      /\ Members(current) = {t} /\ t \in heap /\ t \notin Members(detached)
      /\ t \notin Members(queue) /\ nextWakeup \in Nat
  <2>1. current \in Seq(T) /\ Len(current) = 1
    BY DEF Finish, IInv, TypeOK
  <2>2. current = <<t>> /\ t \in T
    BY <2>1
  <2>3. Members(current) = {t}
    BY <2>2, OneMember
  <2>4. QED
    BY <2>2, <2>3 DEF Finish, IInv, TypeOK, ListsSound, Listed, Held
<1>2. /\ p \in Properties /\ ~p.enqueued /\ p.drop = props[t].drop
      /\ p.active = props[t].active /\ p.due = props[t].due /\ p.due \in Nat
  <2>1. props[t] \in Properties
    BY <1>1 DEF IInv, TypeOK
  <2>2. QED
    BY <2>1 DEF Properties
<1> HIDE DEF t
<1>3. /\ now' = now /\ live' = live /\ detached' = detached /\ current' = <<>> /\ pc' = "loop"
      /\ Held' = Members(detached) /\ Held = Members(detached) \union {t}
      /\ Listed' = Members(queue') \union Members(detached)
  BY <1>1, EmptyMembers DEF Finish, Held, Listed, Members
<1> HIDE DEF p
<1>4. /\ props' \in [T -> Properties] /\ queue' \in Seq(T) /\ IsInjective(queue')
      /\ \A x \in T \ {t} : props'[x] = props[x]
      /\ props'[t].drop = p.drop /\ props'[t].due = p.due /\ props'[t].active = p.active
      /\ nextWakeup' \in Nat /\ nextWakeup' <= nextWakeup /\ wakeAt' \in Nat /\ task' = "ready"
      /\ \/ heap' = heap \ {t} /\ p.drop /\ Members(queue') = Members(queue)
         \/ /\ heap' = heap /\ ~p.drop /\ p.active /\ Members(queue') = Members(queue) \union {t}
            /\ nextWakeup' <= p.due /\ props'[t].enqueued
         \/ /\ heap' = heap /\ ~p.drop /\ ~p.active /\ Members(queue') = Members(queue)
            /\ ~props'[t].enqueued
  <2> DEFINE wakeup == IF p.due < nextWakeup THEN p.due ELSE nextWakeup
  <2>1. CASE p.drop /\ heap' = heap \ {t} /\ props' = [props EXCEPT ![t] = p]
             /\ UNCHANGED <<queue, nextWakeup, wakeAt, task>>
    <3>1. /\ props' \in [T -> Properties] /\ props'[t] = p
          /\ \A x \in T \ {t} : props'[x] = props[x]
      BY <1>1, <1>2, <2>1 DEF IInv, TypeOK
    <3>2. queue \in Seq(T) /\ IsInjective(queue) /\ wakeAt \in Nat
      BY DEF IInv, TypeOK, ListsSound
    <3>3. nextWakeup' <= nextWakeup
      BY <1>1, <2>1
    <3>4. QED
      BY <1>1, <2>1, <3>1, <3>2, <3>3
  <2>2. CASE ~p.drop /\ p.active /\ Enqueue(t, p, wakeup) /\ UNCHANGED heap
    <3>1. wakeup \in Nat /\ wakeup <= nextWakeup
      BY <1>1, <1>2
    <3> HIDE DEF wakeup
    <3>2. /\ props' = [props EXCEPT ![t] = [p EXCEPT !.enqueued = TRUE]]
          /\ props' \in [T -> Properties]
          /\ queue' \in Seq(T) /\ IsInjective(queue')
          /\ Members(queue') = Members(queue) \union (IF p.enqueued THEN {} ELSE {t})
          /\ nextWakeup' \in Nat /\ nextWakeup' <= p.due
          /\ task # "none" => nextWakeup' <= wakeup
          /\ wakeAt' \in Nat
          /\ \/ task' = "ready"
             \/ task' = task /\ wakeAt' = wakeAt /\ nextWakeup' = wakeup /\ task # "none"
      BY <1>1, <1>2, <2>2, <3>1, EnqueueEffect DEF IInv
    <3>3. /\ \A x \in T \ {t} : props'[x] = props[x]
          /\ props'[t].drop = p.drop /\ props'[t].due = p.due /\ props'[t].active = p.active
          /\ props'[t].enqueued
      BY <1>1, <1>2, <3>2 DEF IInv, TypeOK, Properties
    <3>4. nextWakeup' <= nextWakeup /\ task' = "ready"
      BY <1>1, <3>1, <3>2
    <3>5. Members(queue') = Members(queue) \union {t}
      BY <1>2, <3>2
    <3>6. QED
      BY <2>2, <3>2, <3>3, <3>4, <3>5
  <2>3. CASE ~p.drop /\ ~p.active /\ props' = [props EXCEPT ![t] = p]
             /\ UNCHANGED <<heap, queue, nextWakeup, wakeAt, task>>
    <3>1. /\ props' \in [T -> Properties] /\ props'[t] = p
          /\ \A x \in T \ {t} : props'[x] = props[x]
      BY <1>1, <1>2, <2>3 DEF IInv, TypeOK
    <3>2. QED
      BY <1>1, <1>2, <2>3, <3>1 DEF IInv, TypeOK, ListsSound
  <2>4. QED
    BY <2>1, <2>2, <2>3 DEF Finish, t, p
<1>5. TypeOK'
  <2>1. heap' \subseteq T /\ live' \subseteq heap'
    BY <1>2, <1>3, <1>4 DEF IInv, TypeOK, LiveKept
  <2>2. current' \in Seq(T) /\ Len(current') = 0
    BY <1>3
  <2>3. QED
    BY <1>3, <1>4, <2>1, <2>2 DEF IInv, TypeOK
<1>6. ListsSound'
  <2>1. IsInjective(detached') /\ Members(detached') \intersect Members(current') = {}
    BY <1>3, EmptyMembers DEF IInv, ListsSound
  <2>2. Members(queue') \intersect Held' = {}
    BY <1>1, <1>3, <1>4 DEF IInv, ListsSound
  <2>3. Listed' \subseteq heap'
    BY <1>1, <1>3, <1>4 DEF IInv, ListsSound, Listed
  <2>4. ASSUME NEW x \in heap' PROVE props'[x].enqueued <=> x \in Listed'
    <3>1. CASE x = t
      BY <1>1, <1>3, <1>4, <2>4, <3>1
    <3>2. CASE x # t
      BY <1>3, <1>4, <2>4, <3>2 DEF IInv, ListsSound, Listed, TypeOK
    <3>3. QED
      BY <3>1, <3>2
  <2>5. QED
    BY <1>4, <2>1, <2>2, <2>3, <2>4 DEF ListsSound
<1>7. NoLeak'
  <2>1. ASSUME NEW x \in heap' \ live' PROVE x \in Held' /\ props'[x].drop
    <3>1. x \in T /\ x \in heap \ live /\ x \in Held /\ props[x].drop
      BY <1>3, <1>4, <2>1 DEF IInv, NoLeak, TypeOK
    <3>2. x # t
      BY <1>2, <1>4, <2>1, <3>1
    <3>3. QED
      BY <1>3, <1>4, <3>1, <3>2
  <2>2. QED
    BY <2>1 DEF NoLeak
<1>8. LiveKept'
  BY <1>2, <1>3, <1>4 DEF IInv, LiveKept, TypeOK
<1>9. Timely'
  <2>1. ASSUME NEW x \in live', props'[x].active
        PROVE  x \in Held' \/ (x \in Members(queue') /\ nextWakeup' <= props'[x].due)
    <3>1. x \in T /\ x \in live /\ ~props[x].drop
      BY <1>3, <2>1 DEF IInv, TypeOK, LiveKept
    <3>2. CASE x = t
      BY <1>2, <1>4, <2>1, <3>1, <3>2
    <3>3. CASE x # t
      <4>1. x \in Held \/ (x \in Members(queue) /\ nextWakeup <= props[x].due)
        BY <1>4, <2>1, <3>1, <3>3 DEF IInv, Timely
      <4>2. props[x].due \in Nat
        BY <3>1 DEF IInv, TypeOK, Properties
      <4>3. QED
        BY <1>1, <1>3, <1>4, <3>1, <3>3, <4>1, <4>2
    <3>4. QED
      BY <3>2, <3>3
  <2>2. QED
    BY <1>4, <2>1 DEF Timely
<1>10. QED
  BY <1>5, <1>6, <1>7, <1>8, <1>9 DEF IInv

LEMMA OtherStep ==
    ASSUME IInv, CallbackReturns \/ SleepUntil \/ Wake \/ Tick \/ UNCHANGED vars
    PROVE  IInv'
<1>1. UNCHANGED <<memory, props, lists>> /\ nextWakeup' = nextWakeup
  BY DEF CallbackReturns, SleepUntil, Wake, Tick, vars, memory, lists
<1>2. TypeOK'
  BY <1>1, TimersAssumption DEF TimersAssumption, IInv, TypeOK, CallbackReturns, SleepUntil,
     Wake, Tick, vars, memory, lists
<1>3. ListsSound' /\ Held' = Held /\ Members(queue') = Members(queue)
  BY <1>1, SameLists DEF IInv, ListsSound, memory, lists
<1>4. NoLeak' /\ LiveKept'
  BY <1>1, <1>3 DEF IInv, NoLeak, LiveKept, memory
<1>5. task' = "asleep" => wakeAt' = nextWakeup'
  BY DEF IInv, Timely, CallbackReturns, SleepUntil, Wake, Tick, vars
<1>6. Timely'
  BY <1>1, <1>3, <1>5 DEF IInv, Timely, memory
<1>7. QED
  BY <1>2, <1>3, <1>4, <1>6 DEF IInv
------------------------------------------------------------------------------
(* Theorems. *)

LEMMA Invariance == Spec => []IInv
<1>1. Init => IInv
  BY EmptyMembers, TimersAssumption
     DEF TimersAssumption, Init, IInv, TypeOK, ListsSound, NoLeak, LiveKept, Timely, Listed, Held,
         Members, IsInjective, Fresh, Properties
<1>2. IInv /\ [Next]_vars => IInv'
  <2> SUFFICES ASSUME IInv, [Next]_vars PROVE IInv'
    OBVIOUS
  <2>1. CASE Driver
    BY <2>1, CreateStep, DisarmStep, DeleteStep, ArmStep DEF Driver
  <2>2. CASE TimerTask
    BY <2>2, DetachStep, CheckStep, FinishStep, OtherStep DEF TimerTask
  <2>3. CASE Wake \/ Tick \/ UNCHANGED vars
    BY <2>3, OtherStep
  <2>4. QED
    BY <2>1, <2>2, <2>3 DEF Next
<1>3. QED
  BY <1>1, <1>2, PTL DEF Spec

\* Type correctness of the timers, the lists and the timer task.
THEOREM TypeCorrect == Spec => []TypeOK
BY Invariance, PTL DEF IInv

\* No list ever points at freed memory or links a timer twice, whenever the
\* driver arms, disarms and deletes.
\* With the patch, a deleted timer's memory is freed too, by delete() or by the task.
THEOREM ListSafety == Spec => []QueueSound
<1>1. IInv => QueueSound
  BY DEF IInv, QueueSound
<1>2. QED
  BY <1>1, Invariance, PTL

\* The timer task never sleeps past a timer.
THEOREM Punctual == Spec => []WakesInTime
<1>1. IInv => WakesInTime
  <2> SUFFICES ASSUME IInv, task # "ready", NEW t \in live, props[t].active PROVE Waits(t)
    BY DEF WakesInTime
  <2>1. Held = {}
    BY NoCurrent, EmptyMembers DEF IInv, TypeOK, Held
  <2>2. t \in Members(queue) /\ nextWakeup <= props[t].due
    BY <2>1 DEF IInv, Timely
  <2>3. task = "asleep"
    BY <2>2, EmptyMembers DEF IInv, TypeOK
  <2>4. QED
    BY <2>2, <2>3 DEF IInv, Timely, Waits
<1>2. QED
  BY <1>1, Invariance, PTL

\* A callback starts only for a timer that the driver still has, that is armed
\* and whose time has come; a one-shot timer is then no longer armed, so it
\* runs once for each time it is armed, whatever was armed, disarmed or deleted
\* while the task had the timers in its detached list.
CallsJustified ==
    [][pc # "call" /\ pc' = "call" =>
         LET t == Head(current') IN
         /\ t \in live /\ props[t].active /\ props[t].due <= now
         /\ props'[t].active => props[t].periodic]_vars

\* process() decides on the properties a timer has at that moment, and memory
\* marked to be freed is never live.
THEOREM CallsOwed == Spec => CallsJustified
<1>1. ASSUME IInv, Next, pc # "call", pc' = "call"
      PROVE  LET t == Head(current') IN
             /\ t \in live /\ props[t].active /\ props[t].due <= now
             /\ props'[t].active => props[t].periodic
  <2> DEFINE t == Head(detached)
  <2>1. Check
    BY <1>1 DEF Next, Driver, Create, Arm, Disarm, Delete, TimerTask, Detach, CallbackReturns,
       Finish, SleepUntil, Wake, Tick
  <2>2. detached \in Seq(T) /\ detached # <<>> /\ props \in [T -> Properties]
    BY <1>1, <2>1 DEF Check, IInv, TypeOK
  <2>3. t \in T /\ Members(detached) = {t} \union Members(Tail(detached))
    BY <1>1, <2>2, Pop DEF IInv, ListsSound
  <2>4. t \in heap
    BY <1>1, <2>3 DEF IInv, ListsSound, Listed, Held
  <2>5. current' = <<t>> /\ props[t].active /\ ~props[t].drop /\ props[t].due <= now
    BY <1>1, <2>1 DEF Check
  <2>6. props'[t].active = props[t].periodic
    <3>1. props' = [props EXCEPT ![t] =
                      [props[t] EXCEPT !.due = IF props[t].periodic THEN @ + props[t].period ELSE @,
                                       !.active = props[t].periodic]]
      BY <1>1, <2>1 DEF Check
    <3> HIDE DEF t
    <3>2. props[t] \in Properties
      BY <2>2, <2>3
    <3>3. QED
      BY <2>2, <2>3, <3>1, <3>2 DEF Properties
  <2>7. t \in live
    BY <1>1, <2>4, <2>5 DEF IInv, NoLeak
  <2>8. Head(current') = t
    BY <2>5
  <2> QED
    BY <2>5, <2>6, <2>7, <2>8
<1>2. QED
  BY <1>1, Invariance, PTL DEF Spec, CallsJustified
------------------------------------------------------------------------------
(* Refinement of DriverTimers. *)

\* The properties of a timer that an alarm is made of.
SameAlarms(q) ==
    \A x \in T : /\ q[x].active = props[x].active /\ q[x].due = props[x].due
                 /\ q[x].period = props[x].period /\ q[x].periodic = props[x].periodic

\* Linking, unlinking and marking a timer leaves its alarm alone.
LEMMA QuietStep ==
    ASSUME live' = live, SameAlarms(props')
    PROVE  [t \in T |-> Alarm(t)]' = [t \in T |-> Alarm(t)]
BY DEF SameAlarms, Alarm

\* A step that changes one timer's alarm.
LEMMA OneStep ==
    ASSUME NEW t \in T, NEW a, Alarm(t)' = a,
           \A x \in T \ {t} : Alarm(x)' = Alarm(x)
    PROVE  [x \in T |-> Alarm(x)]' = [[x \in T |-> Alarm(x)] EXCEPT ![t] = a]
OBVIOUS

LEMMA PlainArm ==
    ASSUME IInv, NEW t \in T, NEW d \in Timeouts, NEW periodic \in BOOLEAN,
           Arm(t, d, periodic)
    PROVE  Plain!Arm(t, d, periodic)
<1>0. props \in [T -> Properties]
  BY DEF IInv, TypeOK
<1> DEFINE p == [props[t] EXCEPT !.active = TRUE, !.due = now + d,
                                 !.period = d, !.periodic = periodic]
           a == [on |-> TRUE, due |-> now + d, period |-> d, periodic |-> periodic]
<1>1. /\ t \in live /\ live' = live /\ now' = now
      /\ props' = [props EXCEPT ![t] = [p EXCEPT !.enqueued = TRUE]]
  BY DEF Arm, Enqueue, memory
<1>2. /\ props'[t].active = TRUE /\ props'[t].due = now + d
      /\ props'[t].period = d /\ props'[t].periodic = periodic
      /\ \A x \in T \ {t} : props'[x] = props[x]
  BY <1>0, <1>1 DEF Properties
<1>3. Alarm(t)' = a
  BY <1>1, <1>2 DEF Alarm
<1>4. \A x \in T \ {t} : Alarm(x)' = Alarm(x)
  BY <1>1, <1>2 DEF Alarm
<1> HIDE DEF a
<1>5. [x \in T |-> Alarm(x)]' = [[x \in T |-> Alarm(x)] EXCEPT ![t] = a]
  BY <1>3, <1>4, OneStep
<1> QED
  BY <1>1, <1>5 DEF Plain!Arm, a

LEMMA PlainDriver ==
    ASSUME IInv, NEW t \in T
    PROVE  /\ Create(t) => Plain!Create(t)
           /\ Disarm(t) => Plain!Disarm(t)
           /\ Delete(t) => Plain!Delete(t)
<1>0. props \in [T -> Properties] /\ live \subseteq heap /\ now \in Nat
  BY DEF IInv, TypeOK
<1>1. ASSUME Create(t) PROVE Plain!Create(t)
  <2>1. /\ t \notin live /\ live' = live \union {t} /\ now' = now
        /\ props' = [props EXCEPT ![t] = Fresh]
    BY <1>0, <1>1 DEF Create
  <2>2. Alarm(t)' = [on |-> FALSE] /\ Alarm(t) = [on |-> FALSE]
    BY <1>0, <2>1 DEF Alarm, Fresh
  <2>3. \A x \in T \ {t} : Alarm(x)' = Alarm(x)
    BY <1>0, <2>1 DEF Alarm
  <2>4. [x \in T |-> Alarm(x)]' = [x \in T |-> Alarm(x)]
    BY <2>2, <2>3
  <2> QED
    BY <2>1, <2>4 DEF Plain!Create
<1>3. ASSUME Disarm(t) \/ Delete(t)
      PROVE  [x \in T |-> Alarm(x)]' = [[x \in T |-> Alarm(x)] EXCEPT ![t] = [on |-> FALSE]]
  <2>1. Alarm(t)' = [on |-> FALSE]
    <3>1. CASE Disarm(t)
      <4>1. props'[t].active = FALSE
        BY <1>0, <3>1 DEF Disarm, Properties
      <4> QED
        BY <4>1 DEF Alarm
    <3>2. CASE Delete(t)
      BY <3>2 DEF Delete, Alarm
    <3> QED
      BY <1>3, <3>1, <3>2
  <2>2. \A x \in T \ {t} : props'[x] = props[x] /\ (x \in live' <=> x \in live)
    BY <1>0, <1>3 DEF Disarm, Delete, memory
  <2>3. \A x \in T \ {t} : Alarm(x)' = Alarm(x)
    BY <2>2 DEF Alarm
  <2> QED
    BY <2>1, <2>3, OneStep
<1>4. ASSUME Disarm(t) PROVE Plain!Disarm(t)
  BY <1>3, <1>4 DEF Disarm, memory, Plain!Disarm, Plain!Off
<1>5. ASSUME Delete(t) PROVE Plain!Delete(t)
  BY <1>3, <1>5 DEF Delete, Plain!Delete, Plain!Off
<1>6. QED
  BY <1>1, <1>4, <1>5

\* A timer as Check leaves it once it is due.
Ran(p) == [p EXCEPT !.due = IF p.periodic THEN @ + p.period ELSE @, !.active = p.periodic]

LEMMA PlainRun ==
    ASSUME NEW t \in T, props \in [T -> Properties], t \in live, live' = live, now' = now,
           props[t].active, props[t].due <= now,
           props' = [props EXCEPT ![t] = Ran(props[t])]
    PROVE  Plain!Run(t)
<1> DEFINE p == props[t]
           armed == [on |-> TRUE, due |-> p.due, period |-> p.period, periodic |-> p.periodic]
           after == IF armed.periodic THEN [armed EXCEPT !.due = @ + armed.period]
                    ELSE [on |-> FALSE]
<1>1. p \in Properties
  OBVIOUS
<1>2. /\ props'[t] = Ran(p)
      /\ \A x \in T \ {t} : props'[x] = props[x]
  OBVIOUS
<1>3. /\ Ran(p).active = p.periodic
      /\ Ran(p).due = (IF p.periodic THEN p.due + p.period ELSE p.due)
      /\ Ran(p).period = p.period /\ Ran(p).periodic = p.periodic
  BY <1>1 DEF Ran, Properties
<1>4. Alarm(t) = armed
  BY DEF Alarm
<1>5. Alarm(t)' = after
  <2>1. Alarm(t)' = IF Ran(p).active
                    THEN [on |-> TRUE, due |-> Ran(p).due, period |-> Ran(p).period,
                          periodic |-> Ran(p).periodic]
                    ELSE [on |-> FALSE]
    BY <1>2 DEF Alarm
  <2>2. p.periodic \in BOOLEAN
    BY <1>1 DEF Properties
  <2>3. CASE p.periodic
    <3>1. Alarm(t)' = [on |-> TRUE, due |-> p.due + p.period, period |-> p.period,
                       periodic |-> p.periodic]
      BY <1>3, <2>1, <2>3
    <3>2. after = [on |-> TRUE, due |-> p.due + p.period, period |-> p.period,
                   periodic |-> p.periodic]
      BY <2>3
    <3> QED
      BY <3>1, <3>2
  <2>4. CASE ~p.periodic
    BY <1>3, <2>1, <2>4
  <2> QED
    BY <2>3, <2>4
<1>6. \A x \in T \ {t} : Alarm(x)' = Alarm(x)
  BY <1>2 DEF Alarm
<1>7. armed.on /\ armed.due <= now
  OBVIOUS
<1> HIDE DEF after
<1>8. [x \in T |-> Alarm(x)]' = [[x \in T |-> Alarm(x)] EXCEPT ![t] = after]
  BY <1>5, <1>6, OneStep
<1>9. [x \in T |-> Alarm(x)][t] = armed
  BY <1>4
<1>10. QED
  BY <1>7, <1>8, <1>9 DEF Plain!Run, Plain!Off, after

\* Check runs a timer that is due or changes no alarm.
LEMMA PlainCheck ==
    ASSUME IInv, Check
    PROVE  (\E t \in T : Plain!Run(t)) \/ UNCHANGED Plain!timerVars
<1>1. /\ detached \in Seq(T) /\ detached # <<>> /\ props \in [T -> Properties]
      /\ now' = now /\ live' = live
  BY DEF Check, IInv, TypeOK, memory
<1>2. Head(detached) \in T /\ Members(detached) = {Head(detached)} \union Members(Tail(detached))
  BY <1>1, Pop DEF IInv, ListsSound
<1>3. PICK t \in T : t = Head(detached)
  BY <1>2
<1>4. t \in heap
  BY <1>2, <1>3 DEF IInv, ListsSound, Listed, Held
<1>5. \/ props' = props
      \/ /\ props[t].active /\ ~props[t].drop /\ props[t].due <= now
         /\ props' = [props EXCEPT ![t] = Ran(props[t])]
  BY <1>3 DEF Check, Ran
<1>6. CASE props' = props
  <2>1. SameAlarms(props')
    BY <1>6 DEF SameAlarms
  <2> QED
    BY <1>1, <2>1, QuietStep DEF Plain!timerVars
<1>7. CASE /\ props[t].active /\ ~props[t].drop /\ props[t].due <= now
           /\ props' = [props EXCEPT ![t] = Ran(props[t])]
  <2>1. t \in live
    BY <1>4, <1>7 DEF IInv, NoLeak
  <2>2. Plain!Run(t)
    BY <1>1, <1>7, <2>1, PlainRun
  <2> QED
    BY <2>2
<1>8. QED
  BY <1>5, <1>6, <1>7

LEMMA PlainFinish == ASSUME IInv, Finish PROVE UNCHANGED Plain!timerVars
<1>1. props \in [T -> Properties] /\ now' = now /\ live' = live
  BY DEF Finish, IInv, TypeOK
<1>2. current[1] \in T
  <2>1. current \in Seq(T) /\ Len(current) = 1
    BY DEF Finish, IInv, TypeOK
  <2> QED
    BY <2>1
<1>3. PICK t \in T : t = current[1]
  BY <1>2
<1> DEFINE p == [props[t] EXCEPT !.enqueued = FALSE]
<1>4. \/ props' = [props EXCEPT ![t] = p]
      \/ props' = [props EXCEPT ![t] = [p EXCEPT !.enqueued = TRUE]]
  BY <1>3 DEF Finish, Enqueue
<1>5. SameAlarms(props')
  <2>1. props[t] \in Properties
    BY <1>1, <1>3
  <2>2. \A q \in {p, [p EXCEPT !.enqueued = TRUE]} :
            /\ q.active = props[t].active /\ q.due = props[t].due
            /\ q.period = props[t].period /\ q.periodic = props[t].periodic
    BY <2>1 DEF Properties
  <2>3. PICK q \in {p, [p EXCEPT !.enqueued = TRUE]} : props' = [props EXCEPT ![t] = q]
    BY <1>4
  <2> HIDE DEF p
  <2>4. props'[t] = q /\ \A x \in T \ {t} : props'[x] = props[x]
    BY <1>1, <1>3, <2>3
  <2> QED
    BY <1>3, <2>2, <2>4 DEF SameAlarms
<1>6. QED
  BY <1>1, <1>5, QuietStep DEF Plain!timerVars

LEMMA PlainOther ==
    ASSUME Detach \/ CallbackReturns \/ SleepUntil \/ Wake \/ UNCHANGED vars
    PROVE  UNCHANGED Plain!timerVars
<1>1. now' = now /\ live' = live /\ props' = props
  BY DEF Detach, CallbackReturns, SleepUntil, Wake, vars, memory
<1>2. SameAlarms(props')
  BY <1>1 DEF SameAlarms
<1>3. QED
  BY <1>1, <1>2, QuietStep DEF Plain!timerVars

LEMMA PlainTick == Tick => Plain!Tick
<1> SUFFICES ASSUME Tick PROVE Plain!Tick
  OBVIOUS
<1>1. now' = now + 1 /\ live' = live /\ props' = props
  BY DEF Tick, memory
<1>2. SameAlarms(props')
  BY <1>1 DEF SameAlarms
<1>3. QED
  BY <1>1, <1>2, QuietStep DEF Plain!Tick

LEMMA PlainStep == IInv /\ [Next]_vars => [Plain!Next]_Plain!timerVars
<1> SUFFICES ASSUME IInv, [Next]_vars PROVE Plain!Next \/ UNCHANGED Plain!timerVars
  OBVIOUS
<1>1. CASE Driver
  <2>1. PICK t \in T :
          \/ Create(t) \/ Disarm(t) \/ Delete(t)
          \/ \E d \in Timeouts, periodic \in BOOLEAN : Arm(t, d, periodic)
    BY <1>1 DEF Driver
  <2>2. CASE \E d \in Timeouts, periodic \in BOOLEAN : Arm(t, d, periodic)
    BY <2>2, PlainArm DEF Plain!Next
  <2>3. CASE Create(t) \/ Disarm(t) \/ Delete(t)
    BY <2>3, PlainDriver DEF Plain!Next
  <2> QED
    BY <2>1, <2>2, <2>3
<1>2. CASE TimerTask
  BY <1>2, PlainCheck, PlainFinish, PlainOther DEF TimerTask, Plain!Next
<1>3. CASE Wake \/ UNCHANGED vars
  BY <1>3, PlainOther
<1>4. CASE Tick
  BY <1>4, PlainTick DEF Plain!Next
<1>5. QED
  BY <1>1, <1>2, <1>3, <1>4 DEF Next

\* The queue, the detached list and the task are invisible: the driver sees
\* timers that run when due, whatever it does to them and whenever.
THEOREM ImplementsTimers == Spec => PlainSpec
<1>1. Init => Plain!Init
  <2> SUFFICES ASSUME Init PROVE Plain!Init
    OBVIOUS
  <2>1. \A t \in T : Alarm(t) = [on |-> FALSE]
    BY DEF Init, Alarm
  <2>2. now = 0 /\ live = {}
    BY DEF Init
  <2> QED
    BY <2>1, <2>2 DEF Plain!Init, Plain!Off
<1>2. QED
  BY <1>1, PlainStep, Invariance, PTL DEF Spec, PlainSpec, Plain!Spec
==============================================================================
