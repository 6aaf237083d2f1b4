-------------------------- MODULE StationStreamProofs --------------------------
(***************************************************************************)
(* Theorems about StationStream: the parser stores what the bytes read     *)
(* say, for bodies of any length, chunks of any size and cuts anywhere.    *)
(***************************************************************************)
EXTENDS StationStream, FiniteSetTheorems, SequenceTheorems, WellFoundedInduction, TLAPS

\* No chunk ends more objects than the result vector takes: the Lyft feed.
NoOverflow == MaxChunk <= MaxResults * (ObjLen + 1)
------------------------------------------------------------------------------
(* Positions. *)

LEMMA Constants ==
    /\ Targets \in Nat /\ DataLen \in Nat /\ DataLen <= Targets
    /\ MaxObjects \in Nat /\ TailLen \in Nat /\ Preambles \subseteq Nat
    /\ KeyLen \in Nat /\ KeyLen >= 1 /\ ObjLen \in Nat /\ ObjLen >= 2
    /\ MaxChunk \in Nat /\ MaxChunk >= 1 /\ MaxResults \in Nat
    /\ Keep \in Nat /\ RemainderCap \in Nat
    /\ KeyLen - 1 <= Keep /\ ObjLen <= RemainderCap /\ Keep + MaxChunk <= RemainderCap
    /\ ByteModulus \in Nat /\ ByteModulus > 0
    /\ \A o \in Objects : o.id \in 0 .. Targets /\ o.bikes \in Nat /\ o.ebikes \in Nat
PROOF
  BY StreamAssumption

LEMMA Times ==
    ASSUME NEW a \in Nat, NEW b \in Nat, NEW l \in Nat, a < b
    PROVE  /\ a * l \in Nat /\ b * l \in Nat
           /\ (b - a) * l = b * l - a * l
           /\ a * l + l <= b * l
PROOF
<1>1. PICK k \in Nat : b = a + 1 + k
  <2>1. b - a - 1 \in Nat /\ b = a + 1 + (b - a - 1)
    OBVIOUS
  <2> QED
    BY <2>1
<1>2. k * l \in Nat /\ a * l \in Nat
  OBVIOUS
<1>3. (a + 1 + k) * l = a * l + l + k * l
  OBVIOUS
<1>4. (b - a) * l = l + k * l
  <2>1. b - a = 1 + k
    BY <1>1
  <2> QED
    BY <2>1
<1> QED
  BY <1>1, <1>2, <1>3, <1>4

\* Objects lie one after the other, ObjLen + 1 apart.
LEMMA Geometry ==
    ASSUME preamble \in Nat
    PROVE  /\ KeyEnd \in Nat /\ Bracket = KeyEnd + 1 /\ KeyEnd = preamble + KeyLen
           /\ Bracket \in Nat
           /\ Start(1) = Bracket + 1
           /\ \A i \in Nat \ {0} :
                 /\ Start(i) \in Nat /\ End(i) \in Nat
                 /\ Start(i) > Bracket /\ End(i) = Start(i) + ObjLen - 1
           /\ \A i, j \in Nat \ {0} : i < j =>
                 /\ End(i) + 1 < Start(j) /\ End(i) < End(j)
                 /\ End(j) - End(i) = (j - i) * (ObjLen + 1)
PROOF
<1>1. KeyEnd \in Nat /\ Bracket = KeyEnd + 1 /\ KeyEnd = preamble + KeyLen /\ ObjLen \in Nat
      /\ ObjLen >= 2
  BY Constants DEF KeyEnd, Bracket
<1> DEFINE l == ObjLen + 1
<1>2. l \in Nat /\ l >= 3 /\ 0 * l = 0
  BY <1>1
<1>3. \A i \in Nat \ {0} : i - 1 \in Nat /\ (i - 1) * l \in Nat
  BY <1>2
<1>4. \A i \in Nat \ {0} : Start(i) = Bracket + (i - 1) * l + 1 /\ End(i) = Start(i) + ObjLen - 1
  BY DEF Start, End
<1> HIDE DEF l
<1>5. Start(1) = Bracket + 1
  <2>1. Start(1) = Bracket + (1 - 1) * l + 1
    BY <1>4
  <2> QED
    BY <2>1, <1>1, <1>2
<1>6. \A i \in Nat \ {0} : /\ Start(i) \in Nat /\ End(i) \in Nat
                           /\ Start(i) > Bracket /\ End(i) = Start(i) + ObjLen - 1
  BY <1>1, <1>3, <1>4
<1>7. ASSUME NEW i \in Nat \ {0}, NEW j \in Nat \ {0}, i < j
      PROVE  /\ End(i) + 1 < Start(j) /\ End(i) < End(j)
             /\ End(j) - End(i) = (j - i) * l
  <2>1. i - 1 \in Nat /\ j - 1 \in Nat /\ i - 1 < j - 1 /\ (j - 1) - (i - 1) = j - i
    BY <1>7
  <2>2. /\ (i - 1) * l \in Nat /\ (j - 1) * l \in Nat
        /\ ((j - 1) - (i - 1)) * l = (j - 1) * l - (i - 1) * l
        /\ (i - 1) * l + l <= (j - 1) * l
    BY <2>1, <1>2, Times
  <2>3. l = ObjLen + 1
    BY DEF l
  <2> QED
    BY <2>1, <2>2, <2>3, <1>1, <1>4, <1>6
<1>8. Bracket \in Nat
  BY <1>1
<1> QED
  BY <1>1, <1>5, <1>6, <1>7, <1>8 DEF l
------------------------------------------------------------------------------
(* What is stored. *)

\* A set of indexes has a last one.
LEMMA Last ==
    ASSUME NEW n \in Nat, NEW S \in SUBSET (1 .. n), S # {}
    PROVE  /\ Max(S) \in S /\ Max(S) \in 1 .. n
           /\ \A x \in S : x <= Max(S)
PROOF
<1> DEFINE T == {n - x : x \in S}
<1>1. T \subseteq Nat /\ T # {}
  <2>1. \A x \in S : n - x \in Nat
    OBVIOUS
  <2>2. PICK x \in S : TRUE
    OBVIOUS
  <2>3. n - x \in T
    OBVIOUS
  <2> QED
    BY <2>1, <2>3
<1>2. \E m \in T : \A y \in T : ~ (<<y, m>> \in OpToRel(<, Nat))
  BY <1>1, NatLessThanWellFounded, WFMin
<1>3. PICK m \in T : \A y \in T : ~ (y < m)
  BY <1>1, <1>2 DEF OpToRel
<1>4. PICK z \in S : m = n - z
  BY <1>3
<1>5. \A x \in S : z >= x
  <2> SUFFICES ASSUME NEW x \in S PROVE z >= x
    OBVIOUS
  <2>1. n - x \in T /\ ~(n - x < m)
    BY <1>3
  <2> QED
    BY <2>1, <1>4
<1>6. Max(S) \in S /\ \A x \in S : Max(S) >= x
  BY <1>5 DEF Max
<1> QED
  BY <1>6

\* Which index is the last does not depend on how it is found.
LEMMA LastIs ==
    ASSUME NEW n \in Nat, NEW S \in SUBSET (1 .. n), NEW m \in S, \A x \in S : x <= m
    PROVE  Max(S) = m
PROOF
  BY Last

\* Storing later objects on top of earlier ones stores them all.
LEMMA StoredOn ==
    ASSUME NEW n \in Nat, NEW before, NEW body,
           NEW A \in SUBSET (1 .. n), NEW B \in SUBSET (1 .. n),
           \A a \in A : \A b \in B : a < b
    PROVE  Stored(Stored(before, body, A), body, B) = Stored(before, body, A \union B)
PROOF
<1> SUFFICES ASSUME NEW s \in 0 .. DataLen - 1
             PROVE  Stored(Stored(before, body, A), body, B)[s] = Stored(before, body, A \union B)[s]
  BY DEF Stored
<1> DEFINE hA == {i \in A : body[i].id = s}
           hB == {i \in B : body[i].id = s}
           hU == {i \in A \union B : body[i].id = s}
           first == Stored(before, body, A)
<1>1. /\ first[s] = IF hA = {} THEN before[s] ELSE Station(body[Max(hA)])
      /\ Stored(first, body, B)[s] = IF hB = {} THEN first[s] ELSE Station(body[Max(hB)])
      /\ Stored(before, body, A \union B)[s] = IF hU = {} THEN before[s] ELSE Station(body[Max(hU)])
  BY DEF Stored
<1>2. hU = hA \union hB /\ hA \subseteq 1 .. n /\ hB \subseteq 1 .. n /\ hU \subseteq 1 .. n
  OBVIOUS
<1>3. CASE hB = {}
  BY <1>1, <1>2, <1>3
<1>4. CASE hB # {}
  <2>1. Max(hB) \in hB /\ Max(hB) \in 1 .. n /\ \A x \in hB : x <= Max(hB)
    BY <1>2, <1>4, Last
  <2>2. Max(hB) \in hU /\ \A x \in hU : x <= Max(hB)
    BY <1>2, <2>1
  <2>3. Max(hU) = Max(hB)
    BY <1>2, <2>2, LastIs
  <2> QED
    BY <1>1, <1>4, <2>2, <2>3
<1> QED
  BY <1>1, <1>3, <1>4

\* The same of this body, from an empty sink on.
LEMMA StoredMore ==
    ASSUME NEW n \in Nat, NEW A \in SUBSET (1 .. n), NEW B \in SUBSET (1 .. n),
           \A a \in A : \A b \in B : a < b
    PROVE  Stored(Stored(NoBikes, objs, A), objs, B) = Stored(NoBikes, objs, A \union B)
PROOF
<1>1. PICK before, body : before = NoBikes /\ body = objs
  OBVIOUS
<1>2. Stored(Stored(before, body, A), body, B) = Stored(before, body, A \union B)
  BY StoredOn
<1> QED
  BY <1>1, <1>2

\* Only the objects of stations there is room for matter.
LEMMA StoredSome ==
    ASSUME NEW before, NEW body, NEW A, NEW B \in SUBSET A,
           \A i \in A : body[i].id \in 0 .. DataLen - 1 => i \in B
    PROVE  Stored(before, body, B) = Stored(before, body, A)
PROOF
<1>1. \A s \in 0 .. DataLen - 1 : {i \in B : body[i].id = s} = {i \in A : body[i].id = s}
  OBVIOUS
<1> QED
  BY <1>1 DEF Stored

\* Counts stay within a byte.
LEMMA StationTyped == \A o \in Objects : Station(o) \in Bikes
PROOF
<1> TAKE o \in Objects
<1>1. Byte(o.bikes) \in 0 .. ByteModulus - 1 /\ Byte(o.ebikes) \in 0 .. ByteModulus - 1
  BY Constants DEF Byte
<1>2. Mechanical(o) \in 0 .. ByteModulus - 1
  BY <1>1, Constants DEF Mechanical
<1> QED
  BY <1>1, <1>2 DEF Station, Bikes

LEMMA StoredTyped ==
    ASSUME NEW before \in [0 .. DataLen - 1 -> Bikes], NEW n \in Nat,
           NEW body \in [1 .. n -> Objects], NEW A \in SUBSET (1 .. n)
    PROVE  Stored(before, body, A) \in [0 .. DataLen - 1 -> Bikes]
PROOF
<1> SUFFICES ASSUME NEW s \in 0 .. DataLen - 1
             PROVE  Stored(before, body, A)[s] \in Bikes
  BY DEF Stored
<1> DEFINE hits == {i \in A : body[i].id = s}
<1>1. Stored(before, body, A)[s] = IF hits = {} THEN before[s] ELSE Station(body[Max(hits)])
  BY DEF Stored
<1>2. CASE hits = {}
  BY <1>1, <1>2
<1>3. CASE hits # {}
  <2>1. Max(hits) \in 1 .. n
    BY <1>3, Last
  <2> QED
    BY <1>1, <1>3, <2>1, StationTyped
<1> QED
  BY <1>2, <1>3
------------------------------------------------------------------------------
(* The array. *)

\* The vector takes all targets that end in one chunk.
LEMMA AllTaken ==
    ASSUME NoOverflow, preamble \in Nat, NEW n \in Nat, DOMAIN objs = 1 .. n,
           NEW done \in Nat, NEW hi \in Nat, hi - done <= MaxChunk,
           NEW C \in SUBSET (1 .. n), \A i \in C : done < End(i) /\ End(i) <= hi
    PROVE  Results(C) = {i \in C : objs[i].id < Targets}
PROOF
<1> DEFINE targets == {i \in C : objs[i].id < Targets}
<1> SUFFICES ASSUME NEW i \in targets
             PROVE  Cardinality({j \in targets : j <= i}) <= MaxResults
  BY DEF Results
<1> DEFINE S == {j \in targets : j <= i}
           R == (i - MaxResults + 1) .. i
           l == ObjLen + 1
<1>1. i \in Nat \ {0} /\ i \in C /\ MaxResults \in Nat /\ l \in Nat /\ MaxChunk <= MaxResults * l
      /\ MaxChunk \in Nat
  BY Constants DEF NoOverflow
<1>2. S \subseteq R
  <2> SUFFICES ASSUME NEW j \in S PROVE j \in R
    OBVIOUS
  <2>1. j \in Nat \ {0} /\ j \in C /\ j <= i
    <3>1. j \in C /\ j <= i
      OBVIOUS
    <3> QED
      BY <3>1
  <2>2. CASE j = i
    <3>1. MaxResults # 0
      <4> SUFFICES ASSUME MaxResults = 0 PROVE FALSE
        OBVIOUS
      <4>1. MaxResults * l = 0
        BY <1>1
      <4>2. done < End(i) /\ End(i) <= hi /\ End(i) \in Nat
        BY <1>1, Geometry
      <4> QED
        BY <1>1, <4>1, <4>2
    <3> QED
      BY <1>1, <2>1, <2>2, <3>1
  <2>3. CASE j < i
    <3>1. End(i) - End(j) = (i - j) * l /\ End(i) \in Nat /\ End(j) \in Nat
      BY <1>1, <2>1, <2>3, Geometry
    <3>2. End(i) - End(j) < MaxChunk
      BY <1>1, <2>1, <3>1
    <3>3. i - j \in Nat /\ (i - j) * l \in Nat /\ MaxResults * l \in Nat
      BY <1>1, <2>1, <2>3
    <3>4. ASSUME MaxResults <= i - j PROVE FALSE
      <4>1. CASE MaxResults = i - j
        BY <1>1, <3>1, <3>2, <3>3, <4>1
      <4>2. CASE MaxResults < i - j
        <5>1. MaxResults * l + l <= (i - j) * l
          BY <1>1, <3>3, <4>2, Times
        <5> QED
          BY <1>1, <3>1, <3>2, <3>3, <5>1
      <4> QED
        BY <1>1, <3>3, <3>4, <4>1, <4>2
    <3> QED
      BY <1>1, <2>1, <2>3, <3>3, <3>4
  <2> QED
    BY <1>1, <2>1, <2>2, <2>3
<1>3. IsFiniteSet(R) /\ Cardinality(R) = MaxResults
  <2>1. i - MaxResults + 1 \in Int /\ i \in Int
    BY <1>1
  <2>2. IsFiniteSet(R) /\ Cardinality(R) = IF i - MaxResults + 1 > i THEN 0 ELSE i - (i - MaxResults + 1) + 1
    BY <2>1, FS_Interval
  <2> QED
    BY <1>1, <2>2
<1>4. Cardinality(S) <= Cardinality(R)
  BY <1>2, <1>3, FS_Subset
<1> QED
  BY <1>3, <1>4

\* The closing bracket comes after all objects.
LEMMA ClosingLast ==
    ASSUME preamble \in Nat, NEW n \in Nat, objs \in [1 .. n -> Objects]
    PROVE  /\ Closing \in Nat /\ Closing > Bracket
           /\ \A i \in 1 .. n : End(i) < Closing
PROOF
<1>1. Bracket \in Nat /\ \A i \in Nat \ {0} : End(i) \in Nat /\ End(i) > Bracket
  <2>1. ASSUME NEW i \in Nat \ {0} PROVE End(i) \in Nat /\ End(i) > Bracket
    <3>1. /\ Start(i) \in Nat /\ End(i) \in Nat /\ Bracket \in Nat
          /\ Start(i) > Bracket /\ End(i) = Start(i) + ObjLen - 1
      BY Geometry
    <3>2. ObjLen \in Nat /\ ObjLen >= 2
      BY Constants
    <3> QED
      BY <3>1, <3>2
  <2>2. Bracket \in Nat
    BY Geometry
  <2> QED
    BY <2>1, <2>2
<1>2. \A i, j \in Nat \ {0} : i < j => End(i) < End(j)
  BY Geometry
<1>3. DOMAIN objs = 1 .. n /\ Len(objs) = n /\ (objs = <<>> <=> n = 0)
  <2>1. objs \in Seq(Objects)
    BY SeqDef
  <2>2. DOMAIN objs = 1 .. n /\ DOMAIN objs = 1 .. Len(objs) /\ Len(objs) \in Nat
    BY <2>1, LenProperties
  <2>3. Len(objs) = n
    BY <2>2
  <2> QED
    BY <2>1, <2>2, <2>3, EmptySeq
<1>4. CASE n = 0
  BY <1>1, <1>3, <1>4 DEF Closing
<1>5. CASE n # 0
  <2>1. Closing = End(n) + 1 /\ n \in Nat \ {0}
    BY <1>3, <1>5 DEF Closing
  <2>2. End(n) \in Nat /\ End(n) > Bracket
    BY <1>1, <2>1
  <2>3. ASSUME NEW i \in 1 .. n PROVE End(i) \in Nat /\ End(i) <= End(n)
    <3>1. i \in Nat \ {0} /\ (i = n \/ i < n)
      OBVIOUS
    <3> QED
      BY <1>1, <1>2, <2>1, <3>1
  <2> QED
    BY <1>1, <2>1, <2>2, <2>3
<1> QED
  BY <1>4, <1>5

\* Where the objects of a body of n lie.
LEMMA Positions ==
    ASSUME preamble \in Nat, NEW n \in Nat
    PROVE  /\ Bracket \in Nat
           /\ \A i \in 1 .. n : /\ Start(i) \in Nat /\ End(i) \in Nat
                                /\ Start(i) > Bracket /\ End(i) = Start(i) + ObjLen - 1
                                /\ Start(i) < End(i)
           /\ \A i, j \in 1 .. n : i < j => End(i) + 1 < Start(j) /\ End(i) < End(j)
PROOF
<1>1. \A i \in 1 .. n : i \in Nat \ {0}
  OBVIOUS
<1>2. ASSUME NEW i \in 1 .. n
      PROVE  /\ Start(i) \in Nat /\ End(i) \in Nat
             /\ Start(i) > Bracket /\ End(i) = Start(i) + ObjLen - 1
  BY <1>1, Geometry
<1>3. ASSUME NEW i \in 1 .. n PROVE Start(i) < End(i)
  BY <1>2, Constants
<1>4. ASSUME NEW i \in 1 .. n, NEW j \in 1 .. n, i < j
      PROVE  End(i) + 1 < Start(j) /\ End(i) < End(j)
  BY <1>1, <1>4, Geometry
<1>5. Bracket \in Nat
  BY Geometry
<1> QED
  BY <1>2, <1>3, <1>4, <1>5

\* What the first p bytes of the body say.
Read(p) == Stored(NoBikes, objs, {i \in DOMAIN objs : End(i) <= p})

\* The loop over the array stores what ends in the chunk.
LEMMA ScanStores ==
    ASSUME NoOverflow, preamble \in Nat, NEW n \in Nat, objs \in [1 .. n -> Objects],
           NEW done \in Nat, NEW from \in Nat, NEW hi \in Nat,
           done < hi, hi - done <= MaxChunk,
           \A i \in 1 .. n : Start(i) <= from <=> End(i) <= done,
           data = Read(done),
           ScanArray(from, hi)
    PROVE  data' = Read(hi)
PROOF
<1> DEFINE old == {i \in 1 .. n : End(i) <= done}
           after == {i \in 1 .. n : End(i) <= hi}
           completed == {i \in 1 .. n : Start(i) > from /\ End(i) <= hi}
<1>1. \A i \in 1 .. n : Start(i) \in Nat /\ End(i) \in Nat
  BY Positions
<1>2. \A i, j \in 1 .. n : i < j => End(i) < End(j)
  BY Positions
<1>3. \A i \in completed : done < End(i) /\ End(i) <= hi
  BY <1>1
<1>4. \A a \in old, b \in completed : a < b
  <2> SUFFICES ASSUME NEW a \in old, NEW b \in completed PROVE a < b
    OBVIOUS
  <2>1. a \in 1 .. n /\ b \in 1 .. n /\ End(a) <= done /\ done < End(b)
    BY <1>3
  <2>2. End(a) \in Nat /\ End(b) \in Nat /\ (b < a => End(b) < End(a))
    BY <1>1, <1>2, <2>1
  <2>3. ~(b < a) /\ b # a
    BY <2>1, <2>2
  <2> QED
    BY <2>1, <2>3
<1>5. old \union completed = after
  <2>1. ASSUME NEW i \in 1 .. n PROVE i \in old \union completed <=> i \in after
    <3>1. Start(i) \in Nat /\ End(i) \in Nat /\ (Start(i) <= from <=> End(i) <= done)
      BY <1>1
    <3> QED
      BY <3>1
  <2> QED
    BY <2>1
<1>6. data' = Stored(data, objs, Results(completed))
  BY DEF ScanArray
<1>7. Results(completed) = {i \in completed : objs[i].id < Targets}
  BY <1>3, AllTaken
<1>8. /\ old \in SUBSET (1 .. n) /\ completed \in SUBSET (1 .. n)
      /\ data = Stored(NoBikes, objs, old)
  BY DEF Read
<1>9. ASSUME NEW i \in completed, objs[i].id \in 0 .. DataLen - 1 PROVE i \in Results(completed)
  <2>1. objs[i].id < Targets
    BY <1>9, Constants
  <2> QED
    BY <1>7, <2>1
<1>10. Results(completed) \in SUBSET completed
  BY <1>7
<1> HIDE DEF old, completed
<1>11. Stored(data, objs, Results(completed)) = Stored(data, objs, completed)
  <2>1. \A i \in completed : objs[i].id \in 0 .. DataLen - 1 => i \in Results(completed)
    BY <1>9
  <2> DEFINE R == Results(completed)
  <2>2. R \in SUBSET completed /\ \A i \in completed : objs[i].id \in 0 .. DataLen - 1 => i \in R
    BY <1>10, <2>1
  <2> HIDE DEF R
  <2>3. Stored(data, objs, R) = Stored(data, objs, completed)
    BY <2>2, StoredSome
  <2> QED
    BY <2>3 DEF R
<1>12. Stored(Stored(NoBikes, objs, old), objs, completed)
          = Stored(NoBikes, objs, old \union completed)
  BY <1>4, <1>8, StoredMore
<1>13. Stored(data, objs, completed) = Stored(Stored(NoBikes, objs, old), objs, completed)
  BY <1>8
<1> HIDE DEF after
<1>14. data' = Stored(NoBikes, objs, after)
  BY <1>5, <1>6, <1>11, <1>12, <1>13
<1> QED
  BY <1>14 DEF after, Read

\* It keeps the object that is cut, and ends at the closing bracket.
LEMMA ScanHolds ==
    ASSUME preamble \in Nat, NEW n \in Nat, objs \in [1 .. n -> Objects],
           NEW done \in Nat, NEW from \in Nat, NEW hi \in Nat,
           done < hi, Bracket <= from, from <= hi,
           \A i \in 1 .. n : Start(i) <= from <=> End(i) <= done,
           ScanArray(from, hi)
    PROVE  /\ phase' \in {"InArray", "Done"}
           /\ held' \in 0 .. RemainderCap /\ held' <= hi
           /\ phase' = "InArray" =>
                 /\ Bracket <= hi - held'
                 /\ \A i \in 1 .. n : Start(i) <= hi - held' <=> End(i) <= hi
           /\ phase' = "Done" => \A i \in 1 .. n : End(i) <= hi
PROOF
<1> DEFINE cut == {i \in 1 .. n : Start(i) > from /\ Start(i) <= hi /\ End(i) > hi}
<1>1. /\ Bracket \in Nat
      /\ \A i \in 1 .. n : /\ Start(i) \in Nat /\ End(i) \in Nat
                           /\ Start(i) > Bracket /\ End(i) = Start(i) + ObjLen - 1
                           /\ Start(i) < End(i)
  BY Positions
<1>2. \A i, j \in 1 .. n : i < j => End(i) + 1 < Start(j) /\ End(i) < End(j)
  BY Positions
<1>3. ObjLen \in Nat /\ ObjLen >= 2 /\ ObjLen <= RemainderCap /\ RemainderCap \in Nat
  BY Constants
<1>4. DOMAIN objs = 1 .. n
  OBVIOUS
<1>5. CASE cut # {}
  <2>1. Max(cut) \in cut
    BY <1>5, Last
  <2>2. PICK m \in 1 .. n : m = Max(cut) /\ Start(m) > from /\ Start(m) <= hi /\ End(m) > hi
    BY <2>1
  <2>3. phase' = "InArray" /\ held' = SaveRemainder(hi - Start(m) + 1)
    BY <1>4, <1>5, <2>2 DEF ScanArray
  <2>4. /\ Start(m) \in Nat /\ End(m) \in Nat /\ Start(m) > Bracket
        /\ End(m) = Start(m) + ObjLen - 1
    BY <1>1
  <2>5. held' = hi - Start(m) + 1 /\ held' \in 0 .. RemainderCap /\ held' <= hi
    <3>1. hi - Start(m) + 1 \in Nat /\ hi - Start(m) + 1 <= RemainderCap
      BY <1>3, <2>2, <2>4
    <3>2. held' = hi - Start(m) + 1
      BY <2>3, <3>1 DEF SaveRemainder
    <3>3. Start(m) >= 1
      BY <1>1, <2>4
    <3> QED
      BY <1>3, <2>4, <3>1, <3>2, <3>3
  <2>6. hi - held' = Start(m) - 1
    BY <2>4, <2>5
  <2>7. ASSUME NEW i \in 1 .. n PROVE Start(i) <= hi - held' <=> End(i) <= hi
    <3>1. /\ Start(i) \in Nat /\ End(i) \in Nat /\ Start(i) < End(i)
          /\ (i < m => End(i) + 1 < Start(m))
          /\ (m < i => End(m) + 1 < Start(i))
      BY <1>1, <1>2
    <3>2. CASE i = m
      BY <2>2, <2>4, <2>6, <3>2
    <3>3. CASE i < m
      BY <2>2, <2>4, <2>6, <3>1, <3>3
    <3>4. CASE m < i
      BY <2>2, <2>4, <2>6, <3>1, <3>4
    <3> QED
      BY <2>2, <3>2, <3>3, <3>4
  <2>8. Bracket <= hi - held'
    BY <1>1, <2>4, <2>6
  <2> QED
    BY <2>3, <2>5, <2>7, <2>8
<1>6. CASE cut = {} /\ Closing > from /\ Closing <= hi
  <2>1. phase' = "Done" /\ held' = SaveRemainder(hi - Closing + 1)
    BY <1>4, <1>6 DEF ScanArray
  <2>2. Closing \in Nat /\ Closing > Bracket /\ \A i \in 1 .. n : End(i) < Closing
    BY ClosingLast
  <2>3. hi - Closing + 1 \in Nat /\ hi - Closing + 1 <= hi
    BY <1>1, <1>6, <2>2
  <2>4. held' \in 0 .. RemainderCap /\ held' <= hi
    BY <1>3, <2>1, <2>3 DEF SaveRemainder
  <2>5. ASSUME NEW i \in 1 .. n PROVE End(i) <= hi
    <3>1. End(i) \in Nat /\ End(i) < Closing
      BY <1>1, <2>2
    <3> QED
      BY <1>6, <2>2, <3>1
  <2> QED
    BY <2>1, <2>4, <2>5
<1>7. CASE cut = {} /\ ~(Closing > from /\ Closing <= hi)
  <2>1. phase' = "InArray" /\ held' = 0
    BY <1>4, <1>7 DEF ScanArray
  <2>2. ASSUME NEW i \in 1 .. n PROVE Start(i) <= hi <=> End(i) <= hi
    <3>1. /\ Start(i) \in Nat /\ End(i) \in Nat /\ Start(i) < End(i)
          /\ Start(i) <= from <=> End(i) <= done
          /\ ~(Start(i) > from /\ Start(i) <= hi /\ End(i) > hi)
      BY <1>1, <1>7
    <3> QED
      BY <3>1
  <2>3. hi - held' = hi /\ held' \in 0 .. RemainderCap /\ held' <= hi /\ Bracket <= hi
    BY <1>1, <1>3, <2>1
  <2> QED
    BY <2>1, <2>2, <2>3
<1> QED
  BY <1>5, <1>6, <1>7
------------------------------------------------------------------------------
(* A step. *)

\* The key is not behind the remainder while it is searched for.
SearchInv ==
    phase = "Searching" =>
        /\ fed < Bracket /\ fed - held <= preamble
        /\ held <= Keep \/ fed = KeyEnd

\* In the array the remainder starts with the object that is cut.
ArrayInv ==
    phase = "InArray" =>
        /\ Bracket <= fed - held
        /\ \A i \in DOMAIN objs : Start(i) <= fed - held <=> End(i) <= fed

DoneInv == phase = "Done" => \A i \in DOMAIN objs : End(i) <= fed

IdleInv == phase = "idle" => data = NoBikes /\ fed = 0 /\ held = 0

Inv ==
    /\ TypeOK /\ held <= fed
    /\ ParsedPrefix /\ PublishedExact
    /\ SearchInv /\ ArrayInv /\ DoneInv /\ IdleInv

LEMMA BodyTyped ==
    ASSUME NEW body \in Bodies
    PROVE  \E n \in Nat : n <= MaxObjects /\ body \in [1 .. n -> Objects]
PROOF
  BY Constants DEF Bodies

LEMMA NoBikesTyped == NoBikes \in [0 .. DataLen - 1 -> Bikes]
PROOF
  BY Constants DEF NoBikes, Bikes

LEMMA StoredNone == \A body : Stored(NoBikes, body, {}) = NoBikes
PROOF
  BY DEF Stored, NoBikes

\* What holds of any body.
BodyShape ==
    preamble \in Preambles /\ objs \in Bodies =>
        /\ BodyEnd \in Nat
        /\ Bracket > 0 /\ preamble \in Nat
        /\ fed = 0 => WholeIndexes = {}

LEMMA Shape == BodyShape
PROOF
<1> SUFFICES ASSUME preamble \in Preambles, objs \in Bodies
             PROVE  /\ BodyEnd \in Nat
                    /\ Bracket > 0 /\ preamble \in Nat
                    /\ fed = 0 => WholeIndexes = {}
  BY DEF BodyShape
<1>1. preamble \in Nat /\ TailLen \in Nat
  BY Constants
<1>2. PICK n \in Nat : objs \in [1 .. n -> Objects]
  BY BodyTyped
<1>3. Closing \in Nat
  BY <1>1, <1>2, ClosingLast
<1>4. /\ Bracket \in Nat
      /\ \A i \in 1 .. n : End(i) \in Nat /\ Start(i) \in Nat /\ Start(i) < End(i)
  BY <1>1, Positions
<1>5. KeyEnd \in Nat /\ Bracket = KeyEnd + 1
  BY <1>1, Geometry
<1>6. ASSUME fed = 0, NEW i \in DOMAIN objs PROVE i \notin WholeIndexes
  <2>1. i \in 1 .. n
    BY <1>2
  <2>2. ~(End(i) <= fed)
    BY <1>4, <1>6, <2>1
  <2> QED
    BY <2>2 DEF WholeIndexes
<1>7. fed = 0 => WholeIndexes = {}
  BY <1>6 DEF WholeIndexes
<1> QED
  BY <1>1, <1>3, <1>5, <1>7 DEF BodyEnd

\* The same of the next body.
LEMMA ShapeNext == BodyShape'
PROOF
  BY Shape, PTL

\* Positions do not move while a body is read.
LEMMA Unmoved ==
    ASSUME objs' = objs, preamble' = preamble
    PROVE  /\ KeyEnd' = KeyEnd /\ Bracket' = Bracket /\ BodyEnd' = BodyEnd
           /\ \A i : Start(i)' = Start(i) /\ End(i)' = End(i)
           /\ WholeIndexes' = {i \in DOMAIN objs : End(i) <= fed'}
PROOF
<1>1. KeyEnd' = KeyEnd /\ Bracket' = Bracket
  BY DEF KeyEnd, Bracket
<1>2. \A i : Start(i)' = Start(i) /\ End(i)' = End(i)
  BY <1>1 DEF Start, End
<1>3. BodyEnd' = BodyEnd
  BY <1>1, <1>2 DEF BodyEnd, Closing
<1>4. WholeIndexes' = {i \in DOMAIN objs : End(i) <= fed'}
  BY <1>2 DEF WholeIndexes
<1> QED
  BY <1>1, <1>2, <1>3, <1>4

\* A fetch that ends leaves nothing behind.
LEMMA Dropped ==
    ASSUME Inv, SinkDropped, preamble' = preamble,
           published' = Meaning(served'), published' \in [0 .. DataLen - 1 -> Bikes],
           served' \in Bodies
    PROVE  Inv'
PROOF
<1>1. /\ objs' = <<>> /\ fed' = 0 /\ held' = 0 /\ phase' = "idle" /\ data' = NoBikes
      /\ preamble' \in Preambles
  BY DEF SinkDropped, Inv, TypeOK
<1>2. objs' \in Bodies
  <2>1. <<>> \in [1 .. 0 -> Objects] /\ 0 \in 0 .. MaxObjects
    BY Constants
  <2> QED
    BY <1>1, <2>1 DEF Bodies
<1>3. BodyEnd' \in Nat /\ RemainderCap \in Nat
  BY <1>1, <1>2, ShapeNext, Constants DEF BodyShape
<1>4. fed' \in 0 .. BodyEnd' /\ held' \in 0 .. RemainderCap /\ held' <= fed'
  BY <1>1, <1>3
<1>5. TypeOK'
  BY <1>1, <1>2, <1>4, NoBikesTyped DEF TypeOK
<1>6. PublishedExact'
  BY DEF PublishedExact, Meaning
<1> QED
  BY <1>1, <1>4, <1>5, <1>6 DEF Inv, ParsedPrefix, SearchInv, ArrayInv, DoneInv, IdleInv

LEMMA RequestStep == Inv /\ Request => Inv'
PROOF
<1> SUFFICES ASSUME Inv, Request PROVE Inv'
  OBVIOUS
<1>1. /\ phase = "idle" /\ phase' = "Searching"
      /\ objs' \in Bodies /\ preamble' \in Preambles
      /\ fed' = fed /\ held' = held /\ data' = data
      /\ published' = published /\ served' = served
      /\ fed = 0 /\ held = 0 /\ data = NoBikes
  BY DEF Request, Inv, IdleInv
<1>2. BodyEnd' \in Nat /\ Bracket' > 0 /\ preamble' \in Nat /\ WholeIndexes' = {}
  BY <1>1, ShapeNext DEF BodyShape
<1>3. TypeOK'
  <2>1. fed' \in 0 .. BodyEnd'
    BY <1>1, <1>2
  <2> QED
    BY <1>1, <2>1 DEF Inv, TypeOK
<1>4. ParsedPrefix'
  <2>1. data' = Stored(NoBikes, objs', WholeIndexes')
    BY <1>1, <1>2, StoredNone
  <2> QED
    BY <2>1 DEF ParsedPrefix
<1>5. PublishedExact'
  BY <1>1 DEF Inv, PublishedExact, Meaning
<1>6. SearchInv'
  <2>1. fed' < Bracket' /\ fed' - held' <= preamble' /\ held' <= Keep
    BY <1>1, <1>2, Constants
  <2> QED
    BY <2>1 DEF SearchInv
<1> QED
  BY <1>1, <1>3, <1>4, <1>5, <1>6 DEF Inv, ArrayInv, DoneInv, IdleInv

LEMMA FailStep == Inv /\ ReadFails => Inv'
PROOF
<1> SUFFICES ASSUME Inv, ReadFails PROVE Inv'
  OBVIOUS
<1>1. /\ SinkDropped /\ preamble' = preamble
      /\ published' = published /\ served' = served
  BY DEF ReadFails
<1>2. /\ published' = Meaning(served') /\ published' \in [0 .. DataLen - 1 -> Bikes]
      /\ served' \in Bodies
  BY <1>1 DEF Inv, TypeOK, PublishedExact, Meaning
<1> QED
  BY <1>1, <1>2, Dropped

\* The objects read to their end are the first ones.
LEMMA WholeFirst ==
    ASSUME preamble \in Nat, fed \in Nat, NEW n \in Nat, objs \in [1 .. n -> Objects]
    PROVE  \E k \in 0 .. n : WholeIndexes = 1 .. k
PROOF
<1> DEFINE W == {i \in 1 .. n : End(i) <= fed}
<1>1. WholeIndexes = W
  BY DEF WholeIndexes
<1>2. CASE W = {}
  <2>1. 0 \in 0 .. n /\ 1 .. 0 = {}
    OBVIOUS
  <2> QED
    BY <1>1, <1>2, <2>1
<1>3. CASE W # {}
  <2>1. Max(W) \in W /\ \A x \in W : x <= Max(W)
    BY <1>3, Last
  <2>2. PICK k \in 1 .. n : End(k) <= fed /\ \A x \in W : x <= k
    BY <2>1
  <2>3. ASSUME NEW i \in 1 .. n PROVE i \in W <=> i <= k
    <3>1. End(i) \in Nat /\ End(k) \in Nat /\ (i < k => End(i) < End(k))
      BY Positions
    <3>2. i <= k => End(i) <= fed
      BY <2>2, <3>1
    <3> QED
      BY <2>2, <3>2
  <2>4. W = 1 .. k /\ k \in 0 .. n
    BY <2>3
  <2> QED
    BY <1>1, <2>4
<1> QED
  BY <1>2, <1>3

LEMMA FinishStep == Inv /\ Finish => Inv'
PROOF
<1> SUFFICES ASSUME Inv, Finish PROVE Inv'
  OBVIOUS
<1>1. /\ phase # "idle" /\ SinkDropped /\ preamble' = preamble /\ published' = data
      /\ served' = SubSeq(objs, 1, Cardinality(WholeIndexes))
  BY DEF Finish
<1>2. /\ preamble \in Nat /\ fed \in Nat /\ data = Stored(NoBikes, objs, WholeIndexes)
      /\ data \in [0 .. DataLen - 1 -> Bikes] /\ objs \in Bodies
  <2>1. preamble \in Preambles /\ objs \in Bodies /\ fed \in 0 .. BodyEnd
        /\ data \in [0 .. DataLen - 1 -> Bikes]
    BY DEF Inv, TypeOK
  <2>2. preamble \in Nat /\ BodyEnd \in Nat
    BY <2>1, Shape DEF BodyShape
  <2>3. fed \in Nat
    BY <2>1, <2>2
  <2> QED
    BY <1>1, <2>1, <2>2, <2>3 DEF Inv, ParsedPrefix
<1>3. PICK n \in Nat : n <= MaxObjects /\ objs \in [1 .. n -> Objects]
  BY <1>2, BodyTyped
<1>4. PICK k \in 0 .. n : WholeIndexes = 1 .. k
  BY <1>2, <1>3, WholeFirst
<1>5. Cardinality(1 .. k) = k
  <2>1. k \in Int /\ 1 \in Int /\ k >= 0
    BY <1>4
  <2>2. Cardinality(1 .. k) = IF 1 > k THEN 0 ELSE k - 1 + 1
    BY <2>1, FS_Interval
  <2> QED
    BY <2>1, <2>2
<1>6. served' = SubSeq(objs, 1, k)
  BY <1>1, <1>4, <1>5
<1>7. /\ served' \in [1 .. k -> Objects]
      /\ \A i \in 1 .. k : served'[i] = objs[i]
  <2>1. objs \in Seq(Objects) /\ Len(objs) = n
    <3>1. objs \in Seq(Objects)
      BY <1>3, SeqDef
    <3>2. DOMAIN objs = 1 .. n /\ DOMAIN objs = 1 .. Len(objs) /\ Len(objs) \in Nat
      BY <1>3, <3>1, LenProperties
    <3> QED
      BY <3>1, <3>2
  <2>2. 1 .. k \subseteq 1 .. n
    BY <1>4
  <2>3. SubSeq(objs, 1, k) = [i \in 1 .. k |-> objs[i]]
    BY <2>1, <2>2
  <2> QED
    BY <1>3, <1>6, <2>2, <2>3
<1>8. served' \in Bodies
  <2>1. k \in 0 .. MaxObjects
    BY <1>3, <1>4, Constants
  <2> QED
    BY <1>7, <2>1 DEF Bodies
<1>9. published' = Meaning(served')
  <2>1. DOMAIN served' = 1 .. k
    BY <1>7
  <2>2. published' = Stored(NoBikes, objs, 1 .. k)
    BY <1>1, <1>2, <1>4
  <2>3. ASSUME NEW s \in 0 .. DataLen - 1
        PROVE  Stored(NoBikes, objs, 1 .. k)[s] = Stored(NoBikes, served', 1 .. k)[s]
    <3> DEFINE hits == {i \in 1 .. k : objs[i].id = s}
               same == {i \in 1 .. k : served'[i].id = s}
    <3>1. hits = same
      BY <1>7
    <3>2. hits # {} => Max(hits) \in 1 .. k
      BY Last
    <3>3. hits # {} => objs[Max(hits)] = served'[Max(same)]
      BY <1>7, <3>1, <3>2
    <3>4. /\ Stored(NoBikes, objs, 1 .. k)[s]
                = IF hits = {} THEN NoBikes[s] ELSE Station(objs[Max(hits)])
          /\ Stored(NoBikes, served', 1 .. k)[s]
                = IF same = {} THEN NoBikes[s] ELSE Station(served'[Max(same)])
      BY DEF Stored
    <3> QED
      BY <3>1, <3>3, <3>4
  <2>4. Stored(NoBikes, objs, 1 .. k) = Stored(NoBikes, served', 1 .. k)
    BY <2>3 DEF Stored
  <2> QED
    BY <2>1, <2>2, <2>4 DEF Meaning
<1> QED
  BY <1>1, <1>2, <1>8, <1>9, Dropped

LEMMA FeedStep == NoOverflow /\ Inv /\ (\E n \in 1 .. MaxChunk : Feed(n)) => Inv'
PROOF
<1> SUFFICES ASSUME NoOverflow, Inv, NEW c \in 1 .. MaxChunk, Feed(c) PROVE Inv'
  OBVIOUS
<1>1. /\ phase # "idle" /\ fed + c <= BodyEnd /\ ProcessChunk(c) /\ fed' = fed + c
      /\ objs' = objs /\ preamble' = preamble /\ published' = published /\ served' = served
  BY DEF Feed
<1>2. /\ preamble \in Preambles /\ objs \in Bodies /\ fed \in 0 .. BodyEnd
      /\ held \in 0 .. RemainderCap /\ held <= fed
      /\ data \in [0 .. DataLen - 1 -> Bikes]
      /\ data = Stored(NoBikes, objs, WholeIndexes)
      /\ phase \in {"Searching", "InArray", "Done"}
  BY <1>1 DEF Inv, TypeOK, ParsedPrefix
<1>3. /\ preamble \in Nat /\ BodyEnd \in Nat /\ fed \in Nat /\ held \in Nat
      /\ c \in Nat /\ c >= 1 /\ c <= MaxChunk /\ fed - held \in Nat
  <2>1. preamble \in Nat /\ BodyEnd \in Nat
    BY <1>2, Shape DEF BodyShape
  <2>2. RemainderCap \in Nat /\ MaxChunk \in Nat
    BY Constants
  <2> QED
    BY <1>2, <2>1, <2>2
<1> DEFINE lo == fed - held
           hi == fed + c
<1>4. PICK n \in Nat : n <= MaxObjects /\ objs \in [1 .. n -> Objects]
  BY <1>2, BodyTyped
<1>5. /\ WholeIndexes = {i \in 1 .. n : End(i) <= fed}
      /\ KeyEnd' = KeyEnd /\ Bracket' = Bracket /\ BodyEnd' = BodyEnd
      /\ \A i : Start(i)' = Start(i) /\ End(i)' = End(i)
      /\ WholeIndexes' = {i \in 1 .. n : End(i) <= hi}
      /\ DOMAIN objs = 1 .. n
      /\ Read(fed) = Stored(NoBikes, objs, WholeIndexes)
      /\ Read(hi) = Stored(NoBikes, objs', WholeIndexes')
  BY <1>1, <1>4, Unmoved DEF WholeIndexes, Read
<1>6. /\ KeyEnd \in Nat /\ Bracket \in Nat /\ Bracket = KeyEnd + 1 /\ KeyEnd = preamble + KeyLen
  BY <1>3, Geometry
<1>7. \A i \in 1 .. n : Start(i) \in Nat /\ End(i) \in Nat /\ Start(i) > Bracket /\ Start(i) < End(i)
  BY <1>3, Positions
\* What is left to show of each outcome of the chunk.
<1> DEFINE Outcome ==
             /\ data' = Read(hi)
             /\ phase' \in {"Searching", "InArray", "Done"}
             /\ held' \in 0 .. RemainderCap /\ held' <= hi
             /\ phase' = "Searching" => /\ hi < Bracket /\ hi - held' <= preamble
                                        /\ held' <= Keep \/ hi = KeyEnd
             /\ phase' = "InArray" =>
                   /\ Bracket <= hi - held'
                   /\ \A i \in 1 .. n : Start(i) <= hi - held' <=> End(i) <= hi
             /\ phase' = "Done" => \A i \in 1 .. n : End(i) <= hi
<1>8. ASSUME Outcome PROVE Inv'
  <2>1. data' \in [0 .. DataLen - 1 -> Bikes]
    <3>1. NoBikes \in [0 .. DataLen - 1 -> Bikes]
      BY NoBikesTyped
    <3>2. {i \in 1 .. n : End(i) <= hi} \in SUBSET (1 .. n)
      OBVIOUS
    <3> QED
      BY <1>4, <1>5, <1>8, <3>1, <3>2, StoredTyped DEF Read
  <2>2. TypeOK'
    <3>1. fed' \in 0 .. BodyEnd'
      BY <1>1, <1>3, <1>5
    <3> QED
      BY <1>1, <1>8, <2>1, <3>1 DEF Inv, TypeOK
  <2>3. ParsedPrefix'
    BY <1>1, <1>5, <1>8 DEF ParsedPrefix
  <2>4. PublishedExact'
    BY <1>1 DEF Inv, PublishedExact, Meaning
  <2>5. SearchInv' /\ DoneInv' /\ IdleInv' /\ held' <= fed'
    BY <1>1, <1>5, <1>8 DEF SearchInv, DoneInv, IdleInv
  <2>6. ArrayInv'
    BY <1>1, <1>5, <1>8 DEF ArrayInv
  <2> QED
    BY <2>2, <2>3, <2>4, <2>5, <2>6 DEF Inv
\* The loop over the array, entered from the search or from a chunk before.
<1>9. ASSUME NEW from \in Nat, Bracket <= from, from <= hi,
             \A i \in 1 .. n : Start(i) <= from <=> End(i) <= fed,
             ScanArray(from, hi)
      PROVE  Outcome
  <2>1. hi \in Nat /\ fed < hi /\ hi - fed <= MaxChunk
    BY <1>3
  <2>2. data = Read(fed)
    BY <1>2, <1>5
  <2> HIDE DEF hi
  <2>3. data' = Read(hi)
    BY <1>3, <1>4, <1>9, <2>1, <2>2, ScanStores
  <2>4. /\ phase' \in {"InArray", "Done"}
        /\ held' \in 0 .. RemainderCap /\ held' <= hi
        /\ phase' = "InArray" =>
              /\ Bracket <= hi - held'
              /\ \A i \in 1 .. n : Start(i) <= hi - held' <=> End(i) <= hi
        /\ phase' = "Done" => \A i \in 1 .. n : End(i) <= hi
    BY <1>3, <1>4, <1>9, <2>1, ScanHolds
  <2> QED
    BY <2>3, <2>4
\* While the search goes on, no object has begun.
<1>10. ASSUME hi < Bracket
       PROVE  Read(hi) = Read(fed)
  <2> SUFFICES ASSUME NEW i \in 1 .. n PROVE ~(End(i) <= hi) /\ ~(End(i) <= fed)
    BY <1>5 DEF Read
  <2>1. Start(i) \in Nat /\ End(i) \in Nat /\ Start(i) > Bracket /\ Start(i) < End(i)
    BY <1>7
  <2> QED
    BY <1>3, <1>6, <1>10, <2>1
<1>11. phase = "Searching" =>
         /\ fed < Bracket /\ lo <= preamble
         /\ held <= Keep \/ fed = KeyEnd
  BY DEF Inv, SearchInv
<1>12. /\ Keep \in Nat /\ KeyLen \in Nat /\ KeyLen - 1 <= Keep /\ Keep + MaxChunk <= RemainderCap
       /\ RemainderCap \in Nat /\ MaxChunk \in Nat
  BY Constants
<1>13. CASE phase = "Searching" /\ ~KeyFound(lo, hi)
  <2>1. /\ held' = SaveRemainder(IF hi - lo <= Keep THEN hi - lo ELSE Keep)
        /\ phase' = "Searching" /\ data' = data
    BY <1>1, <1>13 DEF ProcessChunk
  <2>2. hi < KeyEnd /\ lo <= preamble /\ lo \in Nat /\ hi \in Nat /\ lo <= hi
    BY <1>3, <1>6, <1>11, <1>13 DEF KeyFound
  <2>3. held' = (IF hi - lo <= Keep THEN hi - lo ELSE Keep)
    BY <1>12, <2>1, <2>2 DEF SaveRemainder
  <2>4. /\ held' \in 0 .. RemainderCap /\ held' <= hi /\ held' <= Keep /\ hi < Bracket
        /\ hi - held' <= preamble
    <3> HIDE DEF hi, lo
    <3>1. CASE hi - lo <= Keep
      BY <1>3, <1>6, <1>12, <2>2, <2>3, <3>1
    <3>2. CASE ~(hi - lo <= Keep)
      BY <1>3, <1>6, <1>12, <2>2, <2>3, <3>2
    <3> QED
      BY <3>1, <3>2
  <2>5. data' = Read(hi)
    BY <1>2, <1>5, <1>10, <2>1, <2>4
  <2>6. Outcome
    BY <2>1, <2>4, <2>5
  <2> QED
    BY <1>8, <2>6
<1>14. CASE phase = "Searching" /\ KeyFound(lo, hi) /\ Bracket > hi
  <2>1. held' = SaveRemainder(hi - lo) /\ phase' = "Searching" /\ data' = data
    BY <1>1, <1>3, <1>6, <1>14 DEF ProcessChunk
  <2>2. hi = KeyEnd /\ hi < Bracket /\ lo <= preamble /\ held <= Keep
    BY <1>3, <1>6, <1>11, <1>14 DEF KeyFound
  <2>3. held' = held + c /\ held' \in 0 .. RemainderCap /\ held' <= hi /\ hi - held' <= preamble
    <3>1. hi - lo = held + c /\ held + c <= RemainderCap
      BY <1>3, <1>12, <2>2
    <3>2. held' = held + c
      BY <2>1, <3>1 DEF SaveRemainder
    <3> QED
      BY <1>2, <1>3, <1>12, <2>2, <3>1, <3>2
  <2>4. data' = Read(hi)
    BY <1>2, <1>5, <1>10, <2>1, <2>2
  <2>5. Outcome
    BY <2>1, <2>2, <2>3, <2>4
  <2> QED
    BY <1>8, <2>5
<1>15. CASE phase = "Searching" /\ KeyFound(lo, hi) /\ Bracket <= hi
  <2>1. ScanArray(Bracket, hi)
    BY <1>1, <1>3, <1>6, <1>15 DEF ProcessChunk
  <2>2. ASSUME NEW i \in 1 .. n PROVE Start(i) <= Bracket <=> End(i) <= fed
    <3>1. Start(i) \in Nat /\ End(i) \in Nat /\ Start(i) > Bracket /\ Start(i) < End(i)
      BY <1>7
    <3>2. fed < Bracket
      BY <1>11, <1>15
    <3> QED
      BY <1>3, <1>6, <3>1, <3>2
  <2>3. Bracket \in Nat /\ Bracket <= Bracket
    BY <1>6
  <2>4. Outcome
    <3> HIDE DEF hi, lo, Outcome
    <3> QED
      BY <1>9, <1>15, <2>1, <2>2, <2>3
  <2> QED
    BY <1>8, <2>4
<1>16. CASE phase = "InArray"
  <2>1. ScanArray(lo, hi)
    BY <1>1, <1>16 DEF ProcessChunk
  <2>2. /\ Bracket <= lo
        /\ \A i \in 1 .. n : Start(i) <= lo <=> End(i) <= fed
    BY <1>5, <1>16 DEF Inv, ArrayInv
  <2>3. lo \in Nat /\ lo <= hi
    BY <1>3
  <2>4. Outcome
    <3> HIDE DEF hi, lo, Outcome
    <3> QED
      BY <1>9, <2>1, <2>2, <2>3
  <2> QED
    BY <1>8, <2>4
<1>17. CASE phase = "Done"
  <2>1. phase' = "Done" /\ held' = held /\ data' = data
    BY <1>1, <1>17 DEF ProcessChunk
  <2>2. ASSUME NEW i \in 1 .. n PROVE End(i) <= fed /\ End(i) <= hi
    <3>1. End(i) <= fed /\ End(i) \in Nat
      BY <1>5, <1>7, <1>17 DEF Inv, DoneInv
    <3> QED
      BY <1>3, <3>1
  <2>3. Read(hi) = Read(fed)
    BY <1>5, <2>2 DEF Read
  <2>4. held' \in 0 .. RemainderCap /\ held' <= hi
    BY <1>2, <1>3, <2>1
  <2>5. Outcome
    BY <1>2, <1>5, <2>1, <2>2, <2>3, <2>4
  <2> QED
    BY <1>8, <2>5
<1> QED
  BY <1>1, <1>2, <1>6, <1>13, <1>14, <1>15, <1>16, <1>17 DEF ProcessChunk
------------------------------------------------------------------------------
(* The theorems. *)

LEMMA InitInv == Init => Inv
PROOF
<1> SUFFICES ASSUME Init PROVE Inv
  OBVIOUS
<1>1. /\ objs = <<>> /\ served = <<>> /\ preamble \in Preambles /\ fed = 0 /\ held = 0
      /\ phase = "idle" /\ data = NoBikes /\ published = NoBikes
  BY DEF Init
<1>2. <<>> \in Bodies
  <2>1. <<>> \in [1 .. 0 -> Objects] /\ 0 \in 0 .. MaxObjects
    BY Constants
  <2> QED
    BY <2>1 DEF Bodies
<1>3. BodyEnd \in Nat
  BY <1>1, <1>2, Shape DEF BodyShape
<1>4. TypeOK
  <2>1. fed \in 0 .. BodyEnd /\ held \in 0 .. RemainderCap
    BY <1>1, <1>3, Constants
  <2> QED
    BY <1>1, <1>2, <2>1, NoBikesTyped DEF TypeOK
<1>5. PublishedExact
  <2>1. DOMAIN <<>> = {}
    OBVIOUS
  <2> QED
    BY <1>1, <2>1, StoredNone DEF PublishedExact, Meaning
<1>6. held <= fed
  BY <1>1
<1> QED
  BY <1>1, <1>4, <1>5, <1>6 DEF Inv, ParsedPrefix, SearchInv, ArrayInv, DoneInv, IdleInv

LEMMA StutterStep == Inv /\ UNCHANGED vars => Inv'
PROOF
<1> SUFFICES ASSUME Inv, UNCHANGED vars PROVE Inv'
  OBVIOUS
<1>1. /\ objs' = objs /\ preamble' = preamble /\ fed' = fed /\ held' = held
      /\ phase' = phase /\ data' = data /\ published' = published /\ served' = served
  BY DEF vars
<1>2. /\ KeyEnd' = KeyEnd /\ Bracket' = Bracket /\ BodyEnd' = BodyEnd
      /\ \A i : Start(i)' = Start(i) /\ End(i)' = End(i)
      /\ WholeIndexes' = WholeIndexes
  BY <1>1, Unmoved DEF WholeIndexes
<1>3. TypeOK'
  BY <1>1, <1>2 DEF Inv, TypeOK
<1>4. ParsedPrefix' /\ PublishedExact'
  BY <1>1, <1>2 DEF Inv, ParsedPrefix, PublishedExact, Meaning
<1>5. SearchInv' /\ ArrayInv' /\ DoneInv' /\ IdleInv' /\ held' <= fed'
  BY <1>1, <1>2 DEF Inv, SearchInv, ArrayInv, DoneInv, IdleInv
<1> QED
  BY <1>3, <1>4, <1>5 DEF Inv

LEMMA Inductive == NoOverflow => (Spec => []Inv)
PROOF
<1>1. NoOverflow /\ Inv /\ [Next]_vars => Inv'
  <2> SUFFICES ASSUME NoOverflow, Inv, [Next]_vars PROVE Inv'
    OBVIOUS
  <2>1. CASE Request
    BY <2>1, RequestStep
  <2>2. CASE \E n \in 1 .. MaxChunk : Feed(n)
    BY <2>2, FeedStep
  <2>3. CASE Finish
    BY <2>3, FinishStep
  <2>4. CASE ReadFails
    BY <2>4, FailStep
  <2>5. CASE UNCHANGED vars
    BY <2>5, StutterStep
  <2> QED
    BY <2>1, <2>2, <2>3, <2>4, <2>5 DEF Next
<1> SUFFICES ASSUME NoOverflow PROVE Spec => []Inv
  OBVIOUS
<1>2. Inv /\ [Next]_vars => Inv'
  BY <1>1
<1> QED
  BY <1>2, InitInv, PTL DEF Spec

\* The remainder never outgrows its buffer, whatever the chunks.
THEOREM TypeCorrect == NoOverflow => (Spec => []TypeOK)
PROOF
<1> SUFFICES ASSUME NoOverflow PROVE Spec => []TypeOK
  OBVIOUS
<1>1. Spec => []Inv
  BY Inductive
<1>2. Inv => TypeOK
  BY DEF Inv
<1> QED
  BY <1>1, <1>2, PTL

\* At every chunk boundary the sink holds exactly the stations read whole: for
\* every body, every split into chunks of at most MaxChunk bytes, and every
\* place the key, a bracket or an object may be cut.
THEOREM Incremental == NoOverflow => (Spec => []ParsedPrefix)
PROOF
<1> SUFFICES ASSUME NoOverflow PROVE Spec => []ParsedPrefix
  OBVIOUS
<1>1. Spec => []Inv
  BY Inductive
<1>2. Inv => ParsedPrefix
  BY DEF Inv
<1> QED
  BY <1>1, <1>2, PTL

\* The display never shows a mixture of two responses, nor part of an object.
THEOREM ServedExactly == NoOverflow => (Spec => []PublishedExact)
PROOF
<1> SUFFICES ASSUME NoOverflow PROVE Spec => []PublishedExact
  OBVIOUS
<1>1. Spec => []Inv
  BY Inductive
<1>2. Inv => PublishedExact
  BY DEF Inv
<1> QED
  BY <1>1, <1>2, PTL
------------------------------------------------------------------------------
(* A response read to its end. *)

\* A response of which the whole array was read is published whole, however the
\* reads cut it: two ways to cut a response never give different stations.
WholePublished ==
    [][published' # published /\ Closing <= fed => published' = Meaning(objs)]_vars

LEMMA WholeRead ==
    ASSUME preamble \in Nat, fed \in Nat, NEW n \in Nat, objs \in [1 .. n -> Objects],
           Closing <= fed
    PROVE  WholeIndexes = DOMAIN objs
PROOF
<1>1. DOMAIN objs = 1 .. n /\ Closing \in Nat /\ \A i \in 1 .. n : End(i) < Closing
  BY ClosingLast
<1>2. \A i \in 1 .. n : End(i) \in Nat
  BY Positions
<1>3. \A i \in 1 .. n : End(i) <= fed
  BY <1>1, <1>2
<1> QED
  BY <1>1, <1>3 DEF WholeIndexes

THEOREM WholeResponse == NoOverflow => (Spec => WholePublished)
PROOF
<1> SUFFICES ASSUME NoOverflow PROVE Spec => WholePublished
  OBVIOUS
<1>1. ASSUME Inv, Next, published' # published, Closing <= fed
      PROVE  published' = Meaning(objs)
  <2>1. phase # "idle" /\ published' = data
    BY <1>1 DEF Next, Request, Feed, Finish, ReadFails
  <2>2. data = Stored(NoBikes, objs, WholeIndexes)
    BY <1>1, <2>1 DEF Inv, ParsedPrefix
  <2>3. preamble \in Preambles /\ objs \in Bodies /\ fed \in 0 .. BodyEnd
    BY <1>1 DEF Inv, TypeOK
  <2>4. preamble \in Nat /\ BodyEnd \in Nat
    BY <2>3, Shape DEF BodyShape
  <2>5. PICK n \in Nat : objs \in [1 .. n -> Objects]
    BY <2>3, BodyTyped
  <2>6. fed \in Nat
    BY <2>3, <2>4
  <2>7. WholeIndexes = DOMAIN objs
    BY <1>1, <2>4, <2>5, <2>6, WholeRead
  <2> QED
    BY <2>1, <2>2, <2>7 DEF Meaning
<1>2. Spec => []Inv
  BY Inductive
<1> QED
  BY <1>1, <1>2, PTL DEF Spec, WholePublished
------------------------------------------------------------------------------
(* Refinement of StationFeed. *)

\* How many objects have arrived.
Arrived == Cardinality(WholeIndexes)

LEMMA IntervalSize == \A k \in Nat : Cardinality(1 .. k) = k
PROOF
<1> SUFFICES ASSUME NEW k \in Nat PROVE Cardinality(1 .. k) = k
  OBVIOUS
<1>1. Cardinality(1 .. k) = IF 1 > k THEN 0 ELSE k - 1 + 1
  BY FS_Interval
<1> QED
  BY <1>1

ArrivedShape ==
    preamble \in Nat /\ fed \in Nat /\ objs \in Bodies =>
        /\ Arrived \in 0 .. Len(objs)
        /\ WholeIndexes = 1 .. Arrived
        /\ DOMAIN objs = 1 .. Len(objs) /\ Len(objs) \in Nat

LEMMA ArrivedCount == ArrivedShape
PROOF
<1> SUFFICES ASSUME preamble \in Nat, fed \in Nat, objs \in Bodies
             PROVE  /\ Arrived \in 0 .. Len(objs)
                    /\ WholeIndexes = 1 .. Arrived
                    /\ DOMAIN objs = 1 .. Len(objs) /\ Len(objs) \in Nat
  BY DEF ArrivedShape
<1>1. PICK n \in Nat : objs \in [1 .. n -> Objects]
  BY BodyTyped
<1>2. PICK k \in 0 .. n : WholeIndexes = 1 .. k
  BY <1>1, WholeFirst
<1>3. Arrived = k
  BY <1>2, IntervalSize DEF Arrived
<1>4. Len(objs) = n /\ DOMAIN objs = 1 .. n
  <2>1. objs \in Seq(Objects)
    BY <1>1, SeqDef
  <2>2. DOMAIN objs = 1 .. n /\ DOMAIN objs = 1 .. Len(objs) /\ Len(objs) \in Nat
    BY <1>1, <2>1, LenProperties
  <2> QED
    BY <2>2
<1> QED
  BY <1>1, <1>2, <1>3, <1>4

LEMMA ArrivedCountNext == ArrivedShape'
PROOF
  BY ArrivedCount, PTL

\* Where the state of a fetch lies, in this state and in the next.
Placed == Inv => preamble \in Nat /\ fed \in Nat /\ objs \in Bodies

LEMMA InvPlaced == Placed
PROOF
<1> SUFFICES ASSUME Inv PROVE preamble \in Nat /\ fed \in Nat /\ objs \in Bodies
  BY DEF Placed
<1>1. preamble \in Preambles /\ objs \in Bodies /\ fed \in 0 .. BodyEnd
  BY DEF Inv, TypeOK
<1>2. preamble \in Nat /\ BodyEnd \in Nat
  BY <1>1, Shape DEF BodyShape
<1> QED
  BY <1>1, <1>2

LEMMA InvPlacedNext == Placed'
PROOF
  BY InvPlaced, PTL

\* A dropped sink has nothing of a response.
LEMMA NothingArrived ==
    ASSUME Inv, SinkDropped, Inv'
    PROVE  objs' = <<>> /\ Arrived' = 0
PROOF
<1>1. objs' = <<>>
  BY DEF SinkDropped
<1>2. Len(objs') = 0
  BY <1>1
<1>3. Arrived' \in 0 .. Len(objs')
  BY InvPlacedNext, ArrivedCountNext DEF ArrivedShape, Placed
<1> QED
  BY <1>1, <1>2, <1>3

FeedMap ==
    \/ /\ ~(phase # "idle") /\ phase' # "idle"
       /\ objs' \in Bodies /\ Arrived' = 0 /\ published' = published
    \/ /\ phase # "idle" /\ (phase # "idle") = (phase' # "idle")
       /\ Arrived' \in Arrived .. Len(objs)
       /\ objs' = objs /\ published' = published
    \/ /\ phase # "idle" /\ ~(phase' # "idle")
       /\ published' = Meaning(SubSeq(objs, 1, Arrived)) /\ SubSeq(objs, 1, Arrived) \in Bodies
       /\ objs' = <<>> /\ Arrived' = 0
    \/ /\ phase # "idle" /\ ~(phase' # "idle")
       /\ objs' = <<>> /\ Arrived' = 0 /\ published' = published

LEMMA MapRequest == Inv /\ Inv' /\ Request => FeedMap
PROOF
<1> SUFFICES ASSUME Inv, Inv', Request PROVE FeedMap
  OBVIOUS
<1>1. /\ phase = "idle" /\ phase' = "Searching" /\ objs' \in Bodies
      /\ fed' = fed /\ published' = published
  BY DEF Request
<1>2. fed' = 0
  BY <1>1 DEF Inv, IdleInv
<1>3. preamble' \in Preambles
  BY DEF Request
<1>4. WholeIndexes' = {}
  BY <1>1, <1>2, <1>3, ShapeNext DEF BodyShape
<1>5. Arrived' = 0
  BY <1>4, FS_EmptySet DEF Arrived
<1> QED
  BY <1>1, <1>5 DEF FeedMap

LEMMA MapFeed == Inv /\ Inv' /\ (\E n \in 1 .. MaxChunk : Feed(n)) => FeedMap
PROOF
<1> SUFFICES ASSUME Inv, Inv', NEW n \in 1 .. MaxChunk, Feed(n) PROVE FeedMap
  OBVIOUS
<1>1. /\ phase # "idle" /\ fed' = fed + n
      /\ objs' = objs /\ preamble' = preamble /\ published' = published
  BY DEF Feed
<1>2. phase' # "idle"
  BY <1>1 DEF Feed, ProcessChunk, ScanArray
<1>3. /\ preamble \in Nat /\ fed \in Nat /\ objs \in Bodies
      /\ preamble' \in Nat /\ fed' \in Nat /\ objs' \in Bodies
  BY InvPlaced, InvPlacedNext DEF Placed
<1>4. /\ Arrived \in Nat /\ WholeIndexes = 1 .. Arrived
      /\ Arrived' \in 0 .. Len(objs) /\ WholeIndexes' = 1 .. Arrived'
      /\ DOMAIN objs = 1 .. Len(objs) /\ Len(objs) \in Nat
  BY <1>1, <1>3, ArrivedCount, ArrivedCountNext DEF ArrivedShape
<1>5. \A i \in DOMAIN objs : End(i)' = End(i) /\ End(i) \in Nat
  <2>1. \A i : End(i)' = End(i)
    BY <1>1 DEF End, Start, Bracket, KeyEnd
  <2>2. \A i \in 1 .. Len(objs) : End(i) \in Nat
    BY <1>3, <1>4, Positions
  <2> QED
    BY <1>4, <2>1, <2>2
<1>6. WholeIndexes \subseteq WholeIndexes'
  <2> SUFFICES ASSUME NEW i \in DOMAIN objs, End(i) <= fed PROVE End(i)' <= fed'
    BY <1>1 DEF WholeIndexes
  <2>1. n \in Nat /\ fed <= fed'
    BY <1>1, <1>3
  <2> QED
    BY <1>3, <1>5, <2>1
<1>7. Arrived <= Arrived'
  <2>1. CASE Arrived = 0
    BY <1>4, <2>1
  <2>2. CASE Arrived # 0
    <3>1. Arrived \in 1 .. Arrived
      BY <1>4, <2>2
    <3>2. Arrived \in 1 .. Arrived'
      BY <1>4, <1>6, <3>1
    <3> QED
      BY <1>4, <3>2
  <2> QED
    BY <2>1, <2>2
<1>8. Arrived' \in Arrived .. Len(objs)
  BY <1>4, <1>7
<1> QED
  BY <1>1, <1>2, <1>8 DEF FeedMap

LEMMA MapEnd == Inv /\ Inv' /\ (Finish \/ ReadFails) => FeedMap
PROOF
<1> SUFFICES ASSUME Inv, Inv', Finish \/ ReadFails PROVE FeedMap
  OBVIOUS
<1>1. phase # "idle" /\ SinkDropped /\ phase' = "idle"
  BY DEF Finish, ReadFails, SinkDropped
<1>2. objs' = <<>> /\ Arrived' = 0
  BY <1>1, NothingArrived
<1>3. CASE Finish
  <2>1. served' = SubSeq(objs, 1, Arrived)
    BY <1>3 DEF Finish, Arrived
  <2>2. published' = Meaning(served') /\ served' \in Bodies
    BY DEF Inv, PublishedExact, TypeOK
  <2> QED
    BY <1>1, <1>2, <2>1, <2>2 DEF FeedMap
<1>4. CASE ReadFails
  <2>1. published' = published
    BY <1>4 DEF ReadFails
  <2> QED
    BY <1>1, <1>2, <2>1 DEF FeedMap
<1> QED
  BY <1>3, <1>4

LEMMA PromiseStep == Inv /\ Inv' /\ [Next]_vars => [Promise!Next]_Promise!feedVars
PROOF
<1> SUFFICES ASSUME Inv, Inv', [Next]_vars PROVE [Promise!Next]_Promise!feedVars
  OBVIOUS
<1>1. CASE Next
  <2>1. FeedMap
    BY <1>1, MapRequest, MapFeed, MapEnd DEF Next
  <2> QED
    BY <2>1 DEF FeedMap, Arrived, Promise!Next, Promise!Ask, Promise!Arrive, Promise!Publish,
       Promise!Drop
<1>2. CASE UNCHANGED vars
  <2>1. WholeIndexes' = WholeIndexes
    BY <1>2 DEF vars, WholeIndexes, End, Start, Bracket, KeyEnd
  <2> QED
    BY <1>2, <2>1 DEF vars, Promise!feedVars
<1> QED
  BY <1>1, <1>2

\* The parser and the sink, fed in chunks, do what StationFeed promises of a
\* response read at once.
THEOREM ImplementsFeed == NoOverflow => (Spec => FeedSpec)
PROOF
<1> SUFFICES ASSUME NoOverflow PROVE Spec => FeedSpec
  OBVIOUS
<1>1. Init => Promise!Init
  <2> SUFFICES ASSUME Init PROVE Promise!Init
    OBVIOUS
  <2>1. Inv
    BY InitInv
  <2>2. Arrived \in 0 .. Len(objs) /\ objs = <<>>
    BY <2>1, InvPlaced, ArrivedCount DEF ArrivedShape, Placed, Init
  <2>3. Arrived = 0
    BY <2>2
  <2>4. published = Meaning(<<>>) /\ <<>> \in Bodies
    BY <2>1 DEF Inv, PublishedExact, TypeOK, Init
  <2> QED
    BY <2>2, <2>3, <2>4 DEF Init, Arrived, Promise!Init
<1>2. Spec => []Inv
  BY Inductive
<1> QED
  BY <1>1, <1>2, PromiseStep, PTL DEF Spec, FeedSpec, Promise!Spec
==============================================================================
