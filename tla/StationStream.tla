----------------------------- MODULE StationStream -----------------------------
(***************************************************************************)
(* A station_status body read in chunks: StreamingStationParser            *)
(* (src/src/tasks/station_parser.rs) and StationSink (fetch.rs), fed by    *)
(* fetch_once() from Lyft or by mirror::fetch() from the LAN mirror.       *)
(*                                                                         *)
(* A body is a preamble, the key "stations", the bracket that opens the    *)
(* array, the objects with a separator after each but the last, the        *)
(* closing bracket and a tail.  Only positions in it matter: the parser's  *)
(* remainder is always the last bytes read, so its length stands for it.   *)
(***************************************************************************)
EXTENDS Integers, Sequences, FiniteSets, FiniteSetsExt

CONSTANTS
    Targets,        \* TARGET_STATIONS.len(): target ordinals are 0 .. Targets - 1
    DataLen,        \* STATION_DATA_LEN
    Objects,        \* station objects: id (Targets for a station not targeted), counts
    MaxObjects,     \* bound: objects in a body
    Preambles,      \* lengths of the preamble
    TailLen,        \* length of what follows the array
    KeyLen, ObjLen, \* length of "stations" with its quotes, and of an object
    MaxChunk,       \* the read buffer, 1024 bytes
    Keep,           \* bytes kept while searching, 100
    RemainderCap,   \* 8192
    BufferCap,      \* 12288
    MaxResults,     \* capacity of the stations returned for one chunk, 8
    ByteModulus     \* 2^8

ASSUME StreamAssumption ==
    /\ Targets \in Nat /\ DataLen \in 0 .. Targets
    /\ Objects \subseteq [id : 0 .. Targets, bikes : Nat, ebikes : Nat]
    /\ MaxObjects \in Nat /\ TailLen \in Nat
    /\ Preambles \subseteq Nat
    /\ KeyLen \in Nat \ {0} /\ ObjLen \in Nat \ {0, 1}
    /\ MaxChunk \in Nat \ {0} /\ MaxResults \in Nat
    /\ Keep \in Nat /\ RemainderCap \in Nat /\ BufferCap \in Nat
    /\ KeyLen - 1 <= Keep /\ ObjLen <= RemainderCap /\ Keep + MaxChunk <= RemainderCap
    /\ RemainderCap + MaxChunk <= BufferCap  \* so a chunk always fits the buffer
    /\ ByteModulus \in Nat \ {0}

VARIABLES
    objs,       \* the station objects of this body
    preamble,   \* the length of its preamble
    fed,        \* bytes read
    held,       \* length of the parser's remainder
    phase,      \* ParserPhase, or "idle" between fetches
    data,       \* StationSink.station_data
    published,  \* the last STATION_DATA_SIGNAL
    served      \* history: the objects that had arrived whole when it was published

vars == <<objs, preamble, fed, held, phase, data, published, served>>

Bodies == UNION {[1 .. n -> Objects] : n \in 0 .. MaxObjects}
Bikes == [bikes : 0 .. ByteModulus - 1, ebikes : 0 .. ByteModulus - 1]
NoBikes == [s \in 0 .. DataLen - 1 |-> [bikes |-> 0, ebikes |-> 0]]

KeyEnd == preamble + KeyLen
Bracket == KeyEnd + 1
Start(i) == Bracket + (i - 1) * (ObjLen + 1) + 1
End(i) == Start(i) + ObjLen - 1
Closing == IF objs = <<>> THEN Bracket + 1 ELSE End(Len(objs)) + 1
BodyEnd == Closing + TailLen

TypeOK ==
    /\ objs \in Bodies /\ served \in Bodies
    /\ preamble \in Preambles
    /\ fed \in 0 .. BodyEnd
    /\ held \in 0 .. RemainderCap
    /\ phase \in {"idle", "Searching", "InArray", "Done"}
    /\ data \in [0 .. DataLen - 1 -> Bikes]
    /\ published \in [0 .. DataLen - 1 -> Bikes]

Init ==
    /\ objs = <<>> /\ served = <<>>
    /\ preamble \in Preambles
    /\ fed = 0 /\ held = 0
    /\ phase = "idle"
    /\ data = NoBikes /\ published = NoBikes
------------------------------------------------------------------------------
(* parse_single_station() *)

\* parse::<u8>() of a count; a number that does not parse counts as none.
Byte(n) == IF n < ByteModulus THEN n ELSE 0

\* Mutant: the difference without its width.
MechanicalUnbounded(o) == Byte(o.bikes) - Byte(o.ebikes)

\* A u8 subtraction; release builds do not check it.
Mechanical(o) == (Byte(o.bikes) - Byte(o.ebikes)) % ByteModulus

Station(o) == [bikes |-> Mechanical(o), ebikes |-> Byte(o.ebikes)]

\* station_data after the objects with these indexes were stored, in order.
Stored(before, body, indexes) ==
    [s \in 0 .. DataLen - 1 |->
        LET hits == {i \in indexes : body[i].id = s}
        IN  IF hits = {} THEN before[s] ELSE Station(body[Max(hits)])]
------------------------------------------------------------------------------
(* process_chunk() on remainder and chunk: the bytes lo + 1 .. hi. *)

\* Mutant: one byte less is kept than the key may need.
SaveShort(n) == IF n <= RemainderCap THEN IF n > 0 THEN n - 1 ELSE 0 ELSE 0

\* save_remainder(): push_str() takes all of it or nothing.
SaveRemainder(n) == IF n <= RemainderCap THEN n ELSE 0

\* The target stations among the completed objects, as many as the vector takes.
Results(completed) ==
    LET targets == {i \in completed : objs[i].id < Targets}
    IN  {i \in targets : Cardinality({j \in targets : j <= i}) <= MaxResults}

\* The loop over the array from position `from`.
ScanArray(from, hi) ==
    LET completed == {i \in DOMAIN objs : Start(i) > from /\ End(i) <= hi}
        cut == {i \in DOMAIN objs : Start(i) > from /\ Start(i) <= hi /\ End(i) > hi}
    IN  /\ data' = Stored(data, objs, Results(completed))
        /\ IF cut # {}
           THEN phase' = "InArray" /\ held' = SaveRemainder(hi - Start(Max(cut)) + 1)
           ELSE IF Closing > from /\ Closing <= hi
           THEN phase' = "Done" /\ held' = SaveRemainder(hi - Closing + 1)
           ELSE phase' = "InArray" /\ held' = 0

KeyFound(lo, hi) == lo <= preamble /\ KeyEnd <= hi

ProcessChunk(n) ==
    LET lo == fed - held
        hi == fed + n
    IN  \/ /\ phase = "Searching" /\ ~KeyFound(lo, hi)
           /\ held' = SaveRemainder(IF hi - lo <= Keep THEN hi - lo ELSE Keep)
           /\ UNCHANGED <<phase, data>>
        \/ /\ phase = "Searching" /\ KeyFound(lo, hi) /\ Bracket > hi
           /\ held' = SaveRemainder(hi - lo)
           /\ UNCHANGED <<phase, data>>
        \/ /\ phase = "Searching" /\ KeyFound(lo, hi) /\ Bracket <= hi
           /\ ScanArray(Bracket, hi)
        \/ /\ phase = "InArray"
           /\ ScanArray(lo, hi)
        \/ /\ phase = "Done"
           /\ UNCHANGED <<held, phase, data>>
------------------------------------------------------------------------------
(* A fetch. *)

\* Mutant: one sink for all fetches.
SinkKept == objs' = <<>> /\ fed' = 0 /\ held' = 0 /\ phase' = "idle" /\ UNCHANGED data

\* A fetch has a sink and a parser of its own: they end with it.
SinkDropped == objs' = <<>> /\ fed' = 0 /\ held' = 0 /\ phase' = "idle" /\ data' = NoBikes

Request ==
    /\ phase = "idle"
    /\ objs' \in Bodies /\ preamble' \in Preambles
    /\ phase' = "Searching"
    /\ UNCHANGED <<fed, held, data, published, served>>

\* One read of the body, then feed().
Feed(n) ==
    /\ phase # "idle" /\ fed + n <= BodyEnd
    /\ ProcessChunk(n)
    /\ fed' = fed + n
    /\ UNCHANGED <<objs, preamble, published, served>>

\* The objects read to their end.
WholeIndexes == {i \in DOMAIN objs : End(i) <= fed}

\* read() returned 0: finish() publishes what was found.  mirror::fetch() takes
\* the connection's end for the body's, wherever it comes.
Finish ==
    /\ phase # "idle"
    /\ published' = data
    /\ served' = SubSeq(objs, 1, Cardinality(WholeIndexes))
    /\ SinkDropped
    /\ UNCHANGED preamble

\* A read fails or the fetch times out: nothing is published.
ReadFails ==
    /\ phase # "idle"
    /\ SinkDropped
    /\ UNCHANGED <<preamble, published, served>>

Next ==
    \/ Request
    \/ \E n \in 1 .. MaxChunk : Feed(n)
    \/ Finish \/ ReadFails

Spec == Init /\ [][Next]_vars
------------------------------------------------------------------------------
(* Properties. *)

\* What a body says, its last object for a station counting.
Meaning(body) == Stored(NoBikes, body, DOMAIN body)

\* "Truly incremental": at every chunk boundary the stations stored are exactly
\* those whose objects have been read to their end, wherever the boundaries cut
\* the key, a bracket or an object.
ParsedPrefix ==
    phase # "idle" => data = Stored(NoBikes, objs, WholeIndexes)

\* "Ok only once the stations are published" (mirror.rs:63): the stations the
\* display has are those that one response brought whole, all of them, and
\* nothing of another response, read before or cut off.
PublishedExact == published = Meaning(served)

\* Reading in chunks implements reading at once: every feed(), finish() and
\* failed read is a step of StationFeed, or none.
Promise == INSTANCE StationFeed
             WITH open <- phase # "idle", response <- objs,
                  whole <- Cardinality(WholeIndexes),
                  Responses <- Bodies, Says <- [body \in Bodies |-> Meaning(body)]
FeedSpec == Promise!Spec
==============================================================================
