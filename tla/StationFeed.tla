------------------------------ MODULE StationFeed ------------------------------
(***************************************************************************)
(* What a fetch promises the display ("Ok only once the stations are       *)
(* published", src/src/tasks/mirror.rs): the stations published are what   *)
(* the part of one response that arrived says.  StationStream implements   *)
(* this with a parser that never sees a response as a whole.               *)
(***************************************************************************)
EXTENDS Integers, Sequences

CONSTANTS
    Responses,   \* the station objects of a response, in order
    Says         \* the stations a response stands for

VARIABLES
    open,        \* a response is being read
    response,    \* its objects
    whole,       \* how many of them have arrived
    published    \* the stations the display has

feedVars == <<open, response, whole, published>>

Init ==
    /\ ~open /\ response = <<>> /\ whole = 0
    /\ published = Says[<<>>]

Ask ==
    /\ ~open /\ open'
    /\ response' \in Responses
    /\ whole' = 0
    /\ UNCHANGED published

Arrive ==
    /\ open
    /\ whole' \in whole .. Len(response)
    /\ UNCHANGED <<open, response, published>>

Publish ==
    /\ open /\ ~open'
    /\ published' = Says[SubSeq(response, 1, whole)]
    /\ response' = <<>> /\ whole' = 0

Drop ==
    /\ open /\ ~open'
    /\ response' = <<>> /\ whole' = 0
    /\ UNCHANGED published

Next == Ask \/ Arrive \/ Publish \/ Drop

Spec == Init /\ [][Next]_feedVars
==============================================================================
