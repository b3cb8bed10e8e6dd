------------------------------ MODULE RequestSet ------------------------------
(***************************************************************************)
(* What the HTTP client promises its owner: a bounded set of requests in   *)
(* flight, each completed once, in any order.  Destroying the client drops *)
(* the requests in flight without a completion.                            *)
(***************************************************************************)
EXTENDS Integers, Sequences, FiniteSets

CONSTANT Bound      \* the number of requests that may be in flight

VARIABLES
    flight,         \* the ids of the requests in flight
    issued,         \* the number of requests accepted; ids count from 1
    done            \* the ids completed, in the order of their completion

Init == flight = {} /\ issued = 0 /\ done = <<>>

Accept ==
    /\ Cardinality(flight) < Bound
    /\ flight' = flight \union {issued + 1}
    /\ issued' = issued + 1
    /\ done' = done

Complete(id) ==
    /\ id \in flight
    /\ flight' = flight \ {id}
    /\ done' = Append(done, id)
    /\ issued' = issued

Drop == flight' = {} /\ UNCHANGED <<issued, done>>

Next == Accept \/ Drop \/ \E id \in flight : Complete(id)

Spec == Init /\ [][Next]_<<flight, issued, done>>
=============================================================================
