----------------------------- MODULE RequestFifo -----------------------------
(***************************************************************************)
(* What the two pipelined clients promise their owner: a bounded queue of  *)
(* requests, each answered once, in the order they were accepted, and a    *)
(* success carries the answer to that very request.  A client may stop     *)
(* answering at any point: its owner can close it, and it can lose its     *)
(* server.                                                                 *)
(***************************************************************************)
EXTENDS Integers, Sequences

CONSTANT Bound      \* the number of requests that may wait

VARIABLES
    queue,          \* the ids of the waiting requests, oldest first
    issued,         \* the number of requests accepted; ids count from 1
    done            \* history of callbacks: [id, ok, res]

Init == queue = <<>> /\ issued = 0 /\ done = <<>>

Accept ==
    /\ Len(queue) < Bound
    /\ queue' = Append(queue, issued + 1)
    /\ issued' = issued + 1
    /\ done' = done

\* `res' is the request the reported answer belongs to.
Complete(ok, res) ==
    /\ queue # <<>>
    /\ ok => res = Head(queue)
    /\ queue' = Tail(queue)
    /\ done' = Append(done, [id |-> Head(queue), ok |-> ok, res |-> res])
    /\ issued' = issued

Next == Accept \/ \E ok \in BOOLEAN, res \in 0 .. issued : Complete(ok, res)

Spec == Init /\ [][Next]_<<queue, issued, done>>
=============================================================================
