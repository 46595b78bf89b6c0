---------------------------- MODULE MCPresentation ----------------------------
(* A desktop without color management, one that accepts every description and   *)
(* one that rejects them; HDR10 buffers come and go with the output.  One retry *)
(* of each kind and two failures exhaust every counter.                         *)
EXTENDS Presentation

SomePlatforms ==
    {[managed |-> FALSE, pq |-> FALSE, ready |-> {}],
     [managed |-> TRUE, pq |-> TRUE, ready |-> {}],
     [managed |-> TRUE, pq |-> TRUE, ready |-> Targets]}
===============================================================================
