------------------------------ MODULE MCHypoIndex ------------------------------
(* Instances of HypoIndex for TLC.                                         *)
EXTENDS HypoIndex

CONSTANTS MaxRequest   \* bound: specifications of one command

MCRequests == UNION {[1..n -> Specs] : n \in 0..MaxRequest}
=============================================================================
