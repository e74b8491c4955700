---------------------------- MODULE MCTransport ----------------------------
(* Instances of Transport for TLC. *)
EXTENDS Transport, TLC

CONSTANTS r1, r2, r3

TwoRequests == {r1, r2}
ThreeRequests == {r1, r2, r3}

UserMode == {"oauth2"}
Reads == {"GET"}

RequestSymmetry == Permutations(Requests)
=============================================================================
