------------------------------ MODULE MCClient ------------------------------
(* Instances of Client for TLC. *)
EXTENDS Client, TLC

CONSTANTS r1, o1, o2, o3

OneRequest == {r1}
ThreeCalls == {o1, o2, o3}

UserMode == {"oauth2"}
Reads == {"GET"}

AllKinds == {"authenticate", "load", "refresh", "logout"}
LoadOnly == {"load"}

Symmetries == Permutations(Calls)
=============================================================================
