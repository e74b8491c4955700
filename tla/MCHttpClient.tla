---------------------------- MODULE MCHttpClient ----------------------------
(* Instances of HttpClient for TLC. *)
EXTENDS HttpClient, TLC

CONSTANTS r1, r2, r3

TwoRequests == {r1, r2}
ThreeRequests == {r1, r2, r3}

UserMode == {"oauth2"}
AllModes == {"oauth2", "oauth1", "none"}

Reads == {"GET"}
ReadsAndWrites == {"GET", "WRITE"}

RequestSymmetry == Permutations(Requests)
=============================================================================
