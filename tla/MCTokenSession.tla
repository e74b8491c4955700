--------------------------- MODULE MCTokenSession ---------------------------
(* Instances of TokenSession for TLC. *)
EXTENDS TokenSession, TLC

CONSTANTS o1, o2, o3, o4

ThreeCalls == {o1, o2, o3}
FourCalls == {o1, o2, o3, o4}

\* What the application takes care to await before it goes on.
LoadOnly == {"load"}
LoadAndLogin == {"load", "authenticate"}
AllButRefresh == {"load", "authenticate", "logout"}

CallSymmetry == Permutations(Calls)
=============================================================================
