----------------------------- MODULE MCRequests -----------------------------
(* Instances of Requests for TLC. *)
EXTENDS Requests, TLC

CONSTANTS k1, w1, w2, d1, m1, o1, o2

OneItem == {k1}
TwoWeeks == {w1, w2}
OneDate == {d1}
OneMove == {m1}
TwoContents == {o1, o2}

\* Weeks are compared with nothing but each other, and contents likewise.
Symmetries == Permutations(TwoWeeks) \cup Permutations(TwoContents)
=============================================================================
