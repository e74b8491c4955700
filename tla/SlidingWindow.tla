--------------------------- MODULE SlidingWindow ---------------------------
(***************************************************************************)
(* What the transport's rate limiter promises to the calls of wait(),      *)
(* without saying how: calls are let through one at a time, in the order   *)
(* in which they asked, and a call is let through only while fewer than    *)
(* MaxRequests calls were let through during the last Window units of      *)
(* time.  A call at the head of the line may give up.                      *)
(*                                                                         *)
(* RateLimiter.tla, the promise chain and the timer loop of http.ts, is    *)
(* shown to implement this module.                                         *)
(***************************************************************************)
EXTENDS Integers, FiniteSets

CONSTANTS
  Calls,        \* the invocations of wait()
  MaxRequests,  \* calls let through per window
  Window        \* length of the window, in units of time

VARIABLES
  status,       \* status[c]: where call c stands
  turn,         \* turn[c]: c was the turn[c]-th call to ask, 0 before
  asked,        \* how many calls have asked
  age           \* age[c]: time since c was let through, Window for "long ago"

vars == <<status, turn, asked, age>>

Granted == {c \in Calls : status[c] = "admitted"}

\* The calls let through during the last Window units of time.
Recent == {c \in Granted : age[c] < Window}

FirstInLine(c) ==
  /\ status[c] = "queued"
  /\ \A d \in Calls : status[d] = "queued" => turn[c] <= turn[d]

Init ==
  /\ status = [c \in Calls |-> "idle"]
  /\ turn = [c \in Calls |-> 0]
  /\ asked = 0
  /\ age = [c \in Calls |-> 0]

Ask(c) ==
  /\ status[c] = "idle"
  /\ status' = [status EXCEPT ![c] = "queued"]
  /\ asked' = asked + 1
  /\ turn' = [turn EXCEPT ![c] = asked + 1]
  /\ UNCHANGED age

Grant(c) ==
  /\ FirstInLine(c)
  /\ Cardinality(Recent) < MaxRequests
  /\ status' = [status EXCEPT ![c] = "admitted"]
  /\ age' = [age EXCEPT ![c] = 0]
  /\ UNCHANGED <<turn, asked>>

GiveUp(c) ==
  /\ FirstInLine(c)
  /\ status' = [status EXCEPT ![c] = "rejected"]
  /\ UNCHANGED <<turn, asked, age>>

Tick ==
  /\ age' = [c \in Calls |-> IF c \in Recent THEN age[c] + 1 ELSE age[c]]
  /\ UNCHANGED <<status, turn, asked>>

Next ==
  \/ \E c \in Calls : Ask(c) \/ Grant(c) \/ GiveUp(c)
  \/ Tick

Spec == Init /\ [][Next]_vars
=============================================================================
