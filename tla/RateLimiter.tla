---------------------------- MODULE RateLimiter ----------------------------
(***************************************************************************)
(* The RateLimiter class of the HTTP transport (http.ts).                  *)
(*                                                                         *)
(* wait() is a promise-chain mutex around a prune-check-sleep loop.  Every *)
(* invocation replaces `admission` by a promise of its own, awaits the     *)
(* promise it replaced, and resolves its own when it leaves, by any path.  *)
(* A promise of the chain is named here by the invocation that created it. *)
(*                                                                         *)
(* JavaScript runs the code between two awaits without interruption, so an *)
(* action is one such stretch.  Time is relative: instead of timestamps    *)
(* and Date.now() the model keeps how long ago each entry of `requests`    *)
(* was pushed, up to Window (the code only compares ages with windowMs),   *)
(* and how long each timer still has to run.  The state space is finite    *)
(* although time never stops.  Date.now() is assumed never to step back.   *)
(***************************************************************************)
EXTENDS Integers, FiniteSets

CONSTANTS
  Calls,        \* the invocations of wait()
  NoCall,       \* the resolved promise the chain starts from
  MaxRequests,  \* maxRequests
  Window,       \* windowMs
  Slack         \* a timer may fire this early: setTimeout is not exact

ASSUME CallsAssumption == NoCall \notin Calls
ASSUME LimitAssumption ==
  /\ MaxRequests \in Nat \ {0}
  /\ Window \in Nat
  /\ Slack \in Nat

VARIABLES
  pc,           \* pc[c]: where invocation c stands
  previous,     \* previous[c]: the promise c awaits before it may check
  admission,    \* the last promise of the chain
  released,     \* the promises of the chain that are resolved
  requests,     \* the invocations whose timestamps are in the array
  age,          \* age[c]: time since c pushed its timestamp, at most Window
  timer,        \* timer[c]: what is left of the sleep of c
  turn,         \* history: c was the turn[c]-th invocation
  asked         \* history: the number of invocations so far

vars == <<pc, previous, admission, released, requests, age, timer, turn, asked>>

-----------------------------------------------------------------------------
Init ==
  /\ pc = [c \in Calls |-> "idle"]
  /\ previous = [c \in Calls |-> NoCall]
  /\ admission = NoCall
  /\ released = {NoCall}
  /\ requests = {}
  /\ age = [c \in Calls |-> 0]
  /\ timer = [c \in Calls |-> 0]
  /\ turn = [c \in Calls |-> 0]
  /\ asked = 0

\* wait() up to its first await: join the chain.
Arrive(c) ==
  /\ pc[c] = "idle"
  /\ pc' = [pc EXCEPT ![c] = "queued"]
  /\ previous' = [previous EXCEPT ![c] = admission]
  /\ admission' = c
  /\ asked' = asked + 1
  /\ turn' = [turn EXCEPT ![c] = asked + 1]
  /\ UNCHANGED <<released, requests, age, timer>>

\* Invocation c is about to run the body of the loop: the promise it awaited
\* is resolved, or its sleep is over.
TurnAtOnce(c) == pc[c] = "queued"   \* mutant: nothing is awaited
Turn(c) == pc[c] = "queued" /\ previous[c] \in released
Awake(c) == pc[c] = "sleeping" /\ timer[c] <= Slack
AtLoop(c) == Turn(c) \/ Awake(c)

\* Mutant: the filter drops entries that are still in the window.
LiveOffByOne == {r \in requests : age[r] + 1 < Window}

\* The entries that survive the filter.
Live == {r \in requests : age[r] < Window}

\* requests[0] is the oldest entry, for the array is in order of insertion.
OldestAge == CHOOSE a \in {age[r] : r \in Live} : \A r \in Live : age[r] <= a

\* Mutant: a whole window.
DelayWhole == Window

\* How long to sleep when the window is full (and so not empty).
Delay == Window - OldestAge

\* Mutants: the promise at the end of the chain is resolved in place of the
\* invocation's own, and the promise is resolved outside of a `finally`.
ReleaseLast(c) == released' = released \cup {admission}
ReleaseIfAdmitted(c) ==
  released' = IF pc'[c] = "admitted" THEN released \cup {c} ELSE released

\* The `finally` of wait().
Release(c) == released' = released \cup {c}

Admit(c) ==
  /\ AtLoop(c)
  /\ Cardinality(Live) < MaxRequests
  /\ requests' = Live \cup {c}
  /\ age' = [age EXCEPT ![c] = 0]
  /\ pc' = [pc EXCEPT ![c] = "admitted"]
  /\ Release(c)
  /\ UNCHANGED <<previous, admission, timer, turn, asked>>

Sleep(c) ==
  /\ AtLoop(c)
  /\ Cardinality(Live) >= MaxRequests
  /\ requests' = Live
  /\ timer' = [timer EXCEPT ![c] = Delay]
  /\ pc' = [pc EXCEPT ![c] = "sleeping"]
  /\ UNCHANGED <<previous, admission, released, age, turn, asked>>

\* The caller of HttpClient may supply its own sleep, which may reject.
SleepRejects(c) ==
  /\ pc[c] = "sleeping"
  /\ pc' = [pc EXCEPT ![c] = "rejected"]
  /\ Release(c)
  /\ UNCHANGED <<previous, admission, requests, age, timer, turn, asked>>

Admitted == {c \in Calls : pc[c] = "admitted"}

\* One unit of time goes by.
Tick ==
  /\ age' = [c \in Calls |->
               IF c \in Admitted /\ age[c] < Window THEN age[c] + 1 ELSE age[c]]
  /\ timer' = [c \in Calls |-> IF timer[c] > 0 THEN timer[c] - 1 ELSE 0]
  /\ UNCHANGED <<pc, previous, admission, released, requests, turn, asked>>

Next ==
  \/ \E c \in Calls : Arrive(c) \/ Admit(c) \/ Sleep(c) \/ SleepRejects(c)
  \/ Tick

Spec == Init /\ [][Next]_vars

\* Promise continuations run, timers fire, and time goes by.  Nobody has to
\* call wait(), and no sleep has to reject.
Fairness ==
  /\ WF_vars(Tick)
  /\ \A c \in Calls : WF_vars(Admit(c)) /\ WF_vars(Sleep(c))

FairSpec == Spec /\ Fairness

-----------------------------------------------------------------------------
Places == {"idle", "queued", "sleeping", "admitted", "rejected"}

\* The type invariant of the limiter's fields and of its invocations.
TypeOK ==
  /\ pc \in [Calls -> Places]
  /\ previous \in [Calls -> Calls \cup {NoCall}]
  /\ admission \in Calls \cup {NoCall}
  /\ released \in SUBSET (Calls \cup {NoCall})
  /\ requests \in SUBSET Calls
  /\ age \in [Calls -> 0..Window]
  /\ timer \in [Calls -> 0..Window]
  /\ turn \in [Calls -> Nat]
  /\ asked \in Nat

\* The rolling-window bound: however invocations, timers and the clock
\* interleave, no window ending now contains more than MaxRequests
\* admissions.  Unlike `requests`, which wait() prunes, the left-hand side
\* counts every admission ever made.
WindowBound == Cardinality({c \in Admitted : age[c] < Window}) <= MaxRequests

\* The chain is a mutex: no two invocations are ever inside the loop, so no
\* invocation acts on a count of `requests` that another is about to change.
OneInLoop ==
  \A c, d \in Calls : pc[c] = "sleeping" /\ pc[d] = "sleeping" => c = d

\* First come, first served: an invocation reaches the loop only when every
\* earlier invocation has left wait(), admitted or rejected.
FirstComeFirstServed ==
  \A c, d \in Calls :
    /\ pc[d] \in {"sleeping", "admitted", "rejected"}
    /\ pc[c] # "idle"
    /\ turn[c] < turn[d]
    => pc[c] \in {"admitted", "rejected"}

\* The sleeper does not oversleep: its timer runs out no later than the
\* moment at which the oldest counted request leaves the window.
NoOversleep ==
  \A c \in Calls : pc[c] = "sleeping" =>
    timer[c] = 0 \/ \E r \in requests : timer[c] + age[r] <= Window

\* Nobody starves: whoever calls wait() is admitted, unless its own sleep is
\* rejected, whatever the sleeps of the invocations before it do.
NoStarvation ==
  \A c \in Calls : pc[c] = "queued" ~> pc[c] \in {"admitted", "rejected"}

-----------------------------------------------------------------------------
\* The limiter keeps the promise of SlidingWindow.
WaitStatus == [c \in Calls |-> IF pc[c] = "sleeping" THEN "queued" ELSE pc[c]]

Promise == INSTANCE SlidingWindow WITH status <- WaitStatus

\* Every step of wait() is a step of the abstract sliding window or leaves it
\* unchanged.
ImplementsSlidingWindow == Promise!Spec
=============================================================================
