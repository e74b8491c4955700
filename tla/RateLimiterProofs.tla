------------------------- MODULE RateLimiterProofs -------------------------
(***************************************************************************)
(* Machine-checked facts about RateLimiter, for every set of invocations,  *)
(* every limit, every window and every slack of the timers.                *)
(***************************************************************************)
EXTENDS RateLimiter, FiniteSetTheorems, WellFoundedInduction, TLAPS

(***************************************************************************)
(* The entries that survive the filter have an oldest one, whose age is    *)
(* below the window: what the code relies on when it reads requests[0].    *)
(***************************************************************************)
LEMMA LargestExists ==
  ASSUME NEW n \in Nat, NEW S \in SUBSET (0..n), S # {}
  PROVE  \E a \in S : \A b \in S : b <= a
<1> DEFINE T == {m \in 0..n : n - m \in S}
<1>1. T \subseteq Nat
  OBVIOUS
<1>2. T # {}
  <2>1. PICK s \in S : s \in 0..n
    OBVIOUS
  <2>2. n - s \in 0..n /\ n - (n - s) = s
    BY <2>1
  <2> QED BY <2>2
<1>3. \E x \in T : \A y \in T : ~ (<<y, x>> \in OpToRel(<, Nat))
  BY <1>1, <1>2, NatLessThanWellFounded, WFMin
<1>4. PICK x \in T : \A y \in T : ~ (y < x)
  BY <1>1, <1>3 DEF OpToRel
<1>5. \A b \in S : b <= n - x
  <2> TAKE b \in S
  <2>1. b \in 0..n /\ n - b \in 0..n /\ n - (n - b) = b
    OBVIOUS
  <2>2. ~ (n - b < x)
    BY <1>4, <2>1
  <2> QED BY <2>1, <2>2
<1> QED BY <1>5

\* A window that is not empty has an oldest entry.
LEMMA OldestAgeIsReached ==
  ASSUME TypeOK, Live # {}
  PROVE  \E r \in Live : OldestAge = age[r] /\ \A q \in Live : age[q] <= age[r]
<1> DEFINE S == {age[r] : r \in Live}
<1>1. S \in SUBSET (0..Window) /\ S # {}
  BY DEF TypeOK, Live
<1>2. \E a \in S : \A b \in S : b <= a
  BY <1>1, LargestExists, LimitAssumption
<1>3. \E a \in S : \A r \in Live : age[r] <= a
  BY <1>2
<1>4. OldestAge \in S /\ \A r \in Live : age[r] <= OldestAge
  BY <1>3 DEF OldestAge
<1> QED BY <1>4

\* A sleep lasts no longer than a window.
LEMMA DelayInWindow ==
  ASSUME TypeOK, Live # {}
  PROVE  Delay \in 0..Window
<1>1. PICK r \in Live : OldestAge = age[r]
  BY OldestAgeIsReached
<1> QED BY <1>1, LimitAssumption DEF Delay, Live, TypeOK

\* A full window is not empty.
LEMMA FullIsNotEmpty ==
  ASSUME Cardinality(Live) >= MaxRequests
  PROVE  Live # {}
BY FS_EmptySet, LimitAssumption

-----------------------------------------------------------------------------
\* Every step preserves the types.
LEMMA TypeStep ==
  ASSUME TypeOK, [Next]_vars
  PROVE  TypeOK'
<1>1. ASSUME NEW c \in Calls, Arrive(c)
      PROVE  TypeOK'
  BY <1>1 DEF TypeOK, Places, Arrive
<1>2. ASSUME NEW c \in Calls, Admit(c)
      PROVE  TypeOK'
  BY <1>2, LimitAssumption DEF TypeOK, Places, Admit, Release, Live
<1>3. ASSUME NEW c \in Calls, Sleep(c)
      PROVE  TypeOK'
  <2>1. Delay \in 0..Window
    BY <1>3, FullIsNotEmpty, DelayInWindow DEF Sleep
  <2> QED BY <1>3, <2>1 DEF TypeOK, Places, Sleep, Live
<1>4. ASSUME NEW c \in Calls, SleepRejects(c)
      PROVE  TypeOK'
  BY <1>4 DEF TypeOK, Places, SleepRejects, Release
<1>5. CASE Tick
  BY <1>5, LimitAssumption DEF TypeOK, Tick
<1>6. CASE UNCHANGED vars
  BY <1>6 DEF TypeOK, vars
<1> QED BY <1>1, <1>2, <1>3, <1>4, <1>5, <1>6 DEF Next

(***************************************************************************)
(* The fields of the limiter and of its invocations keep their types.      *)
(***************************************************************************)
THEOREM TypeCorrect == Spec => []TypeOK
<1>1. Init => TypeOK
  BY LimitAssumption DEF Init, TypeOK, Places
<1> QED BY <1>1, TypeStep, PTL DEF Spec

-----------------------------------------------------------------------------
(***************************************************************************)
(* The window.  `requests` forgets admissions, so WindowBound does not     *)
(* follow from the guard of Admit alone: what is needed besides is that    *)
(* only admissions that have left the window are ever forgotten.           *)
(***************************************************************************)
OnlyOldForgotten ==
  /\ requests \subseteq Admitted
  /\ \A c \in Admitted \ requests : age[c] = Window

LiveBound == IsFiniteSet(Live) /\ Cardinality(Live) <= MaxRequests

WindowInv == OnlyOldForgotten /\ LiveBound

\* The recent admissions are exactly the entries the filter keeps.
LEMMA RecentIsLive ==
  ASSUME TypeOK, OnlyOldForgotten
  PROVE  {c \in Admitted : age[c] < Window} = Live
BY LimitAssumption DEF TypeOK, OnlyOldForgotten, Live, Admitted

\* The invariant of the window implies the bound.
LEMMA WindowInvBound == TypeOK /\ WindowInv => WindowBound
BY RecentIsLive DEF WindowInv, LiveBound, WindowBound

\* A part of the entries in the window respects the bound as well.
LEMMA SmallerLive ==
  ASSUME LiveBound, NEW S \in SUBSET Live
  PROVE  IsFiniteSet(S) /\ Cardinality(S) <= MaxRequests
BY FS_Subset, FS_CardinalityType, LimitAssumption DEF LiveBound

\* Every step keeps the invariant of the window.
LEMMA WindowStep ==
  ASSUME TypeOK, WindowInv, [Next]_vars
  PROVE  WindowInv'
<1> USE DEF WindowInv
<1>1. ASSUME NEW c \in Calls, Arrive(c)
      PROVE  WindowInv'
  <2>1. Live' = Live
    BY <1>1 DEF Arrive, Live
  <2>2. Admitted' = Admitted
    BY <1>1 DEF Arrive, Admitted, TypeOK
  <2> QED BY <1>1, <2>1, <2>2 DEF Arrive, OnlyOldForgotten, LiveBound
<1>2. ASSUME NEW c \in Calls, Admit(c)
      PROVE  WindowInv'
  <2>1. c \notin Admitted
    BY <1>2 DEF Admit, AtLoop, Turn, Awake, Admitted
  <2>2. Admitted' = Admitted \cup {c}
    BY <1>2 DEF Admit, Admitted, TypeOK
  <2>3. OnlyOldForgotten'
    <3>1. \A d \in Admitted \ Live : age[d] = Window
      BY LimitAssumption DEF OnlyOldForgotten, Live, TypeOK, Admitted
    <3>2. requests' = Live \cup {c} /\ Live \subseteq Admitted
      BY <1>2 DEF Admit, OnlyOldForgotten, Live
    <3>3. \A d \in Admitted : age'[d] = age[d]
      BY <1>2, <2>1 DEF Admit, TypeOK, Admitted
    <3> QED BY <2>2, <3>1, <3>2, <3>3 DEF OnlyOldForgotten
  <2>4. IsFiniteSet(Live) /\ Cardinality(Live) \in Nat
    BY FS_CardinalityType DEF LiveBound
  <2>5. IsFiniteSet(Live \cup {c}) /\ Cardinality(Live \cup {c}) \in Nat
        /\ Cardinality(Live \cup {c}) <= Cardinality(Live) + 1
    <3>1. IsFiniteSet(Live \cup {c})
      BY <2>4, FS_AddElement
    <3>2. Cardinality(Live \cup {c})
            = IF c \in Live THEN Cardinality(Live) ELSE Cardinality(Live) + 1
      BY <2>4, FS_AddElement
    <3> QED BY <2>4, <3>1, <3>2
  <2>6. Cardinality(Live \cup {c}) <= MaxRequests
    BY <1>2, <2>4, <2>5, LimitAssumption DEF Admit
  <2>7. Live' \in SUBSET (Live \cup {c})
    BY <1>2 DEF Admit, Live
  <2>8. LiveBound'
    <3>1. IsFiniteSet(Live') /\ Cardinality(Live') <= Cardinality(Live \cup {c})
      BY <2>5, <2>7, FS_Subset
    <3> QED BY <3>1, <2>5, <2>6, FS_CardinalityType, LimitAssumption
            DEF LiveBound
  <2> QED BY <2>3, <2>8
<1>3. ASSUME NEW c \in Calls, Sleep(c)
      PROVE  WindowInv'
  <2>1. c \notin Admitted /\ Admitted' = Admitted
    BY <1>3 DEF Sleep, AtLoop, Turn, Awake, Admitted, TypeOK
  <2>2. Live' = Live
    BY <1>3 DEF Sleep, Live
  <2>3. \A d \in Admitted \ Live : age[d] = Window
    BY LimitAssumption DEF OnlyOldForgotten, Live, TypeOK, Admitted
  <2> QED BY <1>3, <2>1, <2>2, <2>3
          DEF Sleep, OnlyOldForgotten, LiveBound, Live
<1>4. ASSUME NEW c \in Calls, SleepRejects(c)
      PROVE  WindowInv'
  <2>1. Live' = Live
    BY <1>4 DEF SleepRejects, Live
  <2>2. Admitted' = Admitted
    BY <1>4 DEF SleepRejects, Admitted, TypeOK
  <2> QED BY <1>4, <2>1, <2>2 DEF SleepRejects, OnlyOldForgotten, LiveBound
<1>5. CASE Tick
  <2>1. Admitted' = Admitted /\ requests' = requests
    BY <1>5 DEF Tick, Admitted
  <2>2. \A d \in Admitted : age'[d] >= age[d] /\ (age[d] = Window => age'[d] = Window)
    BY <1>5, LimitAssumption DEF Tick, Admitted, TypeOK
  <2>3. Live' \in SUBSET Live
    BY <2>1, <2>2, <1>5, LimitAssumption
       DEF Live, OnlyOldForgotten, TypeOK, Admitted, Tick
  <2>4. LiveBound'
    BY <2>3, SmallerLive DEF LiveBound
  <2> QED BY <2>1, <2>2, <2>4 DEF OnlyOldForgotten
<1>6. CASE UNCHANGED vars
  BY <1>6 DEF vars, OnlyOldForgotten, LiveBound, Live, Admitted
<1> QED BY <1>1, <1>2, <1>3, <1>4, <1>5, <1>6 DEF Next

\* Initially nothing was admitted and the array is empty.
LEMMA WindowInit == Init => TypeOK /\ WindowInv
<1> SUFFICES ASSUME Init PROVE TypeOK /\ WindowInv
  OBVIOUS
<1>1. TypeOK
  BY LimitAssumption DEF Init, TypeOK, Places
<1>2. Live = {} /\ Admitted = {}
  BY DEF Init, Live, Admitted
<1>3. OnlyOldForgotten
  BY <1>2 DEF Init, OnlyOldForgotten
<1> QED BY <1>1, <1>2, <1>3, FS_EmptySet, LimitAssumption DEF WindowInv, LiveBound

(***************************************************************************)
(* For every limit and window, however many invocations there are: no      *)
(* rolling window contains more than MaxRequests admissions.               *)
(***************************************************************************)
THEOREM WindowRespected == Spec => []WindowBound
<1> DEFINE Inv == TypeOK /\ WindowInv
<1>1. Init => Inv
  BY WindowInit
<1>2. Inv /\ [Next]_vars => Inv'
  BY TypeStep, WindowStep
<1>3. Inv => WindowBound
  BY WindowInvBound
<1> QED BY <1>1, <1>2, <1>3, PTL DEF Spec

-----------------------------------------------------------------------------
(***************************************************************************)
(* The promise chain.  The invocations that have arrived are numbered      *)
(* without gaps along `previous`, and a promise is resolved exactly when   *)
(* its invocation has left the loop.                                       *)
(***************************************************************************)
Past == {"sleeping", "admitted", "rejected"}
Left == {"admitted", "rejected"}

TurnsNumberChain ==
  /\ \A c \in Calls : turn[c] \in 0..asked /\ (turn[c] = 0 <=> pc[c] = "idle")
  /\ \A c, d \in Calls : turn[c] = turn[d] /\ turn[c] # 0 => c = d
  /\ \A c \in Calls : pc[c] # "idle" =>
       IF previous[c] = NoCall
       THEN turn[c] = 1
       ELSE pc[previous[c]] # "idle" /\ turn[previous[c]] = turn[c] - 1
  /\ IF admission = NoCall
     THEN asked = 0
     ELSE pc[admission] # "idle" /\ turn[admission] = asked

ReleasedHaveLeft ==
  /\ NoCall \in released
  /\ \A c \in Calls : c \in released <=> pc[c] \in Left

ChainInv == TurnsNumberChain /\ ReleasedHaveLeft /\ FirstComeFirstServed

\* An invocation at the loop has nobody in front of it.
LEMMA NobodyInFront ==
  ASSUME TypeOK, ChainInv, NEW c \in Calls, AtLoop(c),
         NEW d \in Calls, pc[d] # "idle", turn[d] < turn[c]
  PROVE  pc[d] \in Left
<1> USE DEF ChainInv
<1>1. CASE Awake(c)
  BY <1>1 DEF Awake, FirstComeFirstServed, Left
<1>2. CASE Turn(c)
  <2>1. pc[c] = "queued" /\ previous[c] \in released
    BY <1>2 DEF Turn
  <2>2. turn[c] \in Nat /\ turn[d] \in Nat /\ turn[d] # 0
    BY DEF TypeOK, TurnsNumberChain
  <2>3. CASE previous[c] = NoCall
    BY <2>1, <2>2, <2>3 DEF TurnsNumberChain
  <2>4. CASE previous[c] # NoCall
    <3> DEFINE p == previous[c]
    <3>1. p \in Calls /\ turn[p] = turn[c] - 1
      BY <2>1, <2>4 DEF TypeOK, TurnsNumberChain
    <3>2. pc[p] \in Left
      BY <2>1, <3>1 DEF ReleasedHaveLeft
    <3>3. CASE turn[d] = turn[p]
      BY <3>1, <3>2, <3>3, <2>2 DEF TurnsNumberChain
    <3>4. CASE turn[d] < turn[p]
      BY <3>1, <3>2, <3>4 DEF FirstComeFirstServed, Left
    <3> QED BY <2>2, <3>1, <3>3, <3>4
  <2> QED BY <2>3, <2>4
<1> QED BY <1>1, <1>2 DEF AtLoop

\* Two invocations inside the loop would have to precede each other.
LEMMA ChainIsMutex == TypeOK /\ ChainInv => OneInLoop
<1> SUFFICES ASSUME TypeOK, ChainInv,
                    NEW c \in Calls, NEW d \in Calls,
                    pc[c] = "sleeping", pc[d] = "sleeping"
             PROVE  c = d
  BY DEF OneInLoop
<1>1. turn[c] \in Nat /\ turn[d] \in Nat /\ turn[c] # 0
  BY DEF TypeOK, ChainInv, TurnsNumberChain
<1>2. ~ (turn[c] < turn[d]) /\ ~ (turn[d] < turn[c])
  BY DEF ChainInv, FirstComeFirstServed
<1>3. turn[c] = turn[d]
  BY <1>1, <1>2
<1> QED BY <1>1, <1>3 DEF ChainInv, TurnsNumberChain

\* Every step keeps the invariant of the chain.
LEMMA ChainStep ==
  ASSUME TypeOK, ChainInv, [Next]_vars
  PROVE  ChainInv'
<1> USE DEF ChainInv
<1>1. ASSUME NEW c \in Calls, Arrive(c)
      PROVE  ChainInv'
  <2>1. /\ turn' = [turn EXCEPT ![c] = asked + 1]
        /\ pc' = [pc EXCEPT ![c] = "queued"]
        /\ previous' = [previous EXCEPT ![c] = admission]
        /\ asked' = asked + 1 /\ admission' = c
        /\ pc[c] = "idle" /\ released' = released
    BY <1>1 DEF Arrive
  <2>2. asked \in Nat /\ \A d \in Calls : turn[d] \in 0..asked
    BY DEF TypeOK, TurnsNumberChain
  <2>3. c # NoCall /\ admission # c
    BY <2>1, CallsAssumption DEF TypeOK, TurnsNumberChain
  <2>4. \A d \in Calls : pc[d] # "idle" => previous[d] # c
    BY <2>1, <2>3 DEF TurnsNumberChain
  <2>5. \A d \in Calls : turn'[d] \in 0..asked' /\ (turn'[d] = 0 <=> pc'[d] = "idle")
    BY <2>1, <2>2 DEF TypeOK, TurnsNumberChain
  <2>6. \A d, e \in Calls : turn'[d] = turn'[e] /\ turn'[d] # 0 => d = e
    BY <2>1, <2>2 DEF TypeOK, TurnsNumberChain
  <2>7. \A d \in Calls : pc'[d] # "idle" =>
          IF previous'[d] = NoCall
          THEN turn'[d] = 1
          ELSE pc'[previous'[d]] # "idle" /\ turn'[previous'[d]] = turn'[d] - 1
    <3> TAKE d \in Calls
    <3>1. CASE d = c
      BY <2>1, <2>2, <2>3, <3>1 DEF TypeOK, TurnsNumberChain
    <3>2. CASE d # c
      BY <2>1, <2>4, <3>2 DEF TypeOK, TurnsNumberChain
    <3> QED BY <3>1, <3>2
  <2>8. TurnsNumberChain'
    BY <2>1, <2>3, <2>5, <2>6, <2>7 DEF TurnsNumberChain, TypeOK
  <2>9. ReleasedHaveLeft'
    BY <2>1 DEF ReleasedHaveLeft, TypeOK, Left
  <2>10. FirstComeFirstServed'
    BY <2>1, <2>2 DEF FirstComeFirstServed, TypeOK, TurnsNumberChain
  <2> QED BY <2>8, <2>9, <2>10
<1>2. ASSUME NEW c \in Calls, Admit(c)
      PROVE  ChainInv'
  <2>1. /\ pc' = [pc EXCEPT ![c] = "admitted"] /\ released' = released \cup {c}
        /\ UNCHANGED <<previous, admission, turn, asked>>
        /\ AtLoop(c) /\ pc[c] \in {"queued", "sleeping"}
    BY <1>2 DEF Admit, Release, AtLoop, Turn, Awake
  <2>2. TurnsNumberChain'
    BY <2>1 DEF TurnsNumberChain, TypeOK
  <2>3. ReleasedHaveLeft'
    BY <2>1, CallsAssumption DEF ReleasedHaveLeft, TypeOK, Left
  <2>4. FirstComeFirstServed'
    BY <2>1, NobodyInFront DEF FirstComeFirstServed, TypeOK, Left
  <2> QED BY <2>2, <2>3, <2>4
<1>3. ASSUME NEW c \in Calls, Sleep(c)
      PROVE  ChainInv'
  <2>1. /\ pc' = [pc EXCEPT ![c] = "sleeping"] /\ released' = released
        /\ UNCHANGED <<previous, admission, turn, asked>>
        /\ AtLoop(c) /\ pc[c] \in {"queued", "sleeping"}
    BY <1>3 DEF Sleep, AtLoop, Turn, Awake
  <2>2. TurnsNumberChain'
    BY <2>1 DEF TurnsNumberChain, TypeOK
  <2>3. ReleasedHaveLeft'
    BY <2>1, CallsAssumption DEF ReleasedHaveLeft, TypeOK, Left
  <2>4. FirstComeFirstServed'
    BY <2>1, NobodyInFront DEF FirstComeFirstServed, TypeOK, Left
  <2> QED BY <2>2, <2>3, <2>4
<1>4. ASSUME NEW c \in Calls, SleepRejects(c)
      PROVE  ChainInv'
  <2>1. /\ pc' = [pc EXCEPT ![c] = "rejected"] /\ released' = released \cup {c}
        /\ UNCHANGED <<previous, admission, turn, asked>>
        /\ pc[c] = "sleeping"
    BY <1>4 DEF SleepRejects, Release
  <2>2. TurnsNumberChain'
    BY <2>1 DEF TurnsNumberChain, TypeOK
  <2>3. ReleasedHaveLeft'
    BY <2>1, CallsAssumption DEF ReleasedHaveLeft, TypeOK, Left
  <2>4. FirstComeFirstServed'
    BY <2>1 DEF FirstComeFirstServed, TypeOK
  <2> QED BY <2>2, <2>3, <2>4
<1>5. CASE Tick
  BY <1>5 DEF Tick, TurnsNumberChain, ReleasedHaveLeft, FirstComeFirstServed
<1>6. CASE UNCHANGED vars
  BY <1>6 DEF vars, TurnsNumberChain, ReleasedHaveLeft, FirstComeFirstServed
<1> QED BY <1>1, <1>2, <1>3, <1>4, <1>5, <1>6 DEF Next

\* The chain is in order initially.
LEMMA ChainInit == Init => TypeOK /\ ChainInv
<1> SUFFICES ASSUME Init PROVE TypeOK /\ ChainInv
  OBVIOUS
<1>1. TypeOK
  BY WindowInit
<1>2. TurnsNumberChain
  BY DEF Init, TurnsNumberChain
<1>3. ReleasedHaveLeft
  BY CallsAssumption DEF Init, ReleasedHaveLeft, Left
<1>4. FirstComeFirstServed
  BY DEF Init, FirstComeFirstServed
<1> QED BY <1>1, <1>2, <1>3, <1>4 DEF ChainInv

(***************************************************************************)
(* The promise chain serves the invocations of wait() in their order and   *)
(* lets one at a time into the loop.                                       *)
(***************************************************************************)
THEOREM ChainIsFair == Spec => []FirstComeFirstServed /\ []OneInLoop
<1> DEFINE Inv == TypeOK /\ ChainInv
<1>1. Init => Inv
  BY ChainInit
<1>2. Inv /\ [Next]_vars => Inv'
  BY TypeStep, ChainStep
<1>3. Inv => FirstComeFirstServed /\ OneInLoop
  BY ChainIsMutex DEF ChainInv
<1> QED BY <1>1, <1>2, <1>3, PTL DEF Spec

\* Whoever waits for its turn has somebody at work at its front or in its place:
\* an invocation that sleeps, or one whose predecessor has resolved its promise.
\* It is the half of NoStarvation that says who there is to wait for.
NobodyWaitsInVain ==
  \A d \in Calls : pc[d] = "queued" =>
    \E c \in Calls : turn[c] <= turn[d] /\ (pc[c] = "sleeping" \/ Turn(c))

\* The one that arrived first of those that wait is at work.
LEMMA FirstIsAtWork == TypeOK /\ ChainInv => NobodyWaitsInVain
<1> SUFFICES ASSUME TypeOK, ChainInv, NEW d \in Calls, pc[d] = "queued"
             PROVE  \E c \in Calls : turn[c] <= turn[d] /\ (pc[c] = "sleeping" \/ Turn(c))
  BY DEF NobodyWaitsInVain
<1> USE DEF ChainInv
<1> DEFINE Waiting == {c \in Calls : pc[c] \in {"queued", "sleeping"}}
           Turns == {turn[c] : c \in Waiting}
<1>1. Turns \subseteq Nat /\ Turns # {}
  BY DEF TypeOK
<1>2. \E n \in Turns : \A m \in Turns : ~ (<<m, n>> \in OpToRel(<, Nat))
  BY <1>1, NatLessThanWellFounded, WFMin
<1>3. PICK n \in Turns : \A m \in Turns : ~ (m < n)
  BY <1>1, <1>2 DEF OpToRel
<1>4. PICK c \in Waiting : turn[c] = n
  BY <1>3
<1>5. \A e \in Waiting : turn[c] <= turn[e]
  <2> TAKE e \in Waiting
  <2>1. turn[e] \in Turns /\ turn[e] \in Nat /\ n \in Nat
    BY <1>1
  <2> QED BY <1>3, <1>4, <2>1
<1>6. CASE pc[c] = "sleeping"
  BY <1>5, <1>6
<1>7. CASE pc[c] = "queued"
  <2>1. CASE previous[c] = NoCall
    BY <1>5, <1>7, <2>1 DEF Turn, ReleasedHaveLeft
  <2>2. CASE previous[c] # NoCall
    <3>1. PICK p \in Calls : p = previous[c]
      BY <1>7, <2>2 DEF TypeOK
    <3>2. pc[p] # "idle" /\ turn[p] = turn[c] - 1
      BY <1>7, <2>2, <3>1 DEF TurnsNumberChain
    <3>3. p \notin Waiting
      <4>1. turn[c] \in Nat
        BY DEF TypeOK
      <4> QED BY <1>5, <3>2, <4>1
    <3>4. pc[p] \in Left
      BY <3>2, <3>3 DEF TypeOK, Places, Left
    <3>5. previous[c] \in released
      BY <3>1, <3>4 DEF ReleasedHaveLeft
    <3> QED BY <1>5, <1>7, <3>5 DEF Turn
  <2> QED BY <2>1, <2>2
<1> QED BY <1>4, <1>6, <1>7

(***************************************************************************)
(* The chain does not get stuck, whatever sleeps are rejected and whichever *)
(* promises resolve late: with time, the one at work leaves, and makes way. *)
(***************************************************************************)
THEOREM ChainGoesOn == Spec => []NobodyWaitsInVain
<1> DEFINE Inv == TypeOK /\ ChainInv
<1>1. Init => Inv
  BY ChainInit
<1>2. Inv /\ [Next]_vars => Inv'
  BY TypeStep, ChainStep
<1>3. Inv => NobodyWaitsInVain
  BY FirstIsAtWork
<1> QED BY <1>1, <1>2, <1>3, PTL DEF Spec

-----------------------------------------------------------------------------
\* While c sleeps, only c can be at the loop: nobody prunes or extends
\* `requests` behind its back.
LEMMA SleeperIsAlone ==
  ASSUME TypeOK, ChainInv, NEW c \in Calls, pc[c] = "sleeping",
         NEW d \in Calls, AtLoop(d)
  PROVE  c = d
<1>1. pc[c] \notin Left /\ pc[d] \in {"queued", "sleeping"}
  BY DEF Left, AtLoop, Turn, Awake
<1>2. ~ (turn[c] < turn[d])
  BY <1>1, NobodyInFront
<1>3. ~ (turn[d] < turn[c])
  BY <1>1 DEF ChainInv, FirstComeFirstServed
<1>4. turn[c] \in Nat /\ turn[d] \in Nat /\ turn[c] # 0
  BY <1>1 DEF TypeOK, ChainInv, TurnsNumberChain
<1>5. turn[c] = turn[d]
  BY <1>2, <1>3, <1>4
<1> QED BY <1>4, <1>5 DEF ChainInv, TurnsNumberChain

\* Every step preserves the bound on sleeps.
LEMMA OversleepStep ==
  ASSUME TypeOK, ChainInv, WindowInv, NoOversleep, [Next]_vars
  PROVE  NoOversleep'
<1>1. ASSUME NEW c \in Calls, Arrive(c)
      PROVE  NoOversleep'
  BY <1>1 DEF Arrive, NoOversleep, TypeOK
<1>2. ASSUME NEW c \in Calls, Admit(c)
      PROVE  NoOversleep'
  <2>1. \A d \in Calls : pc[d] = "sleeping" => d = c
    BY <1>2, SleeperIsAlone DEF Admit
  <2> QED BY <1>2, <2>1 DEF Admit, NoOversleep, TypeOK
<1>3. ASSUME NEW c \in Calls, Sleep(c)
      PROVE  NoOversleep'
  <2>1. \A d \in Calls : pc[d] = "sleeping" => d = c
    BY <1>3, SleeperIsAlone DEF Sleep
  <2>2. PICK r \in Live : OldestAge = age[r]
    BY <1>3, FullIsNotEmpty, OldestAgeIsReached DEF Sleep
  <2>3. timer'[c] = Window - age[r] /\ age' = age /\ requests' = Live
    BY <1>3, <2>2 DEF Sleep, Delay, TypeOK
  <2>4. timer'[c] + age'[r] <= Window /\ r \in requests'
    BY <2>2, <2>3, LimitAssumption DEF Live, TypeOK
  <2> QED BY <1>3, <2>1, <2>4 DEF Sleep, NoOversleep, TypeOK
<1>4. ASSUME NEW c \in Calls, SleepRejects(c)
      PROVE  NoOversleep'
  BY <1>4 DEF SleepRejects, NoOversleep, TypeOK
<1>5. CASE Tick
  <2> SUFFICES ASSUME NEW c \in Calls, pc[c] = "sleeping", timer'[c] # 0
               PROVE  \E r \in requests : timer'[c] + age'[r] <= Window
    BY <1>5 DEF Tick, NoOversleep
  <2>1. timer[c] > 0 /\ timer'[c] = timer[c] - 1
    BY <1>5 DEF Tick, TypeOK
  <2>2. PICK r \in requests : timer[c] + age[r] <= Window
    BY <2>1 DEF NoOversleep, TypeOK
  <2>3. age'[r] <= age[r] + 1
    BY <1>5 DEF Tick, TypeOK
  <2> QED BY <2>1, <2>2, <2>3, <1>5, LimitAssumption DEF TypeOK, Tick
<1>6. CASE UNCHANGED vars
  BY <1>6 DEF vars, NoOversleep
<1> QED BY <1>1, <1>2, <1>3, <1>4, <1>5, <1>6 DEF Next

(***************************************************************************)
(* The invariant of the limiter: its type, its window, its chain and its   *)
(* sleeper.                                                                *)
(***************************************************************************)
Inv == TypeOK /\ WindowInv /\ ChainInv /\ NoOversleep

\* The invariant of the limiter holds throughout.
LEMMA InvHolds == Spec => []Inv
<1>1. Init => Inv
  BY WindowInit, ChainInit DEF Inv, Init, NoOversleep
<1>2. Inv /\ [Next]_vars => Inv'
  BY TypeStep, WindowStep, ChainStep, OversleepStep DEF Inv
<1> QED BY <1>1, <1>2, PTL DEF Spec

(***************************************************************************)
(* An invocation that sleeps for room wakes up no later than the moment    *)
(* at which the oldest counted request leaves the window.                  *)
(***************************************************************************)
THEOREM NeverOversleeps == Spec => []NoOversleep
<1>1. Inv => NoOversleep
  BY DEF Inv
<1> QED BY <1>1, InvHolds, PTL

-----------------------------------------------------------------------------
\* The instance's copy of Cardinality is Cardinality.
LEMMA SameCardinality == \A S : Promise!Cardinality(S) = Cardinality(S)
BY DEF Promise!Cardinality, Cardinality

\* What the abstract module calls recent is what the filter keeps.
LEMMA AbstractRecent ==
  ASSUME TypeOK, WindowInv
  PROVE  Promise!Recent = Live
<1>1. Promise!Granted = Admitted
  BY DEF Promise!Granted, Admitted, WaitStatus, TypeOK, Places
<1> QED BY <1>1, RecentIsLive DEF Promise!Recent, WindowInv

\* Every step of the limiter is a step of the sliding window or a stutter.
LEMMA StepSimulation ==
  ASSUME Inv, Inv', [Next]_vars
  PROVE  [Promise!Next]_(Promise!vars)
<1> USE DEF Inv
<1>1. ASSUME NEW c \in Calls, Arrive(c)
      PROVE  Promise!Ask(c)
  BY <1>1 DEF Arrive, Promise!Ask, WaitStatus, TypeOK
<1>2. ASSUME NEW c \in Calls, Admit(c)
      PROVE  Promise!Grant(c)
  <2>1. pc[c] \in {"queued", "sleeping"} /\ pc' = [pc EXCEPT ![c] = "admitted"]
    BY <1>2 DEF Admit, AtLoop, Turn, Awake
  <2>2. Promise!FirstInLine(c)
    <3>1. WaitStatus[c] = "queued"
      BY <2>1 DEF WaitStatus
    <3>2. ASSUME NEW d \in Calls, WaitStatus[d] = "queued"
          PROVE  turn[c] <= turn[d]
      <4>1. pc[d] \in {"queued", "sleeping"}
        BY <3>2 DEF WaitStatus, TypeOK, Places
      <4>2. ~ (turn[d] < turn[c])
        BY <4>1, <1>2, NobodyInFront DEF Admit, Left
      <4> QED BY <4>2 DEF TypeOK
    <3> QED BY <3>1, <3>2 DEF Promise!FirstInLine
  <2>3. Promise!Cardinality(Promise!Recent) < MaxRequests
    BY <1>2, AbstractRecent, SameCardinality DEF Admit
  <2>4. WaitStatus' = [WaitStatus EXCEPT ![c] = "admitted"]
    BY <2>1 DEF WaitStatus, TypeOK
  <2> QED BY <1>2, <2>2, <2>3, <2>4 DEF Admit, Promise!Grant
<1>3. ASSUME NEW c \in Calls, Sleep(c)
      PROVE  UNCHANGED Promise!vars
  <2>1. pc[c] \in {"queued", "sleeping"} /\ pc' = [pc EXCEPT ![c] = "sleeping"]
    BY <1>3 DEF Sleep, AtLoop, Turn, Awake
  <2>2. WaitStatus' = WaitStatus
    BY <2>1 DEF WaitStatus, TypeOK
  <2> QED BY <1>3, <2>2 DEF Sleep, Promise!vars
<1>4. ASSUME NEW c \in Calls, SleepRejects(c)
      PROVE  Promise!GiveUp(c)
  <2>1. pc[c] = "sleeping" /\ pc' = [pc EXCEPT ![c] = "rejected"]
    BY <1>4 DEF SleepRejects
  <2>2. ASSUME NEW d \in Calls, WaitStatus[d] = "queued"
        PROVE  turn[c] <= turn[d]
    <3>1. pc[d] \in {"queued", "sleeping"}
      BY <2>2 DEF WaitStatus, TypeOK, Places
    <3>2. ~ (turn[d] < turn[c])
      BY <2>1, <3>1 DEF ChainInv, FirstComeFirstServed
    <3> QED BY <3>2 DEF TypeOK
  <2>3. WaitStatus[c] = "queued" /\ WaitStatus' = [WaitStatus EXCEPT ![c] = "rejected"]
    BY <2>1 DEF WaitStatus, TypeOK
  <2> QED BY <1>4, <2>2, <2>3
          DEF SleepRejects, Promise!GiveUp, Promise!FirstInLine
<1>5. ASSUME Tick
      PROVE  Promise!Tick
  <2>1. Promise!Recent = {c \in Admitted : age[c] < Window}
    BY AbstractRecent, RecentIsLive DEF WindowInv
  <2> QED BY <1>5, <2>1 DEF Tick, Promise!Tick, WaitStatus
<1>6. ASSUME UNCHANGED vars
      PROVE  UNCHANGED Promise!vars
  BY <1>6 DEF vars, Promise!vars, WaitStatus
<1> QED BY <1>1, <1>2, <1>3, <1>4, <1>5, <1>6 DEF Next, Promise!Next

(***************************************************************************)
(* The promise chain with its timer loop implements the abstract sliding   *)
(* window: first come, first served, MaxRequests per window.               *)
(***************************************************************************)
THEOREM LimiterImplementsSlidingWindow == Spec => ImplementsSlidingWindow
<1>1. Init => Promise!Init
  BY DEF Init, Promise!Init, WaitStatus
<1>2. Inv /\ Inv' /\ [Next]_vars => [Promise!Next]_(Promise!vars)
  BY StepSimulation
<1> QED BY <1>1, <1>2, InvHolds, PTL
        DEF Spec, ImplementsSlidingWindow, Promise!Spec
=============================================================================
