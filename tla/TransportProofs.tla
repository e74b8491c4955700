-------------------------- MODULE TransportProofs --------------------------
(***************************************************************************)
(* Theorems about Transport: it is an HttpClient whose calls of wait() are *)
(* calls of a sliding window, it inherits what is proved of HttpClient,    *)
(* and the rolling bound holds of what it sends without waiting.           *)
(***************************************************************************)
EXTENDS Transport, HttpClientProofs, FiniteSetTheorems

\* A step of the composition is a step of its parts.
LEMMA StepOfHttpClient == TransportNext => [Next]_vars
<1> SUFFICES ASSUME TransportNext PROVE [Next]_vars
  OBVIOUS
<1>1. ASSUME NEW r \in Requests, Join(r) \/ LetThrough(r) \/ WaitRejects(r) \/ GoOn(r)
      PROVE  Next
  <2>1. Issue(r) \/ Admit(r) \/ Answer(r) \/ AfterRefresh(r) \/ AfterDelay(r)
    BY <1>1 DEF Join, LetThrough, WaitRejects, GoOn, Admit, Answer, AfterRefresh, AfterDelay
  <2> QED BY <2>1 DEF Next
<1>2. CASE Owner
  BY <1>2 DEF Owner, Next
<1>3. CASE Elapse
  BY <1>3 DEF Elapse
<1> QED BY <1>1, <1>2, <1>3 DEF TransportNext

\* The call of wait() that a request makes is one that is accounted for: the
\* loop ends before the slots do.
LEMMA SlotIsSlot ==
  ASSUME TypeOK, NEW r \in Requests
  PROVE  Slot(r) \in Slots
<1>1. attempt[r] \in 0..MaxRetries /\ retried401[r] \in BOOLEAN
  BY DEF TypeOK
<1>2. attempt[r] + 1 \in 1..MaxRetries + 2 /\ attempt[r] + 2 \in 1..MaxRetries + 2
  BY <1>1, HttpAssumption
<1> QED BY <1>2 DEF Slot, SlotOf, Slots

\* The same after a step.
LEMMA NextSlotIsSlot ==
  ASSUME TypeOK', NEW r \in Requests
  PROVE  NextSlot(r) \in Slots
<1>1. attempt'[r] \in 0..MaxRetries /\ retried401'[r] \in BOOLEAN
  BY DEF TypeOK
<1>2. attempt'[r] + 1 \in 1..MaxRetries + 2 /\ attempt'[r] + 2 \in 1..MaxRetries + 2
  BY <1>1, HttpAssumption
<1> QED BY <1>2 DEF NextSlot, SlotOf, Slots

\* A step of the composition is a step of the limiter's specification.
LEMMA StepOfLimiter ==
  ASSUME TypeOK, TypeOK', TransportNext
  PROVE  [Limiter!Next]_limiter
<1>1. ASSUME NEW r \in Requests, Join(r) PROVE Limiter!Next
  BY <1>1, NextSlotIsSlot DEF Join, Limiter!Next
<1>2. ASSUME NEW r \in Requests, LetThrough(r) PROVE Limiter!Next
  BY <1>2, SlotIsSlot DEF LetThrough, Limiter!Next
<1>3. ASSUME NEW r \in Requests, WaitRejects(r) PROVE Limiter!Next
  BY <1>3, SlotIsSlot DEF WaitRejects, Limiter!Next
<1>4. ASSUME NEW r \in Requests, GoOn(r) PROVE UNCHANGED limiter
  BY <1>4 DEF GoOn
<1>5. CASE Owner
  BY <1>5 DEF Owner, limiter
<1>6. CASE Elapse
  BY <1>6 DEF Elapse, Limiter!Next
<1> QED BY <1>1, <1>2, <1>3, <1>4, <1>5, <1>6 DEF TransportNext

-----------------------------------------------------------------------------
(* The sliding window, by itself.                                          *)

LimiterTypeOK ==
  /\ status \in [Slots -> {"idle", "queued", "admitted", "rejected"}]
  /\ age \in [Slots -> 0..Window]

\* No more calls were let through in the last window than the limit.
RecentInv == IsFiniteSet(Limiter!Recent) /\ Cardinality(Limiter!Recent) <= MaxRequests

LimiterInv == LimiterTypeOK /\ RecentInv

\* The window is empty in the beginning.
LEMMA LimiterInvInit == Limiter!Init => LimiterInv
<1> SUFFICES ASSUME Limiter!Init PROVE LimiterInv
  OBVIOUS
<1>1. LimiterTypeOK
  BY TransportAssumption DEF Limiter!Init, LimiterTypeOK
<1>2. Limiter!Recent = {}
  BY DEF Limiter!Init, Limiter!Recent, Limiter!Granted
<1> QED BY <1>1, <1>2, FS_EmptySet, TransportAssumption DEF LimiterInv, RecentInv

\* The instance's copy of Cardinality is Cardinality.
LEMMA SameCardinality == \A S : Limiter!Cardinality(S) = Cardinality(S)
BY DEF Limiter!Cardinality, Cardinality

\* A set that grows by one element at most.
LEMMA OneMoreAtMost ==
  ASSUME NEW S, NEW T, NEW x, IsFiniteSet(S), T \subseteq S \cup {x}
  PROVE  /\ IsFiniteSet(T)
         /\ Cardinality(T) <= Cardinality(S) + 1
         /\ Cardinality(S) \in Nat /\ Cardinality(T) \in Nat
<1>1. /\ IsFiniteSet(S \cup {x})
      /\ Cardinality(S \cup {x}) = IF x \in S THEN Cardinality(S) ELSE Cardinality(S) + 1
  BY FS_AddElement
<1>2. IsFiniteSet(T) /\ Cardinality(T) <= Cardinality(S \cup {x})
  BY <1>1, FS_Subset
<1>3. Cardinality(S) \in Nat /\ Cardinality(T) \in Nat
  BY <1>2, FS_CardinalityType
<1> QED BY <1>1, <1>2, <1>3

\* A call is let through when there is room, and time only makes room.
LEMMA LimiterInvStep == LimiterInv /\ [Limiter!Next]_limiter => LimiterInv'
<1> SUFFICES ASSUME LimiterInv, [Limiter!Next]_limiter PROVE LimiterInv'
  OBVIOUS
<1> DEFINE Recent == Limiter!Recent
<1>1. ASSUME LimiterTypeOK', Recent' \subseteq Recent PROVE LimiterInv'
  <2>1. IsFiniteSet(Recent') /\ Cardinality(Recent') <= Cardinality(Recent)
    BY <1>1, FS_Subset DEF LimiterInv, RecentInv
  <2>2. Cardinality(Recent) \in Nat /\ Cardinality(Recent') \in Nat
    BY <2>1, FS_CardinalityType DEF LimiterInv, RecentInv
  <2> QED BY <1>1, <2>1, <2>2, TransportAssumption DEF LimiterInv, RecentInv
<1>2. ASSUME NEW s \in Slots, Limiter!Ask(s) \/ Limiter!GiveUp(s) PROVE LimiterInv'
  <2>1. LimiterTypeOK'
    BY <1>2 DEF Limiter!Ask, Limiter!GiveUp, LimiterInv, LimiterTypeOK
  <2>2. Recent' \subseteq Recent
    BY <1>2 DEF Limiter!Ask, Limiter!GiveUp, Limiter!Recent, Limiter!Granted,
                LimiterInv, LimiterTypeOK
  <2> QED BY <1>1, <2>1, <2>2
<1>3. ASSUME NEW s \in Slots, Limiter!Grant(s) PROVE LimiterInv'
  <2>1. LimiterTypeOK'
    BY <1>3, TransportAssumption DEF Limiter!Grant, LimiterInv, LimiterTypeOK
  <2>2. Recent' \subseteq Recent \cup {s}
    BY <1>3 DEF Limiter!Grant, Limiter!Recent, Limiter!Granted, LimiterInv, LimiterTypeOK
  <2>3. /\ IsFiniteSet(Recent')
        /\ Cardinality(Recent') <= Cardinality(Recent) + 1
        /\ Cardinality(Recent) \in Nat /\ Cardinality(Recent') \in Nat
    BY <2>2, OneMoreAtMost DEF LimiterInv, RecentInv
  <2>4. Cardinality(Recent) < MaxRequests
    BY <1>3, SameCardinality DEF Limiter!Grant
  <2>5. Cardinality(Recent') <= MaxRequests
    BY <2>3, <2>4, TransportAssumption
  <2> QED BY <2>1, <2>3, <2>5 DEF LimiterInv, RecentInv
<1>4. CASE Limiter!Tick
  <2>1. LimiterTypeOK'
    BY <1>4, TransportAssumption
    DEF Limiter!Tick, Limiter!Recent, Limiter!Granted, LimiterInv, LimiterTypeOK
  <2>2. Recent' \subseteq Recent
    BY <1>4 DEF Limiter!Tick, Limiter!Recent, Limiter!Granted, LimiterInv, LimiterTypeOK
  <2> QED BY <1>1, <2>1, <2>2
<1>5. CASE UNCHANGED limiter
  <2>1. LimiterTypeOK' /\ Recent' = Recent
    BY <1>5 DEF limiter, LimiterInv, LimiterTypeOK, Limiter!Recent, Limiter!Granted
  <2> QED BY <1>1, <2>1
<1> QED BY <1>2, <1>3, <1>4, <1>5 DEF Limiter!Next

-----------------------------------------------------------------------------
(* What is sent was let through.                                           *)

SendTypeOK == departed \in SUBSET Slots /\ since \in [Slots -> 0..Window]

SendInv ==
  /\ SendTypeOK
  /\ \A r \in Requests :
       /\ pc[r] = "admission" => status[Slot(r)] = "queued"
       /\ pc[r] = "refreshing" => status[Slot(r)] = "admitted"
  /\ \A s \in departed : status[s] = "admitted"

\* Nothing is sent in the beginning.
LEMMA SendInvInit == TransportInit => SendInv
  BY TransportAssumption DEF TransportInit, Init, SendInv, SendTypeOK

\* What a step does to the slots of a request that does not move.
LEMMA SlotKept ==
  ASSUME NEW r \in Requests, UNCHANGED <<attempt[r], retried401[r]>>
  PROVE  Slot(r)' = Slot(r)
BY DEF Slot, SlotOf

\* A step of request r, whatever it is, does not move the others.
LEMMA OthersStay ==
  ASSUME TypeOK, NEW r \in Requests, NEW q \in Requests, q # r,
         Join(r) \/ LetThrough(r) \/ WaitRejects(r) \/ GoOn(r)
  PROVE  UNCHANGED <<pc[q], attempt[q], retried401[q]>>
<1>1. CASE Join(r)
  BY <1>1 DEF Join, Issue, NextAttempt, RefreshedAfter401, Answer401, AwaitRefresh, Goto,
              TypeOK
<1>2. CASE LetThrough(r)
  BY <1>2 DEF LetThrough, AdmitUnauthenticated, AdmitWithToken, AdmitToRefresh,
              AdmitUnauthorized, AwaitRefresh, Dispatch, Goto, TypeOK
<1>3. CASE WaitRejects(r)
  BY <1>3 DEF WaitRejects, AdmissionFails, NetworkError, Goto, TypeOK
<1>4. CASE GoOn(r)
  BY <1>4 DEF GoOn, Answer, AnswerFinal, AnswerTransient, AnswerLost, Answer401,
              Answer401Final, Refreshed, RefreshFailed, DelayFails, AwaitRefresh,
              NetworkError, Dispatch, Goto, TypeOK
<1> QED BY <1>1, <1>2, <1>3, <1>4

\* The invariant survives a step in which only call c of wait() changes, which
\* request r stands behind.
LEMMA SendInvKept ==
  ASSUME TypeOK, TypeOK', LimiterTypeOK, SendInv, NEW r \in Requests,
         \A q \in Requests \ {r} : UNCHANGED <<pc[q], attempt[q], retried401[q]>>,
         \A s \in Slots : s[1] # r => status'[s] = status[s],
         pc'[r] = "admission" => status'[Slot(r)'] = "queued",
         pc'[r] = "refreshing" => status'[Slot(r)'] = "admitted",
         SendTypeOK',
         \A s \in departed' : status'[s] = "admitted"
  PROVE  SendInv'
<1>1. ASSUME NEW q \in Requests
      PROVE  /\ pc'[q] = "admission" => status'[Slot(q)'] = "queued"
             /\ pc'[q] = "refreshing" => status'[Slot(q)'] = "admitted"
  <2>1. CASE q = r
    BY <2>1
  <2>2. CASE q # r
    <3>1. Slot(q)' = Slot(q) /\ pc'[q] = pc[q]
      BY <2>2, SlotKept
    <3>2. Slot(q) \in Slots /\ Slot(q)[1] # r
      BY <2>2, SlotIsSlot DEF Slot, SlotOf
    <3> QED BY <3>1, <3>2 DEF SendInv
  <2> QED BY <2>1, <2>2
<1> QED BY <1>1 DEF SendInv

\* A request that reaches the admission has called wait().
LEMMA JoinKeepsSendInv ==
  ASSUME TypeOK, TypeOK', LimiterTypeOK, SendInv, NEW r \in Requests, Join(r)
  PROVE  SendInv'
<1>1. pc'[r] = "admission" /\ UNCHANGED <<departed, since>>
  BY DEF Join, sending
<1>2. NextSlot(r) \in Slots /\ status[NextSlot(r)] = "idle"
      /\ status' = [status EXCEPT ![NextSlot(r)] = "queued"]
  BY NextSlotIsSlot DEF Join, Limiter!Ask
<1>3. Slot(r)' = NextSlot(r) /\ NextSlot(r)[1] = r
  BY DEF Slot, NextSlot, SlotOf
<1>4. \A s \in departed' : s \in Slots /\ s # NextSlot(r) /\ status[s] = "admitted"
  BY <1>1, <1>2 DEF SendInv, SendTypeOK
<1>5. \A s \in departed' : status'[s] = "admitted"
  BY <1>2, <1>4 DEF LimiterTypeOK
<1>6. SendTypeOK'
  BY <1>1 DEF SendInv, SendTypeOK
<1>7. \A s \in Slots : s[1] # r => status'[s] = status[s]
  BY <1>2, <1>3 DEF LimiterTypeOK
<1>8. status'[Slot(r)'] = "queued"
  BY <1>2, <1>3 DEF LimiterTypeOK
<1> QED BY <1>1, <1>5, <1>6, <1>7, <1>8, OthersStay, SendInvKept

\* A request that is let through has been granted its slot, also when it goes
\* on to refresh.
LEMMA LetThroughKeepsSendInv ==
  ASSUME TypeOK, TypeOK', LimiterTypeOK, SendInv, NEW r \in Requests, LetThrough(r)
  PROVE  SendInv'
<1>1. pc'[r] # "admission" /\ UNCHANGED <<attempt, retried401>>
  BY DEF LetThrough, AdmitUnauthenticated, AdmitWithToken, AdmitToRefresh,
         AdmitUnauthorized, AwaitRefresh, Dispatch, Goto, TypeOK
<1>2. Slot(r) \in Slots /\ Slot(r)' = Slot(r) /\ Slot(r)[1] = r
  BY <1>1, SlotIsSlot DEF Slot, SlotOf
<1>3. status' = [status EXCEPT ![Slot(r)] = "admitted"]
  BY DEF LetThrough, Limiter!Grant
<1>4. departed' \subseteq departed \cup {Slot(r)} /\ SendTypeOK'
  BY <1>2, TransportAssumption DEF LetThrough, Depart, sending, SendInv, SendTypeOK
<1>5. \A s \in departed' : status'[s] = "admitted"
  BY <1>2, <1>3, <1>4 DEF SendInv, SendTypeOK, LimiterTypeOK
<1>6. \A s \in Slots : s[1] # r => status'[s] = status[s]
  BY <1>2, <1>3 DEF LimiterTypeOK
<1>7. status'[Slot(r)'] = "admitted"
  BY <1>2, <1>3 DEF LimiterTypeOK
<1> QED BY <1>1, <1>4, <1>5, <1>6, <1>7, OthersStay, SendInvKept

\* A call of wait() that rejects belongs to a request that is not sent.
LEMMA WaitRejectsKeepsSendInv ==
  ASSUME TypeOK, TypeOK', LimiterTypeOK, SendInv, NEW r \in Requests, WaitRejects(r)
  PROVE  SendInv'
<1>1. pc'[r] \in {"backoff", "rejected"} /\ UNCHANGED <<departed, since>>
  BY DEF WaitRejects, AdmissionFails, NetworkError, Goto, TypeOK, sending
<1>2. Slot(r) \in Slots /\ status[Slot(r)] = "queued" /\ Slot(r)[1] = r
  BY SlotIsSlot DEF WaitRejects, AdmissionFails, SendInv, Slot, SlotOf
<1>3. status' = [status EXCEPT ![Slot(r)] = "rejected"]
  BY DEF WaitRejects, Limiter!GiveUp
<1>4. \A s \in departed' : status'[s] = "admitted"
  BY <1>1, <1>2, <1>3 DEF SendInv, SendTypeOK, LimiterTypeOK
<1>5. \A s \in Slots : s[1] # r => status'[s] = status[s]
  BY <1>2, <1>3 DEF LimiterTypeOK
<1>6. SendTypeOK'
  BY <1>1 DEF SendInv, SendTypeOK
<1> QED BY <1>1, <1>4, <1>5, <1>6, OthersStay, SendInvKept

\* What is sent after a refresh was let through before it.
LEMMA GoOnKeepsSendInv ==
  ASSUME TypeOK, TypeOK', LimiterTypeOK, SendInv, NEW r \in Requests, GoOn(r)
  PROVE  SendInv'
<1>1. pc'[r] # "admission" /\ UNCHANGED status
  BY DEF GoOn, limiter
<1>2. pc'[r] # "refreshing"
  BY DEF GoOn, Answer, AnswerFinal, AnswerTransient, AnswerLost, Answer401,
         Answer401Final, Refreshed, RefreshFailed, DelayFails, AwaitRefresh,
         NetworkError, Dispatch, Goto, TypeOK
<1>3. CASE Refreshed(r)
  <2>1. Slot(r) \in Slots /\ status[Slot(r)] = "admitted"
    BY <1>3, SlotIsSlot DEF Refreshed, SendInv
  <2>2. departed' \subseteq departed \cup {Slot(r)} /\ SendTypeOK'
    BY <2>1, TransportAssumption DEF GoOn, Depart, sending, SendInv, SendTypeOK
  <2>3. \A s \in departed' : status'[s] = "admitted"
    BY <1>1, <2>1, <2>2 DEF SendInv
  <2> QED BY <1>1, <1>2, <2>2, <2>3, OthersStay, SendInvKept
<1>4. CASE ~Refreshed(r)
  <2>1. UNCHANGED dispatches
    BY <1>4 DEF GoOn, Answer, AnswerFinal, AnswerTransient, AnswerLost, Answer401,
                Answer401Final, RefreshFailed, DelayFails
  <2>2. UNCHANGED <<departed, since>>
    BY <2>1 DEF GoOn, Depart, sending, TypeOK
  <2>3. SendTypeOK' /\ \A s \in departed' : status'[s] = "admitted"
    BY <1>1, <2>2 DEF SendInv, SendTypeOK
  <2> QED BY <1>1, <1>2, <2>3, OthersStay, SendInvKept
<1> QED BY <1>3, <1>4

\* Every step keeps the invariant of what is sent.
LEMMA SendInvStep ==
  ASSUME TypeOK, TypeOK', LimiterTypeOK, SendInv, [TransportNext]_tvars
  PROVE  SendInv'
<1>1. ASSUME UNCHANGED <<request, status, sending>> PROVE SendInv'
  BY <1>1 DEF request, sending, SendInv, SendTypeOK, Slot, SlotOf
<1>2. ASSUME NEW r \in Requests, Join(r) \/ LetThrough(r) \/ WaitRejects(r) \/ GoOn(r)
      PROVE  SendInv'
  BY <1>2, JoinKeepsSendInv, LetThroughKeepsSendInv, WaitRejectsKeepsSendInv,
     GoOnKeepsSendInv
<1>3. CASE Owner
  <2>1. UNCHANGED <<request, status, sending>>
    BY <1>3 DEF Owner, limiter, OwnerSettles, OwnerIssues, OwnerResolves, OwnerRepeats,
                OwnerRejects, Login, TakeBack, Logout, TokenExpires, SetTokenRefreshCallback
  <2> QED BY <1>1, <2>1
<1>4. CASE Elapse
  <2>1. UNCHANGED <<pc, attempt, retried401, status, departed>>
    BY <1>4 DEF Elapse, Limiter!Tick, vars, request
  <2>2. since' \in [Slots -> 0..Window]
    BY <1>4, TransportAssumption DEF Elapse, SendInv, SendTypeOK
  <2> QED BY <2>1, <2>2 DEF SendInv, SendTypeOK, Slot, SlotOf
<1>5. CASE UNCHANGED tvars
  <2>1. UNCHANGED <<request, status, sending>>
    BY <1>5 DEF tvars, vars, limiter
  <2> QED BY <1>1, <2>1
<1> QED BY <1>2, <1>3, <1>4, <1>5 DEF TransportNext

-----------------------------------------------------------------------------
\* The composition is an HttpClient: whatever is proved of every behaviour of
\* HttpClient holds of the requests that go through the limiter.
THEOREM TransportIsHttpClient == TransportSpec => Spec
<1>1. TransportInit => Init
  BY DEF TransportInit
<1>2. [TransportNext]_tvars => [Next]_vars
  BY StepOfHttpClient DEF tvars
<1> QED BY <1>1, <1>2, PTL DEF TransportSpec, Spec

\* The calls of wait() that requests make are a behaviour of the sliding
\* window, the one that RateLimiter implements.
THEOREM TransportUsesLimiter == TransportSpec => Limiter!Spec
<1>1. TransportInit => Limiter!Init
  BY DEF TransportInit
<1>2. TypeOK /\ TypeOK' /\ [TransportNext]_tvars => [Limiter!Next]_limiter
  BY StepOfLimiter DEF tvars, limiter
<1>3. [Limiter!Next]_limiter <=> [Limiter!Next]_(Limiter!vars)
  BY DEF limiter, Limiter!vars
<1> QED BY <1>1, <1>2, <1>3, TransportIsHttpClient, TransportTypeCorrect, PTL
        DEF TransportSpec, Limiter!Spec

\* A write is sent once although it passes the limiter and the refresh.
THEOREM WritesSentOnceInTransport == TransportSpec => []WritesSentOnce
BY TransportIsHttpClient, WritesAreSentOnce, PTL

\* The rolling bound holds of what is sent when it is let through.
THEOREM PromptRateHolds == TransportSpec => []PromptRate
<1>1. TransportInit => LimiterInv /\ SendInv
  BY LimiterInvInit, SendInvInit DEF TransportInit
<1>2. /\ TypeOK /\ TypeOK' /\ LimiterInv /\ SendInv /\ [TransportNext]_tvars
      => LimiterInv' /\ SendInv'
  <2> SUFFICES ASSUME TypeOK, TypeOK', LimiterInv, SendInv, [TransportNext]_tvars
               PROVE  LimiterInv' /\ SendInv'
    OBVIOUS
  <2>1. [Limiter!Next]_limiter
    BY StepOfLimiter DEF tvars, limiter
  <2> QED BY <2>1, LimiterInvStep, SendInvStep DEF LimiterInv
<1>3. LimiterInv /\ SendInv => PromptRate
  <2> SUFFICES ASSUME LimiterInv, SendInv PROVE PromptRate
    OBVIOUS
  <2> DEFINE Prompt == {s \in SentRecently : age[s] = since[s]}
  <2>1. Prompt \subseteq Limiter!Recent
    BY DEF SendInv, SendTypeOK, SentRecently, Limiter!Recent, Limiter!Granted
  <2>2. IsFiniteSet(Prompt) /\ Cardinality(Prompt) <= Cardinality(Limiter!Recent)
    BY <2>1, FS_Subset DEF LimiterInv, RecentInv
  <2>3. Cardinality(Prompt) \in Nat /\ Cardinality(Limiter!Recent) \in Nat
    BY <2>2, FS_CardinalityType DEF LimiterInv, RecentInv
  <2> QED BY <2>2, <2>3, TransportAssumption DEF PromptRate, LimiterInv, RecentInv
<1> QED BY <1>1, <1>2, <1>3, TransportIsHttpClient, TransportTypeCorrect, PTL
        DEF TransportSpec
=============================================================================
