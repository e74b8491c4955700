----------------------------- MODULE Transport -----------------------------
(***************************************************************************)
(* HttpClient with its rate limiter (http.ts): every pass of a request     *)
(* through the loop is one call of wait(), and it goes on when the limiter *)
(* lets that call through.  The limiter is its abstract specification,     *)
(* SlidingWindow, which RateLimiter implements.                            *)
(*                                                                         *)
(* A request is admitted before its token is looked at.  If the token has  *)
(* to be refreshed first, the request is sent later than it was admitted.  *)
(***************************************************************************)
EXTENDS HttpClient, FiniteSets

CONSTANTS
  MaxRequests,  \* MAX_REQUESTS_PER_WINDOW
  Window        \* RATE_LIMIT_WINDOW

ASSUME TransportAssumption == MaxRequests \in Nat \ {0} /\ Window \in Nat

\* The calls of wait(): one per attempt, and one for the attempt that a 401
\* gives back.
Slots == Requests \X (1..MaxRetries + 2)

VARIABLES
  status, turn, asked, age,  \* the limiter, see SlidingWindow
  departed,                  \* history: the calls of wait() whose request was sent
  since                      \* history: since[s]: how long ago, at most Window

limiter == <<status, turn, asked, age>>
sending == <<departed, since>>
tvars == <<vars, limiter, sending>>

Limiter == INSTANCE SlidingWindow WITH Calls <- Slots

TransportInit ==
  /\ Init
  /\ Limiter!Init
  /\ departed = {}
  /\ since = [s \in Slots |-> 0]

-----------------------------------------------------------------------------
\* The call of wait() for an attempt, before or after a 401 gave one back.
SlotOf(r, n, again) == <<r, IF again THEN n + 2 ELSE n + 1>>
Slot(r) == SlotOf(r, attempt[r], retried401[r])
NextSlot(r) == SlotOf(r, attempt'[r], retried401'[r])

\* fetch() is called, if this step calls it.
Depart(r) ==
  IF dispatches'[r] > dispatches[r]
  THEN /\ departed' = departed \cup {Slot(r)}
       /\ since' = [since EXCEPT ![Slot(r)] = 0]
  ELSE UNCHANGED sending

\* The steps that end in the `await this.rateLimiter.wait()` of the loop.
Join(r) ==
  /\ Issue(r) \/ NextAttempt(r) \/ RefreshedAfter401(r) \/ Answer401(r)
  /\ pc'[r] = "admission"
  /\ Limiter!Ask(NextSlot(r))
  /\ UNCHANGED sending

\* What follows the `await` happens in the same step.
LetThrough(r) ==
  /\ AdmitUnauthenticated(r) \/ AdmitWithToken(r) \/ AdmitToRefresh(r)
       \/ AdmitUnauthorized(r)
  /\ Limiter!Grant(Slot(r))
  /\ Depart(r)

\* Mutant: a call of wait() that rejects keeps its place in the line.
WaitRejectsInLine(r) == AdmissionFails(r) /\ UNCHANGED <<limiter, sending>>

WaitRejects(r) ==
  /\ AdmissionFails(r)
  /\ Limiter!GiveUp(Slot(r))
  /\ UNCHANGED sending

\* Mutant: the retry after a 401 is sent without another admission.
GoOnSkippingWait(r) ==
  \/ /\ Answer(r) \/ Refreshed(r) \/ RefreshFailed(r) \/ DelayFails(r)
     /\ pc'[r] # "admission"
     /\ Depart(r)
     /\ UNCHANGED limiter
  \/ /\ pc[r] = "refreshing401" /\ flights[joined[r]].how = "resolved"
     /\ Dispatch(r, flights[joined[r]].value)
     /\ departed' = departed \cup {Slot(r)}
     /\ since' = [since EXCEPT ![Slot(r)] = 0]
     /\ UNCHANGED <<method, skipAuth, attempt, retried401, joined, owner, config,
                    refresh, unfit, limiter>>

\* The steps of a request that do not call wait().
GoOn(r) ==
  /\ Answer(r) \/ Refreshed(r) \/ RefreshFailed(r) \/ DelayFails(r)
  /\ pc'[r] # "admission"
  /\ Depart(r)
  /\ UNCHANGED limiter

Owner ==
  /\ \/ \E f \in 1..Len(flights) : OwnerSettles(f)
     \/ Login \/ TakeBack \/ Logout \/ TokenExpires \/ SetTokenRefreshCallback
  /\ UNCHANGED <<limiter, sending>>

Elapse ==
  /\ Limiter!Tick
  /\ since' = [s \in Slots |->
                 IF s \in departed /\ since[s] < Window THEN since[s] + 1 ELSE since[s]]
  /\ UNCHANGED <<vars, departed>>

TransportNext ==
  \/ \E r \in Requests : Join(r) \/ LetThrough(r) \/ WaitRejects(r) \/ GoOn(r)
  \/ Owner \/ Elapse

TransportSpec == TransportInit /\ [][TransportNext]_tvars

\* Time goes by, the limiter lets through whom it may, and the rest is as in
\* HttpClient.
TransportFairness ==
  /\ WF_tvars(Elapse)
  /\ \A r \in Requests :
       /\ WF_tvars(LetThrough(r)) /\ WF_tvars(GoOn(r))
       /\ WF_tvars(pc[r] # "idle" /\ Join(r))
  /\ WF_tvars(\E f \in 1..Len(flights) : OwnerSettles(f) /\ UNCHANGED <<limiter, sending>>)

TransportFairSpec == TransportSpec /\ TransportFairness
-----------------------------------------------------------------------------
\* The requests sent during the last Window units of time.
SentRecently == {s \in departed : since[s] < Window}

\* Every request on the network has passed the limiter, retries included, and
\* unless it had to wait for a refresh in between, it is sent when it is let
\* through: not counting those that waited, the rolling bound holds of what is
\* sent.
PromptRate ==
  Cardinality({s \in SentRecently : age[s] = since[s]}) <= MaxRequests

\* The limiter bounds what reaches the API in any window.
DispatchRate == Cardinality(SentRecently) <= MaxRequests

\* The transport with a limiter that serves its callers one by one is an
\* HttpClient as that module describes it: in particular the limiter lets
\* through every request that waits, which HttpClient takes for granted.
ImplementsHttpClient == FairSpec
=============================================================================
