----------------------------- MODULE HttpClient -----------------------------
(***************************************************************************)
(* HttpClient.request() of http.ts: the loop of attempts that a request    *)
(* goes through, with admission, authorization, the fetch, the retries     *)
(* with backoff, the one refresh after a 401, and the refresh that all     *)
(* requests share.                                                         *)
(*                                                                         *)
(* An action is the code between two awaits.  The rate limiter is seen     *)
(* from outside: wait() ends some time later (RateLimiter.tla says when).  *)
(* The token provider and the refresh callback belong to the owner of the  *)
(* client (TokenSession.tla is one such owner); here the provider may      *)
(* answer anything a session goes through (Client.tla shows that).  Every  *)
(* pair of tokens the owner ever holds has a number of its own, and 0      *)
(* stands for no tokens.                                                   *)
(***************************************************************************)
EXTENDS Integers, Sequences

CONSTANTS
  Requests,       \* the invocations of request()
  MaxRetries,     \* maxRetries
  Auths,          \* which clients are configured: "oauth2", "oauth1", "none"
  Methods,        \* the methods used: "GET", and "WRITE" for the others
  ThrowingOwner,  \* whether the refresh callback may throw, not just reject
  MaxTokens       \* bound: how often the owner gives out a pair, new or not

ASSUME HttpAssumption ==
  /\ MaxRetries \in Nat /\ MaxTokens \in Nat \ {0}
  /\ Auths \subseteq {"oauth2", "oauth1", "none"}
  /\ Methods \subseteq {"GET", "WRITE"}
  /\ ThrowingOwner \in BOOLEAN

VARIABLES
  pc,               \* pc[r]: where request r stands
  method,           \* method[r]
  skipAuth,         \* skipAuth[r]
  attempt,          \* attempt[r]: the loop counter
  retried401,       \* retried401[r]: unauthorizedRefreshAttempted
  sent,             \* sent[r]: dispatchedAccessToken, 0 for undefined
  joined,           \* joined[r]: the refresh r awaits, an index of flights
  auth,             \* the OAuth client the constructor was given
  hasCallback,      \* whether tokenRefreshCallback is set
  token,            \* what the token provider answers
  expired,          \* whether isTokenExpired holds of it
  issued,           \* the last number given to a pair
  reuses,           \* history: how often the owner gave out an earlier pair
  refreshInFlight,  \* this.refreshInFlight, an index of flights or 0
  flights,          \* every refresh ever started: [from, how, value]
  dispatches,       \* history: how often r was sent
  unfit             \* history: the pairs that expired or drew a 401

request == <<pc, method, skipAuth, attempt, retried401, sent, joined, dispatches>>
owner == <<token, expired, issued, reuses>>
config == <<auth, hasCallback>>
refresh == <<refreshInFlight, flights>>
vars == <<request, owner, config, refresh, unfit>>

Init ==
  /\ pc = [r \in Requests |-> "idle"]
  /\ method = [r \in Requests |-> "GET"]
  /\ skipAuth = [r \in Requests |-> FALSE]
  /\ attempt = [r \in Requests |-> 0]
  /\ retried401 = [r \in Requests |-> FALSE]
  /\ sent = [r \in Requests |-> 0]
  /\ joined = [r \in Requests |-> 0]
  /\ auth \in Auths
  /\ hasCallback \in BOOLEAN
  /\ token \in {0, 1}
  /\ expired = FALSE
  /\ issued = token
  /\ reuses = 0
  /\ refreshInFlight = 0
  /\ flights = << >>
  /\ dispatches = [r \in Requests |-> 0]
  /\ unfit = {}

-----------------------------------------------------------------------------
RetriesOfAll(r) == MaxRetries   \* mutant: writes are retried too
Retries(r) == IF method[r] = "GET" THEN MaxRetries ELSE 0

Goto(r, place) == pc' = [pc EXCEPT ![r] = place]

\* The catch block: an error that is not a YahooFantasyError counts as a
\* network error, and is retried after a delay while attempts are left.
NetworkError(r) == Goto(r, IF attempt[r] < Retries(r) THEN "backoff" ELSE "rejected")

\* fetch(), with the access token of pair t (0 when there is none).
Dispatch(r, t) ==
  /\ Goto(r, "fetching")
  /\ sent' = [sent EXCEPT ![r] = t]
  /\ dispatches' = [dispatches EXCEPT ![r] = @ + 1]

NoRefreshIgnored == TRUE   \* mutant: every caller starts a refresh
NoRefresh == refreshInFlight = 0

\* refreshTokens(): start a refresh, unless one is in flight, and await it.
\* A callback that throws before it returns a promise ends the refresh before
\* the field is assigned, and so after its `finally` has run.
StartRefresh(r) ==
  /\ NoRefresh
  /\ refreshInFlight' = Len(flights) + 1
  /\ joined' = [joined EXCEPT ![r] = Len(flights) + 1]
  /\ \E how \in {"pending"} \cup IF ThrowingOwner THEN {"refused", "failed"} ELSE {} :
       flights' = Append(flights, [from |-> token, how |-> how, value |-> 0])

JoinRefresh(r) ==
  /\ ~NoRefresh
  /\ joined' = [joined EXCEPT ![r] = refreshInFlight]
  /\ UNCHANGED refresh

AwaitRefresh(r, place) ==
  /\ Goto(r, place)
  /\ StartRefresh(r) \/ JoinRefresh(r)

-----------------------------------------------------------------------------
\* request() up to its first await.
Issue(r) ==
  /\ pc[r] = "idle"
  /\ Goto(r, "admission")
  /\ \E m \in Methods, s \in BOOLEAN :
       /\ method' = [method EXCEPT ![r] = m]
       /\ skipAuth' = [skipAuth EXCEPT ![r] = s]
  /\ UNCHANGED <<attempt, retried401, sent, joined, dispatches, owner, config,
                 refresh, unfit>>

\* The rate limiter lets the request through, and it is authorized.
AdmitUnauthenticated(r) ==
  /\ pc[r] = "admission"
  /\ skipAuth[r] \/ auth = "oauth1"
  /\ Dispatch(r, 0)
  /\ UNCHANGED <<method, skipAuth, attempt, retried401, joined, owner, config,
                 refresh, unfit>>

AdmitWithToken(r) ==
  /\ pc[r] = "admission"
  /\ ~skipAuth[r] /\ auth = "oauth2"
  /\ token # 0 /\ ~expired
  /\ Dispatch(r, token)
  /\ UNCHANGED <<method, skipAuth, attempt, retried401, joined, owner, config,
                 refresh, unfit>>

AdmitToRefresh(r) ==
  /\ pc[r] = "admission"
  /\ ~skipAuth[r] /\ auth = "oauth2"
  /\ token # 0 /\ expired /\ hasCallback
  /\ AwaitRefresh(r, "refreshing")
  /\ UNCHANGED <<method, skipAuth, attempt, retried401, sent, dispatches, owner,
                 config, unfit>>

\* AuthenticationError: no OAuth client, no tokens, or expired ones that
\* cannot be refreshed.
AdmitUnauthorized(r) ==
  /\ pc[r] = "admission"
  /\ ~skipAuth[r]
  /\ \/ auth = "none"
     \/ auth = "oauth2" /\ (token = 0 \/ (expired /\ ~hasCallback))
  /\ Goto(r, "rejected")
  /\ UNCHANGED <<method, skipAuth, attempt, retried401, sent, joined, dispatches,
                 owner, config, refresh, unfit>>

\* wait() rejects, when the sleep it was given does.
AdmissionFails(r) ==
  /\ pc[r] = "admission"
  /\ NetworkError(r)
  /\ UNCHANGED <<method, skipAuth, attempt, retried401, sent, joined, dispatches,
                 owner, config, refresh, unfit>>

\* The refresh before the dispatch ends.
Refreshed(r) ==
  /\ pc[r] = "refreshing"
  /\ flights[joined[r]].how = "resolved"
  /\ Dispatch(r, flights[joined[r]].value)
  /\ UNCHANGED <<method, skipAuth, attempt, retried401, joined, owner, config,
                 refresh, unfit>>

\* The refresh after a 401 ends, and the request starts over as if this
\* attempt had not been made.
RefreshedAfter401(r) ==
  /\ pc[r] = "refreshing401"
  /\ flights[joined[r]].how = "resolved"
  /\ Goto(r, "admission")
  /\ UNCHANGED <<method, skipAuth, attempt, retried401, sent, joined, dispatches,
                 owner, config, refresh, unfit>>

\* Mutant: a refresh that fails for another reason is waited for for ever.
RefreshFailedIfRefused(r) ==
  /\ pc[r] \in {"refreshing", "refreshing401"}
  /\ flights[joined[r]].how = "refused"
  /\ Goto(r, "rejected")
  /\ UNCHANGED <<method, skipAuth, attempt, retried401, sent, joined, dispatches,
                 owner, config, refresh, unfit>>

\* The refresh was refused ("refused", a YahooFantasyError) or failed in
\* another way ("failed", the storage, say).
RefreshFailed(r) ==
  /\ pc[r] \in {"refreshing", "refreshing401"}
  /\ \/ flights[joined[r]].how = "refused" /\ Goto(r, "rejected")
     \/ flights[joined[r]].how = "failed" /\ NetworkError(r)
  /\ UNCHANGED <<method, skipAuth, attempt, retried401, sent, joined, dispatches,
                 owner, config, refresh, unfit>>

-----------------------------------------------------------------------------
\* A success that can be used, or a final error: 404, a status that is not
\* retryable, a body that does not parse.
AnswerFinal(r) ==
  /\ pc[r] = "fetching"
  /\ Goto(r, "resolved") \/ Goto(r, "rejected")
  /\ UNCHANGED <<method, skipAuth, attempt, retried401, sent, joined, dispatches,
                 owner, config, refresh, unfit>>

\* 429 or a retryable 5xx: another attempt after a delay, or the error.
AnswerTransient(r) ==
  /\ pc[r] = "fetching"
  /\ Goto(r, IF attempt[r] < Retries(r) THEN "backoff" ELSE "rejected")
  /\ UNCHANGED <<method, skipAuth, attempt, retried401, sent, joined, dispatches,
                 owner, config, refresh, unfit>>

\* fetch() rejects or times out, or the body of an answer cannot be read.
AnswerLost(r) ==
  /\ pc[r] = "fetching"
  /\ NetworkError(r)
  /\ UNCHANGED <<method, skipAuth, attempt, retried401, sent, joined, dispatches,
                 owner, config, refresh, unfit>>

\* Mutant: a request refreshes whenever it draws a 401.
MayRefreshOnEvery401(r) ==
  /\ ~skipAuth[r] /\ auth = "oauth2" /\ hasCallback
  /\ method[r] = "GET"

MayRefreshOn401(r) ==
  /\ ~skipAuth[r] /\ auth = "oauth2" /\ hasCallback
  /\ method[r] = "GET"
  /\ ~retried401[r]

StaleIgnored(r) == TRUE   \* mutant: a late 401 refreshes the newer pair
SentCurrent(r) == token = sent[r]

\* 401: once per GET, refresh the token that was sent, or go on at once when
\* the provider already has another one.
Answer401(r) ==
  /\ pc[r] = "fetching"
  /\ MayRefreshOn401(r)
  /\ retried401' = [retried401 EXCEPT ![r] = TRUE]
  /\ unfit' = unfit \cup {sent[r]}
  /\ \/ SentCurrent(r) /\ AwaitRefresh(r, "refreshing401")
     \/ ~SentCurrent(r) /\ Goto(r, "admission") /\ UNCHANGED <<joined, refresh>>
  /\ UNCHANGED <<method, skipAuth, attempt, sent, dispatches, owner, config>>

Answer401Final(r) ==
  /\ pc[r] = "fetching"
  /\ ~MayRefreshOn401(r)
  /\ Goto(r, "rejected")
  /\ unfit' = unfit \cup {sent[r]}
  /\ UNCHANGED <<method, skipAuth, attempt, retried401, sent, joined, dispatches,
                 owner, config, refresh>>

\* The delay is over: the next attempt goes through the limiter again.
NextAttempt(r) ==
  /\ pc[r] = "backoff"
  /\ attempt' = [attempt EXCEPT ![r] = @ + 1]
  /\ Goto(r, "admission")
  /\ UNCHANGED <<method, skipAuth, retried401, sent, joined, dispatches, owner,
                 config, refresh, unfit>>

\* The sleep of the caller of HttpClient rejects inside of the catch block.
DelayFails(r) ==
  /\ pc[r] = "backoff"
  /\ Goto(r, "rejected")
  /\ UNCHANGED <<method, skipAuth, attempt, retried401, sent, joined, dispatches,
                 owner, config, refresh, unfit>>

-----------------------------------------------------------------------------
\* The owner gets a new pair, while its callback runs or by a login.
NewPair ==
  /\ issued + reuses < MaxTokens
  /\ issued' = issued + 1
  /\ token' = issued + 1
  /\ expired' = FALSE
  /\ reuses' = reuses

\* The owner gives out a pair that it held before, or holds.
Reuse ==
  /\ issued + reuses < MaxTokens
  /\ reuses' = reuses + 1
  /\ issued' = issued

Pending(f) == f \in 1..Len(flights) /\ flights[f].how \in {"pending", "issued"}

\* Mutant: `then` in place of `finally`.
SettleThen(f, how, value) ==
  /\ flights' = [flights EXCEPT ![f].how = how, ![f].value = value]
  /\ refreshInFlight' = IF how = "resolved" THEN 0 ELSE refreshInFlight

\* The promise of the refresh settles and its `finally` clears the field.
Settle(f, how, value) ==
  /\ flights' = [flights EXCEPT ![f].how = how, ![f].value = value]
  /\ refreshInFlight' = 0

\* The owner has new tokens; its promise settles when they are saved.
OwnerIssues(f) ==
  /\ Pending(f) /\ flights[f].how = "pending"
  /\ NewPair
  /\ flights' = [flights EXCEPT ![f].how = "issued", ![f].value = issued + 1]
  /\ UNCHANGED <<request, config, refreshInFlight, unfit>>

OwnerResolves(f) ==
  /\ Pending(f) /\ flights[f].how = "issued"
  /\ Settle(f, "resolved", flights[f].value)
  /\ UNCHANGED <<request, owner, config, unfit>>

\* The owner was at it already: it answers with a pair that it holds or held.
OwnerRepeats(f) ==
  /\ Pending(f) /\ flights[f].how = "pending"
  /\ Reuse
  /\ \E held \in 1..issued : Settle(f, "resolved", held)
  /\ UNCHANGED <<request, token, expired, config, unfit>>

OwnerRejects(f) ==
  /\ Pending(f)
  /\ \/ flights[f].how = "pending" /\ Settle(f, "refused", 0)
     \/ Settle(f, "failed", 0)
  /\ UNCHANGED <<request, owner, config, unfit>>

Login ==
  /\ NewPair
  /\ UNCHANGED <<request, config, refresh, unfit>>

\* The owner goes back to a pair that it held before and that may have expired.
TakeBack ==
  /\ Reuse
  /\ token' \in 1..issued \ {token}
  /\ expired' \in BOOLEAN /\ (expired' => token' \in unfit)
  /\ UNCHANGED <<request, config, refresh, unfit>>

Logout ==
  /\ token # 0
  /\ token' = 0
  /\ expired' = FALSE
  /\ UNCHANGED <<request, issued, reuses, config, refresh, unfit>>

TokenExpires ==
  /\ token # 0 /\ ~expired
  /\ expired' = TRUE
  /\ unfit' = unfit \cup {token}
  /\ UNCHANGED <<request, token, issued, reuses, config, refresh>>

SetTokenRefreshCallback ==
  /\ ~hasCallback
  /\ hasCallback' = TRUE
  /\ UNCHANGED <<request, owner, auth, refresh, unfit>>

-----------------------------------------------------------------------------
Admit(r) ==
  \/ AdmitUnauthenticated(r) \/ AdmitWithToken(r) \/ AdmitToRefresh(r)
  \/ AdmitUnauthorized(r) \/ AdmissionFails(r)

Answer(r) ==
  \/ AnswerFinal(r) \/ AnswerTransient(r) \/ AnswerLost(r)
  \/ Answer401(r) \/ Answer401Final(r)

AfterRefresh(r) == Refreshed(r) \/ RefreshedAfter401(r) \/ RefreshFailed(r)

AfterDelay(r) == NextAttempt(r) \/ DelayFails(r)

OwnerSettles(f) ==
  OwnerIssues(f) \/ OwnerResolves(f) \/ OwnerRepeats(f) \/ OwnerRejects(f)

Next ==
  \/ \E r \in Requests :
       Issue(r) \/ Admit(r) \/ Answer(r) \/ AfterRefresh(r) \/ AfterDelay(r)
  \/ \E f \in 1..Len(flights) : OwnerSettles(f)
  \/ Login \/ TakeBack \/ Logout \/ TokenExpires \/ SetTokenRefreshCallback

Spec == Init /\ [][Next]_vars

\* The limiter lets everyone through (RateLimiter!NoStarvation), fetch() has a
\* timeout, delays end, and the owner's promises settle.
Fairness ==
  /\ \A r \in Requests :
       /\ WF_vars(Admit(r)) /\ WF_vars(Answer(r))
       /\ WF_vars(AfterRefresh(r)) /\ WF_vars(AfterDelay(r))
  /\ WF_vars(\E f \in 1..Len(flights) : OwnerSettles(f))

FairSpec == Spec /\ Fairness
-----------------------------------------------------------------------------
Places == {"idle", "admission", "refreshing", "refreshing401", "fetching",
           "backoff", "resolved", "rejected"}

Outcomes == {"pending", "issued", "resolved", "refused", "failed"}

Flight == [from : 1..MaxTokens, how : Outcomes, value : 0..MaxTokens]

\* The type invariant of the transport.
TypeOK ==
  /\ pc \in [Requests -> Places]
  /\ method \in [Requests -> {"GET", "WRITE"}]
  /\ skipAuth \in [Requests -> BOOLEAN]
  /\ attempt \in [Requests -> 0..MaxRetries]
  /\ retried401 \in [Requests -> BOOLEAN]
  /\ sent \in [Requests -> 0..MaxTokens]
  /\ joined \in [Requests -> 0..Len(flights)]
  /\ auth \in {"oauth2", "oauth1", "none"}
  /\ hasCallback \in BOOLEAN
  /\ token \in 0..MaxTokens
  /\ expired \in BOOLEAN
  /\ issued \in 0..MaxTokens
  /\ reuses \in Nat /\ issued + reuses <= MaxTokens
  /\ refreshInFlight \in 0..Len(flights)
  /\ flights \in Seq(Flight)
  /\ dispatches \in [Requests -> Nat]
  /\ unfit \in SUBSET (0..MaxTokens)

\* A write is never replayed: whatever is lost, refused, rate limited or
\* refreshed, it reaches the network at most once.
WritesSentOnce == \A r \in Requests : method[r] = "WRITE" => dispatches[r] <= 1

\* The decrement that gives a 401 its attempt back cannot feed an endless
\* loop: a GET is sent at most once per attempt and once more.
DispatchesBounded == \A r \in Requests : dispatches[r] <= MaxRetries + 2

\* Requests that need a refresh at the same time share one.
OneRefreshAtATime ==
  \A f, g \in 1..Len(flights) : Pending(f) /\ Pending(g) => f = g

\* As long as the owner gives out new pairs only, no pair is exchanged twice, or
\* presented again once it was exchanged, although requests learn that it must
\* be at different times: from its expiry, or from a 401 that arrives late.
OneRefreshPerPair ==
  reuses = 0 => \A f, g \in 1..Len(flights) :
    /\ flights[f].how \in {"issued", "resolved"}
    /\ flights[g].how \in {"pending", "issued", "resolved"}
    /\ flights[f].from = flights[g].from
    => f = g

\* No refresh is wasted: each one replaces a pair that expired or was refused,
\* and a 401 for a pair that has been replaced refreshes nothing.
RefreshesNeeded == \A f \in 1..Len(flights) : flights[f].from \in unfit

\* Every request settles: no retry, refresh or admission goes on for ever.
RequestsSettle ==
  \A r \in Requests : pc[r] = "admission" ~> pc[r] \in {"resolved", "rejected"}

\* A refresh that has ended, even by rejection, does not keep a later request
\* from refreshing again.
RefreshRecovers == refreshInFlight # 0 ~> refreshInFlight = 0
=============================================================================
