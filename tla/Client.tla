------------------------------- MODULE Client -------------------------------
(***************************************************************************)
(* YahooFantasySportsClient in user mode (yahoo.ts): HttpClient with the   *)
(* OAuth session as its owner.  The token provider answers the session's   *)
(* tokens, and the refresh callback is the session's refreshTokens(),      *)
(* which the application's refreshToken() shares.                          *)
(*                                                                         *)
(* HttpClient and TokenSession are the two parts: a refresh that HttpClient *)
(* starts is a call of the session, which starts a refresh or joins one.   *)
(* What the application awaits alone (see Make of TokenSession) it makes   *)
(* while no request is in flight.  One process is modelled, in which       *)
(* loadTokens precedes the first refresh.                                  *)
(***************************************************************************)
EXTENDS HttpClient

CONSTANTS
  Calls, Kinds, Exclusive, Seed, Seeded, HasStorage, None, MaxGen
                \* see TokenSession

VARIABLES
  place, kind, tokens, stored, inFlight, flight, presented, awaited, result,
  spent, loggedOut, landed,
                \* the session, see TokenSession
  held,         \* the pairs the session has held; their places number them
  outdated,     \* the numbers of those whose expiry has passed
  callers       \* callers[f]: the call of the session for refresh f

Session == INSTANCE TokenSession
  WITH pc <- place, refreshInFlight <- inFlight, joined <- awaited,
       LoadFirst <- TRUE, restarts <- 0, MaxRestarts <- 0

ASSUME ClientAssumption ==
  /\ Kinds \subseteq Session!AllKinds /\ Exclusive \subseteq Session!AllKinds
  /\ "load" \in Exclusive /\ "refresh" \in Kinds \ Exclusive
  /\ Seed \notin Calls /\ None \notin Calls /\ None \notin Session!Pair
  /\ Seeded \in BOOLEAN /\ HasStorage \in BOOLEAN /\ MaxGen \in Nat
  /\ "oauth2" \in Auths /\ ThrowingOwner = FALSE

session == <<place, kind, tokens, stored, inFlight, flight, presented, awaited,
             result, spent, loggedOut, landed>>
numbering == <<held, outdated>>
cvars == <<vars, session, numbering, callers>>

ClientInit ==
  /\ Init
  /\ Session!Init
  /\ auth = "oauth2" /\ hasCallback
  /\ held = IF tokens = None THEN << >> ELSE <<tokens>>
  /\ token = Len(held)
  /\ outdated = {}
  /\ callers = << >>

-----------------------------------------------------------------------------
Number(pairs, pair) == CHOOSE i \in 1..Len(pairs) : pairs[i] = pair
Holds(pair) == \E i \in 1..Len(held) : held[i] = pair

\* Mutant: the provider goes on answering the tokens of the configuration.
ProvideFirst ==
  /\ held' = IF tokens' = None \/ Holds(tokens') THEN held ELSE Append(held, tokens')
  /\ issued' = Len(held') /\ issued' + reuses <= MaxTokens
  /\ UNCHANGED <<token, expired, reuses>>

\* What the token provider, `() => this.tokens`, answers after the step.
Provide ==
  /\ held' = IF tokens' = None \/ Holds(tokens') THEN held ELSE Append(held, tokens')
  /\ issued' = Len(held')
  /\ token' = IF tokens' = None THEN 0 ELSE Number(held', tokens')
  /\ expired' = (token' \in outdated)
  /\ reuses' = IF token' \in {0, token, issued + 1} THEN reuses ELSE reuses + 1
  /\ issued' + reuses' <= MaxTokens

-----------------------------------------------------------------------------
RequestsAtRest == \A r \in Requests : pc[r] \in {"idle", "resolved", "rejected"}

ExclusiveCall ==
  \E o \in Calls : place[o] \in Session!InProgress /\ kind[o] \in Exclusive

\* A step of a request that starts no refresh.
RequestStep(r) ==
  /\ Issue(r) \/ Admit(r) \/ Answer(r) \/ AfterRefresh(r) \/ AfterDelay(r)
  /\ flights' = flights
  /\ pc[r] = "idle" => ~ExclusiveCall
  /\ UNCHANGED <<session, numbering, callers>>

\* The transport's refreshTokens() calls the session's, in the same step.
RequestRefreshes(r) ==
  /\ AdmitToRefresh(r) \/ Answer401(r)
  /\ Len(flights') > Len(flights)
  /\ \E o \in Calls :
       /\ Session!StartRefresh(o) \/ Session!JoinRefresh(o)
       /\ callers' = Append(callers, o)
  /\ UNCHANGED numbering

\* A call of the application, refreshToken() included.
ApplicationCall(o) ==
  /\ Session!Call(o)
  /\ kind'[o] \in Exclusive => RequestsAtRest
  /\ Provide
  /\ UNCHANGED <<request, config, refresh, unfit, outdated, callers>>

CalledByTransport(o) == \E f \in 1..Len(flights) : callers[f] = o

\* The steps of the session that the transport learns of from the provider only.
SessionStep(o) ==
  /\ \/ Session!StorageStep(o) \/ Session!LoadReturns(o)
     \/ Session!CodeExchanged(o) \/ Session!CodeRefused(o) \/ Session!RefreshRefused(o)
     \/ ~CalledByTransport(o) /\ Session!RefreshReturns(o)
  /\ Provide
  /\ UNCHANGED <<request, config, refresh, unfit, outdated, callers>>

\* A refresh of the session obtains its pair, for the refresh of the transport
\* that waits for it as well, if one does.
RefreshIssued(o) ==
  /\ Session!RefreshIssued(o)
  /\ Provide
  /\ LET waiting == {f \in 1..Len(flights) :
                       flights[f].how = "pending" /\ awaited[callers[f]] = o}
     IN  flights' = [f \in 1..Len(flights) |->
                       IF f \in waiting
                       THEN [flights[f] EXCEPT !.how = "issued", !.value = token']
                       ELSE flights[f]]
  /\ UNCHANGED <<request, config, refreshInFlight, unfit, outdated, callers>>

\* Mutant: the transport goes on with what the provider answers by then.
RefreshAnsweredByProvider(f) ==
  /\ Pending(f)
  /\ LET o == callers[f]
         g == awaited[o]
     IN  /\ Session!RefreshReturns(o)
         /\ IF flight[g] = "resolved" /\ token # 0
            THEN /\ Settle(f, "resolved", token)
                 /\ reuses' = IF flights[f].how = "issued" THEN reuses ELSE reuses + 1
            ELSE /\ Settle(f, IF result[g] = None THEN "refused" ELSE "failed", 0)
                 /\ reuses' = reuses
  /\ issued + reuses' <= MaxTokens
  /\ UNCHANGED <<request, token, expired, issued, config, unfit, numbering, callers>>

\* The promise that the session gave the transport for refresh f settles.  Token
\* requests reject with an AuthenticationError, the storage with anything.
RefreshAnswered(f) ==
  /\ Pending(f)
  /\ LET o == callers[f]
         g == awaited[o]
     IN  /\ Session!RefreshReturns(o)
         /\ IF flight[g] = "resolved"
            THEN /\ Settle(f, "resolved", Number(held, result[g]))
                 /\ reuses' = IF flights[f].how = "issued" THEN reuses ELSE reuses + 1
            ELSE /\ Settle(f, IF result[g] = None THEN "refused" ELSE "failed", 0)
                 /\ reuses' = reuses
  /\ issued + reuses' <= MaxTokens
  /\ UNCHANGED <<request, token, expired, issued, config, unfit, numbering, callers>>

PairExpires ==
  /\ TokenExpires
  /\ outdated' = outdated \cup {token}
  /\ UNCHANGED <<session, held, callers>>

-----------------------------------------------------------------------------
ClientNext ==
  \/ \E r \in Requests : RequestStep(r) \/ RequestRefreshes(r)
  \/ \E o \in Calls : ApplicationCall(o) \/ SessionStep(o) \/ RefreshIssued(o)
  \/ \E f \in 1..Len(flights) : RefreshAnswered(f)
  \/ PairExpires

ClientSpec == ClientInit /\ [][ClientNext]_cvars
-----------------------------------------------------------------------------
\* A refresh of the transport that starts one of the session ends with the next
\* pair of the login that it was started for.  One that joins a refreshToken() of
\* the application may come too late for that: it is answered with the pair that
\* it wanted replaced, if that one was being saved, or with a pair of another
\* login, if authenticate() was called in between and not awaited alone.
RefreshAnswers ==
  \A f \in 1..Len(flights) : flights[f].how = "resolved" =>
    LET old == held[flights[f].from]
        new == held[flights[f].value]
    IN  \/ new.login = old.login /\ new.gen = old.gen + 1
        \/ /\ ~CalledByTransport(awaited[callers[f]])
           /\ new = old \/ (new.login # old.login /\ "authenticate" \notin Exclusive)

\* The transport can rely on the session for what HttpClient assumes of an
\* owner: whatever the session goes through, requests see an owner that gives
\* out new pairs and earlier ones, and settles each refresh once.
ImplementsHttpClient == Spec
=============================================================================
