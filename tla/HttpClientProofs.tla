-------------------------- MODULE HttpClientProofs --------------------------
(***************************************************************************)
(* Theorems about HttpClient, for any set of requests, any number of       *)
(* retries, of tokens and of pairs that come back, and whether or not the  *)
(* owner's callback throws.                                                *)
(***************************************************************************)
EXTENDS HttpClient, TLAPS

-----------------------------------------------------------------------------
(* The attempts of a request, apart from the refreshes.                    *)

\* Attempts stay within the retries, and only reads have any.
AttemptInv ==
  \A r \in Requests :
    /\ attempt[r] <= Retries(r)
    /\ pc[r] = "backoff" => attempt[r] < Retries(r)
    /\ retried401[r] => method[r] = "GET"
    /\ pc[r] = "idle" => attempt[r] = 0 /\ ~retried401[r] /\ dispatches[r] = 0

\* What request r has been sent before the current attempt is at most one
\* dispatch per earlier attempt, and one that a 401 gave back.
Budget(r) == attempt[r] + (IF retried401[r] THEN 1 ELSE 0)

Dispatched == {"fetching", "backoff", "resolved", "rejected"}

BudgetInv ==
  \A r \in Requests :
    dispatches[r] <= Budget(r) + (IF pc[r] \in Dispatched THEN 1 ELSE 0)

(* The refreshes.                                                          *)

Issued(f) == flights[f].how \in {"issued", "resolved"}

\* The current pair is one that was issued, the last one unless earlier ones came
\* back, and it is unfit once it expired.
TokenInv ==
  /\ token <= issued
  /\ reuses = 0 => token = 0 \/ token = issued
  /\ expired /\ token # 0 => token \in unfit

\* A request that awaits a refresh awaits one that was started, and a request
\* that was authorized was sent with some pair.
JoinedInv ==
  \A r \in Requests :
    /\ pc[r] \in {"refreshing", "refreshing401"} => joined[r] \in 1..Len(flights)
    /\ pc[r] = "fetching" /\ ~skipAuth[r] /\ auth = "oauth2" => sent[r] # 0

\* A pending refresh is the one the field names, and every refresh replaces an
\* unfit pair, by a later one that was not replaced yet unless earlier ones came
\* back.
FlightsInv ==
  \A f \in 1..Len(flights) :
    /\ Pending(f) => refreshInFlight = f
    /\ flights[f].from \in unfit
    /\ flights[f].from <= issued
    /\ Issued(f) => flights[f].value # 0 /\ flights[f].value <= issued
    /\ reuses = 0 /\ Issued(f) => flights[f].from < flights[f].value
    /\ \A g \in 1..Len(flights) :
         reuses = 0 /\ Issued(f) /\ (Issued(g) \/ Pending(g)) /\ f # g
           => flights[f].from # flights[g].from

TransportInv ==
  TypeOK /\ AttemptInv /\ BudgetInv /\ TokenInv /\ JoinedInv /\ FlightsInv

-----------------------------------------------------------------------------
\* The invariant of the transport holds initially.
LEMMA TransportInvInit == Init => TransportInv
<1> SUFFICES ASSUME Init PROVE TransportInv
  OBVIOUS
<1>1. TypeOK
  <2>1. flights \in Seq(Flight) /\ Len(flights) = 0
    BY DEF Init
  <2>2. /\ attempt \in [Requests -> 0..MaxRetries]
        /\ sent \in [Requests -> 0..MaxTokens]
        /\ joined \in [Requests -> 0..Len(flights)]
        /\ dispatches \in [Requests -> Nat]
    BY <2>1, HttpAssumption DEF Init
  <2>3. /\ token \in 0..MaxTokens /\ issued \in 0..MaxTokens
        /\ reuses \in Nat /\ issued + reuses <= MaxTokens
    BY HttpAssumption DEF Init
  <2>4. auth \in {"oauth2", "oauth1", "none"}
    BY HttpAssumption DEF Init
  <2>5. refreshInFlight \in 0..Len(flights)
    BY <2>1 DEF Init
  <2> QED
    BY <2>1, <2>2, <2>3, <2>4, <2>5 DEF Init, TypeOK, Places
<1>2. AttemptInv /\ BudgetInv
  BY HttpAssumption DEF Init, AttemptInv, BudgetInv, Budget, Dispatched, Retries
<1>3. TokenInv /\ JoinedInv /\ FlightsInv
  BY DEF Init, TokenInv, JoinedInv, FlightsInv
<1> QED
  BY <1>1, <1>2, <1>3 DEF TransportInv

-----------------------------------------------------------------------------
(* Attempts and dispatches.                                                *)

\* Every step of a request keeps its attempts and its dispatches within bounds.
LEMMA RequestAttempts ==
  ASSUME TypeOK, AttemptInv, BudgetInv, NEW r \in Requests,
         Issue(r) \/ AdmitUnauthenticated(r) \/ AdmitWithToken(r) \/
         AdmitUnauthorized(r) \/ AdmissionFails(r) \/ Refreshed(r) \/
         RefreshedAfter401(r) \/ RefreshFailed(r) \/ AnswerFinal(r) \/
         AnswerTransient(r) \/ AnswerLost(r) \/ Answer401Final(r) \/
         NextAttempt(r) \/ DelayFails(r) \/ AdmitToRefresh(r) \/ Answer401(r)
  PROVE  AttemptInv' /\ BudgetInv'
<1> USE HttpAssumption DEF TypeOK, AttemptInv, BudgetInv, Budget, Dispatched, Retries, Places, Goto
<1>1. CASE Issue(r)
  <2>1. PICK m \in Methods : method' = [method EXCEPT ![r] = m]
    BY <1>1 DEF Issue
  <2>2. m \in {"GET", "WRITE"}
    OBVIOUS
  <2>3. /\ attempt' = attempt /\ retried401' = retried401 /\ dispatches' = dispatches
        /\ attempt[r] = 0 /\ ~retried401[r] /\ dispatches[r] = 0 /\ pc'[r] = "admission"
        /\ \A q \in Requests \ {r} : pc'[q] = pc[q] /\ method'[q] = method[q]
    BY <1>1, <2>1 DEF Issue
  <2>4. AttemptInv'
    <3> SUFFICES ASSUME NEW q \in Requests
                 PROVE  /\ attempt'[q] <= Retries(q)'
                        /\ pc'[q] = "backoff" => attempt'[q] < Retries(q)'
                        /\ retried401'[q] => method'[q] = "GET"
                        /\ pc'[q] = "idle" => /\ attempt'[q] = 0 /\ ~retried401'[q]
                                              /\ dispatches'[q] = 0
      BY DEF AttemptInv
    <3>1. CASE q = r
      <4>1. Retries(r)' \in Nat
        BY <2>1, <2>2
      <4>2. attempt'[r] = 0 /\ attempt'[r] <= Retries(r)'
        BY <2>3, <4>1
      <4>3. ~retried401'[r]
        BY <2>3
      <4>4. pc'[r] = "admission"
        BY <2>3
      <4> QED
        BY <3>1, <4>2, <4>3, <4>4
    <3>2. CASE q # r
      BY <2>3, <3>2
    <3> QED
      BY <3>1, <3>2
  <2>5. BudgetInv'
    <3> SUFFICES ASSUME NEW q \in Requests
                 PROVE  dispatches'[q] <= Budget(q)'
                          + (IF pc'[q] \in Dispatched THEN 1 ELSE 0)
      BY DEF BudgetInv
    <3>1. CASE q = r
      BY <2>3, <3>1
    <3>2. CASE q # r
      BY <2>3, <3>2
    <3> QED
      BY <3>1, <3>2
  <2> QED
    BY <2>4, <2>5
<1>2. CASE AdmitUnauthenticated(r)
  BY <1>2 DEF AdmitUnauthenticated, Dispatch
<1>3. CASE AdmitWithToken(r)
  BY <1>3 DEF AdmitWithToken, Dispatch
<1>4. CASE AdmitUnauthorized(r)
  BY <1>4 DEF AdmitUnauthorized
<1>5. CASE AdmissionFails(r)
  BY <1>5 DEF AdmissionFails, NetworkError
<1>6. CASE Refreshed(r)
  BY <1>6 DEF Refreshed, Dispatch
<1>7. CASE RefreshedAfter401(r)
  BY <1>7 DEF RefreshedAfter401
<1>8. CASE RefreshFailed(r)
  <2>1. CASE pc' = [pc EXCEPT ![r] = "rejected"]
    BY <1>8, <2>1 DEF RefreshFailed
  <2>2. CASE NetworkError(r)
    BY <1>8, <2>2 DEF RefreshFailed, NetworkError
  <2>3. pc' = [pc EXCEPT ![r] = "rejected"] \/ NetworkError(r)
    BY <1>8 DEF RefreshFailed
  <2> HIDE DEF TypeOK, AttemptInv, BudgetInv
  <2> QED
    BY <2>1, <2>2, <2>3
<1>9. CASE AnswerFinal(r)
  <2>1. /\ UNCHANGED <<method, attempt, retried401, dispatches>>
        /\ pc[r] = "fetching" /\ \A q \in Requests \ {r} : pc'[q] = pc[q]
        /\ pc'[r] \in {"resolved", "rejected"}
    BY <1>9 DEF AnswerFinal
  <2>2. AttemptInv'
    BY <2>1
  <2>3. BudgetInv'
    BY <2>1
  <2> QED
    BY <2>2, <2>3
<1>10. CASE AnswerTransient(r)
  BY <1>10 DEF AnswerTransient
<1>11. CASE AnswerLost(r)
  BY <1>11 DEF AnswerLost, NetworkError
<1>12. CASE Answer401Final(r)
  BY <1>12 DEF Answer401Final, MayRefreshOn401
<1>13. CASE NextAttempt(r)
  BY <1>13 DEF NextAttempt
<1>14. CASE DelayFails(r)
  BY <1>14 DEF DelayFails
<1>15. CASE AdmitToRefresh(r)
  BY <1>15 DEF AdmitToRefresh, AwaitRefresh, StartRefresh, JoinRefresh
<1>16. CASE Answer401(r)
  <2>1. /\ UNCHANGED <<method, attempt, dispatches>>
        /\ retried401' = [retried401 EXCEPT ![r] = TRUE]
        /\ method[r] = "GET" /\ pc[r] = "fetching"
    BY <1>16 DEF Answer401, MayRefreshOn401
  <2>2. \/ pc' = [pc EXCEPT ![r] = "refreshing401"]
        \/ pc' = [pc EXCEPT ![r] = "admission"]
    BY <1>16 DEF Answer401, AwaitRefresh
  <2>3. AttemptInv'
    BY <2>1, <2>2
  <2>4. /\ dispatches[r] <= attempt[r] + 1 /\ ~retried401[r] /\ retried401'[r]
        /\ pc'[r] \in {"refreshing401", "admission"}
        /\ \A q \in Requests \ {r} : pc'[q] = pc[q] /\ retried401'[q] = retried401[q]
    BY <1>16, <2>1, <2>2 DEF Answer401, MayRefreshOn401
  <2>5. BudgetInv'
    BY <2>1, <2>4
  <2> QED
    BY <2>3, <2>5
<1> QED
  BY <1>1, <1>2, <1>3, <1>4, <1>5, <1>6, <1>7, <1>8, <1>9, <1>10, <1>11, <1>12, <1>13, <1>14, <1>15, <1>16

-----------------------------------------------------------------------------
(* The steps that leave the refreshes alone.                               *)

\* The types, for the steps that leave the refreshes alone.
LEMMA RequestTypes ==
  ASSUME TransportInv, TypeOK, NEW r \in Requests,
         Issue(r) \/ AdmitUnauthenticated(r) \/ AdmitWithToken(r) \/
         AdmitUnauthorized(r) \/ AdmissionFails(r) \/ Refreshed(r) \/
         RefreshedAfter401(r) \/ RefreshFailed(r) \/ AnswerFinal(r) \/
         AnswerTransient(r) \/ AnswerLost(r) \/ Answer401Final(r) \/
         NextAttempt(r) \/ DelayFails(r)
  PROVE  TypeOK'
<1> USE HttpAssumption DEF TypeOK, Places, refresh, owner, config, Goto
<1>1. CASE Issue(r)
  BY <1>1 DEF Issue
<1>2. CASE AdmitUnauthenticated(r)
  BY <1>2 DEF AdmitUnauthenticated, Dispatch
<1>3. CASE AdmitWithToken(r)
  BY <1>3 DEF AdmitWithToken, Dispatch
<1>4. CASE AdmitUnauthorized(r)
  BY <1>4 DEF AdmitUnauthorized
<1>5. CASE AdmissionFails(r)
  BY <1>5 DEF AdmissionFails, NetworkError
<1>6. CASE Refreshed(r)
  <2>1. flights[joined[r]] \in Flight
    BY <1>6 DEF Refreshed, TransportInv, JoinedInv
  <2>2. flights[joined[r]].value \in 0..MaxTokens
    BY <2>1 DEF Flight
  <2> QED
    BY <1>6, <2>2 DEF Refreshed, Dispatch
<1>7. CASE RefreshedAfter401(r)
  BY <1>7 DEF RefreshedAfter401
<1>8. CASE RefreshFailed(r)
  BY <1>8 DEF RefreshFailed, NetworkError
<1>9. CASE AnswerFinal(r)
  BY <1>9 DEF AnswerFinal
<1>10. CASE AnswerTransient(r)
  BY <1>10 DEF AnswerTransient
<1>11. CASE AnswerLost(r)
  BY <1>11 DEF AnswerLost, NetworkError
<1>12. CASE Answer401Final(r)
  BY <1>12 DEF Answer401Final, MayRefreshOn401
<1>13. CASE NextAttempt(r)
  <2>1. attempt[r] < Retries(r) /\ Retries(r) \in 0..MaxRetries
    BY <1>13 DEF NextAttempt, TransportInv, AttemptInv, Retries
  <2>2. attempt[r] + 1 \in 0..MaxRetries
    BY <2>1
  <2> QED
    BY <1>13, <2>2 DEF NextAttempt
<1>14. CASE DelayFails(r)
  BY <1>14 DEF DelayFails
<1> QED
  BY <1>1, <1>2, <1>3, <1>4, <1>5, <1>6, <1>7, <1>8, <1>9, <1>10, <1>11, <1>12, <1>13, <1>14

\* Requests await refreshes that exist, for the same steps.
LEMMA RequestJoins ==
  ASSUME TransportInv, TypeOK, JoinedInv, NEW r \in Requests,
         Issue(r) \/ AdmitUnauthenticated(r) \/ AdmitWithToken(r) \/
         AdmitUnauthorized(r) \/ AdmissionFails(r) \/ Refreshed(r) \/
         RefreshedAfter401(r) \/ RefreshFailed(r) \/ AnswerFinal(r) \/
         AnswerTransient(r) \/ AnswerLost(r) \/ Answer401Final(r) \/
         NextAttempt(r) \/ DelayFails(r)
  PROVE  JoinedInv'
<1> USE HttpAssumption DEF TypeOK, JoinedInv, refresh, owner, config, Goto
<1>1. CASE Issue(r)
  BY <1>1 DEF Issue
<1>2. CASE AdmitUnauthenticated(r)
  BY <1>2 DEF AdmitUnauthenticated, Dispatch
<1>3. CASE AdmitWithToken(r)
  BY <1>3 DEF AdmitWithToken, Dispatch
<1>4. CASE AdmitUnauthorized(r)
  BY <1>4 DEF AdmitUnauthorized
<1>5. CASE AdmissionFails(r)
  BY <1>5 DEF AdmissionFails, NetworkError
<1>6. CASE Refreshed(r)
  <2> DEFINE f == joined[r]
  <2>1. f \in 1..Len(flights) /\ Issued(f)
    BY <1>6 DEF Refreshed, Issued
  <2>2. flights[f].value # 0
    BY <2>1 DEF TransportInv, FlightsInv
  <2> QED
    BY <1>6, <2>2 DEF Refreshed, Dispatch
<1>7. CASE RefreshedAfter401(r)
  BY <1>7 DEF RefreshedAfter401
<1>8. CASE RefreshFailed(r)
  BY <1>8 DEF RefreshFailed, NetworkError
<1>9. CASE AnswerFinal(r)
  BY <1>9 DEF AnswerFinal
<1>10. CASE AnswerTransient(r)
  BY <1>10 DEF AnswerTransient
<1>11. CASE AnswerLost(r)
  BY <1>11 DEF AnswerLost, NetworkError
<1>12. CASE Answer401Final(r)
  BY <1>12 DEF Answer401Final, MayRefreshOn401
<1>13. CASE NextAttempt(r)
  BY <1>13 DEF NextAttempt
<1>14. CASE DelayFails(r)
  BY <1>14 DEF DelayFails
<1> QED
  BY <1>1, <1>2, <1>3, <1>4, <1>5, <1>6, <1>7, <1>8, <1>9, <1>10, <1>11, <1>12, <1>13, <1>14

\* A step that leaves the refreshes and the owner alone and at most adds an
\* unfit pair preserves what is known of them.
LEMMA RefreshesKept ==
  ASSUME TokenInv, FlightsInv, UNCHANGED <<owner, refresh>>, unfit \subseteq unfit'
  PROVE  TokenInv' /\ FlightsInv'
BY DEF TokenInv, FlightsInv, Issued, Pending, owner, refresh

\* The whole invariant, for the steps of a request that leave the refreshes
\* alone.
LEMMA RequestKeepsInv ==
  ASSUME TransportInv, NEW r \in Requests,
         Issue(r) \/ AdmitUnauthenticated(r) \/ AdmitWithToken(r) \/
         AdmitUnauthorized(r) \/ AdmissionFails(r) \/ Refreshed(r) \/
         RefreshedAfter401(r) \/ RefreshFailed(r) \/ AnswerFinal(r) \/
         AnswerTransient(r) \/ AnswerLost(r) \/ Answer401Final(r) \/
         NextAttempt(r) \/ DelayFails(r)
  PROVE  TransportInv'
<1>1. AttemptInv' /\ BudgetInv'
  BY RequestAttempts DEF TransportInv
<1>2. TypeOK'
  BY RequestTypes DEF TransportInv
<1>3. JoinedInv'
  BY RequestJoins DEF TransportInv
<1>4. UNCHANGED <<owner, refresh>> /\ unfit \subseteq unfit'
  BY DEF Issue, AdmitUnauthenticated, AdmitWithToken, AdmitUnauthorized,
    AdmissionFails, Refreshed, RefreshedAfter401, RefreshFailed, AnswerFinal,
    AnswerTransient, AnswerLost, Answer401Final, NextAttempt, DelayFails
<1> QED
  BY <1>1, <1>2, <1>3, <1>4, RefreshesKept DEF TransportInv

-----------------------------------------------------------------------------
(* The steps that start or join a refresh.                                 *)

\* A refresh that starts replaces the current pair, and no other is pending.
LEMMA RefreshStarts ==
  ASSUME TransportInv, NEW r \in Requests, StartRefresh(r), UNCHANGED owner,
         token # 0, token \in unfit', unfit \subseteq unfit'
  PROVE  /\ flights' \in Seq(Flight)
         /\ Len(flights') = Len(flights) + 1
         /\ joined' \in [Requests -> 0..Len(flights')]
         /\ joined' = [joined EXCEPT ![r] = Len(flights')]
         /\ refreshInFlight' \in 0..Len(flights')
         /\ FlightsInv'
<1>n. PICK n \in Nat : n = Len(flights) + 1
  BY DEF TransportInv, TypeOK
<1>1. PICK how \in Outcomes :
        flights' = Append(flights, [from |-> token, how |-> how, value |-> 0])
        /\ how \notin {"issued", "resolved"}
  BY DEF StartRefresh, Outcomes
<1> DEFINE new == [from |-> token, how |-> how, value |-> 0]
<1>2. new \in Flight
  <2>1. token \in 1..MaxTokens /\ 0 \in 0..MaxTokens
    BY HttpAssumption DEF TransportInv, TypeOK
  <2> QED
    BY <1>1, <2>1 DEF Flight
<1>3. flights \in Seq(Flight) /\ Len(flights) \in Nat
  BY DEF TransportInv, TypeOK
<1>4. /\ flights' \in Seq(Flight)
      /\ Len(flights') = n
      /\ flights'[n] = new
      /\ \A f \in 1..Len(flights) : flights'[f] = flights[f]
  BY <1>n, <1>1, <1>2, <1>3
<1>5. refreshInFlight = 0 /\ refreshInFlight' = n /\ joined' = [joined EXCEPT ![r] = n]
  BY <1>n DEF StartRefresh, NoRefresh
<1>6. joined' \in [Requests -> 0..n]
  BY <1>n, <1>3, <1>5 DEF TransportInv, TypeOK
<1>7. /\ token <= issued /\ issued' = issued /\ reuses' = reuses /\ token \in Nat
      /\ reuses = 0 => token = issued
  BY DEF TransportInv, TokenInv, TypeOK, owner
<1>8. \A f \in 1..Len(flights) :
        /\ ~Pending(f)' /\ (Issued(f)' <=> Issued(f))
        /\ flights'[f].from \in unfit'
        /\ flights'[f].from <= issued'
        /\ Issued(f)' => flights'[f].value # 0 /\ flights'[f].value <= issued'
        /\ reuses = 0 /\ Issued(f)' =>
             flights'[f].from < flights'[f].value /\ flights'[f].from # token
  <2> SUFFICES ASSUME NEW f \in 1..Len(flights)
               PROVE  /\ ~Pending(f)' /\ (Issued(f)' <=> Issued(f))
                      /\ flights'[f].from \in unfit'
                      /\ flights'[f].from <= issued'
                      /\ Issued(f)' => flights'[f].value # 0 /\ flights'[f].value <= issued'
                      /\ reuses = 0 /\ Issued(f)' =>
                           flights'[f].from < flights'[f].value /\ flights'[f].from # token
    OBVIOUS
  <2>1. flights[f] \in Flight /\ flights'[f] = flights[f]
    BY <1>3, <1>4
  <2>2. flights[f].from \in Nat /\ flights[f].value \in Nat
    BY <2>1, HttpAssumption DEF Flight
  <2>3. ~Pending(f) /\ flights[f].from \in unfit /\ flights[f].from <= issued
    BY <1>3, <1>5 DEF TransportInv, FlightsInv
  <2>4. /\ Issued(f) => flights[f].value # 0 /\ flights[f].value <= issued
        /\ reuses = 0 /\ Issued(f) => flights[f].from < flights[f].value
    BY DEF TransportInv, FlightsInv
  <2>5. ~Pending(f)' /\ (Issued(f)' <=> Issued(f))
    BY <1>3, <1>4, <2>1, <2>3 DEF Pending, Issued
  <2> QED
    BY <1>7, <2>1, <2>2, <2>3, <2>4, <2>5
<1>9. /\ Pending(n)' => refreshInFlight' = n
      /\ ~Issued(n)' /\ flights'[n].from = token
  BY <1>1, <1>4, <1>5 DEF Issued
<1>10. FlightsInv'
  <2> SUFFICES ASSUME NEW f \in 1..n
               PROVE  /\ Pending(f)' => refreshInFlight' = f
                      /\ flights'[f].from \in unfit'
                      /\ flights'[f].from <= issued'
                      /\ Issued(f)' => flights'[f].value # 0 /\ flights'[f].value <= issued'
                      /\ reuses' = 0 /\ Issued(f)' => flights'[f].from < flights'[f].value
                      /\ \A g \in 1..n :
                           reuses' = 0 /\ Issued(f)' /\ (Issued(g)' \/ Pending(g)') /\ f # g
                             => flights'[f].from # flights'[g].from
    BY <1>n, <1>4 DEF FlightsInv
  <2>1. CASE f = n
    BY <1>7, <1>9, <2>1
  <2>2. CASE f # n
    <3>1. f \in 1..Len(flights)
      BY <1>n, <1>3, <2>2
    <3>2. ASSUME NEW g \in 1..n, reuses' = 0, Issued(f)', Issued(g)' \/ Pending(g)', f # g
          PROVE  flights'[f].from # flights'[g].from
      <4>1. CASE g = n
        BY <1>7, <1>8, <1>9, <3>1, <3>2, <4>1
      <4>2. CASE g # n
        <5>1. g \in 1..Len(flights)
          BY <1>n, <1>3, <4>2
        <5>2. Issued(f) /\ Issued(g)
          BY <1>8, <3>1, <3>2, <5>1
        <5>3. flights[f].from # flights[g].from
          BY <1>7, <3>1, <3>2, <5>1, <5>2 DEF TransportInv, FlightsInv
        <5> QED
          BY <1>4, <3>1, <5>1, <5>3
      <4> QED
        BY <4>1, <4>2
    <3> QED
      BY <1>7, <1>8, <3>1, <3>2
  <2> QED
    BY <2>1, <2>2
<1> QED
  BY <1>n, <1>3, <1>4, <1>5, <1>6, <1>10

\* Whether it starts or joins a refresh, a request awaits one that exists.
LEMMA RefreshAwaited ==
  ASSUME TransportInv, NEW r \in Requests, StartRefresh(r) \/ JoinRefresh(r),
         UNCHANGED owner, token # 0, token \in unfit', unfit \subseteq unfit'
  PROVE  /\ flights' \in Seq(Flight)
         /\ Len(flights) <= Len(flights')
         /\ joined' \in [Requests -> 0..Len(flights')]
         /\ joined'[r] \in 1..Len(flights')
         /\ \A q \in Requests \ {r} : joined'[q] = joined[q]
         /\ refreshInFlight' \in 0..Len(flights')
         /\ FlightsInv'
<1>1. /\ Len(flights) \in Nat /\ joined \in [Requests -> 0..Len(flights)]
      /\ refreshInFlight \in 0..Len(flights) /\ flights \in Seq(Flight)
  BY DEF TransportInv, TypeOK
<1>2. CASE StartRefresh(r)
  <2>1. /\ flights' \in Seq(Flight) /\ Len(flights') = Len(flights) + 1
        /\ joined' \in [Requests -> 0..Len(flights')]
        /\ joined' = [joined EXCEPT ![r] = Len(flights')]
        /\ refreshInFlight' \in 0..Len(flights') /\ FlightsInv'
    BY <1>2, RefreshStarts
  <2> QED
    BY <1>1, <2>1
<1>3. CASE JoinRefresh(r)
  <2>1. /\ refreshInFlight # 0 /\ joined' = [joined EXCEPT ![r] = refreshInFlight]
        /\ UNCHANGED <<owner, refresh>>
    BY <1>3 DEF JoinRefresh, NoRefresh
  <2>2. FlightsInv'
    BY <2>1, RefreshesKept DEF TransportInv
  <2> QED
    BY <1>1, <2>1, <2>2 DEF refresh
<1> QED
  BY <1>2, <1>3

\* The whole invariant, for a request that turns to a refresh.
LEMMA AwaitStep ==
  ASSUME TransportInv, NEW r \in Requests, AdmitToRefresh(r) \/ Answer401(r)
  PROVE  TransportInv'
<1>1. AttemptInv' /\ BudgetInv'
  BY RequestAttempts DEF TransportInv
<1>2. UNCHANGED <<owner, config, method, skipAuth, attempt, sent, dispatches>>
  <2>1. CASE AdmitToRefresh(r)
    BY <2>1 DEF AdmitToRefresh
  <2>2. CASE Answer401(r)
    BY <2>2 DEF Answer401
  <2> QED
    BY <2>1, <2>2
<1>3. unfit \subseteq unfit' /\ unfit' \in SUBSET (0..MaxTokens)
  <2>1. CASE AdmitToRefresh(r)
    BY <2>1 DEF AdmitToRefresh, TransportInv, TypeOK
  <2>2. CASE Answer401(r)
    <3>1. unfit' = unfit \cup {sent[r]}
      BY <2>2 DEF Answer401
    <3> QED
      BY <3>1 DEF TransportInv, TypeOK
  <2> QED
    BY <2>1, <2>2
<1>4. TokenInv'
  BY <1>2, <1>3 DEF TransportInv, TokenInv, owner
<1>5. pc' \in [Requests -> Places] /\ retried401' \in [Requests -> BOOLEAN]
  BY DEF AdmitToRefresh, Answer401, AwaitRefresh, Goto, Places, TransportInv, TypeOK
<1>6. \A q \in Requests \ {r} : pc'[q] = pc[q]
  BY DEF AdmitToRefresh, Answer401, AwaitRefresh, Goto, TransportInv, TypeOK
<1>7. CASE pc'[r] = "admission" /\ UNCHANGED <<joined, refresh>>
  <2>1. TypeOK'
    BY <1>2, <1>3, <1>5, <1>7 DEF TransportInv, TypeOK, owner, config, refresh
  <2>2. JoinedInv'
    BY <1>2, <1>6, <1>7 DEF TransportInv, JoinedInv, config, refresh
  <2>3. FlightsInv'
    BY <1>2, <1>3, <1>7, RefreshesKept DEF TransportInv
  <2> QED
    BY <1>1, <1>4, <2>1, <2>2, <2>3 DEF TransportInv
<1>8. CASE /\ pc'[r] \in {"refreshing", "refreshing401"}
           /\ StartRefresh(r) \/ JoinRefresh(r)
           /\ token # 0 /\ token \in unfit'
  <2>1. /\ flights' \in Seq(Flight) /\ Len(flights) <= Len(flights')
        /\ joined' \in [Requests -> 0..Len(flights')]
        /\ joined'[r] \in 1..Len(flights')
        /\ \A q \in Requests \ {r} : joined'[q] = joined[q]
        /\ refreshInFlight' \in 0..Len(flights') /\ FlightsInv'
    BY <1>2, <1>3, <1>8, RefreshAwaited
  <2>2. TypeOK'
    BY <1>2, <1>3, <1>5, <2>1 DEF TransportInv, TypeOK, owner, config
  <2>3. JoinedInv'
    <3>1. Len(flights) \in Nat /\ Len(flights') \in Nat
      BY <2>1 DEF TransportInv, TypeOK
    <3> SUFFICES ASSUME NEW q \in Requests
                 PROVE  /\ pc'[q] \in {"refreshing", "refreshing401"} =>
                             joined'[q] \in 1..Len(flights')
                        /\ pc'[q] = "fetching" /\ ~skipAuth'[q] /\ auth' = "oauth2" =>
                             sent'[q] # 0
      BY DEF JoinedInv
    <3>2. CASE q = r
      BY <1>8, <2>1, <3>2
    <3>3. CASE q # r
      <4>1. pc'[q] = pc[q] /\ joined'[q] = joined[q]
        BY <1>6, <2>1, <3>3
      <4> QED
        BY <1>2, <2>1, <3>1, <4>1 DEF TransportInv, JoinedInv, config
    <3> QED
      BY <3>2, <3>3
  <2> QED
    BY <1>1, <1>4, <2>1, <2>2, <2>3 DEF TransportInv
<1>9. CASE AdmitToRefresh(r)
  <2>1. pc' = [pc EXCEPT ![r] = "refreshing"] /\ (StartRefresh(r) \/ JoinRefresh(r))
    BY <1>9 DEF AdmitToRefresh, AwaitRefresh, Goto
  <2>2. token # 0 /\ token \in unfit'
    BY <1>9 DEF AdmitToRefresh, TransportInv, TokenInv
  <2> QED
    BY <1>8, <1>9, <2>1, <2>2 DEF AdmitToRefresh, AwaitRefresh, Goto, TransportInv, TypeOK
<1>10. CASE Answer401(r)
  <2>1. CASE SentCurrent(r) /\ AwaitRefresh(r, "refreshing401")
    <3>1. token = sent[r] /\ token \in unfit'
      BY <1>10, <2>1 DEF Answer401, SentCurrent
    <3>2. sent[r] # 0
      BY <1>10 DEF Answer401, MayRefreshOn401, TransportInv, JoinedInv
    <3>3. pc'[r] = "refreshing401" /\ (StartRefresh(r) \/ JoinRefresh(r))
      BY <2>1 DEF AwaitRefresh, Goto, TransportInv, TypeOK
    <3> QED
      BY <1>8, <2>1, <3>1, <3>2, <3>3 DEF AwaitRefresh, Goto, TransportInv, TypeOK
  <2>2. CASE Goto(r, "admission") /\ UNCHANGED <<joined, refresh>>
    BY <1>7, <2>2 DEF Goto, TransportInv, TypeOK
  <2> QED
    BY <1>10, <2>1, <2>2 DEF Answer401
<1> QED
  BY <1>9, <1>10

-----------------------------------------------------------------------------
(* The steps of the owner.                                                 *)

\* They change no request, so what is known of requests survives.
LEMMA RequestsKept ==
  ASSUME TransportInv, UNCHANGED <<request, auth>>, Len(flights') = Len(flights)
  PROVE  AttemptInv' /\ BudgetInv' /\ JoinedInv'
BY DEF TransportInv, AttemptInv, BudgetInv, JoinedInv, Budget, Retries, Dispatched, request

\* What becomes of the refreshes when one of them changes.
LEMMA FlightChanged ==
  ASSUME TypeOK, NEW f \in 1..Len(flights), NEW how \in Outcomes, NEW value \in 0..MaxTokens,
         flights' = [flights EXCEPT ![f].how = how, ![f].value = value]
  PROVE  /\ flights' \in Seq(Flight) /\ Len(flights') = Len(flights)
         /\ flights'[f].how = how
         /\ flights'[f].from = flights[f].from /\ flights'[f].value = value
         /\ \A g \in 1..Len(flights) : g # f => flights'[g] = flights[g]
<1> DEFINE mid == [flights[f] EXCEPT !.how = how]
           new == [mid EXCEPT !.value = value]
<1>1. flights \in Seq(Flight) /\ flights[f] \in Flight
  BY DEF TypeOK
<1>2. mid \in Flight /\ mid.from = flights[f].from /\ mid.how = how
  BY <1>1 DEF Flight
<1>3. flights' = [flights EXCEPT ![f] = new]
  BY <1>1 DEF Flight
<1> HIDE DEF mid
<1>4. new \in Flight /\ new.from = mid.from /\ new.how = mid.how /\ new.value = value
  BY <1>2 DEF Flight
<1> QED
  BY <1>1, <1>2, <1>3, <1>4

\* A refresh that gets a pair gets one that is later than all others.
LEMMA OwnerIssuesStep ==
  ASSUME TransportInv, NEW f \in 1..Len(flights), OwnerIssues(f)
  PROVE  TransportInv'
<1>1. /\ flights \in Seq(Flight) /\ Len(flights) \in Nat
      /\ issued \in 0..MaxTokens /\ token \in 0..MaxTokens
      /\ reuses \in Nat /\ issued + reuses < MaxTokens
  BY DEF OwnerIssues, NewPair, TransportInv, TypeOK
<1>2. /\ issued' = issued + 1 /\ token' = issued + 1 /\ ~expired' /\ expired' \in BOOLEAN
      /\ reuses' = reuses
      /\ flights' = [flights EXCEPT ![f].how = "issued", ![f].value = issued + 1]
      /\ UNCHANGED <<request, config, refreshInFlight, unfit>>
      /\ flights[f].how = "pending" /\ Pending(f)
  BY DEF OwnerIssues, NewPair
<1>3. issued + 1 \in 1..MaxTokens
  BY <1>1, HttpAssumption
<1>5. /\ flights' \in Seq(Flight) /\ Len(flights') = Len(flights)
      /\ flights'[f].from = flights[f].from
      /\ flights'[f].how = "issued" /\ flights'[f].value = issued + 1
      /\ \A g \in 1..Len(flights) : g # f => flights'[g] = flights[g]
  <2>1. issued + 1 \in 0..MaxTokens /\ "issued" \in Outcomes
    BY <1>3 DEF Outcomes
  <2> QED
    BY <1>2, <2>1, FlightChanged DEF TransportInv
<1>6. AttemptInv' /\ BudgetInv' /\ JoinedInv'
  BY <1>2, <1>5, RequestsKept DEF config
<1>7. TypeOK'
  <2>1. /\ token' \in 0..MaxTokens /\ issued' \in 0..MaxTokens
        /\ reuses' \in Nat /\ issued' + reuses' <= MaxTokens
    BY <1>1, <1>2, <1>3, HttpAssumption
  <2> QED
    BY <1>2, <1>5, <2>1 DEF TransportInv, TypeOK, request, config
<1>8. TokenInv'
  BY <1>1, <1>2 DEF TokenInv
<1>9. FlightsInv'
  <2>1. \A g \in 1..Len(flights) :
          /\ g # f => ~Pending(g) /\ ~Pending(g)' /\ (Issued(g)' <=> Issued(g))
          /\ flights'[g].from = flights[g].from /\ flights[g].from \in Nat
          /\ flights[g].value \in Nat
    <3> SUFFICES ASSUME NEW g \in 1..Len(flights)
                 PROVE  /\ g # f => /\ ~Pending(g) /\ ~Pending(g)'
                                    /\ (Issued(g)' <=> Issued(g))
                        /\ flights'[g].from = flights[g].from /\ flights[g].from \in Nat
                        /\ flights[g].value \in Nat
      OBVIOUS
    <3>1. flights[g] \in Flight
      BY <1>1
    <3>2. flights[g].from \in Nat /\ flights[g].value \in Nat
      BY <3>1, HttpAssumption DEF Flight
    <3>3. g # f => ~Pending(g)
      BY <1>2 DEF TransportInv, FlightsInv
    <3> QED
      BY <1>1, <1>5, <3>2, <3>3 DEF Pending, Issued
  <2>2. Pending(f) /\ Issued(f)' /\ refreshInFlight = f /\ flights[f].from <= issued
    BY <1>2, <1>5 DEF TransportInv, FlightsInv, Issued
  <2> SUFFICES ASSUME NEW g \in 1..Len(flights)
               PROVE  /\ Pending(g)' => refreshInFlight' = g
                      /\ flights'[g].from \in unfit'
                      /\ flights'[g].from <= issued'
                      /\ Issued(g)' => flights'[g].value # 0 /\ flights'[g].value <= issued'
                      /\ reuses' = 0 /\ Issued(g)' => flights'[g].from < flights'[g].value
                      /\ \A h \in 1..Len(flights) :
                           reuses' = 0 /\ Issued(g)' /\ (Issued(h)' \/ Pending(h)') /\ g # h
                             => flights'[g].from # flights'[h].from
    BY <1>5 DEF FlightsInv
  <2>3. /\ flights'[g].from \in unfit'
        /\ flights'[g].from <= issued'
        /\ Pending(g)' => refreshInFlight' = g
    BY <1>1, <1>2, <2>1, <2>2 DEF TransportInv, FlightsInv
  <2>4. /\ Issued(g)' => flights'[g].value # 0 /\ flights'[g].value <= issued'
        /\ reuses' = 0 /\ Issued(g)' => flights'[g].from < flights'[g].value
    <3>1. CASE g = f
      BY <1>1, <1>2, <1>5, <2>1, <2>2, <3>1
    <3>2. CASE g # f
      BY <1>1, <1>2, <1>5, <2>1, <3>2 DEF TransportInv, FlightsInv
    <3> QED
      BY <3>1, <3>2
  <2>5. ASSUME NEW h \in 1..Len(flights), reuses' = 0, Issued(g)', Issued(h)' \/ Pending(h)', g # h
        PROVE  flights'[g].from # flights'[h].from
    <3>1. flights'[g].from = flights[g].from /\ flights'[h].from = flights[h].from
      BY <2>1
    <3>2. CASE g = f
      <4>1. Issued(h) /\ Pending(g)
        BY <2>1, <2>2, <2>5, <3>2
      <4> QED
        BY <1>2, <2>5, <3>1, <4>1 DEF TransportInv, FlightsInv
    <3>3. CASE g # f
      <4>1. Issued(g) /\ (Issued(h) \/ Pending(h))
        BY <2>1, <2>2, <2>5, <3>3
      <4> QED
        BY <1>2, <2>5, <3>1, <4>1 DEF TransportInv, FlightsInv
    <3> QED
      BY <3>2, <3>3
  <2> QED
    BY <2>3, <2>4, <2>5
<1> QED
  BY <1>6, <1>7, <1>8, <1>9 DEF TransportInv

\* A refresh that settles leaves none pending and keeps what was exchanged.
LEMMA OwnerSettlesStep ==
  ASSUME TransportInv, NEW f \in 1..Len(flights),
         OwnerResolves(f) \/ OwnerRepeats(f) \/ OwnerRejects(f)
  PROVE  TransportInv'
<1>1. /\ flights \in Seq(Flight) /\ Len(flights) \in Nat /\ flights[f] \in Flight
      /\ issued \in 0..MaxTokens /\ MaxTokens \in Nat
      /\ reuses \in Nat /\ issued + reuses <= MaxTokens
  BY HttpAssumption DEF TransportInv, TypeOK
<1>2. /\ UNCHANGED <<request, token, expired, issued, config, unfit>>
      /\ reuses' \in Nat /\ issued + reuses' <= MaxTokens /\ (reuses' = 0 => reuses = 0)
  BY <1>1 DEF OwnerResolves, OwnerRepeats, OwnerRejects, Reuse, owner
<1>3. PICK how \in {"resolved", "refused", "failed"}, value \in 0..MaxTokens :
        /\ Settle(f, how, value) /\ Pending(f)
        /\ how = "resolved" => value # 0 /\ value <= issued
        /\ how = "resolved" /\ reuses' = 0 => Issued(f) /\ value = flights[f].value
  <2>1. CASE OwnerResolves(f)
    <3>1. Settle(f, "resolved", flights[f].value) /\ Pending(f) /\ Issued(f)
      BY <2>1 DEF OwnerResolves, Issued
    <3>2. /\ flights[f].value \in 0..MaxTokens
          /\ flights[f].value # 0 /\ flights[f].value <= issued
      BY <1>1, <3>1 DEF Flight, TransportInv, FlightsInv
    <3> QED
      BY <3>1, <3>2
  <2>2. CASE OwnerRepeats(f)
    <3>1. PICK held \in 1..issued : Settle(f, "resolved", held)
      BY <2>2 DEF OwnerRepeats
    <3>2. Pending(f) /\ reuses' # 0
      BY <1>1, <2>2 DEF OwnerRepeats, Reuse
    <3>3. held \in 0..MaxTokens /\ held # 0 /\ held <= issued
      BY <1>1
    <3> QED
      BY <3>1, <3>2, <3>3
  <2>3. CASE OwnerRejects(f)
    BY <1>1, <2>3 DEF OwnerRejects
  <2> QED
    BY <2>1, <2>2, <2>3
<1>4. /\ flights' \in Seq(Flight) /\ Len(flights') = Len(flights)
      /\ flights'[f].how = how
      /\ flights'[f].from = flights[f].from /\ flights'[f].value = value
      /\ \A g \in 1..Len(flights) : g # f => flights'[g] = flights[g]
  BY <1>3, FlightChanged DEF Settle, TransportInv, Outcomes
<1>5. AttemptInv' /\ BudgetInv' /\ JoinedInv'
  BY <1>2, <1>4, RequestsKept DEF config
<1>6. refreshInFlight' = 0
  BY <1>3 DEF Settle
<1>7. TypeOK'
  <2>1. reuses' \in Nat /\ issued' + reuses' <= MaxTokens
    BY <1>2
  <2> QED
    BY <1>2, <1>4, <1>6, <2>1 DEF TransportInv, TypeOK, request, config
<1>8. TokenInv'
  BY <1>2 DEF TransportInv, TokenInv
<1>9. FlightsInv'
  <2>1. \A g \in 1..Len(flights) :
          /\ flights'[g].from = flights[g].from
          /\ ~Pending(g)'
          /\ Issued(g)' => flights'[g].value # 0 /\ flights'[g].value <= issued
          /\ reuses' = 0 /\ Issued(g)' => Issued(g) /\ flights'[g].value = flights[g].value
    <3> SUFFICES ASSUME NEW g \in 1..Len(flights)
                 PROVE  /\ flights'[g].from = flights[g].from
                        /\ ~Pending(g)'
                        /\ Issued(g)' => flights'[g].value # 0 /\ flights'[g].value <= issued
                        /\ reuses' = 0 /\ Issued(g)' =>
                             Issued(g) /\ flights'[g].value = flights[g].value
      OBVIOUS
    <3>1. CASE g = f
      BY <1>3, <1>4, <3>1 DEF Pending, Issued
    <3>2. CASE g # f
      <4>1. ~Pending(g)
        BY <1>3, <3>2 DEF TransportInv, FlightsInv
      <4> QED
        BY <1>4, <3>2, <4>1 DEF Pending, Issued, TransportInv, FlightsInv
    <3> QED
      BY <3>1, <3>2
  <2> QED
    BY <1>2, <1>4, <2>1 DEF TransportInv, FlightsInv
<1> QED
  BY <1>5, <1>7, <1>8, <1>9 DEF TransportInv

\* Logins, logouts, expiries, pairs that come back and a new callback preserve
\* the invariant.
LEMMA OwnerKeepsInv ==
  ASSUME TransportInv, Login \/ TakeBack \/ Logout \/ TokenExpires \/ SetTokenRefreshCallback
  PROVE  TransportInv'
<1>1. /\ UNCHANGED <<request, auth, refresh>> /\ Len(flights') = Len(flights)
      /\ unfit \subseteq unfit'
  BY DEF Login, TakeBack, Logout, TokenExpires, SetTokenRefreshCallback, refresh, config
<1>2. AttemptInv' /\ BudgetInv' /\ JoinedInv'
  BY <1>1, RequestsKept
<1>3. TypeOK' /\ TokenInv' /\ issued <= issued' /\ (reuses' = 0 => reuses = 0)
  <2>1. /\ issued \in 0..MaxTokens /\ MaxTokens \in Nat /\ token \in 0..MaxTokens
        /\ reuses \in Nat /\ issued + reuses <= MaxTokens
    BY HttpAssumption DEF TransportInv, TypeOK
  <2>2. CASE Login
    <3>1. /\ issued' = issued + 1 /\ issued + reuses < MaxTokens /\ token' = issued + 1
          /\ ~expired' /\ expired' \in BOOLEAN /\ reuses' = reuses
          /\ UNCHANGED <<request, config, refresh, unfit>>
      BY <2>2 DEF Login, NewPair
    <3>2. issued' \in 0..MaxTokens /\ issued' + reuses' <= MaxTokens /\ token' \in 0..MaxTokens
      BY <2>1, <3>1
    <3> QED
      BY <2>1, <3>1, <3>2
      DEF TransportInv, TypeOK, TokenInv, request, config, refresh
  <2>6. CASE TakeBack
    <3>1. /\ token' \in 1..issued /\ expired' \in BOOLEAN
          /\ expired' => token' \in unfit
          /\ reuses' = reuses + 1 /\ issued + reuses < MaxTokens /\ issued' = issued
          /\ UNCHANGED <<request, config, refresh, unfit>>
      BY <2>6 DEF TakeBack, Reuse
    <3>2. /\ reuses' \in Nat /\ issued + reuses' <= MaxTokens /\ reuses' # 0
          /\ token' \in 0..MaxTokens /\ token' <= issued
      BY <2>1, <3>1
    <3> QED
      BY <2>1, <3>1, <3>2 DEF TransportInv, TypeOK, TokenInv, request, config, refresh
  <2>3. CASE Logout
    <3>1. /\ token' = 0 /\ ~expired' /\ expired' \in BOOLEAN
          /\ UNCHANGED <<request, issued, reuses, config, refresh, unfit>>
      BY <2>3 DEF Logout
    <3> QED
      BY <2>1, <3>1 DEF TransportInv, TypeOK, TokenInv, request, config, refresh
  <2>4. CASE TokenExpires
    BY <2>1, <2>4 DEF TokenExpires, TransportInv, TypeOK, TokenInv, request, config, refresh
  <2>5. CASE SetTokenRefreshCallback
    BY <2>1, <2>5
    DEF SetTokenRefreshCallback, TransportInv, TypeOK, TokenInv, request, owner, refresh
  <2> QED
    BY <2>2, <2>3, <2>4, <2>5, <2>6
<1>4. FlightsInv'
  <2> SUFFICES ASSUME NEW f \in 1..Len(flights)
               PROVE  /\ flights[f].from <= issued'
                      /\ Issued(f) => flights[f].value <= issued'
    BY <1>1, <1>3 DEF TransportInv, FlightsInv, Pending, Issued, refresh
  <2>1. flights[f] \in Flight
    BY DEF TransportInv, TypeOK
  <2>2. flights[f].from \in Nat /\ flights[f].value \in Nat
    BY <2>1, HttpAssumption DEF Flight
  <2>3. issued \in Nat /\ issued' \in Nat
    BY <1>3 DEF TransportInv, TypeOK
  <2> QED
    BY <1>3, <2>2, <2>3 DEF TransportInv, FlightsInv
<1> QED
  BY <1>2, <1>3, <1>4 DEF TransportInv

-----------------------------------------------------------------------------
(* The invariant holds, and what follows from it.                          *)

\* Every step preserves the invariant.
LEMMA TransportStep == TransportInv /\ [Next]_vars => TransportInv'
<1> SUFFICES ASSUME TransportInv, [Next]_vars PROVE TransportInv'
  OBVIOUS
<1>1. CASE \E r \in Requests :
             Issue(r) \/ Admit(r) \/ Answer(r) \/ AfterRefresh(r) \/ AfterDelay(r)
  BY <1>1, RequestKeepsInv, AwaitStep DEF Admit, Answer, AfterRefresh, AfterDelay
<1>2. CASE \E f \in 1..Len(flights) : OwnerSettles(f)
  BY <1>2, OwnerIssuesStep, OwnerSettlesStep DEF OwnerSettles
<1>3. CASE Login \/ TakeBack \/ Logout \/ TokenExpires \/ SetTokenRefreshCallback
  BY <1>3, OwnerKeepsInv
<1>4. CASE UNCHANGED vars
  <2>1. AttemptInv' /\ BudgetInv' /\ JoinedInv'
    BY <1>4, RequestsKept DEF vars, config, refresh
  <2>2. TokenInv' /\ FlightsInv'
    BY <1>4, RefreshesKept DEF vars, TransportInv
  <2>3. TypeOK'
    BY <1>4 DEF vars, request, owner, config, refresh, TransportInv, TypeOK
  <2> QED
    BY <2>1, <2>2, <2>3 DEF TransportInv
<1> QED
  BY <1>1, <1>2, <1>3, <1>4 DEF Next

\* The invariant of the transport holds throughout.
LEMMA TransportInvHolds == Spec => []TransportInv
BY TransportInvInit, TransportStep, PTL DEF Spec

\* The fields of the transport keep their types.
THEOREM TransportTypeCorrect == Spec => []TypeOK
<1>1. TransportInv => TypeOK
  BY DEF TransportInv
<1> QED
  BY <1>1, TransportInvHolds, PTL

\* Writes are never replayed, whatever the number of retries.
THEOREM WritesAreSentOnce == Spec => []WritesSentOnce
<1>1. TransportInv => WritesSentOnce
  <2> SUFFICES ASSUME TransportInv, NEW r \in Requests, method[r] = "WRITE"
               PROVE  dispatches[r] <= 1
    BY DEF WritesSentOnce
  <2>1. attempt[r] \in Nat /\ dispatches[r] \in Nat
    BY HttpAssumption DEF TransportInv, TypeOK
  <2>2. attempt[r] = 0 /\ ~retried401[r]
    BY <2>1 DEF TransportInv, AttemptInv, Retries
  <2>3. Budget(r) = 0
    BY <2>2 DEF Budget
  <2> QED
    BY <2>1, <2>3 DEF TransportInv, BudgetInv
<1> QED
  BY <1>1, TransportInvHolds, PTL

\* The attempt a 401 gives back costs one dispatch and no more.
THEOREM DispatchesAreBounded == Spec => []DispatchesBounded
<1>1. TransportInv => DispatchesBounded
  <2> SUFFICES ASSUME TransportInv, NEW r \in Requests
               PROVE  dispatches[r] <= MaxRetries + 2
    BY DEF DispatchesBounded
  <2>1. attempt[r] \in 0..MaxRetries /\ dispatches[r] \in Nat
    BY DEF TransportInv, TypeOK
  <2>2. Budget(r) <= MaxRetries + 1 /\ Budget(r) \in Nat
    BY <2>1, HttpAssumption DEF Budget
  <2> QED
    BY <2>1, <2>2, HttpAssumption DEF TransportInv, BudgetInv
<1> QED
  BY <1>1, TransportInvHolds, PTL

\* Requests share their refreshes, exchange no pair twice, and exchange only
\* pairs that expired or were refused.
THEOREM RefreshesAreShared == Spec => [](OneRefreshAtATime /\ OneRefreshPerPair /\ RefreshesNeeded)
<1>1. TransportInv => OneRefreshAtATime /\ OneRefreshPerPair /\ RefreshesNeeded
  BY DEF TransportInv, FlightsInv, OneRefreshAtATime, OneRefreshPerPair, RefreshesNeeded, Issued, Pending
<1> QED
  BY <1>1, TransportInvHolds, PTL

\* A step that changes the refreshes starts one, or is the owner's.
LEMMA RefreshCases ==
  ASSUME [Next]_vars
  PROVE  \/ UNCHANGED refresh
         \/ \E r \in Requests : StartRefresh(r)
         \/ \E f \in 1..Len(flights) :
              OwnerIssues(f) \/ OwnerResolves(f) \/ OwnerRepeats(f) \/ OwnerRejects(f)
<1>1. ASSUME NEW r \in Requests,
             Issue(r) \/ Admit(r) \/ Answer(r) \/ AfterRefresh(r) \/ AfterDelay(r)
      PROVE  UNCHANGED refresh \/ StartRefresh(r)
  <2>1. CASE Issue(r) \/ Admit(r)
    BY <2>1 DEF Issue, Admit, AdmitUnauthenticated, AdmitWithToken, AdmitToRefresh,
       AdmitUnauthorized, AdmissionFails, AwaitRefresh, JoinRefresh
  <2>2. CASE Answer(r)
    BY <2>2 DEF Answer, AnswerFinal, AnswerTransient, AnswerLost, Answer401, Answer401Final,
       AwaitRefresh, JoinRefresh
  <2>3. CASE AfterRefresh(r) \/ AfterDelay(r)
    BY <2>3 DEF AfterRefresh, Refreshed, RefreshedAfter401, RefreshFailed, AfterDelay,
       NextAttempt, DelayFails
  <2> QED
    BY <1>1, <2>1, <2>2, <2>3
<1>2. CASE Login \/ TakeBack \/ Logout \/ TokenExpires \/ SetTokenRefreshCallback
  BY <1>2 DEF Login, TakeBack, Logout, TokenExpires, SetTokenRefreshCallback
<1>3. CASE UNCHANGED vars
  BY <1>3 DEF vars
<1> QED
  BY <1>1, <1>2, <1>3 DEF Next, OwnerSettles

\* The field names a refresh that is pending, or none, and a request that awaits a
\* refresh awaits one that is pending or that has ended: the halves of
\* RefreshRecovers and of RequestsSettle that say what there is to wait for.
NobodyForgotten ==
  /\ refreshInFlight # 0 => Pending(refreshInFlight)
  /\ \A r \in Requests : pc[r] \in {"refreshing", "refreshing401"} =>
       /\ joined[r] \in 1..Len(flights)
       /\ Pending(joined[r]) \/ flights[joined[r]].how \in {"resolved", "refused", "failed"}

\* If its callback returns a promise, a refresh, even one that is refused, makes
\* way for a later one.  A callback that throws leaves its rejected promise in
\* the field, and there is no later refresh: that is the violation that
\* RefreshRecovers comes to then.
THEOREM RefreshesMakeWay == ASSUME ThrowingOwner = FALSE PROVE Spec => []NobodyForgotten
<1> DEFINE Named == refreshInFlight # 0 => Pending(refreshInFlight)
<1>1. Init => Named
  BY DEF Init
<1>2. TransportInv /\ Named /\ [Next]_vars => Named'
  <2> SUFFICES ASSUME TransportInv, Named, [Next]_vars PROVE Named'
    OBVIOUS
  <2> USE DEF TransportInv, TypeOK
  <2>1. CASE UNCHANGED refresh
    BY <2>1 DEF refresh, Pending
  <2>2. ASSUME NEW r \in Requests, StartRefresh(r) PROVE Named'
    BY <2>2 DEF StartRefresh, Pending
  <2>3. ASSUME NEW f \in 1..Len(flights), OwnerIssues(f) PROVE Named'
    <3>1. UNCHANGED refreshInFlight /\ issued + 1 \in 0..MaxTokens
      BY <2>3, HttpAssumption DEF OwnerIssues, NewPair
    <3>2. /\ Len(flights') = Len(flights) /\ flights'[f].how = "issued"
          /\ \A g \in 1..Len(flights) : g # f => flights'[g] = flights[g]
      BY <2>3, <3>1, FlightChanged DEF OwnerIssues, Outcomes
    <3> QED
      BY <3>1, <3>2 DEF Pending
  <2>4. ASSUME NEW f \in 1..Len(flights), OwnerResolves(f) \/ OwnerRepeats(f) \/ OwnerRejects(f)
        PROVE  Named'
    BY <2>4 DEF OwnerResolves, OwnerRepeats, OwnerRejects, Settle
  <2>5. \/ UNCHANGED refresh
        \/ \E r \in Requests : StartRefresh(r)
        \/ \E f \in 1..Len(flights) :
             OwnerIssues(f) \/ OwnerResolves(f) \/ OwnerRepeats(f) \/ OwnerRejects(f)
    BY RefreshCases
  <2> QED
    BY <2>1, <2>2, <2>3, <2>4, <2>5
<1>3. TransportInv /\ Named => NobodyForgotten
  <2> SUFFICES ASSUME TransportInv, NEW r \in Requests,
                      pc[r] \in {"refreshing", "refreshing401"}
               PROVE  /\ joined[r] \in 1..Len(flights)
                      /\ \/ Pending(joined[r])
                         \/ flights[joined[r]].how \in {"resolved", "refused", "failed"}
    BY DEF NobodyForgotten
  <2>1. joined[r] \in 1..Len(flights)
    BY DEF TransportInv, JoinedInv
  <2>2. flights[joined[r]].how \in Outcomes
    <3>1. flights[joined[r]] \in Flight
      BY <2>1 DEF TransportInv, TypeOK
    <3> QED
      BY <3>1 DEF Flight
  <2> QED
    BY <2>1, <2>2 DEF Outcomes, Pending
<1> QED
  BY <1>1, <1>2, <1>3, TransportInvHolds, PTL DEF Spec
=============================================================================
