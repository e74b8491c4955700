---------------------------- MODULE TokenSession ----------------------------
(***************************************************************************)
(* The OAuth 2.0 session of YahooFantasySportsClient (yahoo.ts): the       *)
(* tokens in memory, the application's TokenStorage, and the calls that    *)
(* change them: authenticate, loadTokens, logout, and refresh, manual      *)
(* (refreshToken) or automatic (the callback given to HttpClient), which   *)
(* share one refresh in flight.                                            *)
(*                                                                         *)
(* An action is the code between two awaits.  A token request or a storage *)
(* call is in progress from the step that makes it to the step in which    *)
(* its promise settles, and any other call may run in between.  The        *)
(* process may die at any moment and be started again over the same        *)
(* storage.                                                                *)
(***************************************************************************)
EXTENDS Integers, FiniteSets

CONSTANTS
  Calls,       \* the calls the application and the transport make
  Kinds,       \* which of AllKinds they are
  Exclusive,   \* the kinds the application awaits alone, see Make
  LoadFirst,   \* whether loadTokens precedes the first refresh, see Make
  Seed,        \* the login of the tokens given to the constructor
  Seeded,      \* whether the constructor is given tokens
  HasStorage,  \* whether a TokenStorage was given to the constructor
  None,        \* undefined
  MaxGen,      \* bound: refreshes that succeed per login
  MaxRestarts  \* bound: how often the process dies

AllKinds == {"authenticate", "load", "refresh", "logout"}

ASSUME SessionAssumption ==
  /\ Kinds \subseteq AllKinds /\ Exclusive \subseteq AllKinds
  /\ Seed \notin Calls
  /\ None \notin Calls
  /\ LoadFirst \in BOOLEAN /\ Seeded \in BOOLEAN /\ HasStorage \in BOOLEAN
  /\ MaxGen \in Nat /\ MaxRestarts \in Nat

(***************************************************************************)
(* A pair of tokens is known by the login it stems from (the authenticate  *)
(* call that obtained it) and by how many refreshes separate it from that  *)
(* login.                                                                  *)
(***************************************************************************)
Pair == [login : Calls \cup {Seed}, gen : 0..MaxGen]

ASSUME NoneAssumption == None \notin Pair

VARIABLES
  pc,               \* pc[o]: where call o stands
  kind,             \* kind[o]: which method call o is, None before the call
  tokens,           \* this.tokens
  stored,           \* what the storage holds
  refreshInFlight,  \* this.refreshInFlight, named by the call that set it
  flight,           \* flight[o]: how far the refresh that o started is
  presented,        \* presented[o]: the pair whose refresh token it presents
  joined,           \* joined[o]: the refresh that call o awaits
  result,           \* result[o]: the pair o was issued, or read from storage
  restarts,         \* how often the process died
  spent,            \* history: pairs refreshed by this process
  loggedOut,        \* history: the last logout, provided that no authenticate
                    \* or loadTokens was in progress then or was called since
  landed            \* history: the last storage write of this process succeeded

refresh == <<refreshInFlight, flight, presented, joined>>
history == <<spent, loggedOut, landed>>
vars == <<pc, kind, tokens, stored, refresh, result, restarts, history>>

InProgress == {"exchanging", "loading", "loaded", "saving", "awaiting", "clearing"}
Active(f) == flight[f] \in {"requesting", "saving"}

-----------------------------------------------------------------------------
\* The tokens of the configuration, if any.
SeedTokens == IF Seeded THEN [login |-> Seed, gen |-> 0] ELSE None

Init ==
  /\ pc = [o \in Calls |-> "idle"]
  /\ kind = [o \in Calls |-> None]
  /\ tokens = SeedTokens
  /\ stored \in IF HasStorage THEN {None, [login |-> Seed, gen |-> 0]} ELSE {None}
  /\ refreshInFlight = None
  /\ flight = [o \in Calls |-> "none"]
  /\ presented = [o \in Calls |-> None]
  /\ joined = [o \in Calls |-> None]
  /\ result = [o \in Calls |-> None]
  /\ restarts = 0
  /\ spent = {}
  /\ loggedOut = None
  /\ landed = FALSE

Goto(o, place) == pc' = [pc EXCEPT ![o] = place]

\* An exclusive call is made while no other is in progress, and awaited
\* before the next one is made.  LoadFirst is the documented startup order,
\* loadTokens() before authenticated requests.
Make(o, k) ==
  /\ pc[o] = "idle"
  /\ k \in Kinds
  /\ k \in Exclusive => \A p \in Calls : pc[p] \notin InProgress
  /\ \A p \in Calls : pc[p] \in InProgress => kind[p] \notin Exclusive
  /\ k = "load" /\ LoadFirst => spent = {}
  /\ kind' = [kind EXCEPT ![o] = k]

\* Mutant: setTokens saves the pair and forgets to keep it.
SetTokensOnlySaved(o, pair) ==
  /\ tokens' = tokens
  /\ result' = [result EXCEPT ![o] = pair]

\* The synchronous part of setTokens: memory is updated before the save is.
SetTokens(o, pair) ==
  /\ tokens' = pair
  /\ result' = [result EXCEPT ![o] = pair]

-----------------------------------------------------------------------------
CallAuthenticate(o) ==
  /\ Make(o, "authenticate")
  /\ Goto(o, "exchanging")
  /\ loggedOut' = None
  /\ UNCHANGED <<tokens, stored, refresh, result, restarts, spent, landed>>

\* The code is exchanged for the first pair of a new login.
CodeExchanged(o) ==
  /\ pc[o] = "exchanging"
  /\ SetTokens(o, [login |-> o, gen |-> 0])
  /\ Goto(o, "saving")
  /\ UNCHANGED <<kind, stored, refresh, restarts, history>>

CodeRefused(o) ==
  /\ pc[o] = "exchanging"
  /\ Goto(o, "failed")
  /\ UNCHANGED <<kind, tokens, stored, refresh, result, restarts, history>>

CallLoad(o) ==
  /\ Make(o, "load")
  /\ Goto(o, IF HasStorage THEN "loading" ELSE "done")
  /\ loggedOut' = None
  /\ UNCHANGED <<tokens, stored, refresh, result, restarts, spent, landed>>

\* The storage reads its contents; its promise settles later.
StorageRead(o) ==
  /\ pc[o] = "loading"
  /\ result' = [result EXCEPT ![o] = stored]
  /\ Goto(o, "loaded")
  /\ UNCHANGED <<kind, tokens, stored, refresh, restarts, history>>

LoadFails(o) ==
  /\ pc[o] = "loading"
  /\ Goto(o, "failed")
  /\ UNCHANGED <<kind, tokens, stored, refresh, result, restarts, history>>

\* loadTokens continues with what was read, and saves it back.
LoadReturns(o) ==
  /\ pc[o] = "loaded"
  /\ \/ /\ result[o] = None
        /\ Goto(o, "done")
        /\ UNCHANGED <<tokens, result>>
     \/ /\ result[o] # None
        /\ SetTokens(o, result[o])
        /\ Goto(o, "saving")
  /\ UNCHANGED <<kind, stored, refresh, restarts, history>>

\* The save of authenticate or loadTokens settles (at once without storage).
CallSaved(o) ==
  /\ pc[o] = "saving"
  /\ Goto(o, "done")
  /\ stored' = IF HasStorage THEN result[o] ELSE stored
  /\ landed' = HasStorage
  /\ UNCHANGED <<kind, tokens, refresh, result, restarts, spent, loggedOut>>

\* A write that fails may have reached the storage all the same.
CallSaveFails(o) ==
  /\ HasStorage
  /\ pc[o] = "saving"
  /\ Goto(o, "failed")
  /\ stored' \in {stored, result[o]}
  /\ landed' = FALSE
  /\ UNCHANGED <<kind, tokens, refresh, result, restarts, spent, loggedOut>>

-----------------------------------------------------------------------------
\* refreshToken() or the transport's callback without a refresh token.
RefreshUnavailable(o) ==
  /\ Make(o, "refresh")
  /\ tokens = None
  /\ Goto(o, "failed")
  /\ UNCHANGED <<tokens, stored, refresh, result, restarts, history>>

NoRefreshIgnored == TRUE   \* mutant: every caller starts a refresh
NoRefresh == refreshInFlight = None

\* No refresh is in flight: capture the refresh token and request.
StartRefresh(o) ==
  /\ Make(o, "refresh")
  /\ tokens # None
  /\ NoRefresh
  /\ refreshInFlight' = o
  /\ flight' = [flight EXCEPT ![o] = "requesting"]
  /\ presented' = [presented EXCEPT ![o] = tokens]
  /\ joined' = [joined EXCEPT ![o] = o]
  /\ Goto(o, "awaiting")
  /\ UNCHANGED <<tokens, stored, result, restarts, history>>

JoinRefresh(o) ==
  /\ Make(o, "refresh")
  /\ tokens # None
  /\ ~NoRefresh
  /\ joined' = [joined EXCEPT ![o] = refreshInFlight]
  /\ Goto(o, "awaiting")
  /\ UNCHANGED <<tokens, stored, refreshInFlight, flight, presented, result, restarts, history>>

\* Mutant: the field is cleared when the pair arrives, before it is saved.
RefreshIssuedClearing(f) ==
  /\ flight[f] = "requesting"
  /\ presented[f].gen < MaxGen
  /\ SetTokens(f, [presented[f] EXCEPT !.gen = @ + 1])
  /\ flight' = [flight EXCEPT ![f] = "saving"]
  /\ refreshInFlight' = None
  /\ spent' = spent \cup {presented[f]}
  /\ UNCHANGED <<pc, kind, stored, presented, joined, restarts, loggedOut, landed>>

\* The token endpoint issues the next pair of the login.
RefreshIssued(f) ==
  /\ flight[f] = "requesting"
  /\ presented[f].gen < MaxGen
  /\ SetTokens(f, [presented[f] EXCEPT !.gen = @ + 1])
  /\ flight' = [flight EXCEPT ![f] = "saving"]
  /\ spent' = spent \cup {presented[f]}
  /\ UNCHANGED <<pc, kind, stored, refreshInFlight, presented, joined, restarts, loggedOut, landed>>

\* Mutant: `then` in place of `finally`.
SettleThen(f, how) ==
  /\ flight' = [flight EXCEPT ![f] = how]
  /\ refreshInFlight' = IF how = "resolved" THEN None ELSE refreshInFlight

\* The promise of a refresh settles: its `finally` clears the field.
Settle(f, how) ==
  /\ flight' = [flight EXCEPT ![f] = how]
  /\ refreshInFlight' = None

\* The token request fails, is refused or times out.
RefreshRefused(f) ==
  /\ flight[f] = "requesting"
  /\ Settle(f, "rejected")
  /\ UNCHANGED <<pc, kind, tokens, stored, presented, joined, result, restarts, history>>

RefreshSaved(f) ==
  /\ flight[f] = "saving"
  /\ Settle(f, "resolved")
  /\ stored' = IF HasStorage THEN result[f] ELSE stored
  /\ landed' = HasStorage
  /\ UNCHANGED <<pc, kind, tokens, presented, joined, result,
                 restarts, spent, loggedOut>>

RefreshSaveFails(f) ==
  /\ HasStorage
  /\ flight[f] = "saving"
  /\ Settle(f, "rejected")
  /\ stored' \in {stored, result[f]}
  /\ landed' = FALSE
  /\ UNCHANGED <<pc, kind, tokens, presented, joined, result, restarts, spent, loggedOut>>

\* Mutant: those that joined a refresh which rejects are forgotten.
RefreshReturnsIfResolved(o) ==
  /\ pc[o] = "awaiting"
  /\ flight[joined[o]] = "resolved"
  /\ Goto(o, "done")
  /\ UNCHANGED <<kind, tokens, stored, refresh, result, restarts, history>>

\* Mutant: the promise of the refresh is not awaited.
RefreshReturnsAtOnce(o) ==
  /\ pc[o] = "awaiting"
  /\ Goto(o, "done")
  /\ UNCHANGED <<kind, tokens, stored, refresh, result, restarts, history>>

\* A call that awaited a refresh learns how it ended.
RefreshReturns(o) ==
  /\ pc[o] = "awaiting"
  /\ flight[joined[o]] \in {"resolved", "rejected"}
  /\ Goto(o, IF flight[joined[o]] = "resolved" THEN "done" ELSE "failed")
  /\ UNCHANGED <<kind, tokens, stored, refresh, result, restarts, history>>

-----------------------------------------------------------------------------
\* logout forgets the pair at once; a refresh in flight is left alone.
CallLogout(o) ==
  /\ Make(o, "logout")
  /\ tokens' = None
  /\ Goto(o, "clearing")
  /\ loggedOut' = IF \E p \in Calls :
                       pc[p] \in {"exchanging", "loading", "loaded", "saving"}
                  THEN None ELSE o
  /\ UNCHANGED <<stored, refresh, result, restarts, spent, landed>>

\* Mutant: logout forgets the tokens in memory only.
LogoutKeepsStorage(o) ==
  /\ pc[o] = "clearing"
  /\ Goto(o, "done")
  /\ landed' = HasStorage
  /\ UNCHANGED <<kind, tokens, stored, refresh, result, restarts, spent, loggedOut>>

LogoutCleared(o) ==
  /\ pc[o] = "clearing"
  /\ Goto(o, "done")
  /\ stored' = IF HasStorage THEN None ELSE stored
  /\ landed' = HasStorage
  /\ UNCHANGED <<kind, tokens, refresh, result, restarts, spent, loggedOut>>

LogoutFails(o) ==
  /\ HasStorage
  /\ pc[o] = "clearing"
  /\ Goto(o, "failed")
  /\ stored' \in {stored, None}
  /\ landed' = FALSE
  /\ UNCHANGED <<kind, tokens, refresh, result, restarts, spent, loggedOut>>

-----------------------------------------------------------------------------
\* The process dies and a new client is constructed over the same storage.
Restart ==
  /\ restarts < MaxRestarts
  /\ restarts' = restarts + 1
  /\ pc' = [o \in Calls |-> IF pc[o] \in InProgress THEN "lost" ELSE pc[o]]
  /\ tokens' = SeedTokens
  /\ refreshInFlight' = None
  /\ flight' = [o \in Calls |-> "none"]
  /\ spent' = {}
  /\ loggedOut' = None
  /\ landed' = FALSE
  /\ UNCHANGED <<kind, presented, joined, result, stored>>

StorageStep(o) ==
  StorageRead(o) \/ LoadFails(o) \/ CallSaved(o) \/ CallSaveFails(o)
    \/ RefreshSaved(o) \/ RefreshSaveFails(o) \/ LogoutCleared(o) \/ LogoutFails(o)

TokenEndpointStep(o) ==
  CodeExchanged(o) \/ CodeRefused(o) \/ RefreshIssued(o) \/ RefreshRefused(o)

Continue(o) == LoadReturns(o) \/ RefreshReturns(o)

Call(o) ==
  CallAuthenticate(o) \/ CallLoad(o) \/ CallLogout(o)
    \/ RefreshUnavailable(o) \/ StartRefresh(o) \/ JoinRefresh(o)

Next ==
  \/ \E o \in Calls : Call(o) \/ Continue(o) \/ TokenEndpointStep(o) \/ StorageStep(o)
  \/ Restart

Spec == Init /\ [][Next]_vars

\* Token requests carry a timeout, so they settle; the application's storage
\* is assumed to settle; continuations run.
Fairness ==
  \A o \in Calls :
    WF_vars(Continue(o)) /\ WF_vars(TokenEndpointStep(o)) /\ WF_vars(StorageStep(o))

FairSpec == Spec /\ Fairness

-----------------------------------------------------------------------------
Places == InProgress \cup {"idle", "done", "failed", "lost"}
Flights == {"none", "requesting", "saving", "resolved", "rejected"}

\* The type invariant of the session.
TypeOK ==
  /\ pc \in [Calls -> Places]
  /\ kind \in [Calls -> Kinds \cup {None}]
  /\ tokens \in Pair \cup {None}
  /\ stored \in Pair \cup {None}
  /\ refreshInFlight \in Calls \cup {None}
  /\ flight \in [Calls -> Flights]
  /\ presented \in [Calls -> Pair \cup {None}]
  /\ joined \in [Calls -> Calls \cup {None}]
  /\ result \in [Calls -> Pair \cup {None}]
  /\ restarts \in 0..MaxRestarts
  /\ spent \in SUBSET Pair
  /\ loggedOut \in Calls \cup {None}
  /\ landed \in BOOLEAN

\* Single flight: whatever mixture of manual and automatic refreshes, logins,
\* loads, logouts and failures, at most one refresh is between its token
\* request and the end of its save.
SingleRefresh == \A f, g \in Calls : Active(f) /\ Active(g) => f = g

\* A process never presents a refresh token that it has already exchanged,
\* however calls that found the same expired pair interleave with the refresh
\* that replaces it.
NoRefreshTokenReuse ==
  \A f \in Calls : flight[f] = "requesting" => presented[f] \notin spent

\* Within a login, no step of a running process puts an older pair back.
NoRollback ==
  [][restarts' = restarts /\ tokens # None /\ tokens' # None
       /\ tokens.login = tokens'.login
     => tokens.gen <= tokens'.gen]_vars

\* The session changes from one login to another only where authenticate or
\* loadTokens sets its pair: a refresh of an earlier login does not replace the
\* pair of a later one.
LoginPrevails ==
  [][restarts' = restarts /\ tokens # None /\ tokens' # None
       /\ tokens'.login # tokens.login
     => \E o \in Calls : pc[o] \in {"exchanging", "loaded"} /\ pc'[o] = "saving"]_vars

\* No write to the storage is in progress.
WritesSettled ==
  \A o \in Calls : pc[o] \notin {"saving", "clearing"} /\ flight[o] # "saving"

\* Memory and storage agree whenever no write is in progress and the last one
\* succeeded, so that a process started now resumes where this one stands.
StorageCurrent == HasStorage /\ WritesSettled /\ landed => stored = tokens

\* A crash loses at most one refresh: the storage is never more than one
\* refresh behind memory while its writes succeed.
OneRefreshBehind ==
  landed /\ stored # None /\ tokens # None /\ stored.login = tokens.login
    => tokens.gen <= stored.gen + 1

\* After a logout has completed, and until somebody authenticates or loads
\* tokens, there is no pair in memory and none in the storage.
LogoutClears ==
  loggedOut # None /\ pc[loggedOut] = "done" => tokens = None /\ stored = None

\* Every call settles, and with it every refresh: callers that joined a
\* refresh are not forgotten whether it resolves or rejects.
EveryCallSettles == \A o \in Calls : pc[o] \in InProgress ~> pc[o] \notin InProgress

\* A refresh, even one that fails, makes way for a later one.
RefreshMakesWay == refreshInFlight # None ~> refreshInFlight = None
=============================================================================
