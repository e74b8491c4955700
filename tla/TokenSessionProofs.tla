------------------------- MODULE TokenSessionProofs -------------------------
(***************************************************************************)
(* Theorems about TokenSession, for any set of calls, any discipline of    *)
(* the application and any bounds.                                         *)
(***************************************************************************)
EXTENDS TokenSession, TLAPS

-----------------------------------------------------------------------------
(* Types, and the refresh in flight.                                       *)

\* A refresh that has not settled is the one that the field names, so the
\* test of the field in refreshTokens() sees every refresh that is active.
FieldNamesActive ==
  \A f \in Calls : Active(f) => refreshInFlight = f /\ presented[f] \in Pair

FlightInv == TypeOK /\ FieldNamesActive

\* The pair a refresh obtains is a pair.
LEMMA NextGeneration ==
  ASSUME NEW p \in Pair, p.gen < MaxGen
  PROVE  [p EXCEPT !.gen = @ + 1] \in Pair
BY SessionAssumption DEF Pair

\* The tokens of the configuration are a pair, or none.
LEMMA SeedIsTyped == SeedTokens \in Pair \cup {None}
BY SessionAssumption DEF SeedTokens, Pair

\* The invariant holds initially.
LEMMA FlightInit == Init => FlightInv
<1> SUFFICES ASSUME Init PROVE FlightInv
  OBVIOUS
<1>1. [login |-> Seed, gen |-> 0] \in Pair
  BY SessionAssumption DEF Pair
<1>2. stored \in Pair \cup {None}
  BY <1>1 DEF Init
<1>3. TypeOK
  <2>1. restarts \in 0..MaxRestarts
    BY SessionAssumption DEF Init
  <2>2. tokens \in Pair \cup {None}
    BY SeedIsTyped DEF Init
  <2>3. spent \in SUBSET Pair /\ landed \in BOOLEAN
    BY DEF Init
  <2> QED
    BY <1>2, <2>1, <2>2, <2>3 DEF Init, TypeOK, Places, InProgress, Flights
<1>4. FieldNamesActive
  BY DEF Init, FieldNamesActive, Active
<1> QED
  BY <1>3, <1>4 DEF FlightInv

\* The calls of authenticate, loadTokens and logout preserve it.
LEMMA FlightStepCalls ==
  ASSUME FlightInv, NEW o \in Calls,
         \/ CallAuthenticate(o) \/ CodeExchanged(o) \/ CodeRefused(o)
         \/ CallLoad(o) \/ StorageRead(o) \/ LoadFails(o) \/ LoadReturns(o)
         \/ CallSaved(o) \/ CallSaveFails(o)
         \/ CallLogout(o) \/ LogoutCleared(o) \/ LogoutFails(o)
  PROVE  FlightInv'
<1> USE DEF FlightInv, TypeOK, FieldNamesActive, Active, Places, InProgress,
            refresh, history, Goto
<1>1. [login |-> o, gen |-> 0] \in Pair
  BY SessionAssumption DEF Pair
<1>2. CASE CallAuthenticate(o) \/ CallLoad(o) \/ CallLogout(o)
  BY <1>2 DEF CallAuthenticate, CallLoad, CallLogout, Make
<1>3. CASE CodeExchanged(o)
  BY <1>1, <1>3 DEF CodeExchanged, SetTokens
<1>4. CASE CodeRefused(o) \/ StorageRead(o) \/ LoadFails(o)
  BY <1>4 DEF CodeRefused, StorageRead, LoadFails
<1>5. CASE LoadReturns(o)
  BY <1>5 DEF LoadReturns, SetTokens
<1>6. CASE CallSaved(o) \/ CallSaveFails(o)
  <2>1. stored' \in Pair \cup {None} /\ landed' \in BOOLEAN
    BY <1>6, SessionAssumption DEF CallSaved, CallSaveFails
  <2> QED
    BY <1>6, <2>1 DEF CallSaved, CallSaveFails
<1>7. CASE LogoutCleared(o) \/ LogoutFails(o)
  BY <1>7, SessionAssumption DEF LogoutCleared, LogoutFails
<1> QED
  BY <1>2, <1>3, <1>4, <1>5, <1>6, <1>7

\* So do the steps of a refresh.
LEMMA FlightStepRefresh ==
  ASSUME FlightInv, NEW o \in Calls,
         \/ RefreshUnavailable(o) \/ StartRefresh(o) \/ JoinRefresh(o)
         \/ RefreshIssued(o) \/ RefreshRefused(o) \/ RefreshSaved(o)
         \/ RefreshSaveFails(o) \/ RefreshReturns(o)
  PROVE  FlightInv'
<1> USE DEF FlightInv, TypeOK, FieldNamesActive, Active, Places, InProgress, Flights,
            refresh, history, Goto
<1>1. CASE RefreshUnavailable(o) \/ RefreshReturns(o)
  BY <1>1 DEF RefreshUnavailable, RefreshReturns, Make
<1>2. CASE StartRefresh(o)
  BY <1>2, SessionAssumption DEF StartRefresh, Make, NoRefresh
<1>3. CASE JoinRefresh(o)
  BY <1>3 DEF JoinRefresh, Make, NoRefresh
<1>4. CASE RefreshIssued(o)
  <2>1. presented[o] \in Pair /\ presented[o].gen < MaxGen
    BY <1>4 DEF RefreshIssued
  <2>2. [presented[o] EXCEPT !.gen = @ + 1] \in Pair
    BY <2>1, NextGeneration
  <2> QED
    BY <1>4, <2>1, <2>2 DEF RefreshIssued, SetTokens
<1>5. CASE RefreshRefused(o)
  BY <1>5 DEF RefreshRefused, Settle
<1>6. CASE RefreshSaved(o)
  BY <1>6, SessionAssumption DEF RefreshSaved, Settle
<1>7. CASE RefreshSaveFails(o)
  BY <1>7, SessionAssumption DEF RefreshSaveFails, Settle
<1> QED
  BY <1>1, <1>2, <1>3, <1>4, <1>5, <1>6, <1>7

\* So does the death of the process.
LEMMA FlightStepRestart == FlightInv /\ Restart => FlightInv'
<1> SUFFICES ASSUME FlightInv, Restart PROVE FlightInv'
  OBVIOUS
<1> USE DEF FlightInv, TypeOK, Restart
<1>1. pc' \in [Calls -> Places]
  BY DEF Places, InProgress
<1>2. restarts' \in 0..MaxRestarts
  BY SessionAssumption
<1>3. flight' \in [Calls -> Flights]
  BY DEF Flights
<1>4. FieldNamesActive'
  BY DEF FieldNamesActive, Active
<1> QED
  BY <1>1, <1>2, <1>3, <1>4, SeedIsTyped

\* Every step is one of these.
LEMMA NextCases ==
  ASSUME Next
  PROVE  \/ Restart
         \/ \E o \in Calls :
              \/ CallAuthenticate(o) \/ CodeExchanged(o) \/ CodeRefused(o)
              \/ CallLoad(o) \/ StorageRead(o) \/ LoadFails(o) \/ LoadReturns(o)
              \/ CallSaved(o) \/ CallSaveFails(o)
              \/ CallLogout(o) \/ LogoutCleared(o) \/ LogoutFails(o)
         \/ \E o \in Calls :
              \/ RefreshUnavailable(o) \/ StartRefresh(o) \/ JoinRefresh(o)
              \/ RefreshIssued(o) \/ RefreshRefused(o) \/ RefreshSaved(o)
              \/ RefreshSaveFails(o) \/ RefreshReturns(o)
BY Zenon DEF Next, Call, Continue, TokenEndpointStep, StorageStep

\* Every step preserves it.
LEMMA FlightStep == FlightInv /\ [Next]_vars => FlightInv'
<1> SUFFICES ASSUME FlightInv, [Next]_vars PROVE FlightInv'
  OBVIOUS
<1>1. CASE Next
  BY <1>1, NextCases, FlightStepCalls, FlightStepRefresh, FlightStepRestart
<1>2. CASE UNCHANGED vars
  BY <1>2 DEF FlightInv, TypeOK, FieldNamesActive, Active, vars, refresh, history
<1> QED
  BY <1>1, <1>2

\* The field names every active refresh throughout.
LEMMA FlightInvHolds == Spec => []FlightInv
BY FlightInit, FlightStep, PTL DEF Spec

\* The session's fields keep their types.
THEOREM SessionTypeCorrect == Spec => []TypeOK
<1>1. FlightInv => TypeOK
  BY DEF FlightInv
<1> QED
  BY <1>1, FlightInvHolds, PTL

\* Single flight, for any number of calls and whatever the application does:
\* between the request of a refresh and the end of its save no other refresh
\* is made.
THEOREM RefreshIsSingleFlight == Spec => []SingleRefresh
<1>1. FlightInv => SingleRefresh
  BY DEF FlightInv, FieldNamesActive, SingleRefresh
<1> QED
  BY <1>1, FlightInvHolds, PTL

-----------------------------------------------------------------------------
(* Calls that await a refresh.                                             *)

\* Whoever awaits a refresh awaits one that is active or that has ended, and the
\* field names an active one or none: the halves of EveryCallSettles and of
\* RefreshMakesWay that say what there is to wait for.
NobodyForgotten ==
  /\ refreshInFlight # None => Active(refreshInFlight)
  /\ \A o \in Calls : pc[o] = "awaiting" =>
       /\ joined[o] # None
       /\ Active(joined[o]) \/ flight[joined[o]] \in {"resolved", "rejected"}

\* No step of a call or of its refresh leaves one behind that awaits nothing.
LEMMA NobodyForgottenByCalls ==
  ASSUME FlightInv, NobodyForgotten, NEW o \in Calls,
         \/ CallAuthenticate(o) \/ CodeExchanged(o) \/ CodeRefused(o)
         \/ CallLoad(o) \/ StorageRead(o) \/ LoadFails(o) \/ LoadReturns(o)
         \/ CallSaved(o) \/ CallSaveFails(o)
         \/ CallLogout(o) \/ LogoutCleared(o) \/ LogoutFails(o)
         \/ RefreshUnavailable(o) \/ StartRefresh(o) \/ JoinRefresh(o)
         \/ RefreshIssued(o) \/ RefreshRefused(o) \/ RefreshSaved(o)
         \/ RefreshSaveFails(o) \/ RefreshReturns(o)
  PROVE  NobodyForgotten'
<1> USE SessionAssumption
    DEF FlightInv, TypeOK, FieldNamesActive, NobodyForgotten, Active, Flights, refresh, history,
        Goto
<1>1. CASE \/ CallAuthenticate(o) \/ CodeExchanged(o) \/ CodeRefused(o)
           \/ CallLoad(o) \/ StorageRead(o) \/ LoadFails(o) \/ LoadReturns(o)
           \/ CallSaved(o) \/ CallSaveFails(o)
           \/ CallLogout(o) \/ LogoutCleared(o) \/ LogoutFails(o)
           \/ RefreshUnavailable(o) \/ RefreshReturns(o)
  <2>1. /\ UNCHANGED <<refreshInFlight, flight, joined>>
        /\ \A p \in Calls : pc'[p] = "awaiting" => pc[p] = "awaiting"
    BY <1>1 DEF CallAuthenticate, CodeExchanged, CodeRefused, CallLoad, StorageRead, LoadFails,
       LoadReturns, CallSaved, CallSaveFails, CallLogout, LogoutCleared, LogoutFails,
       RefreshUnavailable, RefreshReturns
  <2> QED
    BY <2>1
<1>2. CASE StartRefresh(o)
  BY <1>2 DEF StartRefresh, NoRefresh
<1>3. CASE JoinRefresh(o)
  BY <1>3 DEF JoinRefresh, NoRefresh
<1>4. CASE RefreshIssued(o)
  BY <1>4 DEF RefreshIssued
<1>5. CASE RefreshRefused(o) \/ RefreshSaved(o) \/ RefreshSaveFails(o)
  BY <1>5 DEF RefreshRefused, RefreshSaved, RefreshSaveFails, Settle
<1> QED
  BY <1>1, <1>2, <1>3, <1>4, <1>5

\* Refreshes do not hang, whatever the application does, whoever joins them, and
\* whether they are refused, saved or not: a call that awaits one goes on as soon
\* as the token endpoint and the storage have answered.
THEOREM NoRefreshHangs == Spec => []NobodyForgotten
<1>1. Init => NobodyForgotten
  BY DEF Init, NobodyForgotten
<1>2. FlightInv /\ NobodyForgotten /\ [Next]_vars => NobodyForgotten'
  <2> SUFFICES ASSUME FlightInv, NobodyForgotten, [Next]_vars PROVE NobodyForgotten'
    OBVIOUS
  <2>1. CASE Restart
    BY <2>1 DEF Restart, NobodyForgotten, InProgress
  <2>2. CASE UNCHANGED vars
    BY <2>2 DEF vars, refresh, NobodyForgotten, Active
  <2> QED
    BY <2>1, <2>2, NextCases, NobodyForgottenByCalls
<1> QED
  BY <1>1, <1>2, FlightInvHolds, PTL DEF Spec

-----------------------------------------------------------------------------
(* Memory and storage, when the application awaits every call other than a *)
(* refresh before it makes another one.                                    *)

Awaited == AllKinds \ {"refresh"} \subseteq Exclusive

Busy == InProgress \ {"awaiting"}

\* A call other than a refresh is in progress alone.
BusyAlone ==
  \A o \in Calls : pc[o] \in Busy =>
    kind[o] \in Exclusive /\ \A p \in Calls : pc[p] \in InProgress => p = o

\* The call that started a refresh awaits it as long as it is active.
ActiveAwaited == \A f \in Calls : Active(f) => pc[f] = "awaiting" /\ joined[f] = f

\* What is being written, presented or loaded is what memory or storage holds.
WritesTokens ==
  \A o \in Calls :
    /\ pc[o] = "saving" => result[o] = tokens
    /\ flight[o] = "saving" => result[o] = tokens
    /\ pc[o] = "clearing" => tokens = None
    /\ pc[o] = "loaded" => result[o] = stored
    /\ flight[o] = "requesting" => presented[o] = tokens

\* Without a storage nothing is stored and no write is counted.
NoStorageInv == (~HasStorage => stored = None) /\ (landed => HasStorage)

\* A logout that nothing followed is in progress alone, or has ended.
LogoutInv ==
  loggedOut # None =>
    /\ tokens = None
    /\ pc[loggedOut] \in {"clearing", "done", "failed"}
    /\ \A p \in Calls : pc[p] \in InProgress => p = loggedOut
    /\ pc[loggedOut] = "done" => stored = None

\* The login of a call exists only once its code is exchanged.
FreshLogin ==
  \A o \in Calls : pc[o] \in {"idle", "exchanging"} =>
    /\ tokens # None => tokens.login # o
    /\ stored # None => stored.login # o

\* While a save that follows a landed one is in progress, the storage holds
\* the same pair, the pair that was refreshed, or one of another login.
SavingBehind ==
  landed /\ stored # None =>
    /\ \A o \in Calls : pc[o] = "saving" /\ stored.login = tokens.login => stored = tokens
    /\ \A f \in Calls : flight[f] = "saving" =>
         stored = presented[f] /\ tokens.gen = stored.gen + 1

AwaitedInv ==
  /\ FlightInv /\ BusyAlone /\ ActiveAwaited /\ WritesTokens /\ NoStorageInv
  /\ StorageCurrent /\ LogoutInv /\ FreshLogin /\ SavingBehind

\* The invariant of the disciplined application holds initially.
LEMMA AwaitedInit == Init => AwaitedInv
<1> SUFFICES ASSUME Init PROVE AwaitedInv
  OBVIOUS
<1>1. SeedTokens \in {None, [login |-> Seed, gen |-> 0]}
  BY DEF SeedTokens
<1>2. FreshLogin
  BY <1>1, SessionAssumption DEF Init, FreshLogin
<1> QED
  BY <1>2, FlightInit, SessionAssumption
  DEF Init, AwaitedInv, BusyAlone, ActiveAwaited, Active, WritesTokens, NoStorageInv,
      StorageCurrent, LogoutInv, SavingBehind, Busy, InProgress

\* Calls of authenticate preserve the invariant.
LEMMA AwaitedStepLogin ==
  ASSUME Awaited, AwaitedInv, FlightInv', NEW o \in Calls,
         \/ CallAuthenticate(o) \/ CodeExchanged(o) \/ CodeRefused(o)
         \/ CallSaved(o) \/ CallSaveFails(o)
  PROVE  AwaitedInv'
<1> USE SessionAssumption
    DEF Awaited, AwaitedInv, FlightInv, TypeOK, BusyAlone, ActiveAwaited, Active,
        WritesTokens, NoStorageInv, StorageCurrent, WritesSettled, LogoutInv,
        FreshLogin, SavingBehind, Busy, InProgress, AllKinds, refresh, history, Goto
<1>1. CASE CallAuthenticate(o)
  BY <1>1 DEF CallAuthenticate, Make
<1>2. CASE CodeExchanged(o)
  BY <1>2 DEF CodeExchanged, SetTokens
<1>3. CASE CodeRefused(o)
  BY <1>3 DEF CodeRefused
<1>4. CASE CallSaved(o)
  BY <1>4 DEF CallSaved
<1>5. CASE CallSaveFails(o)
  BY <1>5 DEF CallSaveFails
<1> QED
  BY <1>1, <1>2, <1>3, <1>4, <1>5

\* So do calls of loadTokens.
LEMMA AwaitedStepLoad ==
  ASSUME Awaited, AwaitedInv, FlightInv', NEW o \in Calls,
         CallLoad(o) \/ StorageRead(o) \/ LoadFails(o) \/ LoadReturns(o)
  PROVE  AwaitedInv'
<1> USE SessionAssumption
    DEF Awaited, AwaitedInv, FlightInv, TypeOK, BusyAlone, ActiveAwaited, Active,
        WritesTokens, NoStorageInv, StorageCurrent, WritesSettled, LogoutInv,
        FreshLogin, SavingBehind, Busy, InProgress, AllKinds, refresh, history, Goto
<1>1. CASE CallLoad(o)
  BY <1>1 DEF CallLoad, Make
<1>2. CASE StorageRead(o)
  BY <1>2 DEF StorageRead
<1>3. CASE LoadFails(o)
  BY <1>3 DEF LoadFails
<1>4. CASE LoadReturns(o)
  BY <1>4 DEF LoadReturns, SetTokens
<1> QED
  BY <1>1, <1>2, <1>3, <1>4

\* So do calls of logout.
LEMMA AwaitedStepLogout ==
  ASSUME Awaited, AwaitedInv, FlightInv', NEW o \in Calls,
         CallLogout(o) \/ LogoutCleared(o) \/ LogoutFails(o)
  PROVE  AwaitedInv'
<1> USE SessionAssumption
    DEF Awaited, AwaitedInv, FlightInv, TypeOK, BusyAlone, ActiveAwaited, Active,
        WritesTokens, NoStorageInv, StorageCurrent, WritesSettled, LogoutInv,
        FreshLogin, SavingBehind, Busy, InProgress, AllKinds, refresh, history, Goto
<1>1. CASE CallLogout(o)
  BY <1>1 DEF CallLogout, Make
<1>2. CASE LogoutCleared(o)
  BY <1>2 DEF LogoutCleared
<1>3. CASE LogoutFails(o)
  BY <1>3 DEF LogoutFails
<1> QED
  BY <1>1, <1>2, <1>3

\* So do refreshes.
LEMMA AwaitedStepRefresh ==
  ASSUME Awaited, AwaitedInv, FlightInv', NEW o \in Calls,
         \/ RefreshUnavailable(o) \/ StartRefresh(o) \/ JoinRefresh(o)
         \/ RefreshIssued(o) \/ RefreshRefused(o) \/ RefreshSaved(o)
         \/ RefreshSaveFails(o) \/ RefreshReturns(o)
  PROVE  AwaitedInv'
<1> USE SessionAssumption
    DEF Awaited, AwaitedInv, FlightInv, TypeOK, BusyAlone, ActiveAwaited, Active,
        WritesTokens, NoStorageInv, StorageCurrent, WritesSettled, LogoutInv,
        FreshLogin, SavingBehind, Busy, InProgress, AllKinds, refresh, history, Goto
<1>1. CASE RefreshUnavailable(o)
  BY <1>1 DEF RefreshUnavailable, Make
<1>2. CASE StartRefresh(o)
  BY <1>2 DEF StartRefresh, Make, NoRefresh
<1>3. CASE JoinRefresh(o)
  BY <1>3 DEF JoinRefresh, Make, NoRefresh
<1>4. CASE RefreshIssued(o)
  <2>1. /\ pc[o] = "awaiting" /\ presented[o] = tokens /\ tokens \in Pair
        /\ \A p \in Calls : Active(p) => p = o
        /\ \A p \in Calls : pc[p] \notin Busy
    BY <1>4 DEF FieldNamesActive, RefreshIssued
  <2>2. landed => stored = tokens
    BY <1>4, <2>1 DEF RefreshIssued
  <2>3. /\ tokens'.login = tokens.login /\ tokens'.gen = tokens.gen + 1
        /\ tokens' # None /\ result'[o] = tokens'
    BY <1>4, <2>1, NextGeneration, NoneAssumption DEF RefreshIssued, SetTokens, Pair
  <2>4. BusyAlone' /\ ActiveAwaited' /\ WritesTokens' /\ NoStorageInv'
    BY <1>4, <2>1, <2>3 DEF RefreshIssued, SetTokens
  <2>5. StorageCurrent'
    BY <1>4 DEF RefreshIssued
  <2>6. LogoutInv'
    BY <1>4, <2>1 DEF RefreshIssued
  <2>7. FreshLogin'
    BY <1>4, <2>1, <2>3, NoneAssumption DEF RefreshIssued
  <2>8. SavingBehind'
    <3>1. \A p \in Calls : pc'[p] # "saving"
      BY <1>4, <2>1 DEF RefreshIssued
    <3>2. \A p \in Calls : flight'[p] = "saving" => p = o
      BY <1>4, <2>1 DEF RefreshIssued
    <3>3. landed' = landed /\ stored' = stored /\ presented' = presented
      BY <1>4 DEF RefreshIssued
    <3> QED
      BY <2>1, <2>2, <2>3, <3>1, <3>2, <3>3 DEF SavingBehind
  <2> QED
    BY <2>4, <2>5, <2>6, <2>7, <2>8
<1>5. CASE RefreshRefused(o)
  BY <1>5 DEF RefreshRefused, Settle
<1>6. CASE RefreshSaved(o)
  <2>1. /\ pc[o] = "awaiting" /\ result[o] = tokens
        /\ \A p \in Calls : Active(p) => p = o
        /\ \A p \in Calls : pc[p] \notin Busy
    BY <1>6 DEF FieldNamesActive, RefreshSaved
  <2>2. (HasStorage /\ stored' = tokens) \/ (~HasStorage /\ stored' = stored)
    BY <1>6, <2>1 DEF RefreshSaved
  <2>3. landed' => HasStorage
    BY <1>6 DEF RefreshSaved
  <2>4. BusyAlone' /\ ActiveAwaited' /\ WritesTokens' /\ NoStorageInv'
    BY <1>6, <2>1, <2>2, <2>3 DEF RefreshSaved, Settle
  <2>5. StorageCurrent'
    BY <1>6, <2>2 DEF RefreshSaved
  <2>6. LogoutInv'
    BY <1>6, <2>1 DEF RefreshSaved
  <2>7. FreshLogin'
    BY <1>6, <2>2 DEF RefreshSaved
  <2>8. SavingBehind'
    BY <1>6, <2>1 DEF RefreshSaved, Settle
  <2> QED
    BY <2>4, <2>5, <2>6, <2>7, <2>8
<1>7. CASE RefreshSaveFails(o)
  BY <1>7 DEF RefreshSaveFails, Settle
<1>8. CASE RefreshReturns(o)
  BY <1>8 DEF RefreshReturns
<1> QED
  BY <1>1, <1>2, <1>3, <1>4, <1>5, <1>6, <1>7, <1>8

\* So does the death of the process.
LEMMA AwaitedStepRestart ==
  ASSUME AwaitedInv, FlightInv', Restart
  PROVE  AwaitedInv'
<1> USE SessionAssumption DEF Restart, Busy, InProgress
<1>1. \A o \in Calls : pc'[o] \notin InProgress /\ flight'[o] = "none"
  BY DEF AwaitedInv, FlightInv, TypeOK
<1>2. BusyAlone' /\ ActiveAwaited' /\ WritesTokens'
  BY <1>1 DEF BusyAlone, ActiveAwaited, Active, WritesTokens
<1>3. NoStorageInv' /\ StorageCurrent' /\ LogoutInv' /\ SavingBehind'
  BY DEF AwaitedInv, NoStorageInv, StorageCurrent, LogoutInv, SavingBehind
<1>4. FreshLogin'
  <2>1. tokens' # None => tokens'.login = Seed
    BY DEF SeedTokens
  <2>2. \A o \in Calls : pc'[o] = "idle" => pc[o] = "idle"
    BY DEF AwaitedInv, FlightInv, TypeOK
  <2> QED
    BY <1>1, <2>1, <2>2 DEF AwaitedInv, FreshLogin
<1> QED
  BY <1>2, <1>3, <1>4 DEF AwaitedInv

\* Every step preserves it under the discipline.
LEMMA AwaitedStep == Awaited /\ AwaitedInv /\ [Next]_vars => AwaitedInv'
<1> SUFFICES ASSUME Awaited, AwaitedInv, [Next]_vars PROVE AwaitedInv'
  OBVIOUS
<1>1. FlightInv'
  BY FlightStep DEF AwaitedInv
<1>2. CASE Next
  BY <1>1, <1>2, NextCases, AwaitedStepLogin, AwaitedStepLoad, AwaitedStepLogout,
     AwaitedStepRefresh, AwaitedStepRestart
<1>3. CASE UNCHANGED vars
  BY <1>1, <1>3
  DEF AwaitedInv, BusyAlone, ActiveAwaited, Active, WritesTokens, NoStorageInv,
      StorageCurrent, WritesSettled, LogoutInv, FreshLogin, SavingBehind,
      vars, refresh, history
<1> QED
  BY <1>2, <1>3

\* It holds throughout under the discipline.
LEMMA AwaitedInvHolds == ASSUME Awaited PROVE Spec => []AwaitedInv
BY Awaited, AwaitedInit, AwaitedStep, PTL DEF Spec

\* If the application awaits every call other than a refresh before it makes
\* another one, then memory and storage agree whenever nothing is being
\* written and the last write succeeded, however refreshes, manual or
\* automatic, come in between.
THEOREM StorageStaysCurrent == ASSUME Awaited PROVE Spec => []StorageCurrent
<1>1. AwaitedInv => StorageCurrent
  BY DEF AwaitedInv
<1> QED
  BY <1>1, AwaitedInvHolds, PTL

\* Under the same discipline a logout that has completed leaves no tokens in
\* memory or in the storage.  Without it the refresh that outlives a logout
\* brings them back.
THEOREM LogoutIsFinal == ASSUME Awaited PROVE Spec => []LogoutClears
<1>1. AwaitedInv => LogoutClears
  BY DEF AwaitedInv, LogoutInv, LogoutClears
<1> QED
  BY <1>1, AwaitedInvHolds, PTL

\* Under the same discipline a crash loses at most one refresh.
THEOREM CrashLosesOneRefresh == ASSUME Awaited PROVE Spec => []OneRefreshBehind
<1>1. AwaitedInv => OneRefreshBehind
  <2> SUFFICES ASSUME AwaitedInv, landed, stored # None, tokens # None,
                      stored.login = tokens.login
               PROVE  tokens.gen <= stored.gen + 1
    BY DEF OneRefreshBehind
  <2>1. stored \in Pair /\ tokens \in Pair
    BY DEF AwaitedInv, FlightInv, TypeOK
  <2>2. stored.gen \in Int /\ tokens.gen \in Int
    BY <2>1 DEF Pair
  <2>3. CASE WritesSettled
    BY <2>2, <2>3 DEF AwaitedInv, StorageCurrent, NoStorageInv
  <2>4. CASE ~WritesSettled
    BY <2>2, <2>4 DEF AwaitedInv, WritesSettled, WritesTokens, SavingBehind
  <2> QED
    BY <2>3, <2>4
<1> QED
  BY <1>1, AwaitedInvHolds, PTL

\* Under the same discipline no refresh replaces the pair of a later login.
THEOREM LoginsPrevail == ASSUME Awaited PROVE Spec => LoginPrevails
<1> DEFINE Kept == restarts' = restarts /\ tokens # None /\ tokens' # None
                     /\ tokens'.login # tokens.login
                   => \E o \in Calls : pc[o] \in {"exchanging", "loaded"} /\ pc'[o] = "saving"
<1>1. AwaitedInv /\ [Next]_vars => [Kept]_vars
  <2> SUFFICES ASSUME AwaitedInv, Next PROVE Kept
    OBVIOUS
  <2> USE DEF AwaitedInv, FlightInv, TypeOK
  <2>1. CASE Restart
    BY <2>1, SessionAssumption DEF Restart
  <2>2. ASSUME NEW o \in Calls,
               \/ CallAuthenticate(o) \/ CodeRefused(o) \/ CallLoad(o) \/ StorageRead(o)
               \/ LoadFails(o) \/ CallSaved(o) \/ CallSaveFails(o)
               \/ CallLogout(o) \/ LogoutCleared(o) \/ LogoutFails(o)
               \/ RefreshUnavailable(o) \/ StartRefresh(o) \/ JoinRefresh(o)
               \/ RefreshRefused(o) \/ RefreshSaved(o) \/ RefreshSaveFails(o) \/ RefreshReturns(o)
        PROVE  tokens' = tokens \/ tokens' = None
    BY <2>2 DEF CallAuthenticate, CodeRefused, CallLoad, StorageRead, LoadFails, CallSaved,
       CallSaveFails, CallLogout, LogoutCleared, LogoutFails, RefreshUnavailable, StartRefresh,
       JoinRefresh, RefreshRefused, RefreshSaved, RefreshSaveFails, RefreshReturns
  <2>3. ASSUME NEW o \in Calls, CodeExchanged(o) \/ LoadReturns(o)
        PROVE  tokens' = tokens \/ (pc[o] \in {"exchanging", "loaded"} /\ pc'[o] = "saving")
    BY <2>3 DEF CodeExchanged, LoadReturns, Goto
  <2>4. ASSUME NEW o \in Calls, RefreshIssued(o)
        PROVE  tokens'.login = tokens.login
    <3>1. presented[o] = tokens /\ tokens \in Pair /\ tokens.gen < MaxGen
      BY <2>4 DEF RefreshIssued, WritesTokens, FieldNamesActive, Active
    <3>2. tokens' = [tokens EXCEPT !.gen = @ + 1]
      BY <2>4, <3>1 DEF RefreshIssued, SetTokens
    <3> QED
      BY <3>1, <3>2 DEF Pair
  <2> QED
    BY <2>1, <2>2, <2>3, <2>4, NextCases
<1> QED
  BY <1>1, AwaitedInvHolds, PTL DEF Spec, LoginPrevails

-----------------------------------------------------------------------------
(* Refresh tokens, when loadTokens is awaited before the first refresh.    *)

LoadsAtStartup == LoadFirst /\ "load" \in Exclusive

\* A load that has not set its pair is in progress alone, before any refresh.
LoadAlone ==
  \A o \in Calls : pc[o] \in {"loading", "loaded"} =>
    /\ kind[o] = "load" /\ spent = {}
    /\ \A p \in Calls : pc[p] \in InProgress => p = o
    /\ pc[o] = "loaded" => result[o] = stored

\* The login of a call exists nowhere until its code is exchanged.
LoginUnused ==
  \A o \in Calls : pc[o] \in {"idle", "exchanging"} =>
    /\ tokens # None => tokens.login # o
    /\ stored # None => stored.login # o
    /\ \A p \in spent : p.login # o
    /\ \A f \in Calls :
         /\ flight[f] = "requesting" => presented[f].login # o
         /\ flight[f] = "saving" => result[f].login # o
         /\ pc[f] \in {"saving", "loaded"} /\ result[f] # None => result[f].login # o

\* The pair in memory, and the one that is presented, are later than every
\* pair of their login that was exchanged.
SpentBehind ==
  /\ \A p \in spent : tokens # None /\ tokens.login = p.login => p.gen < tokens.gen
  /\ \A f \in Calls : flight[f] = "requesting" =>
       /\ \A p \in spent : presented[f].login = p.login => p.gen < presented[f].gen
       /\ tokens # None /\ tokens.login = presented[f].login => tokens.gen <= presented[f].gen
  /\ \A f \in Calls : flight[f] = "saving" => spent # {} /\ result[f] \in Pair

\* Until the first refresh, storage and what is being stored are not behind memory.
LoadForward ==
  spent = {} /\ tokens # None =>
    /\ stored # None /\ stored.login = tokens.login => tokens.gen <= stored.gen
    /\ \A o \in Calls :
         pc[o] = "saving" /\ result[o] # None /\ result[o].login = tokens.login
           => tokens.gen <= result[o].gen

StartupInv == FlightInv /\ ActiveAwaited /\ LoadAlone /\ LoginUnused /\ SpentBehind /\ LoadForward

\* The invariant holds initially.
LEMMA StartupInit == Init => StartupInv
<1> SUFFICES ASSUME Init PROVE StartupInv
  OBVIOUS
<1>1. SeedTokens \in {None, [login |-> Seed, gen |-> 0]}
  BY DEF SeedTokens
<1>2. LoginUnused
  BY <1>1, SessionAssumption DEF Init, LoginUnused
<1>3. LoadForward
  BY <1>1, SessionAssumption DEF Init, LoadForward
<1> QED
  BY <1>2, <1>3, FlightInit
  DEF Init, StartupInv, ActiveAwaited, Active, LoadAlone, SpentBehind, InProgress

\* Calls of authenticate preserve the invariant.
LEMMA StartupStepLogin ==
  ASSUME LoadsAtStartup, StartupInv, FlightInv', NEW o \in Calls,
         CallAuthenticate(o) \/ CodeExchanged(o) \/ CodeRefused(o)
  PROVE  StartupInv'
<1> USE SessionAssumption
    DEF LoadsAtStartup, StartupInv, FlightInv, TypeOK, InProgress, refresh, history, Goto
<1>1. CASE CallAuthenticate(o) \/ CodeRefused(o)
  <2> USE <1>1 DEF CallAuthenticate, CodeRefused, Make
  <2>1. ActiveAwaited'
    BY DEF ActiveAwaited, Active
  <2>2. LoadAlone'
    BY DEF LoadAlone
  <2>3. LoginUnused'
    BY DEF LoginUnused
  <2>4. SpentBehind' /\ LoadForward'
    BY DEF SpentBehind, LoadForward
  <2> QED
    BY <2>1, <2>2, <2>3, <2>4
<1>2. CASE CodeExchanged(o)
  <2> USE <1>2 DEF CodeExchanged, SetTokens
  <2>1. ActiveAwaited'
    BY DEF ActiveAwaited, Active
  <2>2. LoadAlone'
    BY DEF LoadAlone
  <2>3. LoginUnused'
    BY DEF LoginUnused, ActiveAwaited, Active
  <2>4. SpentBehind'
    BY DEF SpentBehind, LoginUnused, ActiveAwaited, Active, Pair
  <2>5. LoadForward'
    BY DEF LoadForward, LoginUnused, Pair
  <2> QED
    BY <2>1, <2>2, <2>3, <2>4, <2>5
<1> QED
  BY <1>1, <1>2

\* Calls of loadTokens preserve the invariant.
LEMMA StartupStepLoad ==
  ASSUME LoadsAtStartup, StartupInv, FlightInv', NEW o \in Calls,
         CallLoad(o) \/ StorageRead(o) \/ LoadFails(o) \/ LoadReturns(o)
  PROVE  StartupInv'
<1> USE SessionAssumption
    DEF LoadsAtStartup, StartupInv, FlightInv, TypeOK, InProgress, refresh, history, Goto
<1>1. CASE CallLoad(o) \/ StorageRead(o) \/ LoadFails(o)
  <2> USE <1>1 DEF CallLoad, StorageRead, LoadFails, Make
  <2>1. ActiveAwaited'
    BY DEF ActiveAwaited, Active, LoadAlone
  <2>2. LoadAlone'
    BY DEF LoadAlone
  <2>3. LoginUnused'
    BY DEF LoginUnused, ActiveAwaited, Active
  <2>4. SpentBehind' /\ LoadForward'
    BY DEF SpentBehind, LoadForward, ActiveAwaited, Active
  <2> QED
    BY <2>1, <2>2, <2>3, <2>4
<1>2. CASE LoadReturns(o)
  <2> USE <1>2 DEF LoadReturns, SetTokens
  <2>0. spent = {} /\ result[o] = stored /\ \A f \in Calls : ~Active(f)
    BY DEF LoadAlone, ActiveAwaited
  <2>1. ActiveAwaited'
    BY <2>0 DEF ActiveAwaited, Active
  <2>2. LoadAlone'
    BY DEF LoadAlone
  <2>3. LoginUnused'
    BY <2>0 DEF LoginUnused, Active
  <2>4. SpentBehind'
    BY <2>0 DEF SpentBehind, Active
  <2>5. LoadForward'
    BY <2>0 DEF LoadForward, LoadAlone, Pair
  <2> QED
    BY <2>1, <2>2, <2>3, <2>4, <2>5
<1> QED
  BY <1>1, <1>2

\* So do the saves of authenticate and loadTokens, and the calls of logout.
LEMMA StartupStepWrite ==
  ASSUME LoadsAtStartup, StartupInv, FlightInv', NEW o \in Calls,
         \/ CallSaved(o) \/ CallSaveFails(o)
         \/ CallLogout(o) \/ LogoutCleared(o) \/ LogoutFails(o)
  PROVE  StartupInv'
<1> USE SessionAssumption
    DEF LoadsAtStartup, StartupInv, FlightInv, TypeOK, InProgress, refresh, history, Goto
<1>1. CASE CallSaved(o) \/ CallSaveFails(o)
  <2> USE <1>1 DEF CallSaved, CallSaveFails
  <2>0. stored' = stored \/ stored' = result[o]
    OBVIOUS
  <2>1. ActiveAwaited'
    BY DEF ActiveAwaited, Active
  <2>2. LoadAlone'
    BY DEF LoadAlone
  <2>3. LoginUnused'
    BY <2>0 DEF LoginUnused
  <2>4. SpentBehind'
    BY DEF SpentBehind
  <2>5. LoadForward'
    BY <2>0 DEF LoadForward
  <2> QED
    BY <2>1, <2>2, <2>3, <2>4, <2>5
<1>2. CASE CallLogout(o) \/ LogoutCleared(o) \/ LogoutFails(o)
  <2> USE <1>2 DEF CallLogout, LogoutCleared, LogoutFails, Make
  <2>0. /\ tokens' = tokens \/ tokens' = None
        /\ stored' = stored \/ stored' = None
    OBVIOUS
  <2>1. ActiveAwaited'
    BY DEF ActiveAwaited, Active
  <2>2. LoadAlone'
    BY DEF LoadAlone
  <2>3. LoginUnused'
    BY <2>0 DEF LoginUnused
  <2>4. SpentBehind'
    BY <2>0 DEF SpentBehind
  <2>5. LoadForward'
    BY <2>0 DEF LoadForward
  <2> QED
    BY <2>1, <2>2, <2>3, <2>4, <2>5
<1> QED
  BY <1>1, <1>2

\* So do the steps of a refresh.
LEMMA StartupStepRefresh ==
  ASSUME LoadsAtStartup, StartupInv, FlightInv', NEW o \in Calls,
         \/ RefreshUnavailable(o) \/ StartRefresh(o) \/ JoinRefresh(o)
         \/ RefreshRefused(o) \/ RefreshSaved(o) \/ RefreshSaveFails(o) \/ RefreshReturns(o)
  PROVE  StartupInv'
<1> USE SessionAssumption
    DEF LoadsAtStartup, StartupInv, FlightInv, TypeOK, InProgress, refresh, history, Goto
<1>1. CASE RefreshUnavailable(o) \/ JoinRefresh(o) \/ RefreshReturns(o)
  <2> USE <1>1 DEF RefreshUnavailable, JoinRefresh, RefreshReturns, Make
  <2>1. ActiveAwaited'
    BY DEF ActiveAwaited, Active
  <2>2. LoadAlone'
    BY DEF LoadAlone
  <2>3. LoginUnused'
    BY DEF LoginUnused
  <2>4. SpentBehind' /\ LoadForward'
    BY DEF SpentBehind, LoadForward
  <2> QED
    BY <2>1, <2>2, <2>3, <2>4
<1>2. CASE StartRefresh(o)
  <2> USE <1>2 DEF StartRefresh, Make
  <2>1. ActiveAwaited'
    BY DEF ActiveAwaited, Active
  <2>2. LoadAlone'
    BY DEF LoadAlone
  <2>3. LoginUnused'
    BY DEF LoginUnused
  <2>4. SpentBehind' /\ LoadForward'
    BY DEF SpentBehind, LoadForward, Pair
  <2> QED
    BY <2>1, <2>2, <2>3, <2>4
<1>3. CASE RefreshRefused(o) \/ RefreshSaved(o) \/ RefreshSaveFails(o)
  <2> USE <1>3 DEF RefreshRefused, RefreshSaved, RefreshSaveFails, Settle
  <2>0. stored' = stored \/ (flight[o] = "saving" /\ stored' = result[o])
    OBVIOUS
  <2>1. ActiveAwaited'
    BY DEF ActiveAwaited, Active
  <2>2. LoadAlone'
    BY <2>0 DEF LoadAlone, SpentBehind
  <2>3. LoginUnused'
    BY <2>0 DEF LoginUnused
  <2>4. SpentBehind' /\ LoadForward'
    BY <2>0 DEF SpentBehind, LoadForward
  <2> QED
    BY <2>1, <2>2, <2>3, <2>4
<1> QED
  BY <1>1, <1>2, <1>3

\* So does the arrival of the pair that a refresh obtains.
LEMMA StartupStepIssued ==
  ASSUME LoadsAtStartup, StartupInv, FlightInv', NEW o \in Calls, RefreshIssued(o)
  PROVE  StartupInv'
<1> USE SessionAssumption
    DEF LoadsAtStartup, StartupInv, FlightInv, TypeOK, InProgress, refresh, history, Goto
<1> USE DEF RefreshIssued, SetTokens
<1>0. /\ presented[o] \in Pair /\ pc[o] = "awaiting"
      /\ \A f \in Calls : Active(f) => f = o
  BY DEF ActiveAwaited, FieldNamesActive, Active
<1>1. /\ tokens' \in Pair
      /\ tokens'.login = presented[o].login
      /\ tokens'.gen = presented[o].gen + 1
  BY <1>0 DEF Pair
<1>2. ActiveAwaited'
  BY DEF ActiveAwaited, Active
<1>3. LoadAlone'
  BY <1>0 DEF LoadAlone
<1>4. LoginUnused'
  BY <1>0, <1>1 DEF LoginUnused
<1>5. SpentBehind'
  BY <1>0, <1>1 DEF SpentBehind, Active, Pair
<1>6. LoadForward'
  BY DEF LoadForward
<1> QED
  BY <1>2, <1>3, <1>4, <1>5, <1>6

\* So does the death of the process: the next one has exchanged nothing, and
\* starts with the first pair of the configuration or with none.
LEMMA StartupStepRestart ==
  ASSUME StartupInv, FlightInv', Restart PROVE StartupInv'
<1> USE SessionAssumption DEF StartupInv, FlightInv, TypeOK, Restart
<1>1. SeedTokens \in {None, [login |-> Seed, gen |-> 0]}
  BY DEF SeedTokens
<1>2. \A o \in Calls : pc'[o] \notin InProgress /\ (pc'[o] = "idle" => pc[o] = "idle")
  BY DEF InProgress
<1>3. ActiveAwaited'
  BY DEF ActiveAwaited, Active
<1>4. LoadAlone'
  BY <1>2 DEF LoadAlone, InProgress
<1>5. LoginUnused'
  BY <1>1, <1>2 DEF LoginUnused, InProgress
<1>6. SpentBehind'
  BY DEF SpentBehind
<1>7. LoadForward'
  BY <1>1, <1>2 DEF LoadForward, InProgress, Pair
<1> QED
  BY <1>3, <1>4, <1>5, <1>6, <1>7

\* Every step preserves it.
LEMMA StartupStep == ASSUME LoadsAtStartup PROVE StartupInv /\ [Next]_vars => StartupInv'
<1> SUFFICES ASSUME StartupInv, [Next]_vars PROVE StartupInv'
  OBVIOUS
<1>1. FlightInv'
  BY FlightStep DEF StartupInv
<1>2. CASE Next
  BY <1>1, <1>2, NextCases, StartupStepLogin, StartupStepLoad, StartupStepWrite,
     StartupStepRefresh, StartupStepIssued, StartupStepRestart
<1>3. CASE UNCHANGED vars
  BY <1>1, <1>3 DEF StartupInv, ActiveAwaited, Active, LoadAlone, LoginUnused, SpentBehind,
     LoadForward, vars, refresh, history
<1> QED
  BY <1>2, <1>3

LEMMA StartupInvHolds == ASSUME LoadsAtStartup PROVE Spec => []StartupInv
BY StartupInit, StartupStep, PTL DEF Spec

\* If loadTokens is awaited alone and before the first refresh, the process
\* never presents a refresh token that it has already exchanged, whatever
\* mixture of logins, logouts and refreshes follows.
THEOREM NoTokenReused == ASSUME LoadsAtStartup PROVE Spec => []NoRefreshTokenReuse
<1>1. StartupInv => NoRefreshTokenReuse
  <2> SUFFICES ASSUME StartupInv, NEW f \in Calls, flight[f] = "requesting",
                      presented[f] \in spent
               PROVE  FALSE
    BY DEF NoRefreshTokenReuse
  <2> QED
    BY DEF StartupInv, SpentBehind, FlightInv, TypeOK, Pair
<1> QED
  BY <1>1, StartupInvHolds, PTL

\* Under the same discipline no step of a process puts an older pair of a
\* login in the place of a newer one.
THEOREM PairsAdvance == ASSUME LoadsAtStartup PROVE Spec => NoRollback
<1> DEFINE Advances == restarts' = restarts /\ tokens # None /\ tokens' # None
                         /\ tokens.login = tokens'.login
                       => tokens.gen <= tokens'.gen
<1>1. StartupInv /\ [Next]_vars => [Advances]_vars
  <2> SUFFICES ASSUME StartupInv, Next PROVE Advances
    OBVIOUS
  <2> USE DEF StartupInv, FlightInv, TypeOK
  <2>0. tokens # None => tokens.gen \in Int
    BY DEF Pair
  <2>1. CASE Restart
    BY <2>1, SessionAssumption DEF Restart
  <2>2. ASSUME NEW o \in Calls,
               \/ CallAuthenticate(o) \/ CodeRefused(o) \/ CallLoad(o) \/ StorageRead(o)
               \/ LoadFails(o) \/ CallSaved(o) \/ CallSaveFails(o)
               \/ CallLogout(o) \/ LogoutCleared(o) \/ LogoutFails(o)
               \/ RefreshUnavailable(o) \/ StartRefresh(o) \/ JoinRefresh(o)
               \/ RefreshRefused(o) \/ RefreshSaved(o) \/ RefreshSaveFails(o) \/ RefreshReturns(o)
        PROVE  tokens' = tokens \/ tokens' = None
    BY <2>2 DEF CallAuthenticate, CodeRefused, CallLoad, StorageRead, LoadFails, CallSaved,
       CallSaveFails, CallLogout, LogoutCleared, LogoutFails, RefreshUnavailable, StartRefresh,
       JoinRefresh, RefreshRefused, RefreshSaved, RefreshSaveFails, RefreshReturns
  <2>3. ASSUME NEW o \in Calls, CodeExchanged(o)
        PROVE  Advances
    BY <2>3 DEF CodeExchanged, SetTokens, LoginUnused
  <2>4. ASSUME NEW o \in Calls, LoadReturns(o)
        PROVE  Advances
    BY <2>0, <2>4 DEF LoadReturns, SetTokens, LoadAlone, LoadForward
  <2>5. ASSUME NEW o \in Calls, RefreshIssued(o)
        PROVE  Advances
    <3>1. presented[o] \in Pair
      BY <2>5 DEF RefreshIssued, FieldNamesActive, Active
    <3>2. tokens'.login = presented[o].login /\ tokens'.gen = presented[o].gen + 1
      BY <2>5, <3>1 DEF RefreshIssued, SetTokens, Pair
    <3> QED
      BY <2>0, <2>5, <3>1, <3>2 DEF RefreshIssued, SpentBehind, Pair
  <2> QED
    BY <2>0, <2>1, <2>2, <2>3, <2>4, <2>5, NextCases
<1> QED
  BY <1>1, StartupInvHolds, PTL DEF Spec, NoRollback
=============================================================================
