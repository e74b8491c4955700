---------------------------- MODULE ClientProofs ----------------------------
(***************************************************************************)
(* Theorems about Client: its session is a TokenSession and its transport  *)
(* an HttpClient, it inherits what is proved of them, nobody in it waits   *)
(* for what cannot happen, and refreshes are answered within the login that *)
(* they were started for, except where RefreshAnswers says otherwise.      *)
(***************************************************************************)
EXTENDS Client, HttpClientProofs, SequenceTheorems

\* The session once more, with what is proved of it.
Proved == INSTANCE TokenSessionProofs
  WITH pc <- place, refreshInFlight <- inFlight, joined <- awaited,
       LoadFirst <- TRUE, restarts <- 0, MaxRestarts <- 0

-----------------------------------------------------------------------------
(* The session of the client.                                              *)

\* The client's assumption is stronger than the session's.
LEMMA SessionAssumed ==
  /\ None \notin Proved!Pair
  /\ Kinds \subseteq Proved!AllKinds /\ Exclusive \subseteq Proved!AllKinds
  /\ Seed \notin Calls
  /\ None \notin Calls
  /\ TRUE \in BOOLEAN /\ Seeded \in BOOLEAN /\ HasStorage \in BOOLEAN
  /\ MaxGen \in Nat /\ 0 \in Nat
BY ClientAssumption DEF Proved!Pair, Session!Pair, Proved!AllKinds, Session!AllKinds

\* The two instances of the session are the same specification.
LEMMA SameSession ==
  /\ Session!Init <=> Proved!Init
  /\ [Session!Next]_(Session!vars) <=> [Proved!Next]_(Proved!vars)
<1>1. Session!Init <=> Proved!Init
  BY Zenon
  DEF Session!Init, Proved!Init, Session!SeedTokens, Proved!SeedTokens
<1>2. [Session!Next]_(Session!vars) <=> [Proved!Next]_(Proved!vars)
  BY Zenon
  DEF Session!Next, Proved!Next, Session!Call, Proved!Call, Session!Continue,
     Proved!Continue, Session!TokenEndpointStep, Proved!TokenEndpointStep,
     Session!StorageStep, Proved!StorageStep, Session!CallAuthenticate,
     Proved!CallAuthenticate, Session!CodeExchanged, Proved!CodeExchanged,
     Session!CodeRefused, Proved!CodeRefused, Session!CallLoad,
     Proved!CallLoad, Session!StorageRead, Proved!StorageRead,
     Session!LoadFails, Proved!LoadFails, Session!LoadReturns,
     Proved!LoadReturns, Session!CallSaved, Proved!CallSaved,
     Session!CallSaveFails, Proved!CallSaveFails, Session!RefreshUnavailable,
     Proved!RefreshUnavailable, Session!StartRefresh, Proved!StartRefresh,
     Session!JoinRefresh, Proved!JoinRefresh, Session!RefreshIssued,
     Proved!RefreshIssued, Session!RefreshRefused, Proved!RefreshRefused,
     Session!RefreshSaved, Proved!RefreshSaved, Session!RefreshSaveFails,
     Proved!RefreshSaveFails, Session!RefreshReturns, Proved!RefreshReturns,
     Session!CallLogout, Proved!CallLogout, Session!LogoutCleared,
     Proved!LogoutCleared, Session!LogoutFails, Proved!LogoutFails,
     Session!Restart, Proved!Restart, Session!Make, Proved!Make, Session!Goto,
     Proved!Goto, Session!SetTokens, Proved!SetTokens, Session!Settle,
     Proved!Settle, Session!NoRefresh, Proved!NoRefresh, Session!InProgress,
     Proved!InProgress, Session!SeedTokens, Proved!SeedTokens, Session!refresh,
     Proved!refresh, Session!history, Proved!history, Session!vars, Proved!vars
<1> QED
  BY <1>1, <1>2

-----------------------------------------------------------------------------
(* The invariant of the client.                                            *)

\* The pairs that the session has held are numbered in the order of their
\* arrival, and what the transport sees of the pair in memory is its number and
\* whether it is outdated.
NumberInv ==
  /\ held \in Seq(Proved!Pair) /\ issued = Len(held)
  /\ \A i, j \in 1..Len(held) : held[i] = held[j] => i = j
  /\ tokens = None => token = 0
  /\ tokens # None => token \in 1..Len(held) /\ held[token] = tokens
  /\ expired = (token \in outdated)
  /\ outdated \subseteq unfit /\ outdated \subseteq 1..Len(held)

\* The pair in memory, and one that is presented, is the latest of its login
\* that the session has held; a login yet to come has none, and before the
\* first refresh there are first pairs only.
LatestInv ==
  /\ \A i \in 1..Len(held) :
       /\ \A o \in Calls : place[o] \in {"idle", "exchanging"} => held[i].login # o
       /\ tokens # None /\ held[i].login = tokens.login => held[i].gen <= tokens.gen
       /\ \A f \in Calls : flight[f] = "requesting" /\ held[i].login = presented[f].login
            => held[i].gen <= presented[f].gen
       /\ spent = {} => held[i].gen = 0
  /\ spent = {} =>
       /\ stored # None => stored.gen = 0
       /\ \A o \in Calls : place[o] = "saving" /\ result[o] # None => result[o].gen = 0

\* A call that awaited or awaits a refresh awaits one that was started, by
\* a call that started nothing else.
Awaits == {"awaiting", "done", "failed"}

AwaitInv ==
  /\ inFlight # None => Session!Active(inFlight)
  /\ \A o \in Calls :
       /\ flight[o] # "none" => place[o] \in Awaits /\ presented[o] \in Proved!Pair
       /\ place[o] = "awaiting" => awaited[o] # None
       /\ awaited[o] # None => place[o] \in Awaits /\ flight[awaited[o]] # "none"
       /\ flight[o] \in {"saving", "resolved"} => Holds(result[o])

\* Each refresh of the transport has a call of the session, which awaits the
\* pair that the transport was told of.
CallersInv ==
  /\ callers \in Seq(Calls) /\ Len(callers) = Len(flights)
  /\ \A f \in 1..Len(flights) :
       /\ awaited[callers[f]] # None
       /\ Pending(f) => place[callers[f]] = "awaiting"
       /\ flights[f].how = "issued" =>
            /\ flight[awaited[callers[f]]] # "requesting"
            /\ held[flights[f].value] = result[awaited[callers[f]]]

ClientInv == NumberInv /\ LatestInv /\ AwaitInv /\ CallersInv

\* With what is proved of the two parts.
JointInv == TransportInv /\ Proved!StartupInv /\ ClientInv

\* The session, the numbers of its pairs and its calls, at first.
LEMMA JointInit == ClientInit => JointInv
<1> SUFFICES ASSUME ClientInit PROVE JointInv
  OBVIOUS
<1>1. TransportInv
  BY TransportInvInit DEF ClientInit
<1>2. Proved!Init
  BY SameSession DEF ClientInit
<1>3. Proved!StartupInv
  BY <1>2, SessionAssumed, Proved!StartupInit
<1>4. tokens \in {None, [login |-> Seed, gen |-> 0]}
      /\ [login |-> Seed, gen |-> 0] \in Proved!Pair
  BY <1>2, SessionAssumed DEF Proved!Init, Proved!SeedTokens, Proved!Pair
<1>5. NumberInv
  <2>1. held \in Seq(Proved!Pair) /\ issued = Len(held) /\ token = Len(held)
    BY <1>4, SessionAssumed DEF ClientInit, Init
  <2>2. expired = (token \in outdated) /\ outdated = {}
    <3>1. expired = FALSE /\ outdated = {}
      BY DEF ClientInit, Init
    <3>2. (token \in outdated) = FALSE
      BY <3>1
    <3> QED
      BY ONLY <3>1, <3>2
  <2>3. tokens = None => held = << >>
    BY DEF ClientInit
  <2>4. tokens # None => held = <<tokens>>
    BY DEF ClientInit
  <2> QED
    BY <2>1, <2>2, <2>3, <2>4 DEF NumberInv
<1>6. LatestInv
  BY <1>2, <1>4, SessionAssumed DEF LatestInv, ClientInit, Proved!Init
<1>7. AwaitInv
  BY <1>2 DEF AwaitInv, Proved!Init
<1>8. CallersInv
  BY DEF CallersInv, ClientInit, Init
<1> QED
  BY <1>1, <1>3, <1>5, <1>6, <1>7, <1>8 DEF JointInv, ClientInv

-----------------------------------------------------------------------------
(* The pairs that the provider answers.                                    *)

\* Pairs keep their numbers, and a new one is the pair in memory.
HeldGrows ==
  /\ held' \in Seq(Proved!Pair)
  /\ tokens' # None => \E i \in 1..Len(held') : held'[i] = tokens'
  /\ \A i \in 1..Len(held) : i \in 1..Len(held') /\ held'[i] = held[i]
  /\ \A i \in 1..Len(held') : i \notin 1..Len(held) => tokens' # None /\ held'[i] = tokens'

\* What a membership that is kept in a variable says.
LEMMA MembershipKept ==
  ASSUME NEW e, NEW x, NEW S, e = (x \in S)
  PROVE  e \in BOOLEAN /\ (e => x \in S) /\ (x \notin S => e = FALSE)
<1>1. CASE x \in S
  <2>1. (x \in S) = TRUE
    BY <1>1
  <2>2. e = TRUE
    BY ONLY <2>1, e = (x \in S)
  <2> QED
    BY <1>1, <2>2
<1>2. CASE x \notin S
  <2>1. (x \in S) = FALSE
    BY <1>2
  <2>2. e = FALSE
    BY ONLY <2>1, e = (x \in S)
  <2> QED
    BY <1>2, <2>2
<1> QED
  BY <1>1, <1>2

\* The number of a pair that is held is its place.
LEMMA NumberOfHeld ==
  ASSUME NEW s \in Seq(Proved!Pair), NEW i \in 1..Len(s),
         \A j, k \in 1..Len(s) : s[j] = s[k] => j = k
  PROVE  Number(s, s[i]) = i
BY DEF Number

\* After the step of a provider, the pair in memory is held, and the token is its number.
LEMMA ProvideNumbers ==
  ASSUME NumberInv, Provide, tokens' \in Proved!Pair
  PROVE  /\ \A i, j \in 1..Len(held') : held'[i] = held'[j] => i = j
         /\ token' \in 1..Len(held') /\ held'[token'] = tokens'
<1>1. CASE Holds(tokens')
  <2>1. held' = held
    BY <1>1 DEF Provide, Holds
  <2>2. PICK i \in 1..Len(held) : held[i] = tokens'
    BY <1>1 DEF Holds
  <2>3. Number(held, held[i]) = i
    BY NumberOfHeld DEF NumberInv
  <2> QED
    BY <2>1, <2>2, <2>3, SessionAssumed DEF Provide, NumberInv
<1>2. CASE ~Holds(tokens')
  <2>1. held' = Append(held, tokens')
    BY <1>2, SessionAssumed DEF Provide, Holds
  <2>2. /\ held' \in Seq(Proved!Pair) /\ Len(held') = Len(held) + 1
        /\ held'[Len(held) + 1] = tokens'
        /\ \A i \in 1..Len(held) : held'[i] = held[i] /\ held[i] # tokens'
    BY <1>2, <2>1 DEF Holds, NumberInv
  <2>3. \A i, j \in 1..Len(held') : held'[i] = held'[j] => i = j
    BY <2>2 DEF NumberInv
  <2>4. Number(held', held'[Len(held) + 1]) = Len(held) + 1
    BY <2>2, <2>3, NumberOfHeld DEF NumberInv
  <2> QED
    BY <2>2, <2>3, <2>4, SessionAssumed DEF Provide, NumberInv
<1> QED
  BY <1>1, <1>2

\* That is what the step of a provider does,
LEMMA ProvideGrows ==
  ASSUME NumberInv, Provide, tokens' \in Proved!Pair \cup {None}
  PROVE  HeldGrows
<1>1. tokens' # None => \E i \in 1..Len(held') : held'[i] = tokens'
  BY ProvideNumbers
<1>2. CASE tokens' = None \/ Holds(tokens')
  BY <1>1, <1>2 DEF Provide, HeldGrows, NumberInv
<1>3. CASE tokens' # None /\ ~Holds(tokens')
  BY <1>1, <1>3 DEF Provide, HeldGrows, NumberInv
<1> QED
  BY <1>2, <1>3

\* and every step that leaves the pair in memory alone.
LEMMA KeptGrows == ASSUME NumberInv, UNCHANGED <<held, tokens>> PROVE HeldGrows
BY DEF NumberInv, HeldGrows

\* So the numbering keeps its invariant.
LEMMA ProvideKeepsNumbers ==
  ASSUME NumberInv, Provide, tokens' \in Proved!Pair \cup {None}, UNCHANGED <<outdated, unfit>>
  PROVE  NumberInv'
<1>1. held' \in Seq(Proved!Pair) /\ issued' = Len(held') /\ outdated' \subseteq 1..Len(held')
  BY ProvideGrows DEF HeldGrows, NumberInv, Provide
<1>2. expired' = (token' \in outdated')
  BY DEF Provide
<1>3. CASE tokens' = None
  BY <1>1, <1>2, <1>3 DEF NumberInv, Provide
<1>4. CASE tokens' \in Proved!Pair
  BY <1>1, <1>2, <1>4, ProvideNumbers, SessionAssumed DEF NumberInv
<1> QED
  BY <1>3, <1>4

\* What the transport sees of it: nothing when the pair in memory stays,
LEMMA ProvideSame ==
  ASSUME NumberInv, Provide, tokens' = tokens, tokens \in Proved!Pair \cup {None}
  PROVE  UNCHANGED owner /\ held' = held
<1>1. held' = held
  BY DEF Provide, NumberInv, Holds
<1>2. token' = token
  BY <1>1, ProvideNumbers, SessionAssumed DEF Provide, NumberInv
<1> QED
  BY <1>1, <1>2 DEF Provide, NumberInv, owner

\* no tokens when it is forgotten,
LEMMA ProvideNone ==
  ASSUME NumberInv, Provide, tokens' = None
  PROVE  token' = 0 /\ expired' = FALSE /\ issued' = issued /\ reuses' = reuses
<1>1. held' = held /\ token' = 0 /\ reuses' = reuses
  BY DEF Provide
<1>2. 0 \notin outdated
  BY DEF NumberInv
<1>3. expired' = (token' \in outdated)
  BY DEF Provide
<1>4. expired' = FALSE
  BY <1>1, <1>2, <1>3, MembershipKept
<1> QED
  BY <1>1, <1>4 DEF Provide, NumberInv

\* and otherwise a new pair, the same or one from before.
LEMMA ProvidePair ==
  ASSUME TypeOK, NumberInv, Provide, tokens' \in Proved!Pair
  PROVE  /\ ~Holds(tokens') => NewPair
         /\ Holds(tokens') =>
              \/ UNCHANGED owner
              \/ /\ Reuse
                 /\ token' \in 1..issued \ {token}
                 /\ expired' \in BOOLEAN /\ (expired' => token' \in unfit)
<1>1. token' \in 1..Len(held') /\ held'[token'] = tokens'
  BY ProvideNumbers
<1>2. ASSUME ~Holds(tokens') PROVE NewPair
  <2>1. /\ held' = Append(held, tokens') /\ Len(held') = Len(held) + 1
        /\ \A i \in 1..Len(held) : held'[i] = held[i] /\ held[i] # tokens'
    BY <1>2, SessionAssumed DEF Provide, NumberInv, Holds
  <2>2. token' = issued + 1 /\ issued' = issued + 1
    BY <1>1, <2>1 DEF Provide, NumberInv
  <2>3. token' \notin outdated
    BY <2>2 DEF NumberInv
  <2>4. expired' = FALSE
    <3>1. expired' = (token' \in outdated)
      BY DEF Provide
    <3> QED
      BY <2>3, <3>1, MembershipKept
  <2>5. reuses' = reuses /\ issued' + reuses <= MaxTokens
    BY <2>2 DEF Provide
  <2> QED
    BY <2>2, <2>4, <2>5, HttpAssumption DEF NewPair, TypeOK
<1>3. ASSUME Holds(tokens')
      PROVE  \/ UNCHANGED owner
             \/ /\ Reuse
                /\ token' \in 1..issued \ {token}
                /\ expired' \in BOOLEAN /\ (expired' => token' \in unfit)
  <2>1. held' = held /\ issued' = issued
    BY <1>3 DEF Provide, NumberInv
  <2>2. token' \in 1..issued
    BY <1>1, <2>1 DEF NumberInv
  <2>3. CASE token' = token
    BY <2>1, <2>3 DEF Provide, NumberInv, owner
  <2>4. CASE token' # token
    <3>1. reuses' = reuses + 1
      BY <2>2, <2>4 DEF Provide, TypeOK
    <3>2. issued + reuses < MaxTokens
      <4>1. issued' + reuses' <= MaxTokens
        BY DEF Provide
      <4>2. issued \in Nat /\ reuses \in Nat /\ MaxTokens \in Nat
        BY HttpAssumption DEF TypeOK
      <4> QED
        BY <2>1, <3>1, <4>1, <4>2
    <3>3. expired' \in BOOLEAN /\ (expired' => token' \in unfit)
      <4>1. expired' = (token' \in outdated) /\ outdated \subseteq unfit
        BY DEF Provide, NumberInv
      <4> QED
        BY <4>1, MembershipKept
    <3> QED
      BY <2>1, <2>2, <2>4, <3>1, <3>2, <3>3 DEF Reuse
  <2> QED
    BY <2>3, <2>4
<1> QED
  BY <1>2, <1>3

-----------------------------------------------------------------------------
(* The session, with the pairs that it has held.                           *)

\* Every step of the session is one of these, as the process does not die.
LEMMA SessionCases ==
  ASSUME Session!Next
  PROVE  \E o \in Calls :
           \/ Session!CallAuthenticate(o) \/ Session!CodeExchanged(o) \/ Session!CodeRefused(o)
           \/ Session!CallLoad(o) \/ Session!StorageRead(o) \/ Session!LoadFails(o)
           \/ Session!LoadReturns(o) \/ Session!CallSaved(o) \/ Session!CallSaveFails(o)
           \/ Session!CallLogout(o) \/ Session!LogoutCleared(o) \/ Session!LogoutFails(o)
           \/ Session!RefreshUnavailable(o) \/ Session!StartRefresh(o) \/ Session!JoinRefresh(o)
           \/ Session!RefreshIssued(o) \/ Session!RefreshRefused(o) \/ Session!RefreshSaved(o)
           \/ Session!RefreshSaveFails(o) \/ Session!RefreshReturns(o)
<1>1. ~Session!Restart
  BY DEF Session!Restart
<1> QED
  BY <1>1, Zenon DEF Session!Next, Session!Call, Session!Continue, Session!TokenEndpointStep,
     Session!StorageStep

\* Every step of the session keeps what is proved of the session.
LEMMA StartupKept ==
  ASSUME Proved!StartupInv, [Session!Next]_(Session!vars)
  PROVE  Proved!StartupInv'
<1>1. Proved!LoadsAtStartup
  BY ClientAssumption DEF Proved!LoadsAtStartup
<1>2. [Proved!Next]_(Proved!vars)
  BY SameSession
<1> QED
  BY <1>1, <1>2, SessionAssumed, Proved!StartupStep

\* Every step of the session keeps what is known of those that await refreshes.
LEMMA AwaitKept ==
  ASSUME Proved!StartupInv, AwaitInv, HeldGrows, Session!Next
  PROVE  AwaitInv'
<1> USE SessionAssumed
    DEF Proved!StartupInv, Proved!FlightInv, Proved!TypeOK, AwaitInv, Awaits, HeldGrows, Holds,
        Session!refresh, Session!history, Session!Goto, Session!Make, Session!Active
<1>1. ASSUME NEW o \in Calls,
             \/ Session!CallAuthenticate(o) \/ Session!CodeRefused(o)
             \/ Session!CallLoad(o) \/ Session!LoadFails(o) \/ Session!CallSaved(o)
             \/ Session!CallSaveFails(o) \/ Session!CallLogout(o) \/ Session!LogoutCleared(o)
             \/ Session!LogoutFails(o) \/ Session!RefreshUnavailable(o)
      PROVE  AwaitInv'
  BY <1>1 DEF Session!CallAuthenticate, Session!CodeRefused, Session!CallLoad, Session!LoadFails,
     Session!CallSaved, Session!CallSaveFails, Session!CallLogout, Session!LogoutCleared,
     Session!LogoutFails, Session!RefreshUnavailable
<1>2. ASSUME NEW o \in Calls,
             Session!CodeExchanged(o) \/ Session!StorageRead(o) \/ Session!LoadReturns(o)
      PROVE  AwaitInv'
  BY <1>2 DEF Session!CodeExchanged, Session!StorageRead, Session!LoadReturns, Session!SetTokens
<1>3. ASSUME NEW o \in Calls, Session!StartRefresh(o) \/ Session!JoinRefresh(o)
      PROVE  AwaitInv'
  BY <1>3 DEF Session!StartRefresh, Session!JoinRefresh, Session!NoRefresh
<1>4. ASSUME NEW o \in Calls, Session!RefreshIssued(o)
      PROVE  AwaitInv'
  <2> USE <1>4 DEF Session!RefreshIssued, Session!SetTokens
  <2>1. tokens' \in Proved!Pair /\ result' = [result EXCEPT ![o] = tokens']
    BY Proved!NextGeneration DEF Proved!Pair
  <2>2. \E i \in 1..Len(held') : held'[i] = result'[o]
    BY <2>1
  <2> QED
    BY <2>1, <2>2
<1>5. ASSUME NEW o \in Calls,
             \/ Session!RefreshRefused(o) \/ Session!RefreshSaved(o)
             \/ Session!RefreshSaveFails(o) \/ Session!RefreshReturns(o)
      PROVE  AwaitInv'
  BY <1>5 DEF Session!RefreshRefused, Session!RefreshSaved, Session!RefreshSaveFails,
     Session!RefreshReturns, Session!Settle
<1> QED
  BY <1>1, <1>2, <1>3, <1>4, <1>5, SessionCases

\* Every step of the session keeps the pairs in their order.
LEMMA LatestKept ==
  ASSUME Proved!StartupInv, Proved!StartupInv', NumberInv, LatestInv, HeldGrows, Session!Next
  PROVE  LatestInv'
<1> USE SessionAssumed
    DEF Proved!StartupInv, Proved!FlightInv, Proved!TypeOK, LatestInv, HeldGrows,
        Session!refresh, Session!history, Session!Goto, Session!Make
\* A new pair is the one in memory, so the pairs held before are to be compared.
<1>0. ASSUME \A i \in 1..Len(held) :
               /\ \A o \in Calls : place'[o] \in {"idle", "exchanging"} => held[i].login # o
               /\ tokens' # None /\ held[i].login = tokens'.login => held[i].gen <= tokens'.gen
               /\ \A f \in Calls : flight'[f] = "requesting" /\ held[i].login = presented'[f].login
                    => held[i].gen <= presented'[f].gen,
             spent' = {} =>
               /\ \A i \in 1..Len(held) : held[i].gen = 0
               /\ tokens' # None => tokens'.gen = 0
               /\ stored' # None => stored'.gen = 0
               /\ \A o \in Calls :
                    place'[o] = "saving" /\ result'[o] # None => result'[o].gen = 0
      PROVE  LatestInv'
  <2>1. \A i \in 1..Len(held') :
           \/ i \in 1..Len(held) /\ held'[i] = held[i]
           \/ tokens' # None /\ held'[i] = tokens'
    OBVIOUS
  <2>2. /\ \A o \in Calls : place'[o] \in {"idle", "exchanging"} =>
             tokens' = None \/ tokens'.login # o
        /\ \A f \in Calls :
             flight'[f] = "requesting" /\ tokens' # None /\ tokens'.login = presented'[f].login
               => tokens'.gen <= presented'[f].gen
    BY DEF Proved!LoginUnused, Proved!SpentBehind
  <2>3. tokens' # None => tokens'.gen <= tokens'.gen
    BY DEF Proved!Pair
  <2> QED
    BY <1>0, <2>1, <2>2, <2>3
<1>1. tokens # None => tokens \in Proved!Pair /\ (spent = {} => tokens.gen = 0)
  BY DEF NumberInv
<1>2. ASSUME NEW o \in Calls,
             \/ Session!CallAuthenticate(o) \/ Session!CodeRefused(o)
             \/ Session!CallLoad(o) \/ Session!LoadFails(o) \/ Session!StorageRead(o)
             \/ Session!RefreshUnavailable(o) \/ Session!JoinRefresh(o)
             \/ Session!RefreshRefused(o) \/ Session!RefreshReturns(o)
             \/ Session!CallLogout(o) \/ Session!LogoutCleared(o) \/ Session!LogoutFails(o)
             \/ Session!CallSaved(o) \/ Session!CallSaveFails(o)
             \/ Session!RefreshSaved(o) \/ Session!RefreshSaveFails(o)
      PROVE  LatestInv'
  <2>1. /\ tokens' = tokens \/ tokens' = None
        /\ spent' = spent /\ presented' = presented
        /\ \A p \in Calls : place'[p] \in {"idle", "exchanging"} => place[p] \in {"idle", "exchanging"}
        /\ \A f \in Calls : flight'[f] = "requesting" => flight[f] = "requesting"
    BY <1>2 DEF Session!CallAuthenticate, Session!CodeRefused, Session!CallLoad,
       Session!LoadFails, Session!StorageRead, Session!RefreshUnavailable,
       Session!JoinRefresh, Session!RefreshRefused, Session!RefreshReturns, Session!Settle,
       Session!CallLogout, Session!LogoutCleared, Session!LogoutFails, Session!CallSaved,
       Session!CallSaveFails, Session!RefreshSaved, Session!RefreshSaveFails
  <2>2. \A p \in Calls : place'[p] = "saving" => place[p] = "saving" /\ result'[p] = result[p]
    BY <1>2 DEF Session!CallAuthenticate, Session!CodeRefused, Session!CallLoad,
       Session!LoadFails, Session!StorageRead, Session!RefreshUnavailable,
       Session!JoinRefresh, Session!RefreshRefused, Session!RefreshReturns, Session!Settle,
       Session!CallLogout, Session!LogoutCleared, Session!LogoutFails, Session!CallSaved,
       Session!CallSaveFails, Session!RefreshSaved, Session!RefreshSaveFails
  <2>3. spent = {} /\ stored' # None => stored'.gen = 0
    BY <1>2 DEF Session!CallAuthenticate, Session!CodeRefused, Session!CallLoad,
       Session!LoadFails, Session!StorageRead, Session!RefreshUnavailable,
       Session!JoinRefresh, Session!RefreshRefused, Session!RefreshReturns, Session!Settle,
       Session!CallLogout, Session!LogoutCleared, Session!LogoutFails, Session!CallSaved,
       Session!CallSaveFails, Session!RefreshSaved, Session!RefreshSaveFails, Proved!SpentBehind
  <2> QED
    BY <1>0, <1>1, <2>1, <2>2, <2>3
<1>3. ASSUME NEW o \in Calls, Session!CodeExchanged(o)
      PROVE  LatestInv'
  <2>1. /\ tokens' = [login |-> o, gen |-> 0]
        /\ \A p \in Calls : place'[p] \in {"idle", "exchanging"} => place[p] \in {"idle", "exchanging"}
        /\ \A p \in Calls : place'[p] = "saving" => result'[p] = tokens' \/ (place[p] = "saving" /\ result'[p] = result[p])
        /\ UNCHANGED <<stored, flight, presented, spent>>
        /\ \A i \in 1..Len(held) : held[i].login # o
    BY <1>3 DEF Session!CodeExchanged, Session!SetTokens
  <2> QED
    BY <1>0, <2>1
<1>4. ASSUME NEW o \in Calls, Session!LoadReturns(o)
      PROVE  LatestInv'
  <2>1. spent = {} /\ result[o] = stored /\ \A f \in Calls : flight[f] # "requesting"
    BY <1>4 DEF Session!LoadReturns, Proved!LoadAlone, Proved!ActiveAwaited, Proved!Active,
       Proved!InProgress
  <2>2. /\ tokens' = tokens \/ (stored # None /\ tokens' = stored)
        /\ \A p \in Calls : place'[p] \in {"idle", "exchanging"} => place[p] \in {"idle", "exchanging"}
        /\ \A p \in Calls : place'[p] = "saving" =>
             result'[p] = stored \/ (place[p] = "saving" /\ result'[p] = result[p])
        /\ UNCHANGED <<stored, flight, presented, spent>>
    BY <1>4, <2>1 DEF Session!LoadReturns, Session!SetTokens
  <2> QED
    BY <1>0, <1>1, <2>1, <2>2
<1>5. ASSUME NEW o \in Calls, Session!StartRefresh(o)
      PROVE  LatestInv'
  <2>1. /\ tokens # None /\ UNCHANGED <<tokens, stored, spent, result>>
        /\ \A p \in Calls : place'[p] \in {"idle", "exchanging", "saving"} => place'[p] = place[p]
        /\ \A f \in Calls : flight'[f] = "requesting" =>
             \/ presented'[f] = tokens
             \/ flight[f] = "requesting" /\ presented'[f] = presented[f]
    BY <1>5 DEF Session!StartRefresh
  <2> QED
    BY <1>0, <1>1, <2>1
<1>6. ASSUME NEW o \in Calls, Session!RefreshIssued(o)
      PROVE  LatestInv'
  <2>1. /\ presented[o] \in Proved!Pair
        /\ \A f \in Calls : flight[f] = "requesting" => f = o
    BY <1>6 DEF Session!RefreshIssued, Proved!FieldNamesActive, Proved!Active
  <2>2. /\ tokens'.login = presented[o].login /\ tokens'.gen = presented[o].gen + 1
        /\ spent' # {} /\ place' = place /\ presented' = presented
        /\ \A f \in Calls : flight'[f] # "requesting"
    BY <1>6, <2>1 DEF Session!RefreshIssued, Session!SetTokens, Proved!Pair
  <2>3. \A i \in 1..Len(held) : held[i].login = tokens'.login => held[i].gen <= tokens'.gen
    <3> SUFFICES ASSUME NEW i \in 1..Len(held), held[i].login = tokens'.login
                 PROVE  held[i].gen <= tokens'.gen
      OBVIOUS
    <3>1. held[i].gen <= presented[o].gen
      BY <1>6, <2>2 DEF Session!RefreshIssued
    <3>2. held[i].gen \in Int /\ presented[o].gen \in Int
      <4>1. held[i] \in Proved!Pair
        BY DEF NumberInv
      <4>2. \A p \in Proved!Pair : p.gen \in Int
        BY DEF Proved!Pair
      <4> QED
        BY <2>1, <4>1, <4>2
    <3> QED
      BY <2>2, <3>1, <3>2
  <2> QED
    BY <1>0, <2>2, <2>3
<1> QED
  BY <1>2, <1>3, <1>4, <1>5, <1>6, SessionCases

-----------------------------------------------------------------------------
(* The steps of the client.                                                *)

\* What each of them does: to the transport it is a step of HttpClient, to the
\* session one of TokenSession, and numbers and callers stay in order.
StepInv ==
  /\ [Next]_vars
  /\ Session!Next \/ UNCHANGED <<session, held>>
  /\ HeldGrows /\ NumberInv' /\ CallersInv'

LEMMA RequestSteps ==
  ASSUME JointInv, NEW r \in Requests, RequestStep(r)
  PROVE  StepInv
<1>1. [Next]_vars
  BY DEF RequestStep, Next
<1>2. UNCHANGED <<session, numbering, callers, flights>>
  BY DEF RequestStep
<1>3. UNCHANGED owner /\ unfit \subseteq unfit'
  <2>1. CASE Issue(r) \/ Admit(r) \/ AfterRefresh(r) \/ AfterDelay(r)
    BY <2>1 DEF Issue, Admit, AdmitUnauthenticated, AdmitWithToken, AdmitToRefresh,
       AdmitUnauthorized, AdmissionFails, AfterRefresh, Refreshed, RefreshedAfter401,
       RefreshFailed, AfterDelay, NextAttempt, DelayFails
  <2>2. CASE Answer(r)
    BY <2>2 DEF Answer, AnswerFinal, AnswerTransient, AnswerLost, Answer401, Answer401Final
  <2> QED
    BY <2>1, <2>2 DEF RequestStep
<1>4. HeldGrows
  BY <1>2, KeptGrows DEF JointInv, ClientInv, session, numbering
<1>5. NumberInv'
  BY <1>2, <1>3 DEF JointInv, ClientInv, NumberInv, session, numbering, owner
<1>6. CallersInv'
  BY <1>2 DEF JointInv, ClientInv, CallersInv, Pending, session, numbering
<1> QED
  BY <1>1, <1>2, <1>4, <1>5, <1>6 DEF StepInv, numbering

LEMMA PairExpiresStep ==
  ASSUME JointInv, PairExpires
  PROVE  StepInv
<1>1. TokenExpires /\ UNCHANGED <<session, held, callers, flights>>
      /\ outdated' = outdated \cup {token}
  BY DEF PairExpires, TokenExpires, refresh
<1>2. [Next]_vars
  BY <1>1 DEF Next
<1>3. HeldGrows
  BY <1>1, KeptGrows DEF JointInv, ClientInv, session
<1>4. NumberInv'
  <2>1. (token' \in outdated') = TRUE
    BY <1>1 DEF TokenExpires
  <2>2. expired' = (token' \in outdated')
    <3>1. expired' = TRUE
      BY <1>1 DEF TokenExpires
    <3> QED
      BY ONLY <2>1, <3>1
  <2> QED
    BY <1>1, <2>2 DEF JointInv, ClientInv, NumberInv, TokenExpires, session
<1>5. CallersInv'
  BY <1>1 DEF JointInv, ClientInv, CallersInv, Pending, session
<1> QED
  BY <1>1, <1>2, <1>3, <1>4, <1>5 DEF StepInv

\* A refresh of the transport starts or joins one of the session.
LEMMA RequestRefreshesStep ==
  ASSUME JointInv, NEW r \in Requests, RequestRefreshes(r)
  PROVE  StepInv /\ flights' = Append(flights, [from |-> token, how |-> "pending", value |-> 0])
<1> USE DEF JointInv, ClientInv
<1>1. [Next]_vars
  BY DEF RequestRefreshes, Next, Admit, Answer
<1>2. PICK o \in Calls :
        /\ Session!StartRefresh(o) \/ Session!JoinRefresh(o)
        /\ callers' = Append(callers, o)
  BY DEF RequestRefreshes
<1>3. Session!Next
  BY <1>2 DEF Session!Next, Session!Call
<1>4. UNCHANGED <<owner, held, outdated, tokens, result>> /\ unfit \subseteq unfit'
  BY <1>2 DEF RequestRefreshes, AdmitToRefresh, Answer401, numbering, Session!StartRefresh,
     Session!JoinRefresh
<1>5. HeldGrows
  BY <1>4, KeptGrows
<1>6. NumberInv'
  BY <1>4 DEF NumberInv, owner
<1>7. flights' = Append(flights, [from |-> token, how |-> "pending", value |-> 0])
  <2>1. (AdmitToRefresh(r) \/ Answer401(r)) /\ Len(flights') > Len(flights)
    BY DEF RequestRefreshes
  <2>2. StartRefresh(r) \/ flights' = flights
    BY <2>1 DEF AdmitToRefresh, Answer401, AwaitRefresh, JoinRefresh, refresh
  <2>3. flights' # flights
    BY <2>1 DEF TransportInv, TypeOK
  <2> QED
    BY <2>2, <2>3, ClientAssumption DEF StartRefresh
<1>8. CallersInv'
  <2>1. /\ place[o] = "idle" /\ place' = [place EXCEPT ![o] = "awaiting"]
        /\ awaited'[o] # None
        /\ \A p \in Calls \ {o} : awaited'[p] = awaited[p]
        /\ \A p \in Calls \ {o} : flight'[p] = flight[p]
    BY <1>2, SessionAssumed DEF Session!StartRefresh, Session!JoinRefresh, Session!Make,
       Session!Goto, Session!NoRefresh, Proved!StartupInv, Proved!FlightInv, Proved!TypeOK
  <2>2. /\ Len(flights') = Len(flights) + 1
        /\ flights'[Len(flights) + 1].how = "pending"
        /\ \A f \in 1..Len(flights) : flights'[f] = flights[f]
    BY <1>7 DEF TransportInv, TypeOK
  <2>3. /\ callers' \in Seq(Calls) /\ Len(callers') = Len(flights')
        /\ callers'[Len(flights) + 1] = o
        /\ \A f \in 1..Len(flights) : callers'[f] = callers[f]
    BY <1>2, <2>2 DEF CallersInv, TransportInv, TypeOK
  <2>4. ASSUME NEW f \in 1..Len(flights)
        PROVE  /\ callers[f] \in Calls \ {o} /\ awaited[callers[f]] \in Calls \ {o}
               /\ awaited[callers[f]] # None
    <3>1. callers[f] \in Calls /\ awaited[callers[f]] # None
      BY DEF CallersInv
    <3>2. awaited[callers[f]] \in Calls
      BY <3>1 DEF Proved!StartupInv, Proved!FlightInv, Proved!TypeOK
    <3> QED
      BY <2>1, <3>1, <3>2 DEF AwaitInv, Awaits
  <2> SUFFICES ASSUME NEW f \in 1..Len(flights')
               PROVE  /\ awaited'[callers'[f]] # None
                      /\ Pending(f)' => place'[callers'[f]] = "awaiting"
                      /\ flights'[f].how = "issued" =>
                           /\ flight'[awaited'[callers'[f]]] # "requesting"
                           /\ held'[flights'[f].value] = result'[awaited'[callers'[f]]]
    BY <2>3 DEF CallersInv
  <2>5. CASE f = Len(flights) + 1
    BY <2>1, <2>2, <2>3, <2>5 DEF Proved!StartupInv, Proved!FlightInv, Proved!TypeOK
  <2>6. CASE f \in 1..Len(flights)
    BY <1>4, <2>1, <2>2, <2>3, <2>4, <2>6 DEF CallersInv, Pending
  <2>7. f = Len(flights) + 1 \/ f \in 1..Len(flights)
    BY <2>2 DEF TransportInv, TypeOK
  <2> QED
    BY <2>5, <2>6, <2>7
<1> QED
  BY <1>1, <1>3, <1>5, <1>6, <1>7, <1>8 DEF StepInv

\* The callers stay in order when the session leaves those that the transport
\* called waiting, and the pairs of refreshes that have one alone.
LEMMA CallersKept ==
  ASSUME JointInv, HeldGrows, UNCHANGED <<flights, callers>>,
         \A o \in Calls : CalledByTransport(o) => place'[o] = place[o] /\ awaited'[o] = awaited[o],
         \A g \in Calls : flight[g] \notin {"none", "requesting"} =>
           flight'[g] # "requesting" /\ result'[g] = result[g]
  PROVE  CallersInv'
<1> USE DEF JointInv, ClientInv
<1> SUFFICES ASSUME NEW f \in 1..Len(flights)
             PROVE  /\ awaited'[callers[f]] # None
                    /\ Pending(f)' => place'[callers[f]] = "awaiting"
                    /\ flights[f].how = "issued" =>
                         /\ flight'[awaited'[callers[f]]] # "requesting"
                         /\ held'[flights[f].value] = result'[awaited'[callers[f]]]
  BY DEF CallersInv
<1>1. /\ callers[f] \in Calls /\ awaited[callers[f]] # None
      /\ place'[callers[f]] = place[callers[f]] /\ awaited'[callers[f]] = awaited[callers[f]]
  BY DEF CallersInv, CalledByTransport
<1>2. awaited[callers[f]] \in Calls /\ flight[awaited[callers[f]]] # "none"
  BY <1>1 DEF AwaitInv, Proved!StartupInv, Proved!FlightInv, Proved!TypeOK
<1>3. flights[f].how = "issued" =>
        /\ flight'[awaited[callers[f]]] # "requesting"
        /\ held'[flights[f].value] = result'[awaited[callers[f]]]
  <2> SUFFICES ASSUME flights[f].how = "issued"
               PROVE  /\ flight'[awaited[callers[f]]] # "requesting"
                      /\ held'[flights[f].value] = result'[awaited[callers[f]]]
    OBVIOUS
  <2>1. /\ flight[awaited[callers[f]]] # "requesting"
        /\ held[flights[f].value] = result[awaited[callers[f]]]
    BY DEF CallersInv
  <2>2. flights[f].value \in 1..Len(held)
    <3>1. flights[f] \in Flight /\ MaxTokens \in Nat
      BY HttpAssumption DEF TransportInv, TypeOK
    <3>2. flights[f].value # 0 /\ flights[f].value <= issued
      BY DEF TransportInv, FlightsInv, Issued
    <3> QED
      BY <3>1, <3>2 DEF Flight, NumberInv
  <2> QED
    BY <1>2, <2>1, <2>2 DEF HeldGrows
<1> QED
  BY <1>1, <1>3 DEF CallersInv, Pending

\* A call of the application changes what the provider answers by a logout only.
LEMMA ApplicationCallStep ==
  ASSUME JointInv, NEW o \in Calls, ApplicationCall(o)
  PROVE  StepInv
<1> USE DEF JointInv, ClientInv
<1>1. /\ Session!Call(o) /\ Provide
      /\ UNCHANGED <<request, config, refresh, flights, callers, outdated, unfit>>
  BY DEF ApplicationCall, refresh
<1>2. Session!Next
  BY <1>1 DEF Session!Next
<1>3. /\ tokens' = tokens \/ tokens' = None
      /\ tokens \in Proved!Pair \cup {None}
      /\ result' = result
      /\ \A p \in Calls : place[p] # "idle" => place'[p] = place[p] /\ awaited'[p] = awaited[p]
      /\ \A p \in Calls : flight[p] # "none" => flight'[p] = flight[p]
  <2>1. place[o] = "idle" /\ flight[o] = "none"
    BY <1>1 DEF Session!Call, Session!CallAuthenticate, Session!CallLoad, Session!CallLogout,
       Session!RefreshUnavailable, Session!StartRefresh, Session!JoinRefresh, Session!Make,
       AwaitInv, Awaits
  <2> QED
    BY <1>1, <2>1 DEF Session!Call, Session!CallAuthenticate, Session!CallLoad,
       Session!CallLogout, Session!RefreshUnavailable, Session!StartRefresh,
       Session!JoinRefresh, Session!Make, Session!Goto, Session!refresh, Session!history,
       Proved!StartupInv, Proved!FlightInv, Proved!TypeOK
<1>4. HeldGrows /\ NumberInv'
  BY <1>1, <1>3, ProvideGrows, ProvideKeepsNumbers
<1>5. CallersInv'
  <2>1. \A p \in Calls : CalledByTransport(p) => place[p] # "idle"
    BY DEF CalledByTransport, CallersInv, AwaitInv, Awaits
  <2> QED
    BY <1>1, <1>3, <1>4, <2>1, CallersKept
<1>6. [Next]_vars
  <2>1. CASE tokens' = tokens
    BY <1>1, <1>3, <2>1, ProvideSame DEF vars
  <2>2. CASE tokens' = None /\ tokens # None
    <3>1. token # 0
      BY <2>2 DEF NumberInv
    <3> QED
      BY <1>1, <2>2, <3>1, ProvideNone DEF Next, Logout
  <2> QED
    BY <1>3, <2>1, <2>2
<1> QED
  BY <1>2, <1>4, <1>5, <1>6 DEF StepInv

\* The other steps of the session give the transport a new pair, an earlier one
\* or none.
LEMMA SessionStepStep ==
  ASSUME JointInv, NEW o \in Calls, SessionStep(o)
  PROVE  StepInv
<1> USE DEF JointInv, ClientInv
<1>1. /\ Provide
      /\ UNCHANGED <<request, config, refresh, flights, callers, outdated, unfit>>
  BY DEF SessionStep, refresh
<1>2. Session!Next
  BY DEF SessionStep, Session!Next, Session!Continue, Session!TokenEndpointStep
<1>3. /\ tokens' \in Proved!Pair \cup {None}
      /\ tokens' # tokens => tokens' # None
  <2>1. tokens' \in Proved!Pair \cup {None}
    BY <1>2, StartupKept DEF Proved!StartupInv, Proved!FlightInv, Proved!TypeOK
  <2>2. CASE Session!LoadReturns(o) \/ Session!CodeExchanged(o)
    BY <2>1, <2>2, SessionAssumed DEF Session!LoadReturns, Session!CodeExchanged, Session!SetTokens,
       Proved!Pair
  <2>3. CASE \/ Session!StorageStep(o) \/ Session!CodeRefused(o) \/ Session!RefreshRefused(o)
             \/ Session!RefreshReturns(o)
    BY <2>1, <2>3 DEF Session!StorageStep, Session!CodeRefused, Session!RefreshRefused,
       Session!RefreshReturns, Session!StorageRead, Session!LoadFails, Session!CallSaved,
       Session!CallSaveFails, Session!RefreshSaved, Session!RefreshSaveFails,
       Session!LogoutCleared, Session!LogoutFails
  <2> QED
    BY <2>1, <2>2, <2>3 DEF SessionStep
<1>4. /\ \A p \in Calls : CalledByTransport(p) => place'[p] = place[p] /\ awaited'[p] = awaited[p]
      /\ \A g \in Calls : flight[g] \notin {"none", "requesting"} =>
           flight'[g] # "requesting" /\ result'[g] = result[g]
  <2>1. \A p \in Calls : CalledByTransport(p) => place[p] \in Awaits
    BY DEF CalledByTransport, CallersInv, AwaitInv
  <2>2. \A p \in Calls : flight[p] # "none" => place[p] \in Awaits
    BY DEF AwaitInv
  <2> USE DEF Awaits, Session!Goto, Session!refresh, Session!history, Proved!StartupInv,
              Proved!FlightInv, Proved!TypeOK
  <2>3. CASE Session!LoadReturns(o) \/ Session!CodeExchanged(o) \/ Session!CodeRefused(o)
    BY <2>1, <2>2, <2>3 DEF Session!LoadReturns, Session!CodeExchanged, Session!CodeRefused,
       Session!SetTokens
  <2>4. CASE Session!RefreshRefused(o) \/ (~CalledByTransport(o) /\ Session!RefreshReturns(o))
    BY <2>4 DEF Session!RefreshRefused, Session!RefreshReturns, Session!Settle
  <2>5. CASE Session!StorageStep(o)
    BY <2>1, <2>2, <2>5 DEF Session!StorageStep, Session!Settle, Session!StorageRead,
       Session!LoadFails, Session!CallSaved, Session!CallSaveFails, Session!RefreshSaved,
       Session!RefreshSaveFails, Session!LogoutCleared, Session!LogoutFails
  <2> QED
    BY <2>3, <2>4, <2>5 DEF SessionStep
<1>5. HeldGrows /\ NumberInv'
  BY <1>1, <1>3, ProvideGrows, ProvideKeepsNumbers
<1>6. CallersInv'
  BY <1>1, <1>4, <1>5, CallersKept
<1>7. [Next]_vars
  <2>1. CASE tokens' = tokens
    BY <1>1, <1>3, <2>1, ProvideSame DEF vars
  <2>2. CASE tokens' \in Proved!Pair
    BY <1>1, <2>2, ProvidePair DEF TransportInv, Next, Login, TakeBack, vars
  <2> QED
    BY <1>3, <2>1, <2>2
<1> QED
  BY <1>2, <1>5, <1>6, <1>7 DEF StepInv

\* A refresh of the session that obtains its pair obtains a new one.
LEMMA RefreshIssuedStep ==
  ASSUME JointInv, NEW o \in Calls, RefreshIssued(o)
  PROVE  /\ StepInv /\ Session!Next
         /\ Len(flights') = Len(flights)
         /\ \A f \in 1..Len(flights) :
              \/ flights'[f] = flights[f]
              \/ flights'[f].from = flights[f].from /\ flights'[f].how = "issued"
<1> USE DEF JointInv, ClientInv
<1> DEFINE waiting == {f \in 1..Len(flights) :
                         flights[f].how = "pending" /\ awaited[callers[f]] = o}
<1>1. /\ Session!RefreshIssued(o) /\ Provide
      /\ UNCHANGED <<request, config, refreshInFlight, callers, outdated, unfit>>
      /\ flights' = [f \in 1..Len(flights) |->
                       IF f \in waiting
                       THEN [flights[f] EXCEPT !.how = "issued", !.value = token']
                       ELSE flights[f]]
  BY DEF RefreshIssued
<1>2. Session!Next
  BY <1>1 DEF Session!Next, Session!TokenEndpointStep
<1>3. /\ tokens' \in Proved!Pair /\ presented[o] \in Proved!Pair
      /\ tokens'.login = presented[o].login /\ tokens'.gen = presented[o].gen + 1
      /\ result' = [result EXCEPT ![o] = tokens']
      /\ flight' = [flight EXCEPT ![o] = "saving"] /\ flight[o] = "requesting"
      /\ place' = place /\ awaited' = awaited
  <2>1. presented[o] \in Proved!Pair /\ presented[o].gen < MaxGen
    BY <1>1 DEF Session!RefreshIssued, AwaitInv
  <2>2. tokens' = [presented[o] EXCEPT !.gen = @ + 1] /\ result' = [result EXCEPT ![o] = tokens']
    BY <1>1 DEF Session!RefreshIssued, Session!SetTokens
  <2>3. tokens' \in Proved!Pair
    BY <2>1, <2>2, SessionAssumed, Proved!NextGeneration
  <2>4. tokens'.login = presented[o].login /\ tokens'.gen = presented[o].gen + 1
    BY <2>1, <2>2 DEF Proved!Pair
  <2> QED
    BY <1>1, <2>1, <2>2, <2>3, <2>4 DEF Session!RefreshIssued
<1>4. ~Holds(tokens')
  <2> SUFFICES ASSUME NEW i \in 1..Len(held), held[i] = tokens' PROVE FALSE
    BY DEF Holds
  <2>1. held[i].gen <= presented[o].gen
    BY <1>3 DEF LatestInv
  <2>2. presented[o].gen \in Int
    BY <1>3 DEF Proved!Pair
  <2> QED
    BY <1>3, <2>1, <2>2
<1>5. NewPair
  BY <1>1, <1>3, <1>4, ProvidePair DEF TransportInv
<1>6. HeldGrows /\ NumberInv' /\ token' \in 1..Len(held') /\ held'[token'] = tokens'
  BY <1>1, <1>3, ProvideGrows, ProvideKeepsNumbers, ProvideNumbers
<1>7. flights \in Seq(Flight) /\ token' = issued + 1 /\ issued + 1 \in 0..MaxTokens
  BY <1>5, HttpAssumption DEF NewPair, TransportInv, TypeOK
<1>8. CASE waiting = {}
  <2>1. flights' = flights
    <3>1. flights' = [f \in 1..Len(flights) |-> flights[f]]
      BY <1>1, <1>8
    <3>2. flights \in [1..Len(flights) -> Flight]
      BY <1>7, LenProperties
    <3> QED
      BY ONLY <3>1, <3>2
  <2>2. [Next]_vars
    BY <1>1, <1>5, <2>1 DEF Next, Login, refresh
  <2>3. /\ \A p \in Calls : CalledByTransport(p) => place'[p] = place[p] /\ awaited'[p] = awaited[p]
        /\ \A g \in Calls : flight[g] \notin {"none", "requesting"} =>
             flight'[g] # "requesting" /\ result'[g] = result[g]
    BY <1>3 DEF Proved!StartupInv, Proved!FlightInv, Proved!TypeOK
  <2>4. CallersInv'
    BY <1>1, <1>6, <2>1, <2>3, CallersKept
  <2> QED
    BY <1>2, <1>6, <2>1, <2>2, <2>4 DEF StepInv
<1>9. CASE waiting # {}
  <2>1. PICK f \in waiting : TRUE
    BY <1>9
  <2>2. f \in 1..Len(flights) /\ flights[f].how = "pending" /\ awaited[callers[f]] = o
    BY <2>1
  <2>3. \A g \in 1..Len(flights) : Pending(g) => g = f
    BY <2>2 DEF TransportInv, FlightsInv, Pending
  <2>4. waiting = {f}
    BY <2>2, <2>3 DEF Pending
  <2>5. flights' = [flights EXCEPT ![f].how = "issued", ![f].value = issued + 1]
    <3> DEFINE new == [flights[f] EXCEPT !.how = "issued", !.value = issued + 1]
    <3>1. flights' = [g \in 1..Len(flights) |-> IF g = f THEN new ELSE flights[g]]
      BY <1>1, <1>7, <2>4
    <3>2. flights \in [1..Len(flights) -> Flight]
      BY <1>7, LenProperties
    <3> HIDE DEF new
    <3>3. flights' = [flights EXCEPT ![f] = new]
      BY ONLY <3>1, <3>2
    <3> QED
      BY <1>7, <2>2, <3>3 DEF new, Flight
  <2>6. OwnerIssues(f)
    BY <1>1, <1>5, <2>2, <2>5 DEF OwnerIssues, Pending
  <2>7. [Next]_vars
    BY <2>2, <2>6 DEF Next, OwnerSettles
  <2>8. /\ Len(flights') = Len(flights)
        /\ flights'[f].from = flights[f].from
        /\ flights'[f].how = "issued" /\ flights'[f].value = token'
        /\ \A g \in 1..Len(flights) : g # f => flights'[g] = flights[g]
    BY <1>7, <2>2, <2>5, FlightChanged DEF TransportInv, Outcomes
  <2>9. CallersInv'
    <3>1. callers \in Seq(Calls) /\ Len(callers) = Len(flights)
      BY DEF CallersInv
    <3>2. /\ flight'[o] # "requesting" /\ result'[o] = tokens'
      BY <1>3 DEF Proved!StartupInv, Proved!FlightInv, Proved!TypeOK
    <3>3. ASSUME NEW g \in 1..Len(flights)
          PROVE  /\ awaited'[callers'[g]] # None
                 /\ Pending(g)' => place'[callers'[g]] = "awaiting"
                 /\ flights'[g].how = "issued" =>
                      /\ flight'[awaited'[callers'[g]]] # "requesting"
                      /\ held'[flights'[g].value] = result'[awaited'[callers'[g]]]
      <4>1. CASE g = f
        <5>1. callers'[g] = callers[f] /\ awaited'[callers'[g]] = o
          BY <1>1, <1>3, <2>2, <4>1
        <5>2. place'[callers'[g]] = "awaiting" /\ awaited[callers[f]] # None
          BY <1>3, <2>2, <5>1 DEF CallersInv, Pending
        <5>3. held'[flights'[g].value] = tokens'
          BY <1>6, <2>8, <4>1
        <5> QED
          BY <3>2, <2>2, <5>1, <5>2, <5>3
      <4>2. CASE g # f
        BY <1>1, <1>3, <2>3, <2>8, <4>2 DEF CallersInv, Pending
      <4> QED
        BY <4>1, <4>2
    <3> QED
      BY <1>1, <2>8, <3>1, <3>3 DEF CallersInv
  <2> QED
    BY <1>2, <1>6, <2>7, <2>8, <2>9 DEF StepInv
<1> QED
  BY <1>8, <1>9

\* The answer to a refresh of the transport is the pair that it was told of, or
\* an earlier one.
LEMMA RefreshAnsweredStep ==
  ASSUME JointInv, NEW f \in 1..Len(flights), RefreshAnswered(f)
  PROVE  /\ StepInv /\ Session!Next
         /\ Len(flights') = Len(flights) /\ flights'[f].from = flights[f].from
         /\ place'[callers[f]] # "awaiting"
         /\ flights'[f].how = "resolved" =>
              /\ flight[awaited[callers[f]]] = "resolved"
              /\ held[flights'[f].value] = result[awaited[callers[f]]]
         /\ \A h \in 1..Len(flights) : h # f => flights'[h] = flights[h] /\ ~Pending(h)
<1> USE DEF JointInv, ClientInv
<1> DEFINE o == callers[f]
           g == awaited[o]
<1>1. /\ Pending(f) /\ Session!RefreshReturns(o)
      /\ UNCHANGED <<request, token, expired, issued, config, unfit, numbering, callers>>
      /\ issued + reuses' <= MaxTokens
  BY DEF RefreshAnswered
<1>2. o \in Calls /\ g \in Calls /\ flight[g] \in {"resolved", "rejected"}
  BY <1>1 DEF CallersInv, Session!RefreshReturns, Proved!StartupInv, Proved!FlightInv,
     Proved!TypeOK
<1>3. Session!Next
  BY <1>1, <1>2 DEF Session!Next, Session!Continue
<1>4. UNCHANGED <<tokens, flight, awaited, result, held, outdated>>
      /\ place' = [place EXCEPT ![o] = IF flight[g] = "resolved" THEN "done" ELSE "failed"]
  BY <1>1 DEF Session!RefreshReturns, Session!refresh, Session!Goto, numbering
<1>5. HeldGrows /\ NumberInv'
  BY <1>1, <1>4, KeptGrows DEF NumberInv
<1>6. flights[f] \in Flight /\ MaxTokens \in Nat /\ reuses \in Nat /\ issued \in Nat
  BY HttpAssumption DEF TransportInv, TypeOK
<1>7. PICK how \in {"resolved", "refused", "failed"}, value \in 0..MaxTokens :
        /\ Settle(f, how, value)
        /\ OwnerResolves(f) \/ OwnerRepeats(f) \/ OwnerRejects(f)
        /\ how = "resolved" => flight[g] = "resolved" /\ held[value] = result[g]
  <2>1. CASE flight[g] = "resolved"
    <3>1. PICK i \in 1..Len(held) : held[i] = result[g]
      BY <1>2, <2>1 DEF AwaitInv, Holds
    <3>2. Number(held, result[g]) = i
      BY <3>1, NumberOfHeld DEF NumberInv
    <3>3. Settle(f, "resolved", i)
          /\ reuses' = IF flights[f].how = "issued" THEN reuses ELSE reuses + 1
      BY <2>1, <3>2 DEF RefreshAnswered
    <3>4. i \in 1..issued /\ i \in 0..MaxTokens
      BY HttpAssumption DEF NumberInv, TransportInv, TypeOK
    <3>5. CASE flights[f].how = "issued"
      <4>1. held[flights[f].value] = result[g]
        BY <3>5 DEF CallersInv
      <4>2. flights[f].value \in 1..Len(held)
        BY <1>6, <3>5 DEF TransportInv, FlightsInv, Issued, Flight, NumberInv
      <4>3. flights[f].value = i
        BY <3>1, <4>1, <4>2 DEF NumberInv
      <4>4. OwnerResolves(f)
        BY <1>1, <3>3, <3>5, <4>3 DEF OwnerResolves, owner
      <4> QED
        BY <2>1, <3>1, <3>3, <3>4, <4>4
    <3>6. CASE flights[f].how = "pending"
      <4>1. Reuse
        BY <1>1, <1>6, <3>3, <3>6 DEF Reuse
      <4>2. OwnerRepeats(f)
        BY <1>1, <3>3, <3>4, <3>6, <4>1 DEF OwnerRepeats
      <4> QED
        BY <2>1, <3>1, <3>3, <3>4, <4>2
    <3> QED
      BY <1>1, <3>5, <3>6 DEF Pending
  <2>2. CASE flight[g] = "rejected"
    <3>1. Settle(f, IF result[g] = None THEN "refused" ELSE "failed", 0) /\ reuses' = reuses
      BY <2>2 DEF RefreshAnswered
    <3>2. flights[f].how = "issued" => result[g] # None
      <4>1. flights[f].how = "issued" => held[flights[f].value] = result[g]
        BY DEF CallersInv
      <4>2. flights[f].how = "issued" => flights[f].value \in 1..Len(held)
        BY <1>6 DEF TransportInv, FlightsInv, Issued, Flight, NumberInv
      <4>3. \A i \in 1..Len(held) : held[i] # None
        BY SessionAssumed DEF NumberInv
      <4> QED
        BY <4>1, <4>2, <4>3
    <3>3. flights[f].how = "pending" \/ flights[f].how = "issued"
      BY <1>1 DEF Pending
    <3>4. 0 \in 0..MaxTokens
      BY HttpAssumption
    <3>5. UNCHANGED owner
      BY <1>1, <3>1 DEF owner
    <3>6. CASE result[g] = None
      BY <1>1, <3>1, <3>2, <3>3, <3>4, <3>5, <3>6 DEF OwnerRejects
    <3>7. CASE result[g] # None
      BY <1>1, <3>1, <3>4, <3>5, <3>7 DEF OwnerRejects
    <3> QED
      BY <3>6, <3>7
  <2> QED
    BY <1>2, <2>1, <2>2
<1>8. [Next]_vars
  BY <1>7 DEF Next, OwnerSettles
<1>9. /\ Len(flights') = Len(flights) /\ flights'[f].from = flights[f].from
      /\ flights'[f].how = how /\ flights'[f].value = value
      /\ \A h \in 1..Len(flights) : h # f => flights'[h] = flights[h] /\ ~Pending(h)
  <2>1. how \in Outcomes
    BY DEF Outcomes
  <2>2. \A h \in 1..Len(flights) : h # f => ~Pending(h)
    BY <1>1 DEF TransportInv, FlightsInv
  <2> QED
    BY <1>7, <2>1, <2>2, FlightChanged DEF Settle, TransportInv
<1>10. CallersInv'
  <2>1. \A h \in 1..Len(flights) : ~Pending(h)' /\ flights'[h].how # "issued"
    BY <1>9 DEF Pending
  <2> QED
    BY <1>1, <1>4, <1>9, <2>1 DEF CallersInv
<1>11. place'[callers[f]] # "awaiting"
  BY <1>2, <1>4 DEF Proved!StartupInv, Proved!FlightInv, Proved!TypeOK
<1> QED
  BY <1>3, <1>5, <1>7, <1>8, <1>9, <1>10, <1>11 DEF StepInv

\* Every step of the client is one of these.
LEMMA ClientStep ==
  ASSUME JointInv, ClientNext
  PROVE  StepInv
BY RequestSteps, RequestRefreshesStep, ApplicationCallStep, SessionStepStep, RefreshIssuedStep,
   RefreshAnsweredStep, PairExpiresStep DEF ClientNext

\* The invariant is inductive, and each step is one of HttpClient and of the session.
LEMMA JointStep ==
  ASSUME JointInv, [ClientNext]_cvars
  PROVE  JointInv' /\ [Next]_vars /\ [Session!Next]_(Session!vars)
<1>1. CASE ClientNext
  <2>1. StepInv
    BY <1>1, ClientStep
  <2>2. [Session!Next]_(Session!vars)
    BY <2>1 DEF StepInv, session, Session!vars, Session!refresh, Session!history
  <2>3. TransportInv'
    BY <2>1, TransportStep DEF StepInv, JointInv
  <2>4. Proved!StartupInv'
    BY <2>2, StartupKept DEF JointInv
  <2>5. CASE Session!Next
    BY <2>1, <2>2, <2>3, <2>4, <2>5, AwaitKept, LatestKept DEF StepInv, JointInv, ClientInv
  <2>6. CASE UNCHANGED <<session, held>>
    <3>1. AwaitInv' /\ LatestInv'
      BY <2>6 DEF JointInv, ClientInv, AwaitInv, LatestInv, Holds, Session!Active, session
    <3> QED
      BY <2>1, <2>2, <2>3, <2>4, <3>1 DEF StepInv, JointInv, ClientInv
  <2> QED
    BY <2>1, <2>5, <2>6 DEF StepInv
<1>2. CASE UNCHANGED cvars
  <2>1. [Session!Next]_(Session!vars) /\ [Next]_vars
    BY <1>2 DEF cvars, session, Session!vars, Session!refresh, Session!history
  <2>2. TransportInv'
    BY <2>1, TransportStep DEF JointInv
  <2>3. Proved!StartupInv'
    BY <2>1, StartupKept DEF JointInv
  <2>4. UNCHANGED <<tokens, token, expired, outdated, unfit, issued, held, session, callers, flights>>
    BY <1>2 DEF cvars, vars, owner, refresh, session, numbering
  <2>5. ClientInv'
    BY <2>4 DEF JointInv, ClientInv, NumberInv, LatestInv, AwaitInv, CallersInv, Holds,
       Session!Active, Pending, session
  <2> QED
    BY <2>1, <2>2, <2>3, <2>5 DEF JointInv
<1> QED
  BY <1>1, <1>2

LEMMA JointInvHolds == ClientSpec => []JointInv
BY JointInit, JointStep, PTL DEF ClientSpec

-----------------------------------------------------------------------------
\* The client is an HttpClient whose owner is the session: whatever mixture of
\* logins, loads, logouts, refreshes by hand and failures the session goes
\* through, requests see what HttpClient lets an owner do, so that its theorems
\* hold of the client.
THEOREM ClientIsHttpClient == ClientSpec => ImplementsHttpClient
<1>1. ClientInit => Init
  BY DEF ClientInit
<1>2. JointInv /\ [ClientNext]_cvars => [Next]_vars
  BY JointStep
<1> QED
  BY <1>1, <1>2, JointInvHolds, PTL DEF ClientSpec, Spec, ImplementsHttpClient

\* Its session is a TokenSession of one process.
THEOREM ClientUsesSession == ClientSpec => Session!Spec
<1>1. ClientInit => Session!Init
  BY DEF ClientInit
<1>2. JointInv /\ [ClientNext]_cvars => [Session!Next]_(Session!vars)
  BY JointStep
<1> QED
  BY <1>1, <1>2, JointInvHolds, PTL DEF ClientSpec, Session!Spec

\* So what is proved of the session holds of it,
LEMMA ClientSession == ClientSpec => Proved!Spec
<1>1. ClientInit => Proved!Init
  BY SameSession DEF ClientInit
<1>2. JointInv /\ [ClientNext]_cvars => [Proved!Next]_(Proved!vars)
  BY JointStep, SameSession
<1> QED
  BY <1>1, <1>2, JointInvHolds, PTL DEF ClientSpec, Proved!Spec

\* Requests and refreshToken() calls share their refreshes, on either side.
THEOREM ClientSharesRefreshes ==
  ClientSpec => [](Session!SingleRefresh /\ OneRefreshAtATime /\ OneRefreshPerPair /\ RefreshesNeeded)
<1>1. JointInv => Session!SingleRefresh
  BY DEF JointInv, Proved!StartupInv, Proved!FlightInv, Proved!FieldNamesActive, Proved!Active,
     Session!SingleRefresh, Session!Active
<1> QED
  BY <1>1, JointInvHolds, ClientIsHttpClient, RefreshesAreShared, PTL DEF ImplementsHttpClient

\* What the requests of the client send is bounded as that of any HttpClient.
THEOREM ClientSendsOnce == ClientSpec => [](WritesSentOnce /\ DispatchesBounded)
BY ClientIsHttpClient, WritesAreSentOnce, DispatchesAreBounded, PTL DEF ImplementsHttpClient

\* No step of the client, one of a request that refreshes included, puts an older
\* pair of a login in the place of a newer one.
THEOREM ClientPairsAdvance == ClientSpec => Session!NoRollback
<1>1. Proved!LoadsAtStartup
  BY ClientAssumption DEF Proved!LoadsAtStartup
<1>2. Proved!Spec => Proved!NoRollback
  BY <1>1, SessionAssumed, Proved!PairsAdvance
<1>3. (UNCHANGED Proved!vars) <=> UNCHANGED Session!vars
  BY DEF Proved!vars, Session!vars, Proved!refresh, Session!refresh, Proved!history,
         Session!history
<1>4. Proved!NoRollback => Session!NoRollback
  BY <1>3, PTL DEF Proved!NoRollback, Session!NoRollback
<1> QED
  BY <1>2, <1>4, ClientSession, PTL

\* No refresh token is presented after it was exchanged, although requests that
\* refresh on their own and the application's refreshToken() race for it.
THEOREM ClientReusesNoToken == ClientSpec => []Session!NoRefreshTokenReuse
<1>1. JointInv => Session!NoRefreshTokenReuse
  <2> SUFFICES ASSUME JointInv, NEW f \in Calls, flight[f] = "requesting",
                      presented[f] \in spent
               PROVE  FALSE
    BY DEF Session!NoRefreshTokenReuse
  <2> QED
    BY DEF JointInv, Proved!StartupInv, Proved!SpentBehind, Proved!FlightInv, Proved!TypeOK,
       Proved!Pair
<1> QED
  BY <1>1, JointInvHolds, PTL

\* A request that awaits a refresh goes on: the refresh has ended, or the call of
\* the session that was made for it awaits one of the session that is requesting
\* or saving its pair, or that has ended.
RequestsGoOn ==
  \A r \in Requests : pc[r] \in {"refreshing", "refreshing401"} =>
    LET o == callers[joined[r]]
        g == awaited[o]
    IN  \/ flights[joined[r]].how \in {"resolved", "refused", "failed"}
        \/ /\ Pending(joined[r])
           /\ place[o] = "awaiting"
           /\ Session!Active(g) \/ flight[g] \in {"resolved", "rejected"}

\* Through all the layers, from the request down to the token endpoint and the
\* storage, nobody waits for what cannot happen any more: not a request whose
\* refresh joined a refreshToken(), nor one whose refresh outlives a logout.
THEOREM RequestsAreNotForgotten == ClientSpec => []RequestsGoOn
<1>1. JointInv /\ NobodyForgotten /\ Proved!NobodyForgotten => RequestsGoOn
  <2> SUFFICES ASSUME JointInv, NobodyForgotten, Proved!NobodyForgotten,
                      NEW r \in Requests, pc[r] \in {"refreshing", "refreshing401"},
                      flights[joined[r]].how \notin {"resolved", "refused", "failed"}
               PROVE  /\ Pending(joined[r])
                      /\ place[callers[joined[r]]] = "awaiting"
                      /\ \/ Session!Active(awaited[callers[joined[r]]])
                         \/ flight[awaited[callers[joined[r]]]] \in {"resolved", "rejected"}
    BY DEF RequestsGoOn
  <2>1. joined[r] \in 1..Len(flights) /\ Pending(joined[r])
    BY DEF NobodyForgotten
  <2>2. callers[joined[r]] \in Calls /\ place[callers[joined[r]]] = "awaiting"
    BY <2>1 DEF JointInv, ClientInv, CallersInv
  <2> QED
    BY <2>1, <2>2 DEF Proved!NobodyForgotten, Proved!Active, Session!Active
<1>2. ClientSpec => []NobodyForgotten
  <2>1. ThrowingOwner = FALSE
    BY ClientAssumption
  <2> QED
    BY <2>1, ClientIsHttpClient, RefreshesMakeWay, PTL DEF ImplementsHttpClient
<1>3. ClientSpec => []Proved!NobodyForgotten
  BY ClientSession, SessionAssumed, Proved!NoRefreshHangs, PTL
<1> QED
  BY <1>1, <1>2, <1>3, JointInvHolds, PTL

\* If the application awaits each call other than refreshToken() before it makes
\* another, or a request, what is proved of such a session holds of the client,
\* whichever of its refreshes the requests started on their own: storage follows
\* memory, a crash loses one refresh at most, and neither a logout nor a later
\* login is undone.
THEOREM ClientKeepsItsLogin ==
  ASSUME Session!AllKinds \ {"refresh"} \subseteq Exclusive
  PROVE  ClientSpec => /\ [](Session!StorageCurrent /\ Session!OneRefreshBehind /\ Session!LogoutClears)
                       /\ Session!LoginPrevails
<1>1. Proved!Awaited
  BY DEF Proved!Awaited, Proved!AllKinds, Session!AllKinds
<1>2. Proved!Spec => /\ []Proved!StorageCurrent /\ []Proved!OneRefreshBehind /\ []Proved!LogoutClears
                     /\ Proved!LoginPrevails
  BY <1>1, SessionAssumed, Proved!StorageStaysCurrent, Proved!CrashLosesOneRefresh,
     Proved!LogoutIsFinal, Proved!LoginsPrevail
<1>3. /\ Proved!StorageCurrent => Session!StorageCurrent
      /\ Proved!OneRefreshBehind => Session!OneRefreshBehind
      /\ Proved!LogoutClears => Session!LogoutClears
  BY DEF Proved!StorageCurrent, Session!StorageCurrent, Proved!WritesSettled, Session!WritesSettled,
     Proved!OneRefreshBehind, Session!OneRefreshBehind, Proved!LogoutClears, Session!LogoutClears
<1>4. (UNCHANGED Proved!vars) <=> UNCHANGED Session!vars
  BY DEF Proved!vars, Session!vars, Proved!refresh, Session!refresh, Proved!history,
         Session!history
<1>5. Proved!LoginPrevails => Session!LoginPrevails
  BY <1>4, PTL DEF Proved!LoginPrevails, Session!LoginPrevails
<1> QED
  BY <1>2, <1>3, <1>5, ClientSession, PTL

-----------------------------------------------------------------------------
(* What refreshes are answered with.                                       *)

\* A code is exchanged while nothing else is in progress, if the application
\* awaits authenticate alone.
ExchangeAlone ==
  "authenticate" \in Exclusive =>
    \A o \in Calls : place[o] = "exchanging" =>
      /\ kind[o] = "authenticate"
      /\ \A p \in Calls : place[p] \in Session!InProgress => p = o

\* A pair of another login than the one that refresh g of the session is for.
OtherLogin(pair, g) ==
  "authenticate" \notin Exclusive /\ pair.login # presented[g].login

\* A refresh obtains the next pair of the login that it presents, and as long as
\* it is active nothing but a logout or another login replaces the pair in memory.
NextPairInv ==
  \A g \in Calls :
    /\ flight[g] = "requesting" => tokens \in {presented[g], None} \/ OtherLogin(tokens, g)
    /\ flight[g] = "saving" => tokens \in {result[g], None} \/ OtherLogin(tokens, g)
    /\ flight[g] \in {"saving", "resolved"} =>
         result[g].login = presented[g].login /\ result[g].gen = presented[g].gen + 1

\* Refresh f of the transport asked for the pair after the one that refresh g of
\* the session presents, unless g was the application's and f joined it when it
\* had obtained a pair already or when there was another login in memory; and it
\* is answered with what g obtained.
AskedFor(f, g) ==
  /\ flights[f].how = "resolved" =>
       flight[g] = "resolved" /\ held[flights[f].value] = result[g]
  /\ \/ held[flights[f].from] = presented[g]
     \/ /\ ~CalledByTransport(g)
        /\ \/ held[flights[f].from] = result[g] /\ flight[g] # "requesting"
           \/ OtherLogin(held[flights[f].from], g)

AskedInv ==
  \A f \in 1..Len(flights) :
    /\ place[callers[f]] = "awaiting" => Pending(f)
    /\ AskedFor(f, awaited[callers[f]])

AnswerInv == ExchangeAlone /\ NextPairInv /\ AskedInv

LEMMA AnswerInit == ClientInit => AnswerInv
<1> SUFFICES ASSUME ClientInit PROVE AnswerInv
  OBVIOUS
<1>1. Proved!Init
  BY SameSession DEF ClientInit
<1>2. ExchangeAlone /\ NextPairInv
  BY <1>1 DEF ExchangeAlone, NextPairInv, Proved!Init
<1>3. AskedInv
  BY DEF AskedInv, ClientInit, Init
<1> QED
  BY <1>2, <1>3 DEF AnswerInv

\* Whatever the session does, a refresh keeps the pair that it presents, and the
\* pair that it obtained; and those that await it go on to.
LEMMA RefreshesAdvance ==
  ASSUME Proved!StartupInv, AwaitInv, Session!Next
  PROVE  /\ \A g \in Calls : flight[g] # "none" => presented'[g] = presented[g]
         /\ \A g \in Calls : flight[g] \notin {"none", "requesting"} =>
              flight'[g] # "requesting" /\ result'[g] = result[g]
         /\ \A g \in Calls : flight[g] = "resolved" => flight'[g] = "resolved"
         /\ \A o \in Calls : awaited[o] # None => awaited'[o] = awaited[o]
<1> USE DEF Proved!StartupInv, Proved!FlightInv, Proved!TypeOK, AwaitInv, Awaits,
            Session!refresh, Session!history
<1>1. ASSUME NEW o \in Calls,
             \/ Session!CallAuthenticate(o) \/ Session!CodeRefused(o)
             \/ Session!CallLoad(o) \/ Session!LoadFails(o)
             \/ Session!CallSaved(o) \/ Session!CallSaveFails(o)
             \/ Session!CallLogout(o) \/ Session!LogoutCleared(o) \/ Session!LogoutFails(o)
             \/ Session!RefreshUnavailable(o) \/ Session!RefreshReturns(o)
      PROVE  UNCHANGED <<flight, presented, result, awaited>>
  BY <1>1 DEF Session!CallAuthenticate, Session!CodeRefused, Session!CallLoad,
     Session!LoadFails, Session!RefreshUnavailable, Session!RefreshReturns,
     Session!CallLogout, Session!LogoutCleared, Session!LogoutFails, Session!CallSaved,
     Session!CallSaveFails
<1>2. ASSUME NEW o \in Calls,
             Session!CodeExchanged(o) \/ Session!StorageRead(o) \/ Session!LoadReturns(o)
      PROVE  /\ UNCHANGED <<flight, presented, awaited>> /\ flight[o] = "none"
             /\ \A g \in Calls : g # o => result'[g] = result[g]
  BY <1>2 DEF Session!CodeExchanged, Session!StorageRead, Session!LoadReturns, Session!SetTokens
<1>3. ASSUME NEW o \in Calls, Session!StartRefresh(o) \/ Session!JoinRefresh(o)
      PROVE  /\ flight[o] = "none" /\ awaited[o] = None /\ UNCHANGED result
             /\ \A g \in Calls : g # o =>
                  flight'[g] = flight[g] /\ presented'[g] = presented[g] /\ awaited'[g] = awaited[g]
  BY <1>3 DEF Session!StartRefresh, Session!JoinRefresh, Session!Make
<1>4. ASSUME NEW o \in Calls,
             \/ Session!RefreshIssued(o) \/ Session!RefreshRefused(o)
             \/ Session!RefreshSaved(o) \/ Session!RefreshSaveFails(o)
      PROVE  /\ flight[o] \in {"requesting", "saving"} /\ flight'[o] \notin {"none", "requesting"}
             /\ flight[o] = "saving" => result'[o] = result[o]
             /\ UNCHANGED <<presented, awaited>>
             /\ \A g \in Calls : g # o => flight'[g] = flight[g] /\ result'[g] = result[g]
  BY <1>4 DEF Session!RefreshIssued, Session!RefreshRefused, Session!RefreshSaved,
     Session!RefreshSaveFails, Session!SetTokens, Session!Settle
<1>5. PICK o \in Calls :
        \/ UNCHANGED <<flight, presented, result, awaited>>
        \/ /\ UNCHANGED <<flight, presented, awaited>> /\ flight[o] = "none"
           /\ \A g \in Calls : g # o => result'[g] = result[g]
        \/ /\ flight[o] = "none" /\ awaited[o] = None /\ UNCHANGED result
           /\ \A g \in Calls : g # o =>
                flight'[g] = flight[g] /\ presented'[g] = presented[g] /\ awaited'[g] = awaited[g]
        \/ /\ flight[o] \in {"requesting", "saving"} /\ flight'[o] \notin {"none", "requesting"}
           /\ flight[o] = "saving" => result'[o] = result[o]
           /\ UNCHANGED <<presented, awaited>>
           /\ \A g \in Calls : g # o => flight'[g] = flight[g] /\ result'[g] = result[g]
  BY <1>1, <1>2, <1>3, <1>4, SessionCases
<1> QED
  BY ONLY <1>5

LEMMA ExchangeKept ==
  ASSUME Proved!StartupInv, ExchangeAlone, Session!Next
  PROVE  ExchangeAlone'
<1> SUFFICES ASSUME "authenticate" \in Exclusive PROVE ExchangeAlone'
  BY DEF ExchangeAlone
<1> USE DEF Proved!StartupInv, Proved!FlightInv, Proved!TypeOK, ExchangeAlone,
            Session!InProgress, Session!refresh, Session!history, Session!Goto
<1>1. ASSUME NEW o \in Calls, Session!Call(o)
      PROVE  ExchangeAlone'
  <2>1. /\ \A p \in Calls : p # o => place'[p] = place[p] /\ kind'[p] = kind[p]
        /\ \A p \in Calls : place[p] # "exchanging"
        /\ place'[o] = "exchanging" => kind'[o] = "authenticate"
        /\ kind'[o] \in Exclusive => \A p \in Calls : place[p] \notin Session!InProgress
    BY <1>1 DEF Session!Call, Session!CallAuthenticate, Session!CallLoad, Session!CallLogout,
       Session!RefreshUnavailable, Session!StartRefresh, Session!JoinRefresh, Session!Make
  <2> QED
    BY <2>1
<1>2. ASSUME NEW o \in Calls,
             Session!Continue(o) \/ Session!TokenEndpointStep(o) \/ Session!StorageStep(o)
      PROVE  ExchangeAlone'
  <2>1. /\ UNCHANGED kind
        /\ \A p \in Calls : place'[p] = "exchanging" => place[p] = "exchanging"
        /\ \A p \in Calls : place'[p] \in Session!InProgress => place[p] \in Session!InProgress
    <3>1. CASE Session!Continue(o) \/ Session!TokenEndpointStep(o)
      BY <3>1 DEF Session!Continue, Session!TokenEndpointStep, Session!LoadReturns,
         Session!RefreshReturns, Session!CodeExchanged, Session!CodeRefused,
         Session!RefreshIssued, Session!RefreshRefused
    <3>2. CASE Session!StorageStep(o)
      BY <3>2 DEF Session!StorageStep, Session!StorageRead, Session!LoadFails,
         Session!CallSaved, Session!CallSaveFails, Session!RefreshSaved,
         Session!RefreshSaveFails, Session!LogoutCleared, Session!LogoutFails
    <3> QED
      BY <1>2, <3>1, <3>2
  <2> QED
    BY <2>1
<1>3. ~Session!Restart
  BY DEF Session!Restart
<1> QED
  BY <1>1, <1>2, <1>3 DEF Session!Next

LEMMA NextPairKept ==
  ASSUME Proved!StartupInv, AwaitInv, ExchangeAlone, NextPairInv, Session!Next
  PROVE  NextPairInv'
<1> USE DEF Proved!StartupInv, Proved!FlightInv, Proved!TypeOK, AwaitInv, Awaits, NextPairInv,
            OtherLogin, Session!refresh, Session!history, Session!Goto
<1>1. ASSUME NEW o \in Calls,
             \/ Session!CallAuthenticate(o) \/ Session!CodeRefused(o)
             \/ Session!CallLoad(o) \/ Session!LoadFails(o)
             \/ Session!CallSaved(o) \/ Session!CallSaveFails(o)
             \/ Session!CallLogout(o) \/ Session!LogoutCleared(o) \/ Session!LogoutFails(o)
             \/ Session!RefreshUnavailable(o) \/ Session!RefreshReturns(o)
             \/ Session!JoinRefresh(o)
      PROVE  NextPairInv'
  BY <1>1 DEF Session!CallAuthenticate, Session!CodeRefused, Session!CallLoad,
     Session!LoadFails, Session!RefreshUnavailable, Session!RefreshReturns,
     Session!CallLogout, Session!LogoutCleared, Session!LogoutFails, Session!CallSaved,
     Session!CallSaveFails, Session!JoinRefresh
<1>2. ASSUME NEW o \in Calls, Session!LoadReturns(o)
      PROVE  NextPairInv'
  <2>1. \A g \in Calls : flight[g] \notin {"requesting", "saving"} /\ flight[o] = "none"
    BY <1>2 DEF Session!LoadReturns, Proved!LoadAlone, Proved!ActiveAwaited, Proved!Active,
       Proved!InProgress
  <2> QED
    BY <1>2, <2>1 DEF Session!LoadReturns, Session!SetTokens
\* A login that is not awaited alone is another than that of an active refresh.
<1>7. ASSUME NEW o \in Calls, Session!CodeExchanged(o)
      PROVE  NextPairInv'
  <2>1. /\ place[o] = "exchanging" /\ flight[o] = "none"
        /\ tokens' = [login |-> o, gen |-> 0]
        /\ UNCHANGED <<flight, presented>>
        /\ \A g \in Calls : g # o => result'[g] = result[g]
    BY <1>7 DEF Session!CodeExchanged, Session!SetTokens
  <2>2. CASE "authenticate" \in Exclusive
    <3>1. \A g \in Calls : flight[g] \notin {"requesting", "saving"}
      BY <2>1, <2>2 DEF ExchangeAlone, Proved!ActiveAwaited, Proved!Active, Session!InProgress
    <3> QED
      BY <2>1, <3>1
  <2>3. CASE "authenticate" \notin Exclusive
    <3>1. \A g \in Calls : flight[g] \in {"requesting", "saving"} => presented[g].login # o
      BY <2>1 DEF Proved!LoginUnused
    <3> QED
      BY <2>1, <2>3, <3>1
  <2> QED
    BY <2>2, <2>3
<1>3. ASSUME NEW o \in Calls, Session!StorageRead(o)
      PROVE  NextPairInv'
  BY <1>3 DEF Session!StorageRead
<1>4. ASSUME NEW o \in Calls, Session!StartRefresh(o)
      PROVE  NextPairInv'
  BY <1>4 DEF Session!StartRefresh, Session!Make
<1>5. ASSUME NEW o \in Calls, Session!RefreshIssued(o)
      PROVE  NextPairInv'
  <2>1. presented[o] \in Proved!Pair /\ \A f \in Calls : Proved!Active(f) => f = o
    BY <1>5 DEF Session!RefreshIssued, Proved!FieldNamesActive, Proved!Active
  <2>2. /\ tokens'.login = presented[o].login /\ tokens'.gen = presented[o].gen + 1
        /\ result' = [result EXCEPT ![o] = tokens']
        /\ flight' = [flight EXCEPT ![o] = "saving"] /\ presented' = presented
    BY <1>5, <2>1 DEF Session!RefreshIssued, Session!SetTokens, Proved!Pair
  <2> QED
    BY <2>1, <2>2, SessionAssumed DEF Proved!Active
<1>6. ASSUME NEW o \in Calls,
             Session!RefreshRefused(o) \/ Session!RefreshSaved(o) \/ Session!RefreshSaveFails(o)
      PROVE  NextPairInv'
  BY <1>6 DEF Session!RefreshRefused, Session!RefreshSaved, Session!RefreshSaveFails,
     Session!Settle
<1> QED
  BY <1>1, <1>2, <1>3, <1>4, <1>5, <1>6, <1>7, SessionCases

\* What a refresh of the transport refers to.
LEMMA FlightRefers ==
  ASSUME JointInv, NEW f \in 1..Len(flights)
  PROVE  /\ callers[f] \in Calls /\ awaited[callers[f]] \in Calls
         /\ awaited[callers[f]] # None /\ flight[awaited[callers[f]]] # "none"
         /\ flights[f].from \in 1..Len(held)
         /\ Issued(f) => flights[f].value \in 1..Len(held)
<1> USE DEF JointInv, ClientInv
<1>1. callers[f] \in Calls /\ awaited[callers[f]] # None
  BY DEF CallersInv
<1>2. awaited[callers[f]] \in Calls /\ flight[awaited[callers[f]]] # "none"
  BY <1>1 DEF AwaitInv, Proved!StartupInv, Proved!FlightInv, Proved!TypeOK
<1>3. flights[f] \in Flight /\ MaxTokens \in Nat
  BY HttpAssumption DEF TransportInv, TypeOK
<1>4. flights[f].from \in 1..Len(held) /\ (Issued(f) => flights[f].value \in 1..Len(held))
  BY <1>3 DEF TransportInv, FlightsInv, Flight, NumberInv
<1> QED
  BY <1>1, <1>2, <1>4

\* A refresh of the transport that the step does not answer goes on referring
\* to the same pairs.
LEMMA AskedFlightKept ==
  ASSUME JointInv, AskedInv, HeldGrows, Session!Next, NEW f \in 1..Len(flights),
         NEW g \in Calls, g = awaited[callers[f]],
         callers'[f] = callers[f], flights'[f].from = flights[f].from,
         flights'[f].how = "resolved" =>
           flights[f].how = "resolved" /\ flights'[f].value = flights[f].value,
         CalledByTransport(g)' => CalledByTransport(g)
  PROVE  awaited'[callers'[f]] = g /\ AskedFor(f, g)'
<1>1. /\ callers[f] \in Calls /\ flight[g] # "none"
      /\ awaited'[callers'[f]] = g /\ presented'[g] = presented[g]
      /\ flight[g] # "requesting" => flight'[g] # "requesting" /\ result'[g] = result[g]
      /\ flight[g] = "resolved" => flight'[g] = "resolved"
  BY FlightRefers, RefreshesAdvance DEF JointInv, ClientInv
<1>2. held'[flights'[f].from] = held[flights[f].from]
  BY FlightRefers DEF HeldGrows
<1>3. \/ held[flights[f].from] = presented[g]
      \/ /\ ~CalledByTransport(g)
         /\ \/ held[flights[f].from] = result[g] /\ flight[g] # "requesting"
            \/ OtherLogin(held[flights[f].from], g)
  BY DEF AskedInv, AskedFor
<1>4. ASSUME flights'[f].how = "resolved"
      PROVE  flight'[g] = "resolved" /\ held'[flights'[f].value] = result'[g]
  <2>1. /\ flights'[f].value = flights[f].value /\ flights[f].value \in 1..Len(held)
        /\ flight[g] = "resolved" /\ held[flights[f].value] = result[g]
    BY <1>4, FlightRefers DEF Issued, AskedInv, AskedFor
  <2> QED
    BY <1>1, <2>1 DEF HeldGrows
<1>5. \/ held'[flights'[f].from] = presented'[g]
      \/ /\ ~CalledByTransport(g)'
         /\ \/ held'[flights'[f].from] = result'[g] /\ flight'[g] # "requesting"
            \/ OtherLogin(held[flights[f].from], g)'
  BY <1>1, <1>2, <1>3 DEF OtherLogin
<1> QED
  BY <1>1, <1>4, <1>5 DEF AskedFor

\* A call awaits a refresh from its first step on.
LEMMA AwaitsFromTheStart ==
  ASSUME Proved!StartupInv, Session!Next, NEW o \in Calls, place'[o] = "awaiting"
  PROVE  place[o] \in {"idle", "awaiting"}
<1> USE DEF Proved!StartupInv, Proved!FlightInv, Proved!TypeOK, Session!Goto, Session!Make
<1>1. ASSUME NEW p \in Calls,
             \/ Session!CallAuthenticate(p) \/ Session!CodeExchanged(p) \/ Session!CodeRefused(p)
             \/ Session!CallLoad(p) \/ Session!StorageRead(p) \/ Session!LoadFails(p)
             \/ Session!LoadReturns(p) \/ Session!CallSaved(p) \/ Session!CallSaveFails(p)
             \/ Session!CallLogout(p) \/ Session!LogoutCleared(p) \/ Session!LogoutFails(p)
      PROVE  place[o] \in {"idle", "awaiting"}
  BY <1>1 DEF Session!CallAuthenticate, Session!CodeExchanged, Session!CodeRefused,
     Session!CallLoad, Session!StorageRead, Session!LoadFails, Session!LoadReturns,
     Session!CallSaved, Session!CallSaveFails, Session!CallLogout, Session!LogoutCleared,
     Session!LogoutFails
<1>2. ASSUME NEW p \in Calls,
             \/ Session!RefreshUnavailable(p) \/ Session!StartRefresh(p) \/ Session!JoinRefresh(p)
             \/ Session!RefreshIssued(p) \/ Session!RefreshRefused(p) \/ Session!RefreshSaved(p)
             \/ Session!RefreshSaveFails(p) \/ Session!RefreshReturns(p)
      PROVE  place[o] \in {"idle", "awaiting"}
  BY <1>2 DEF Session!RefreshUnavailable, Session!StartRefresh, Session!JoinRefresh,
     Session!RefreshIssued, Session!RefreshRefused, Session!RefreshSaved,
     Session!RefreshSaveFails, Session!RefreshReturns
<1> QED
  BY <1>1, <1>2, SessionCases

LEMMA AskedKept ==
  ASSUME JointInv, ExchangeAlone, NextPairInv, AskedInv, StepInv, ClientNext
  PROVE  AskedInv'
<1> USE DEF JointInv, ClientInv, StepInv
<1>1. /\ flights \in Seq(Flight) /\ callers \in Seq(Calls) /\ Len(callers) = Len(flights)
      /\ \A f \in 1..Len(flights) : place[callers[f]] # "idle"
  BY FlightRefers DEF TransportInv, TypeOK, CallersInv, AwaitInv, Awaits
<1>2. ASSUME UNCHANGED <<flights, callers, session, held>> PROVE AskedInv'
  BY <1>2 DEF AskedInv, AskedFor, OtherLogin, CalledByTransport, Pending, session
\* A refresh that is new asks for the pair after the one in memory.
<1>3. ASSUME NEW r \in Requests, RequestRefreshes(r) PROVE AskedInv'
  <2>1. PICK o \in Calls :
          /\ Session!StartRefresh(o) \/ Session!JoinRefresh(o)
          /\ callers' = Append(callers, o)
    BY <1>3 DEF RequestRefreshes
  <2>2. /\ Session!Next /\ UNCHANGED <<tokens, held, result>>
        /\ place[o] = "idle" /\ flight[o] = "none" /\ tokens # None
    BY <1>3, <2>1 DEF Session!Next, Session!Call, Session!StartRefresh, Session!JoinRefresh,
       Session!Make, AwaitInv, Awaits, RequestRefreshes, numbering
  <2>3. flights' = Append(flights, [from |-> token, how |-> "pending", value |-> 0])
    BY <1>3, RequestRefreshesStep
  <2>4. /\ Len(flights') = Len(flights) + 1
        /\ flights'[Len(flights) + 1].how = "pending" /\ flights'[Len(flights) + 1].from = token
        /\ callers'[Len(flights) + 1] = o
        /\ \A f \in 1..Len(flights) : flights'[f] = flights[f] /\ callers'[f] = callers[f]
        /\ \A f \in 1..Len(flights') : f \in 1..Len(flights) \/ f = Len(flights) + 1
        /\ callers' \in Seq(Calls) /\ Len(callers') = Len(flights')
    BY <1>1, <2>1, <2>3
  <2>5. \A g \in Calls : g # o /\ CalledByTransport(g)' => CalledByTransport(g)
    BY <2>4 DEF CalledByTransport
  <2>6. ASSUME NEW f \in 1..Len(flights)
        PROVE  /\ place'[callers'[f]] = "awaiting" => Pending(f)'
               /\ AskedFor(f, awaited[callers[f]])'
    <3>1. PICK g \in Calls : g = awaited[callers[f]]
      BY FlightRefers
    <3>2. g # o
      BY <2>2, <3>1, FlightRefers
    <3>3. awaited'[callers'[f]] = g /\ AskedFor(f, g)'
      BY <2>2, <2>4, <2>5, <3>1, <3>2, AskedFlightKept
    <3>4. place'[callers'[f]] = "awaiting" => Pending(f)'
      BY <1>1, <2>2, <2>4, FlightRefers, AwaitsFromTheStart DEF AskedInv, Pending
    <3> QED
      BY <3>3, <3>4 DEF AskedFor
  <2>7. held[token] = tokens
    BY <2>2 DEF NumberInv
  <2>8. PICK g \in Calls :
          /\ awaited'[o] = g
          /\ \/ presented'[g] = tokens
             \/ /\ ~CalledByTransport(g)'
                /\ \/ tokens = result[g] /\ flight'[g] # "requesting"
                   \/ OtherLogin(tokens, g)'
    <3>1. CASE Session!StartRefresh(o)
      BY <3>1 DEF Session!StartRefresh, Proved!StartupInv, Proved!FlightInv, Proved!TypeOK
    <3>2. CASE Session!JoinRefresh(o)
      <4>1. PICK g \in Calls :
              /\ flight[g] \in {"requesting", "saving"} /\ awaited'[o] = g
              /\ UNCHANGED <<flight, presented>>
        BY <3>2 DEF Session!JoinRefresh, Session!NoRefresh, Session!Active, Proved!StartupInv,
           Proved!FlightInv, Proved!TypeOK, AwaitInv
      \* None of the transport's is in flight, so that one is the application's.
      <4>2. ~CalledByTransport(g)'
        <5>1. place[g] = "awaiting"
          BY <4>1 DEF Proved!StartupInv, Proved!ActiveAwaited, Proved!Active
        <5>2. \A f \in 1..Len(flights) : ~Pending(f)
          <6>1. StartRefresh(r) \/ flights' = flights
            BY <1>3 DEF RequestRefreshes, AdmitToRefresh, Answer401, AwaitRefresh, JoinRefresh,
               refresh
          <6>2. refreshInFlight = 0
            BY <1>1, <2>4, <6>1 DEF StartRefresh, NoRefresh
          <6> QED
            BY <6>2 DEF TransportInv, FlightsInv
        <5>3. ~CalledByTransport(g)
          BY <5>1, <5>2 DEF CalledByTransport, AskedInv
        <5> QED
          BY <2>2, <2>5, <4>1, <5>3
      <4>3. \/ tokens = presented[g]
            \/ tokens = result[g] /\ flight[g] # "requesting"
            \/ OtherLogin(tokens, g)
        BY <2>2, <4>1 DEF NextPairInv
      <4> QED
        BY <2>2, <4>1, <4>2, <4>3 DEF OtherLogin
    <3> QED
      BY <2>1, <3>1, <3>2
  <2>9. ASSUME NEW f \in 1..Len(flights'), f = Len(flights) + 1
        PROVE  Pending(f)' /\ AskedFor(f, awaited[callers[f]])'
    <3>1. Pending(f)'
      BY <2>4, <2>9 DEF Pending
    <3>2. AskedFor(f, g)'
      BY <2>2, <2>4, <2>7, <2>8, <2>9 DEF AskedFor, OtherLogin
    <3> QED
      BY <2>4, <2>8, <2>9, <3>1, <3>2 DEF AskedFor
  <2> QED
    BY <2>4, <2>6, <2>9 DEF AskedInv
\* The session goes on, and the transport with its refreshes.
<1>4. ASSUME NEW o \in Calls, ApplicationCall(o) \/ SessionStep(o)
      PROVE  AskedInv'
  <2>1. UNCHANGED <<flights, callers>>
    BY <1>4 DEF ApplicationCall, SessionStep, refresh
  <2>2. Session!Next
    BY <1>4 DEF ApplicationCall, SessionStep, Session!Next, Session!Continue,
       Session!TokenEndpointStep
  <2>3. ASSUME NEW f \in 1..Len(flights)
        PROVE  /\ place'[callers'[f]] = "awaiting" => Pending(f)'
               /\ AskedFor(f, awaited[callers[f]])'
    <3>1. PICK g \in Calls : g = awaited[callers[f]]
      BY FlightRefers
    <3>2. awaited'[callers'[f]] = g /\ AskedFor(f, g)'
      BY <2>1, <2>2, <3>1, AskedFlightKept DEF CalledByTransport
    <3>3. place'[callers'[f]] = "awaiting" => Pending(f)'
      BY <1>1, <2>1, <2>2, FlightRefers, AwaitsFromTheStart DEF AskedInv, Pending
    <3> QED
      BY <3>2, <3>3 DEF AskedFor
  <2> QED
    BY <2>1, <2>3 DEF AskedInv
<1>5. ASSUME NEW o \in Calls, RefreshIssued(o) PROVE AskedInv'
  <2>1. Session!Next /\ UNCHANGED callers /\ Len(flights') = Len(flights)
    BY <1>5, RefreshIssuedStep DEF RefreshIssued
  <2>2. ASSUME NEW f \in 1..Len(flights)
        PROVE  \/ flights'[f] = flights[f]
               \/ flights'[f].from = flights[f].from /\ flights'[f].how = "issued"
    BY <1>5, RefreshIssuedStep
  <2>3. ASSUME NEW f \in 1..Len(flights)
        PROVE  /\ place'[callers'[f]] = "awaiting" => Pending(f)'
               /\ AskedFor(f, awaited[callers[f]])'
    <3>1. PICK g \in Calls : g = awaited[callers[f]]
      BY FlightRefers
    <3>2. awaited'[callers'[f]] = g /\ AskedFor(f, g)'
      BY <2>1, <2>2, <3>1, AskedFlightKept DEF CalledByTransport
    <3>3. place'[callers'[f]] = "awaiting" => Pending(f)'
      BY <1>1, <2>1, <2>2, FlightRefers, AwaitsFromTheStart DEF AskedInv, Pending
    <3> QED
      BY <3>2, <3>3 DEF AskedFor
  <2> QED
    BY <2>1, <2>3 DEF AskedInv
\* The refresh that is answered awaited the pair that it is answered with.
<1>6. ASSUME NEW f \in 1..Len(flights), RefreshAnswered(f) PROVE AskedInv'
  <2>1. /\ Session!Next /\ UNCHANGED <<callers, held, result>>
        /\ Len(flights') = Len(flights) /\ flights'[f].from = flights[f].from
        /\ place'[callers[f]] # "awaiting"
        /\ flights'[f].how = "resolved" =>
             /\ flight[awaited[callers[f]]] = "resolved"
             /\ held[flights'[f].value] = result[awaited[callers[f]]]
        /\ \A h \in 1..Len(flights) : h # f => flights'[h] = flights[h] /\ ~Pending(h)
    BY <1>6, RefreshAnsweredStep DEF RefreshAnswered, Session!RefreshReturns, numbering
  <2>2. ASSUME NEW h \in 1..Len(flights)
        PROVE  /\ place'[callers'[h]] = "awaiting" => Pending(h)'
               /\ AskedFor(h, awaited[callers[h]])'
    <3>1. PICK g \in Calls : g = awaited[callers[h]]
      BY FlightRefers
    <3>2. CalledByTransport(g)' => CalledByTransport(g)
      BY <2>1 DEF CalledByTransport
    <3>3. CASE h # f
      <4>1. awaited'[callers'[h]] = g /\ AskedFor(h, g)'
        BY <2>1, <3>1, <3>2, <3>3, AskedFlightKept
      <4>2. place'[callers'[h]] = "awaiting" => Pending(h)'
        BY <1>1, <2>1, <3>3, FlightRefers, AwaitsFromTheStart DEF AskedInv, Pending
      <4> QED
        BY <4>1, <4>2 DEF AskedFor
    <3>4. CASE h = f
      <4>1. /\ awaited'[callers'[f]] = g /\ presented'[g] = presented[g]
            /\ flight[g] # "requesting" => flight'[g] # "requesting"
            /\ flight[g] = "resolved" => flight'[g] = "resolved"
        BY <2>1, <3>1, <3>4, FlightRefers, RefreshesAdvance
      <4>2. \/ held[flights[f].from] = presented[g]
            \/ /\ ~CalledByTransport(g)
               /\ \/ held[flights[f].from] = result[g] /\ flight[g] # "requesting"
                  \/ OtherLogin(held[flights[f].from], g)
        BY <3>1, <3>4 DEF AskedInv, AskedFor
      <4>3. AskedFor(f, g)'
        BY <2>1, <3>1, <3>2, <3>4, <4>1, <4>2 DEF AskedFor, OtherLogin
      <4> QED
        BY <2>1, <3>4, <4>1, <4>3 DEF AskedFor
    <3> QED
      BY <3>3, <3>4
  <2> QED
    BY <2>1, <2>2 DEF AskedInv
<1>7. ASSUME NEW r \in Requests, RequestStep(r) PROVE AskedInv'
  BY <1>2, <1>7 DEF RequestStep, numbering
<1>8. ASSUME PairExpires PROVE AskedInv'
  BY <1>2, <1>8 DEF PairExpires, TokenExpires, refresh
<1> QED
  BY <1>3, <1>4, <1>5, <1>6, <1>7, <1>8 DEF ClientNext

LEMMA AnswerInvHolds == ClientSpec => [](JointInv /\ AnswerInv)
<1>1. ASSUME JointInv, AnswerInv, [ClientNext]_cvars PROVE JointInv' /\ AnswerInv'
  <2>1. JointInv' /\ [Session!Next]_(Session!vars)
    BY <1>1, JointStep
  <2>2. CASE ClientNext
    <3>1. StepInv
      BY <1>1, <2>2, ClientStep
    <3>2. AskedInv'
      BY <1>1, <2>2, <3>1, AskedKept DEF AnswerInv
    <3>3. CASE Session!Next
      BY <1>1, <2>1, <3>2, <3>3, ExchangeKept, NextPairKept DEF AnswerInv, JointInv, ClientInv
    <3>4. CASE UNCHANGED <<session, held>>
      BY <1>1, <2>1, <3>2, <3>4 DEF AnswerInv, ExchangeAlone, NextPairInv, OtherLogin, session
    <3> QED
      BY <3>1, <3>3, <3>4 DEF StepInv
  <2>3. CASE UNCHANGED cvars
    <3>1. UNCHANGED <<session, held, flights, callers>>
      BY <2>3 DEF cvars, vars, refresh, numbering
    <3> QED
      BY <1>1, <2>1, <3>1 DEF AnswerInv, ExchangeAlone, NextPairInv, OtherLogin, AskedInv, AskedFor,
         CalledByTransport, Pending, session
  <2> QED
    BY <1>1, <2>2, <2>3
<1> QED
  BY <1>1, JointInit, AnswerInit, PTL DEF ClientSpec

\* A refresh of the transport that starts one of the session is answered with the
\* next pair of the login that it was started for.  One that joins a refreshToken()
\* of the application may be answered with the very pair that it wanted replaced
\* and, unless the application awaits authenticate alone, with one of another login.
THEOREM RefreshesAreAnswered == ClientSpec => []RefreshAnswers
<1>1. JointInv /\ AnswerInv => RefreshAnswers
  <2> SUFFICES ASSUME JointInv, AnswerInv, NEW f \in 1..Len(flights),
                      flights[f].how = "resolved"
               PROVE  LET old == held[flights[f].from]
                          new == held[flights[f].value]
                      IN  \/ new.login = old.login /\ new.gen = old.gen + 1
                          \/ /\ ~CalledByTransport(awaited[callers[f]])
                             /\ \/ new = old
                                \/ new.login # old.login /\ "authenticate" \notin Exclusive
    BY DEF RefreshAnswers
  <2>1. PICK g \in Calls : g = awaited[callers[f]]
    BY FlightRefers
  <2>2. flight[g] = "resolved" /\ held[flights[f].value] = result[g]
    BY <2>1 DEF AnswerInv, AskedInv, AskedFor
  <2>3. result[g].login = presented[g].login /\ result[g].gen = presented[g].gen + 1
    BY <2>2 DEF AnswerInv, NextPairInv
  <2>4. \/ held[flights[f].from] = presented[g]
        \/ /\ ~CalledByTransport(g)
           /\ held[flights[f].from] = result[g] \/ OtherLogin(held[flights[f].from], g)
    BY <2>1 DEF AnswerInv, AskedInv, AskedFor
  <2> QED
    BY <2>1, <2>2, <2>3, <2>4 DEF OtherLogin
<1> QED
  BY <1>1, AnswerInvHolds, PTL
=============================================================================
