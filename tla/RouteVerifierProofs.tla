------------------------ MODULE RouteVerifierProofs -------------------------
(***************************************************************************)
(* Theorems about the route verifier: what its exit code promises, and the *)
(* fixtures it puts into paths, for every choice of arguments, any         *)
(* fixtures that were configured, and all answers and failures of Yahoo.   *)
(***************************************************************************)
EXTENDS RouteVerifier, FiniteSetTheorems, TLAPS

-----------------------------------------------------------------------------
(* The catalog *)

IsOptions(o) == DOMAIN o \subseteq {"allowEmpty", "sports"}
IsExpectation(e) == DOMAIN e = {"keys", "paths", "arrays"}

\* What the proofs need to know of a route.
SoundRoute(r) ==
  r.set = "invalid" => r.expectedFailureKinds \subseteq {"fixture-invalid", "unsupported-route"}

LEMMA OptionsOfRoutes ==
  /\ IsOptions(<< >>) /\ IsOptions(AllowEmpty)
  /\ \A sports : IsOptions(InSports(sports)) /\ IsOptions(InSports(sports) ++ AllowEmpty)
BY DEF IsOptions, AllowEmpty, InSports, ++

LEMMA ExpectationsOfRoutes ==
  /\ IsExpectation(NoExpectation)
  /\ \A e, path : IsExpectation(e) =>
       IsExpectation(With(e, path)) /\ IsExpectation(WithArray(e, path))
  /\ \A e, fact, fixture : IsExpectation(e) => IsExpectation(Keyed(e, fact, fixture))
  /\ \A e, paths : IsExpectation(e) => IsExpectation([e EXCEPT !.paths = paths])
BY DEF IsExpectation, NoExpectation, With, WithArray, Keyed

\* A route keeps its set, mode and placeholders, whatever is merged into it.
LEMMA RouteFields ==
  ASSUME NEW set, NEW mode, NEW id, NEW needs, NEW e, NEW o,
         IsExpectation(e), IsOptions(o)
  PROVE  LET r == Route(set, mode, id, needs, e, o) IN
         r.set = set /\ r.mode = mode /\ r.needs = needs
BY DEF Route, IsExpectation, IsOptions, ++

LEMMA PublicSound ==
  \A id, needs, e, o :
    IsExpectation(e) /\ IsOptions(o) => SoundRoute(Public(id, needs, e, o))
BY RouteFields DEF Public, SoundRoute

LEMMA PrivateSound ==
  \A id, needs, e, o :
    IsExpectation(e) /\ IsOptions(o) => SoundRoute(Private(id, needs, e, o))
BY RouteFields DEF Private, SoundRoute

LEMMA EntityExpectations ==
  /\ IsExpectation(gameExpectation) /\ IsExpectation(leagueExpectation)
  /\ IsExpectation(teamExpectation) /\ IsExpectation(playerExpectation)
  /\ IsExpectation(usersExpectation)
  /\ \A path : IsExpectation(collectionExpectation(path))
BY ExpectationsOfRoutes
DEF gameExpectation, leagueExpectation, teamExpectation, playerExpectation, usersExpectation,
    collectionExpectation

LEMMA PublicRoutesSound ==
  \A r \in GameRoutes \cup CollectionRoutes \cup LeagueRoutes : SoundRoute(r)
<1>1. \A r \in GameRoutes : SoundRoute(r)
  BY PublicSound, OptionsOfRoutes, ExpectationsOfRoutes, EntityExpectations
  DEF GameRoutes
<1>2. \A r \in CollectionRoutes : SoundRoute(r)
  BY PublicSound, OptionsOfRoutes, ExpectationsOfRoutes, EntityExpectations
  DEF CollectionRoutes
<1>3. \A r \in LeagueRoutes : SoundRoute(r)
  BY PublicSound, OptionsOfRoutes, ExpectationsOfRoutes, EntityExpectations
  DEF LeagueRoutes
<1> QED BY <1>1, <1>2, <1>3

LEMMA PrivateRoutesSound ==
  \A r \in UserRoutes \cup PrivateLeagueRoutes \cup PrivateTeamRoutes \cup PrivatePlayerRoutes :
    SoundRoute(r)
<1>1. \A r \in UserRoutes \cup PrivateLeagueRoutes : SoundRoute(r)
  BY PrivateSound, OptionsOfRoutes, ExpectationsOfRoutes, EntityExpectations
  DEF UserRoutes, PrivateLeagueRoutes
<1>2. \A r \in PrivateTeamRoutes : SoundRoute(r)
  BY PrivateSound, OptionsOfRoutes, ExpectationsOfRoutes, EntityExpectations
  DEF PrivateTeamRoutes
<1>3. \A r \in PrivatePlayerRoutes : SoundRoute(r)
  BY PrivateSound, OptionsOfRoutes, ExpectationsOfRoutes, EntityExpectations
  DEF PrivatePlayerRoutes
<1> QED BY <1>1, <1>2, <1>3

\* A known-invalid route is refused as such, or for its fixtures, and for no
\* other reason.
LEMMA InvalidRoutesSound == \A r \in InvalidRoutes : SoundRoute(r)
<1>1. ASSUME NEW mode, NEW id, NEW needs, NEW kinds,
             kinds \subseteq {"fixture-invalid", "unsupported-route"}
      PROVE  SoundRoute(Route("invalid", mode, id, needs, NoExpectation,
                              [expectedFailureKinds |-> kinds]))
  BY <1>1 DEF Route, NoExpectation, SoundRoute, ++
<1> QED BY <1>1 DEF InvalidRoutes

LEMMA RoutesSound == \A r \in AllRoutes : SoundRoute(r)
BY PublicRoutesSound, PrivateRoutesSound, InvalidRoutesSound DEF AllRoutes

-----------------------------------------------------------------------------
(* The catalog is finite                                                   *)

LEMMA EnumerationsFinite ==
  \A a, b, c, d, e, f, g, h, i, j, k, l :
    /\ IsFiniteSet({a, b}) /\ IsFiniteSet({a, b, c, d, e})
    /\ IsFiniteSet({a, b, c, d, e, f, g}) /\ IsFiniteSet({a, b, c, d, e, f, g, h})
    /\ IsFiniteSet({a, b, c, d, e, f, g, h, i})
    /\ IsFiniteSet({a, b, c, d, e, f, g, h, i, j})
    /\ IsFiniteSet({a, b, c, d, e, f, g, h, i, j, k, l})
<1> TAKE a, b, c, d, e, f, g, h, i, j, k, l
<1>1. \A x, y : IsFiniteSet({x, y})
  <2> TAKE x, y
  <2>1. IsFiniteSet({x}) /\ IsFiniteSet({y})
    BY FS_Singleton
  <2>2. IsFiniteSet({x} \cup {y})
    BY <2>1, FS_Union
  <2>3. {x, y} = {x} \cup {y}
    OBVIOUS
  <2> QED BY <2>2, <2>3, Zenon
<1>2. \A S, T : IsFiniteSet(S) /\ IsFiniteSet(T) => IsFiniteSet(S \cup T)
  BY FS_Union
<1>3. IsFiniteSet({a, b, c, d})
  <2>1. IsFiniteSet({a, b} \cup {c, d})
    BY <1>1, <1>2, <1>1, Zenon
  <2>2. {a, b, c, d} = {a, b} \cup {c, d}
    OBVIOUS
  <2> QED BY <2>1, <2>2, Zenon
<1>4. IsFiniteSet({a, b, c, d, e})
  <2>1. IsFiniteSet({a, b, c, d} \cup {e, e})
    BY <1>1, <1>2, <1>3, Zenon
  <2>2. {a, b, c, d, e} = {a, b, c, d} \cup {e, e}
    OBVIOUS
  <2> QED BY <2>1, <2>2, Zenon
<1>5. IsFiniteSet({a, b, c, d, e, f, g})
  <2>1. IsFiniteSet({a, b, c, d, e} \cup {f, g})
    BY <1>1, <1>2, <1>4, Zenon
  <2>2. {a, b, c, d, e, f, g} = {a, b, c, d, e} \cup {f, g}
    OBVIOUS
  <2> QED BY <2>1, <2>2, Zenon
<1>6. IsFiniteSet({a, b, c, d, e, f, g, h})
  <2>1. IsFiniteSet({a, b, c, d, e, f, g} \cup {h, h})
    BY <1>1, <1>2, <1>5, Zenon
  <2>2. {a, b, c, d, e, f, g, h} = {a, b, c, d, e, f, g} \cup {h, h}
    OBVIOUS
  <2> QED BY <2>1, <2>2, Zenon
<1>7. IsFiniteSet({a, b, c, d, e, f, g, h, i})
  <2>1. IsFiniteSet({a, b, c, d, e, f, g, h} \cup {i, i})
    BY <1>1, <1>2, <1>6, Zenon
  <2>2. {a, b, c, d, e, f, g, h, i} = {a, b, c, d, e, f, g, h} \cup {i, i}
    OBVIOUS
  <2> QED BY <2>1, <2>2, Zenon
<1>8. IsFiniteSet({a, b, c, d, e, f, g, h, i, j})
  <2>1. IsFiniteSet({a, b, c, d, e, f, g, h} \cup {i, j})
    BY <1>1, <1>2, <1>6, Zenon
  <2>2. {a, b, c, d, e, f, g, h, i, j} = {a, b, c, d, e, f, g, h} \cup {i, j}
    OBVIOUS
  <2> QED BY <2>1, <2>2, Zenon
<1>9. IsFiniteSet({a, b, c, d, e, f, g, h, i, j, k, l})
  <2>1. IsFiniteSet({a, b, c, d, e, f, g, h, i, j} \cup {k, l})
    BY <1>1, <1>2, <1>8, Zenon
  <2>2. {a, b, c, d, e, f, g, h, i, j, k, l} = {a, b, c, d, e, f, g, h, i, j} \cup {k, l}
    OBVIOUS
  <2> QED BY <2>1, <2>2, Zenon
<1> QED BY <1>1, <1>4, <1>5, <1>6, <1>7, <1>8, <1>9

LEMMA CatalogFinite == IsFiniteSet(AllRoutes)
<1>1. IsFiniteSet(GameRoutes)
  BY EnumerationsFinite, Zenon DEF GameRoutes
<1>5. IsFiniteSet(CollectionRoutes)
  BY EnumerationsFinite, Zenon DEF CollectionRoutes
<1>6. IsFiniteSet(LeagueRoutes)
  BY EnumerationsFinite, ZenonT(60) DEF LeagueRoutes
<1>2. IsFiniteSet(UserRoutes) /\ IsFiniteSet(PrivateLeagueRoutes)
  BY EnumerationsFinite, Zenon DEF UserRoutes, PrivateLeagueRoutes
<1>3. IsFiniteSet(PrivateTeamRoutes) /\ IsFiniteSet(PrivatePlayerRoutes)
  BY EnumerationsFinite, Zenon DEF PrivateTeamRoutes, PrivatePlayerRoutes
<1>4. IsFiniteSet(InvalidRoutes)
  BY EnumerationsFinite, Zenon DEF InvalidRoutes
<1> QED BY <1>1, <1>2, <1>3, <1>4, <1>5, <1>6, FS_Union DEF AllRoutes

\* SetToSeq lists the elements of a finite set.
LEMMA ListsAll ==
  ASSUME NEW S, IsFiniteSet(S)
  PROVE  SetToSeq(S) \in Seq(S) /\ {SetToSeq(S)[i] : i \in 1..Len(SetToSeq(S))} = S
<1> DEFINE n == Cardinality(S)
           s == SetToSeq(S)
<1>1. n \in Nat /\ ExistsBijection(1..n, S)
  BY FS_CardinalityType
<1>2. s \in [1..n -> S] /\ IsInjective(s)
  <2>1. \E f \in [1..n -> S] : IsInjective(f)
    BY <1>1 DEF ExistsBijection, Bijection, Injection
  <2> QED BY <2>1 DEF SetToSeq
<1>3. s \in Injection(1..n, S)
  BY <1>2 DEF Injection
<1>4. IsFiniteSet(1..n) /\ Cardinality(1..n) = n
  BY <1>1, FS_Interval
<1>5. s \in Surjection(1..n, S)
  BY <1>3, <1>4, FS_Injection
<1>6. s \in Seq(S) /\ Len(s) = n
  BY <1>1, <1>2
<1> QED BY <1>5, <1>6 DEF Surjection

LEMMA ScenariosFinite ==
  ASSUME IsFiniteSet(options.sports)
  PROVE  IsFiniteSet(Applicable)
<1>1. IsFiniteSet(Selected)
  BY CatalogFinite, FS_Subset DEF Selected
<1>2. IsFiniteSet(Selected \X options.sports)
  BY <1>1, FS_Product
<1> DEFINE f == [x \in Selected \X options.sports |-> [route |-> x[1], sport |-> x[2]]]
<1>3. f \in Surjection(Selected \X options.sports, Scenarios)
  <2>1. f \in [Selected \X options.sports -> Scenarios]
    BY DEF Scenarios
  <2>2. ASSUME NEW t \in Scenarios PROVE \E x \in Selected \X options.sports : f[x] = t
    <3>1. PICK r \in Selected, sport \in options.sports : t = [route |-> r, sport |-> sport]
      BY DEF Scenarios
    <3>2. <<r, sport>> \in Selected \X options.sports /\ f[<<r, sport>>] = t
      BY <3>1
    <3> QED BY <3>2
  <2> QED BY <2>1, <2>2 DEF Surjection
<1>4. IsFiniteSet(Scenarios)
  BY <1>2, <1>3, FS_Surjection
<1> QED BY <1>4, FS_Subset DEF Applicable

-----------------------------------------------------------------------------
(* Profiles                                                                *)

LEMMA FixtureNames ==
  /\ EntityFixtures = SingleFixtures \cup {"LEAGUE_KEYS", "PLAYER_KEYS", "TEAM_KEYS",
                                           "TRANSACTION_KEYS"}
  /\ KeyFixtures = {"GAME_KEY"} \cup EntityFixtures /\ "GAME_KEY" \notin EntityFixtures
  /\ EntityFixtures = LeagueFixtures \cup TeamFixtures \cup PlayerFixtures
                        \cup TransactionFixtures
  /\ \A group \in {LeagueFixtures, TeamFixtures, PlayerFixtures, TransactionFixtures} :
       \A f \in group : Other[f] \in group /\ Other[Other[f]] = f
BY DEF EntityFixtures, SingleFixtures, KeyFixtures, Other, LeagueFixtures, TeamFixtures,
       PlayerFixtures, TransactionFixtures

\* The keys of a context are not undefined.
IsKey(k) == k # UndefinedFixture /\ k.game # "undefined"
Defined(context) == \A f \in KeyFixtures \cap DOMAIN context : IsKey(context[f])

LEMMA KeysOfGames ==
  /\ \A game, league : Key(game, league).game = game /\ Key(game, league).league = league
  /\ \A league, other : Key("now", league) # Key("undefined", other)
  /\ \A league, other : Key("before", league) # Key("undefined", other)
  /\ UndefinedFixture = Key("undefined", NoLeague)
  /\ \A game, league : game # "undefined" => IsKey(Key(game, league))
  /\ \A k : k.game # "undefined" => IsKey(k)
BY DEF Key, UndefinedFixture, IsKey

WellFormed(p) ==
  /\ DOMAIN p = {"context", "publicContext", "privateContext"}
  /\ Defined(p.context) /\ Defined(p.publicContext) /\ Defined(p.privateContext)

\* Nothing was configured for a key, nor for the list of its kind.
Absent(c, mode, f) ==
  {f, Other[f]} \cap (DOMAIN c.context \cup DOMAIN OwnContext(c, mode)) = {}

\* valuesForSport, of the fixtures that the modes share.
OfContext(context, key) == Has(context, "GAME_KEY") => key.game = context["GAME_KEY"].game

\* Beside what was configured for both modes, they share the current game.
SharedInv(c, context) ==
  /\ \A f \in EntityFixtures : /\ f \in DOMAIN context <=> f \in DOMAIN c.context
                               /\ f \in DOMAIN context => context[f] = c.context[f]
  /\ "GAME_KEY" \in DOMAIN c.context =>
       "GAME_KEY" \in DOMAIN context /\ context["GAME_KEY"] = c.context["GAME_KEY"]
  /\ "GAME_KEY" \notin DOMAIN c.context /\ "GAME_KEY" \in DOMAIN context =>
       context["GAME_KEY"] = Key("now", NoLeague)

\* The keys of one mode: of the current game unless others were configured, and
\* those that were configured singly are still there.
ModeInv(c, mode, own) ==
  /\ \A f \in EntityFixtures \cap DOMAIN own : own[f].game = "now" \/ StaleConfigured(c, mode)
  /\ \A f \in SingleFixtures \cap DOMAIN OwnContext(c, mode) :
       \/ f \in DOMAIN own /\ own[f] = OwnContext(c, mode)[f]
       \/ MayBeDropped(c, mode, f)

\* Public keys that were found: teams of the league that was configured, and players.
PublicInv(c, context, public) ==
  /\ ModeInv(c, "public", public)
  /\ "LEAGUE_KEY" \in DOMAIN public =>
       "LEAGUE_KEY" \in DOMAIN c.publicContext
         /\ public["LEAGUE_KEY"] = c.publicContext["LEAGUE_KEY"]
  /\ "LEAGUE_KEY" \in DOMAIN c.publicContext /\ ~Has(context, "GAME_KEY") =>
       "LEAGUE_KEY" \in DOMAIN public
  /\ \A f \in (LeagueFixtures \cup TransactionFixtures) \cap DOMAIN public : ~Absent(c, "public", f)
  /\ \A f \in TeamFixtures \cap DOMAIN public : Absent(c, "public", f) =>
       /\ "LEAGUE_KEY" \in DOMAIN public /\ public[f] = public["LEAGUE_KEY"]
       /\ OfContext(context, public[f])
  /\ \A f \in PlayerFixtures \cap DOMAIN public : Absent(c, "public", f) =>
       public[f] = Key("now", NoLeague) /\ OfContext(context, public[f])
  /\ ~Has(c.context, "GAME_KEY") /\ Has(context, "GAME_KEY") /\ StaleLeague(c.publicContext) =>
       (LeagueFixtures \cup TeamFixtures) \cap DOMAIN public = {}

\* Private keys that were found: a team of the account with its league, players
\* of the team and transactions of the league.
PrivateInv(c, context, private) ==
  /\ ModeInv(c, "private", private)
  /\ \A f \in (LeagueFixtures \cup TeamFixtures) \cap DOMAIN private : Absent(c, "private", f) =>
       private[f].game = "now" /\ OfContext(context, private[f])
  /\ \A f \in TeamFixtures \cap DOMAIN private :
       Absent(c, "private", f) /\ Absent(c, "private", "LEAGUE_KEY") =>
         "LEAGUE_KEY" \in DOMAIN private /\ private[f] = private["LEAGUE_KEY"]
  /\ "LEAGUE_KEY" \in DOMAIN private /\ Absent(c, "private", "LEAGUE_KEY") =>
       TeamFixtures \subseteq DOMAIN private
  /\ \A f \in TransactionFixtures \cap DOMAIN private : Absent(c, "private", f) =>
       "LEAGUE_KEY" \in DOMAIN private /\ private[f] = private["LEAGUE_KEY"]
  /\ \A f \in PlayerFixtures \cap DOMAIN private : Absent(c, "private", f) =>
       "TEAM_KEY" \in DOMAIN private /\ private[f] = Key(private["TEAM_KEY"].game, NoLeague)

Learned(c, p) ==
  /\ WellFormed(p)
  /\ SharedInv(c, p.context)
  /\ PublicInv(c, p.context, p.publicContext)
  /\ PrivateInv(c, p.context, p.privateContext)

\* A key that a scenario sees it sees later too, but for what may be dropped.
Grows(c, p, q) ==
  \A mode \in {"public", "private"} :
    \A f \in KeyFixtures \cap DOMAIN buildScenarioContext(p, mode) :
      f \in DOMAIN buildScenarioContext(q, mode) \/ MayBeDropped(c, mode, f)

LEMMA SpreadField ==
  \A new, old, f :
    /\ f \in DOMAIN (new ++ old) <=> f \in DOMAIN new \cup DOMAIN old
    /\ f \in DOMAIN (new ++ old) =>
         (new ++ old)[f] = IF f \in DOMAIN new THEN new[f] ELSE old[f]
BY DEF ++

\* The keys that a scenario sees.
LEMMA SeenKeys ==
  ASSUME NEW p, WellFormed(p), NEW mode, NEW f \in KeyFixtures
  PROVE  LET seen == buildScenarioContext(p, mode)
             own == OwnContext(p, mode)
             given == DOMAIN own \cup DOMAIN p.context
             value(g) == IF g \in DOMAIN own THEN own[g] ELSE p.context[g]
         IN
         /\ f \in given => f \in DOMAIN seen /\ seen[f] = value(f)
         /\ f \notin given /\ f \in DOMAIN seen =>
              f \in EntityFixtures /\ Other[f] \in given /\ seen[f] = value(Other[f])
         /\ f \in EntityFixtures /\ Other[f] \in given => f \in DOMAIN seen
<1> DEFINE own == OwnContext(p, mode)
           merged == own ++ p.context ++ [g \in {"COUNT_SMALL", "SPORT_CODE"} |-> Given]
           defined == Without(merged, {g \in DOMAIN merged : ~Has(merged, g)})
           others == {g \in EntityFixtures : Other[g] \in DOMAIN defined}
           seen == buildScenarioContext(p, mode)
<1>1. seen = defined ++ [g \in others |-> defined[Other[g]]]
  BY DEF buildScenarioContext
<1>2. ASSUME NEW g \in KeyFixtures
      PROVE  /\ g \in DOMAIN merged <=> g \in DOMAIN own \cup DOMAIN p.context
             /\ g \in DOMAIN merged =>
                  merged[g] = IF g \in DOMAIN own THEN own[g] ELSE p.context[g]
  <2>1. g \notin {"COUNT_SMALL", "SPORT_CODE"}
    BY FixtureNames DEF SingleFixtures
  <2> QED BY <2>1 DEF ++
<1>3. Defined(own) /\ Defined(p.context)
  BY DEF WellFormed, OwnContext
<1> HIDE DEF own, merged
<1>4. ASSUME NEW g \in KeyFixtures
      PROVE  /\ g \in DOMAIN defined <=> g \in DOMAIN own \cup DOMAIN p.context
             /\ g \in DOMAIN defined =>
                  defined[g] = IF g \in DOMAIN own THEN own[g] ELSE p.context[g]
  BY <1>2, <1>3 DEF Without, Has, Defined, IsKey
<1> HIDE DEF defined, seen
<1>5. /\ f \in DOMAIN seen <=> f \in DOMAIN defined \/ f \in others
      /\ f \in DOMAIN seen => seen[f] = IF f \in DOMAIN defined THEN defined[f] ELSE defined[Other[f]]
  BY <1>1 DEF ++
<1>6. f \in EntityFixtures => Other[f] \in KeyFixtures
  BY FixtureNames
<1> QED BY <1>4, <1>5, <1>6 DEF seen, own

\* A key was found if nothing was configured in its place.
LEMMA FoundIsAbsent ==
  ASSUME NEW c, WellFormed(c), NEW mode, NEW f \in EntityFixtures
  PROVE  IsFound(c, mode, f) <=> Absent(c, mode, f)
<1>1. f \in KeyFixtures
  BY FixtureNames
<1> QED BY <1>1, SeenKeys DEF IsFound, Absent

\* What is learned widens the contexts; only a stale public league is dropped.
Wider(old, new) == KeyFixtures \cap DOMAIN old \subseteq DOMAIN new

LEMMA Growing ==
  ASSUME NEW c, NEW p, NEW q, WellFormed(p), WellFormed(q),
         Wider(p.context, q.context), Wider(p.privateContext, q.privateContext),
         \A f \in KeyFixtures \cap DOMAIN p.publicContext :
           f \in DOMAIN q.publicContext \/ MayBeDropped(c, "public", f)
  PROVE  Grows(c, p, q)
<1> SUFFICES ASSUME NEW mode \in {"public", "private"}, NEW f \in KeyFixtures,
                    f \in DOMAIN buildScenarioContext(p, mode),
                    ~MayBeDropped(c, mode, f)
             PROVE  f \in DOMAIN buildScenarioContext(q, mode)
  BY DEF Grows
<1>1. ASSUME NEW g \in KeyFixtures, ~MayBeDropped(c, mode, g),
             g \in DOMAIN OwnContext(p, mode) \cup DOMAIN p.context
      PROVE  g \in DOMAIN OwnContext(q, mode) \cup DOMAIN q.context
  BY <1>1 DEF OwnContext, Wider
<1>2. CASE f \in DOMAIN OwnContext(p, mode) \cup DOMAIN p.context
  BY <1>1, <1>2, SeenKeys
<1>3. CASE f \notin DOMAIN OwnContext(p, mode) \cup DOMAIN p.context
  <2>1. f \in EntityFixtures /\ Other[f] \in DOMAIN OwnContext(p, mode) \cup DOMAIN p.context
    BY <1>3, SeenKeys
  <2>2. Other[f] \in KeyFixtures /\ ~MayBeDropped(c, mode, Other[f])
    BY <2>1, FixtureNames DEF MayBeDropped
  <2> QED BY <1>1, <2>1, <2>2, SeenKeys
<1> QED BY <1>2, <1>3

-----------------------------------------------------------------------------
(* What a step of the discovery does to a profile                          *)

Discovered(sport) ==
  \E q : \E records :
    /\ GoOn(sport, q, records)
    /\ sport \in DOMAIN profiles =>
         Learned(configured[sport], q) /\ Grows(configured[sport], profiles[sport], q)

LEMMA NothingLearned ==
  ASSUME NEW sport, sport \in DOMAIN profiles => Learned(configured[sport], profiles[sport]),
         NEW step, NEW found,
         \/ Skip(sport) \/ Fail(sport, step) \/ Learn(sport, step, profiles[sport], found)
  PROVE  Discovered(sport)
<1>1. \E records : GoOn(sport, profiles[sport], records)
  BY DEF Skip, Fail, Learn
<1>2. Grows(configured[sport], profiles[sport], profiles[sport])
  BY DEF Grows
<1> QED BY <1>1, <1>2 DEF Discovered

\* The fixtures of a context after ??=.
LEMMA DefaultsField ==
  \A context, names, value, f :
    LET new == Defaults(context, names, value) IN
    /\ f \in DOMAIN new <=> f \in DOMAIN context \cup names
    /\ f \in DOMAIN new =>
         new[f] = IF f \in names /\ ~Has(context, f) THEN value ELSE context[f]
BY DEF Defaults, Has, ++

\* The fixtures of a context after keys were found.
LEMMA FoundField ==
  \A context, names, key, f :
    LET new == Found(names, key) ++ context IN
    /\ f \in DOMAIN new <=> f \in DOMAIN context \cup names
    /\ f \in DOMAIN new => new[f] = IF f \in names THEN key ELSE context[f]
BY DEF Found, ++

LEMMA WithContext ==
  \A p, context, public, private :
    WellFormed(p) =>
    /\ LET q == [p EXCEPT !.context = context, !.publicContext = public] IN
       /\ DOMAIN q = {"context", "publicContext", "privateContext"}
       /\ q.context = context /\ q.publicContext = public
       /\ q.privateContext = p.privateContext
    /\ LET q == [p EXCEPT !.publicContext = public] IN
       /\ DOMAIN q = {"context", "publicContext", "privateContext"}
       /\ q.context = p.context /\ q.publicContext = public
       /\ q.privateContext = p.privateContext
    /\ LET q == [p EXCEPT !.privateContext = private] IN
       /\ DOMAIN q = {"context", "publicContext", "privateContext"}
       /\ q.context = p.context /\ q.publicContext = p.publicContext
       /\ q.privateContext = private
BY DEF WellFormed

\* The league that is dropped is the one that was configured.
LEMMA GameLearned ==
  ASSUME NEW c, NEW p, Learned(c, p), NEW found \in SUBSET {"GAME_KEY", "SEASON"}
  PROVE  LET q == LearnGame(p, found) IN Learned(c, q) /\ Grows(c, p, q)
<1> DEFINE context == Defaults(p.context, found, Key("now", NoLeague))
           stale == "GAME_KEY" \in found /\ StaleLeague(p.publicContext)
           dropped == LeagueFixtures \cup TeamFixtures
           public == IF stale THEN Without(p.publicContext, dropped) ELSE p.publicContext
           q == LearnGame(p, found)
<1>1. /\ DOMAIN q = {"context", "publicContext", "privateContext"}
      /\ q.context = context /\ q.publicContext = public
      /\ q.privateContext = p.privateContext
  <2>1. q = [p EXCEPT !.context = context, !.publicContext = public]
    BY DEF LearnGame, Learned, WellFormed
  <2> HIDE DEF context, public, q
  <2> QED BY <2>1, WithContext DEF Learned
<1>2. \A f : /\ f \in DOMAIN context <=> f \in DOMAIN p.context \cup found
             /\ f \in DOMAIN context =>
                  context[f] = IF f \in found /\ ~Has(p.context, f) THEN Key("now", NoLeague)
                               ELSE p.context[f]
  BY DefaultsField
<1>3. /\ \A f : f \in DOMAIN public => f \in DOMAIN p.publicContext /\ public[f] = p.publicContext[f]
      /\ \A f : f \in DOMAIN p.publicContext /\ f \notin DOMAIN public => stale /\ f \in dropped
      /\ stale => dropped \cap DOMAIN public = {}
  BY DEF Without
<1> HIDE DEF context, public
<1>4. /\ WellFormed(p) /\ SharedInv(c, p.context)
      /\ PublicInv(c, p.context, p.publicContext) /\ PrivateInv(c, p.context, p.privateContext)
  BY DEF Learned
<1>5. Defined(context) /\ Defined(public)
  <2>1. IsKey(Key("now", NoLeague))
    BY KeysOfGames
  <2>2. Defined(context)
    BY <1>2, <1>4, <2>1 DEF WellFormed, Defined, Has, IsKey
  <2>3. Defined(public)
    BY <1>3, <1>4 DEF WellFormed, Defined, IsKey
  <2> QED BY <2>2, <2>3
<1>6. WellFormed(q)
  BY <1>1, <1>4, <1>5 DEF WellFormed
<1>7. SharedInv(c, context)
  BY <1>2, <1>4, FixtureNames, KeysOfGames
  DEF SharedInv, WellFormed, Defined, IsKey, Has, SingleFixtures
<1>8. ASSUME NEW key, OfContext(p.context, key), key.game = "now"
      PROVE  OfContext(context, key)
  BY <1>2, <1>8, KeysOfGames DEF OfContext, Has
<1>9. ASSUME "GAME_KEY" \notin found \/ Has(p.context, "GAME_KEY"), NEW key, OfContext(p.context, key)
      PROVE  OfContext(context, key)
  BY <1>2, <1>9 DEF OfContext, Has
<1>10. stale => StaleLeague(c.publicContext)
  BY <1>4 DEF PublicInv, StaleLeague, Has
<1>11. PublicInv(c, context, public)
  <2>1. ModeInv(c, "public", public)
    BY <1>3, <1>4, <1>10 DEF PublicInv, ModeInv, MayBeDropped, OwnContext
  <2>2. "LEAGUE_KEY" \in DOMAIN public =>
          "LEAGUE_KEY" \in DOMAIN c.publicContext
            /\ public["LEAGUE_KEY"] = c.publicContext["LEAGUE_KEY"]
    BY <1>3, <1>4 DEF PublicInv
  <2>3. \A f \in (LeagueFixtures \cup TransactionFixtures) \cap DOMAIN public :
          ~Absent(c, "public", f)
    BY <1>3, <1>4 DEF PublicInv
  <2>4. ASSUME NEW f \in TeamFixtures \cap DOMAIN public, Absent(c, "public", f)
        PROVE  /\ "LEAGUE_KEY" \in DOMAIN public /\ public[f] = public["LEAGUE_KEY"]
               /\ OfContext(context, public[f])
    <3>1. ~stale
      BY <1>3, <2>4
    <3>2. /\ "LEAGUE_KEY" \in DOMAIN p.publicContext
          /\ p.publicContext[f] = p.publicContext["LEAGUE_KEY"]
          /\ OfContext(p.context, p.publicContext[f])
      BY <1>3, <1>4, <2>4 DEF PublicInv
    <3>3. "LEAGUE_KEY" \in DOMAIN public /\ public[f] = public["LEAGUE_KEY"]
      BY <1>3, <2>4, <3>1, <3>2
    <3>4. CASE "GAME_KEY" \in found
      <4>1. Has(p.publicContext, "LEAGUE_KEY")
        BY <1>4, <3>2, FixtureNames DEF Has, WellFormed, Defined, IsKey, SingleFixtures
      <4>2. p.publicContext["LEAGUE_KEY"].game = "now"
        BY <3>1, <3>4, <4>1 DEF StaleLeague
      <4> QED BY <1>3, <1>8, <2>4, <3>2, <3>3, <4>2
    <3>5. CASE "GAME_KEY" \notin found
      BY <1>3, <1>9, <2>4, <3>2, <3>3, <3>5
    <3> QED BY <3>3, <3>4, <3>5
  <2>5. ASSUME NEW f \in PlayerFixtures \cap DOMAIN public, Absent(c, "public", f)
        PROVE  public[f] = Key("now", NoLeague) /\ OfContext(context, public[f])
    BY <1>3, <1>4, <1>8, <2>5, KeysOfGames DEF PublicInv
  <2>6. ASSUME ~Has(c.context, "GAME_KEY"), Has(context, "GAME_KEY"), StaleLeague(c.publicContext)
        PROVE  dropped \cap DOMAIN public = {}
    <3>1. CASE Has(p.context, "GAME_KEY")
      BY <1>3, <1>4, <2>6, <3>1 DEF PublicInv
    <3>2. CASE ~Has(p.context, "GAME_KEY")
      <4>1. "GAME_KEY" \in found
        BY <1>2, <2>6, <3>2 DEF Has
      <4>2. CASE "LEAGUE_KEY" \in DOMAIN p.publicContext
        <5>1. StaleLeague(p.publicContext)
          BY <1>4, <2>6, <4>2 DEF PublicInv, StaleLeague, Has
        <5> QED BY <1>3, <4>1, <5>1
      <4>3. CASE "LEAGUE_KEY" \notin DOMAIN p.publicContext
        BY <1>4, <2>6, <3>2, <4>3 DEF PublicInv, StaleLeague, Has
      <4> QED BY <4>2, <4>3
    <3> QED BY <3>1, <3>2
  <2>7. ASSUME "LEAGUE_KEY" \in DOMAIN c.publicContext, ~Has(context, "GAME_KEY")
        PROVE  "LEAGUE_KEY" \in DOMAIN public
    <3>1. ~Has(p.context, "GAME_KEY") /\ "GAME_KEY" \notin found
      BY <1>2, <2>7, KeysOfGames DEF Has
    <3> QED BY <1>3, <1>4, <2>7, <3>1 DEF PublicInv
  <2> QED BY <2>1, <2>2, <2>3, <2>4, <2>5, <2>6, <2>7 DEF PublicInv
<1>12. PrivateInv(c, context, p.privateContext)
  BY <1>4, <1>8 DEF PrivateInv
<1>13. Grows(c, p, q)
  <2>1. Wider(p.context, context)
    BY <1>2 DEF Wider
  <2>2. \A f \in KeyFixtures \cap DOMAIN p.publicContext :
          f \in DOMAIN public \/ MayBeDropped(c, "public", f)
    BY <1>3, <1>10 DEF MayBeDropped
  <2>3. Wider(p.privateContext, p.privateContext)
    BY DEF Wider
  <2> HIDE DEF q
  <2> QED BY <1>1, <1>4, <1>6, <2>1, <2>2, <2>3, Growing
<1> QED BY <1>1, <1>6, <1>7, <1>11, <1>12, <1>13 DEF Learned

\* A step that learns something for one mode only.
LEMMA PublicLearned ==
  ASSUME NEW c, NEW p, Learned(c, p), NEW public, PublicInv(c, p.context, public),
         Defined(public), Wider(p.publicContext, public)
  PROVE  LET q == [p EXCEPT !.publicContext = public] IN Learned(c, q) /\ Grows(c, p, q)
<1> DEFINE q == [p EXCEPT !.publicContext = public]
<1>1. /\ DOMAIN q = {"context", "publicContext", "privateContext"}
      /\ q.context = p.context /\ q.publicContext = public
      /\ q.privateContext = p.privateContext
  BY WithContext DEF Learned
<1> HIDE DEF q
<1>2. WellFormed(q)
  BY <1>1 DEF Learned, WellFormed
<1>3. Learned(c, q)
  BY <1>1, <1>2 DEF Learned
<1>4. Grows(c, p, q)
  BY <1>1, <1>2, Growing DEF Learned, Wider
<1> QED BY <1>3, <1>4 DEF q

LEMMA PrivateLearned ==
  ASSUME NEW c, NEW p, Learned(c, p), NEW private, PrivateInv(c, p.context, private),
         Defined(private), Wider(p.privateContext, private)
  PROVE  LET q == [p EXCEPT !.privateContext = private] IN Learned(c, q) /\ Grows(c, p, q)
<1> DEFINE q == [p EXCEPT !.privateContext = private]
<1>1. /\ DOMAIN q = {"context", "publicContext", "privateContext"}
      /\ q.context = p.context /\ q.publicContext = p.publicContext
      /\ q.privateContext = private
  BY WithContext DEF Learned
<1> HIDE DEF q
<1>2. WellFormed(q)
  BY <1>1 DEF Learned, WellFormed
<1>3. Learned(c, q)
  BY <1>1, <1>2 DEF Learned
<1>4. Grows(c, p, q)
  BY <1>1, <1>2, Growing DEF Learned, Wider
<1> QED BY <1>3, <1>4 DEF q

\* Keys that are found in place of none: what was configured is still there.
LEMMA FreshKeys ==
  ASSUME NEW c, NEW mode, NEW own, ModeInv(c, mode, own), Defined(own),
         NEW key, IsKey(key), key.game = "now" \/ StaleConfigured(c, mode),
         NEW fresh, SingleFixtures \cap fresh \cap DOMAIN own = {},
         NEW new, \A f \in KeyFixtures :
                    /\ f \in DOMAIN new <=> f \in DOMAIN own \cup fresh
                    /\ f \in DOMAIN new => new[f] = IF f \in fresh THEN key ELSE own[f]
  PROVE  ModeInv(c, mode, new) /\ Defined(new) /\ Wider(own, new)
<1>1. SingleFixtures \subseteq EntityFixtures /\ EntityFixtures \subseteq KeyFixtures
  BY FixtureNames
<1>2. ASSUME NEW f \in SingleFixtures \cap DOMAIN OwnContext(c, mode)
      PROVE  \/ f \in DOMAIN new /\ new[f] = OwnContext(c, mode)[f]
             \/ MayBeDropped(c, mode, f)
  <2>1. \/ f \in DOMAIN own /\ own[f] = OwnContext(c, mode)[f]
        \/ MayBeDropped(c, mode, f)
    BY DEF ModeInv
  <2> QED BY <1>1, <2>1
<1>3. \A f \in EntityFixtures \cap DOMAIN new : new[f].game = "now" \/ StaleConfigured(c, mode)
  BY <1>1 DEF ModeInv
<1>4. ModeInv(c, mode, new)
  BY <1>2, <1>3 DEF ModeInv
<1> QED BY <1>4 DEF Defined, Wider

\* A public player of the current game.
LEMMA PlayersLearned ==
  ASSUME NEW c, NEW p, Learned(c, p), OfGame(p, Key("now", NoLeague)),
         ~Has(p.publicContext, "PLAYER_KEY")
  PROVE  LET q == [p EXCEPT !.publicContext = Found(PlayerFixtures, Key("now", NoLeague)) ++ @] IN
         Learned(c, q) /\ Grows(c, p, q)
<1> DEFINE key == Key("now", NoLeague)
           own == p.publicContext
           public == Found(PlayerFixtures, key) ++ own
<1>1. /\ DOMAIN public = DOMAIN own \cup PlayerFixtures
      /\ \A f \in DOMAIN public : public[f] = IF f \in PlayerFixtures THEN key ELSE own[f]
  BY FoundField
<1>2. key.game = "now" /\ IsKey(key)
  BY KeysOfGames
<1>3. /\ WellFormed(p) /\ PublicInv(c, p.context, own)
      /\ [p EXCEPT !.publicContext = public] =
           [p EXCEPT !.publicContext = Found(PlayerFixtures, key) ++ @]
  BY DEF Learned
<1>4. OfContext(p.context, key)
  BY DEF OfGame, OfContext
<1>5. \A f \in LeagueFixtures \cup TeamFixtures \cup TransactionFixtures :
        f \notin PlayerFixtures /\ (f \in DOMAIN public <=> f \in DOMAIN own)
          /\ (f \in DOMAIN own => public[f] = own[f])
  BY <1>1 DEF LeagueFixtures, TeamFixtures, PlayerFixtures, TransactionFixtures
<1>6. "LEAGUE_KEY" \in LeagueFixtures /\ "PLAYER_KEY" \notin DOMAIN own
  BY <1>3, FixtureNames DEF LeagueFixtures, Has, WellFormed, Defined, IsKey, SingleFixtures
<1> HIDE DEF public, own, key
<1>7. ModeInv(c, "public", public) /\ Defined(public) /\ Wider(own, public)
  <2>1. Defined(own) /\ ModeInv(c, "public", own)
    BY <1>3 DEF WellFormed, PublicInv, own
  <2>2. SingleFixtures \cap PlayerFixtures \cap DOMAIN own = {}
    BY <1>6 DEF SingleFixtures, PlayerFixtures
  <2> QED BY <1>1, <1>2, <2>1, <2>2, FreshKeys
<1>8. PublicInv(c, p.context, public)
  BY <1>1, <1>3, <1>4, <1>5, <1>6, <1>7 DEF PublicInv, key
<1> QED BY <1>3, <1>7, <1>8, PublicLearned DEF own, key

\* The list of the one public league.
LEMMA LeagueListLearned ==
  ASSUME NEW c, NEW p, Learned(c, p), Has(p.publicContext, "LEAGUE_KEY")
  PROVE  LET q == [p EXCEPT !.publicContext =
                     Default(p.publicContext, "LEAGUE_KEYS", p.publicContext["LEAGUE_KEY"])] IN
         Learned(c, q) /\ Grows(c, p, q)
<1> DEFINE own == p.publicContext
           key == own["LEAGUE_KEY"]
           public == Default(own, "LEAGUE_KEYS", key)
           fresh == {f \in {"LEAGUE_KEYS"} : ~Has(own, f)}
<1>1. \A f : /\ f \in DOMAIN public <=> f \in DOMAIN own \cup fresh
             /\ f \in DOMAIN public => public[f] = IF f \in fresh THEN key ELSE own[f]
  BY DEF Default, Defaults, ++, Has
<1>2. /\ WellFormed(p) /\ PublicInv(c, p.context, own) /\ Defined(own)
      /\ "LEAGUE_KEY" \in DOMAIN own /\ "LEAGUE_KEY" \in EntityFixtures
      /\ IsKey(key)
  BY FixtureNames DEF Learned, WellFormed, Has, SingleFixtures, Defined
<1>3. key.game = "now" \/ StaleConfigured(c, "public")
  BY <1>2 DEF PublicInv, ModeInv
<1>4. /\ fresh \subseteq {"LEAGUE_KEYS"} /\ "LEAGUE_KEYS" \notin SingleFixtures
      /\ {"LEAGUE_KEY", "LEAGUE_KEYS"} = LeagueFixtures /\ Other["LEAGUE_KEYS"] = "LEAGUE_KEY"
      /\ \A f \in TeamFixtures \cup PlayerFixtures \cup TransactionFixtures :
           f \notin {"LEAGUE_KEY", "LEAGUE_KEYS"}
  BY DEF SingleFixtures, LeagueFixtures, TeamFixtures, PlayerFixtures, TransactionFixtures, Other
<1> HIDE DEF public, own, key, fresh
<1>5. ModeInv(c, "public", public) /\ Defined(public) /\ Wider(own, public)
  <2>1. SingleFixtures \cap fresh \cap DOMAIN own = {} /\ ModeInv(c, "public", own)
    BY <1>2, <1>4 DEF PublicInv
  <2> QED BY <1>1, <1>2, <1>3, <2>1, FreshKeys
<1>6. "LEAGUE_KEY" \in DOMAIN c.publicContext
  BY <1>2 DEF PublicInv
<1>7. ~Absent(c, "public", "LEAGUE_KEY") /\ ~Absent(c, "public", "LEAGUE_KEYS")
  BY <1>4, <1>6 DEF Absent, OwnContext
<1>8. PublicInv(c, p.context, public)
  BY <1>1, <1>2, <1>4, <1>5, <1>7 DEF PublicInv, LeagueFixtures
<1> QED BY <1>5, <1>8, PublicLearned DEF own, key, public

\* The teams of the public league.
LEMMA TeamsLearned ==
  ASSUME NEW c, NEW p, Learned(c, p), Has(p.publicContext, "LEAGUE_KEY"),
         ~Has(p.publicContext, "TEAM_KEY"), OfGame(p, p.publicContext["LEAGUE_KEY"])
  PROVE  LET q == [p EXCEPT !.publicContext =
                     Found(TeamFixtures, p.publicContext["LEAGUE_KEY"]) ++ p.publicContext] IN
         Learned(c, q) /\ Grows(c, p, q)
<1> DEFINE own == p.publicContext
           key == own["LEAGUE_KEY"]
           public == Found(TeamFixtures, key) ++ own
<1>1. \A f : /\ f \in DOMAIN public <=> f \in DOMAIN own \cup TeamFixtures
             /\ f \in DOMAIN public => public[f] = IF f \in TeamFixtures THEN key ELSE own[f]
  <2> HIDE DEF own, key
  <2> QED BY FoundField
<1>2. /\ WellFormed(p) /\ PublicInv(c, p.context, own) /\ Defined(own)
      /\ "LEAGUE_KEY" \in DOMAIN own /\ "LEAGUE_KEY" \in EntityFixtures
      /\ IsKey(key) /\ "TEAM_KEY" \notin DOMAIN own
  BY FixtureNames DEF Learned, WellFormed, Has, SingleFixtures, Defined, IsKey
<1>3. key.game = "now" \/ StaleConfigured(c, "public")
  BY <1>2 DEF PublicInv, ModeInv
<1>4. \A f \in LeagueFixtures \cup PlayerFixtures \cup TransactionFixtures :
        f \notin TeamFixtures /\ (f \in DOMAIN public <=> f \in DOMAIN own)
          /\ (f \in DOMAIN own => public[f] = own[f])
  BY <1>1 DEF LeagueFixtures, TeamFixtures, PlayerFixtures, TransactionFixtures
<1>5. "LEAGUE_KEY" \in LeagueFixtures
  BY DEF LeagueFixtures
<1>6. OfContext(p.context, key)
  BY DEF OfGame, OfContext
<1> HIDE DEF public, own, key
<1>7. ModeInv(c, "public", public) /\ Defined(public) /\ Wider(own, public)
  <2>1. SingleFixtures \cap TeamFixtures \cap DOMAIN own = {} /\ ModeInv(c, "public", own)
    BY <1>2 DEF PublicInv, SingleFixtures, TeamFixtures
  <2> QED BY <1>1, <1>2, <1>3, <2>1, FreshKeys
<1>8. ~(~Has(c.context, "GAME_KEY") /\ Has(p.context, "GAME_KEY") /\ StaleLeague(c.publicContext))
  BY <1>2, <1>5 DEF PublicInv
<1>9. PublicInv(c, p.context, public)
  BY <1>1, <1>2, <1>4, <1>5, <1>6, <1>7, <1>8 DEF PublicInv, key
<1> QED BY <1>7, <1>9, PublicLearned DEF own, key, public

LEMMA GrowsOn ==
  ASSUME NEW c, NEW p, NEW q, NEW r, Grows(c, p, q), Grows(c, q, r)
  PROVE  Grows(c, p, r)
BY DEF Grows

\* What is not a key may be added.
LEMMA DatesLearned ==
  ASSUME NEW c, NEW p, Learned(c, p), NEW private,
         \A f \in KeyFixtures : /\ f \in DOMAIN private <=> f \in DOMAIN p.privateContext
                                /\ f \in DOMAIN private => private[f] = p.privateContext[f]
  PROVE  LET q == [p EXCEPT !.privateContext = private] IN Learned(c, q) /\ Grows(c, p, q)
<1> DEFINE own == p.privateContext
<1>1. WellFormed(p) /\ PrivateInv(c, p.context, own)
  BY DEF Learned
<1>2. /\ \A f \in LeagueFixtures \cup TeamFixtures \cup PlayerFixtures \cup TransactionFixtures :
           f \in KeyFixtures
      /\ SingleFixtures \subseteq KeyFixtures /\ EntityFixtures \subseteq KeyFixtures
      /\ "LEAGUE_KEY" \in KeyFixtures /\ "TEAM_KEY" \in KeyFixtures
  BY FixtureNames DEF SingleFixtures
<1> HIDE DEF own
<1>3. ModeInv(c, "private", private)
  BY <1>1, <1>2 DEF PrivateInv, ModeInv, own
<1>4. PrivateInv(c, p.context, private)
  BY <1>1, <1>2, <1>3 DEF PrivateInv, own
<1>5. Defined(private) /\ Wider(p.privateContext, private)
  BY <1>1 DEF WellFormed, Defined, Wider
<1> QED BY <1>4, <1>5, PrivateLearned

\* A team of the account and the league it is in.
LEMMA AccountLearned ==
  ASSUME NEW c, NEW p, Learned(c, p), NEW league, OfGame(p, Key("now", league))
  PROVE  LET q == [p EXCEPT !.privateContext =
                     Defaults(p.privateContext, TeamFixtures \cup LeagueFixtures,
                              Key("now", league))] IN
         Learned(c, q) /\ Grows(c, p, q)
<1> DEFINE own == p.privateContext
           names == TeamFixtures \cup LeagueFixtures
           key == Key("now", league)
           private == Defaults(own, names, key)
           fresh == names \ DOMAIN own
<1>1. /\ WellFormed(p) /\ PrivateInv(c, p.context, own) /\ Defined(own)
      /\ names \subseteq KeyFixtures
  BY FixtureNames DEF Learned, WellFormed
<1>2. \A f : /\ f \in DOMAIN private <=> f \in DOMAIN own \cup fresh
             /\ f \in DOMAIN private => private[f] = IF f \in fresh THEN key ELSE own[f]
  <2>1. \A f \in names : Has(own, f) <=> f \in DOMAIN own
    BY <1>1 DEF Has, Defined, IsKey
  <2> HIDE DEF names, own, key
  <2> QED BY <2>1, DefaultsField
<1>3. key.game = "now" /\ IsKey(key) /\ OfContext(p.context, key)
  BY KeysOfGames DEF OfGame, OfContext
<1>4. /\ {"LEAGUE_KEY", "TEAM_KEY"} \subseteq DOMAIN private
      /\ \A f \in PlayerFixtures \cup TransactionFixtures : f \notin names
      /\ \A f \in TransactionFixtures : f \notin TeamFixtures \cup LeagueFixtures \cup PlayerFixtures
  BY <1>2 DEF LeagueFixtures, TeamFixtures, PlayerFixtures, TransactionFixtures
<1> HIDE DEF private, own, key, names
<1>5. ModeInv(c, "private", private) /\ Defined(private) /\ Wider(own, private)
  <2>1. SingleFixtures \cap fresh \cap DOMAIN own = {} /\ ModeInv(c, "private", own)
    BY <1>1 DEF PrivateInv
  <2> QED BY <1>1, <1>2, <1>3, <2>1, FreshKeys
<1>6. ASSUME NEW f \in TeamFixtures \cap DOMAIN private,
             Absent(c, "private", f), Absent(c, "private", "LEAGUE_KEY")
      PROVE  private[f] = private["LEAGUE_KEY"]
  <2>1. CASE f \in DOMAIN own
    BY <1>1, <1>2, <2>1, <1>6 DEF PrivateInv
  <2>2. CASE f \notin DOMAIN own
    <3>1. private[f] = key
      BY <1>2, <1>6, <2>2 DEF names
    <3>2. CASE "LEAGUE_KEY" \notin DOMAIN own
      BY <1>2, <1>4, <3>1, <3>2
    <3>3. "LEAGUE_KEY" \notin DOMAIN own
      BY <1>1, <1>6, <2>2 DEF PrivateInv
    <3> QED BY <3>2, <3>3
  <2> QED BY <2>1, <2>2
<1>7. PrivateInv(c, p.context, private)
  BY <1>1, <1>2, <1>3, <1>4, <1>5, <1>6 DEF PrivateInv, names
<1> QED BY <1>5, <1>7, PrivateLearned DEF own, names, key, private

\* Players of the team; what is not a key may be added.
LEMMA RosterLearned ==
  ASSUME NEW c, NEW p, Learned(c, p), Has(p.privateContext, "TEAM_KEY"),
         ~Has(p.privateContext, "PLAYER_KEY"),
         NEW key, key = Key(p.privateContext["TEAM_KEY"].game, NoLeague)
  PROVE  LET q == [p EXCEPT !.privateContext = Found(PlayerFixtures, key) ++ p.privateContext] IN
         Learned(c, q) /\ Grows(c, p, q)
<1> DEFINE own == p.privateContext
           private == Found(PlayerFixtures, key) ++ own
<1>1. \A f : /\ f \in DOMAIN private <=> f \in DOMAIN own \cup PlayerFixtures
             /\ f \in DOMAIN private => private[f] = IF f \in PlayerFixtures THEN key ELSE own[f]
  <2> HIDE DEF own
  <2> QED BY FoundField
<1>2. /\ WellFormed(p) /\ PrivateInv(c, p.context, own) /\ Defined(own)
      /\ "TEAM_KEY" \in DOMAIN own /\ "TEAM_KEY" \in EntityFixtures
      /\ "PLAYER_KEY" \notin DOMAIN own
  BY FixtureNames DEF Learned, WellFormed, Has, SingleFixtures, Defined, IsKey
<1>3. own["TEAM_KEY"].game = "now" \/ StaleConfigured(c, "private")
  BY <1>2 DEF PrivateInv, ModeInv
<1>4. /\ \A f \in LeagueFixtures \cup TeamFixtures \cup TransactionFixtures : f \notin PlayerFixtures
      /\ "LEAGUE_KEY" \notin PlayerFixtures /\ "TEAM_KEY" \notin PlayerFixtures
  BY DEF LeagueFixtures, TeamFixtures, PlayerFixtures, TransactionFixtures
<1>5. key.game = own["TEAM_KEY"].game /\ IsKey(key)
  <2>1. key.game = own["TEAM_KEY"].game
    BY KeysOfGames
  <2>2. own["TEAM_KEY"].game # "undefined"
    BY <1>2, FixtureNames DEF Defined, IsKey
  <2> QED BY <2>1, <2>2, KeysOfGames
<1> HIDE DEF private, own
<1>6. ModeInv(c, "private", private) /\ Defined(private) /\ Wider(own, private)
  <2>1. SingleFixtures \cap PlayerFixtures \cap DOMAIN own = {} /\ ModeInv(c, "private", own)
    BY <1>2 DEF PrivateInv, SingleFixtures, PlayerFixtures
  <2> QED BY <1>1, <1>2, <1>3, <1>5, <2>1, FreshKeys
<1>7. PrivateInv(c, p.context, private)
  BY <1>1, <1>2, <1>4, <1>6 DEF PrivateInv, own
<1> QED BY <1>6, <1>7, PrivateLearned DEF own, private

\* Transactions of the league.
LEMMA TransactionsLearned ==
  ASSUME NEW c, NEW p, Learned(c, p), Has(p.privateContext, "LEAGUE_KEY"),
         ~Has(p.privateContext, "TRANSACTION_KEY")
  PROVE  LET q == [p EXCEPT !.privateContext =
                     Found(TransactionFixtures, p.privateContext["LEAGUE_KEY"])
                       ++ p.privateContext] IN
         Learned(c, q) /\ Grows(c, p, q)
<1> DEFINE own == p.privateContext
           key == own["LEAGUE_KEY"]
           private == Found(TransactionFixtures, key) ++ own
<1>1. \A f : /\ f \in DOMAIN private <=> f \in DOMAIN own \cup TransactionFixtures
             /\ f \in DOMAIN private =>
                  private[f] = IF f \in TransactionFixtures THEN key ELSE own[f]
  <2> HIDE DEF own, key
  <2> QED BY FoundField
<1>2. /\ WellFormed(p) /\ PrivateInv(c, p.context, own) /\ Defined(own)
      /\ "LEAGUE_KEY" \in DOMAIN own /\ "LEAGUE_KEY" \in EntityFixtures
      /\ IsKey(key) /\ "TRANSACTION_KEY" \notin DOMAIN own
  BY FixtureNames DEF Learned, WellFormed, Has, SingleFixtures, Defined, IsKey
<1>3. key.game = "now" \/ StaleConfigured(c, "private")
  BY <1>2 DEF PrivateInv, ModeInv
<1>4. /\ \A f \in LeagueFixtures \cup TeamFixtures \cup PlayerFixtures : f \notin TransactionFixtures
      /\ "LEAGUE_KEY" \notin TransactionFixtures /\ "TEAM_KEY" \notin TransactionFixtures
  BY DEF LeagueFixtures, TeamFixtures, PlayerFixtures, TransactionFixtures
<1> HIDE DEF private, own, key
<1>5. ModeInv(c, "private", private) /\ Defined(private) /\ Wider(own, private)
  <2>1. SingleFixtures \cap TransactionFixtures \cap DOMAIN own = {} /\ ModeInv(c, "private", own)
    BY <1>2 DEF PrivateInv, SingleFixtures, TransactionFixtures
  <2> QED BY <1>1, <1>2, <1>3, <2>1, FreshKeys
<1>6. PrivateInv(c, p.context, private)
  BY <1>1, <1>2, <1>4, <1>5 DEF PrivateInv, key
<1> QED BY <1>5, <1>6, PrivateLearned DEF own, key, private

LEMMA DiscoverySound ==
  ASSUME NEW sport, sport \in DOMAIN profiles => Learned(configured[sport], profiles[sport]),
         discoverProfile(sport)
  PROVE  Discovered(sport)
<1> DEFINE p == profiles[sport]
           c == configured[sport]
<1>1. ASSUME NEW q, NEW records, GoOn(sport, q, records),
             sport \in DOMAIN profiles => Learned(c, q) /\ Grows(c, p, q)
      PROVE  Discovered(sport)
  BY <1>1 DEF Discovered
<1>2. ASSUME DiscoverGame(sport) PROVE Discovered(sport)
  <2>1. CASE Skip(sport) \/ Fail(sport, "game")
    BY <2>1, NothingLearned
  <2>2. ASSUME NEW found \in SUBSET {"GAME_KEY", "SEASON"},
               Learn(sport, "game", LearnGame(p, found), found = {"GAME_KEY", "SEASON"})
        PROVE  Discovered(sport)
    BY <1>1, <2>2, GameLearned DEF Learn
  <2> QED BY <1>2, <2>1, <2>2, Zenon DEF DiscoverGame
<1>3. ASSUME DiscoverPlayers(sport) PROVE Discovered(sport)
  <2> DEFINE key == Key("now", NoLeague)
             q == [p EXCEPT !.publicContext = Found(PlayerFixtures, key) ++ @]
  <2>1. CASE Skip(sport) \/ Fail(sport, "players") \/ Learn(sport, "players", p, FALSE)
    BY <2>1, NothingLearned
  <2>2. CASE OfGame(p, key) /\ ~Has(p.publicContext, "PLAYER_KEY") /\ Learn(sport, "players", q, TRUE)
    <3>1. sport \in DOMAIN profiles => Learned(c, q) /\ Grows(c, p, q)
      BY <2>2, PlayersLearned
    <3> QED BY <1>1, <2>2, <3>1 DEF Learn
  <2> QED BY <1>3, <2>1, <2>2 DEF DiscoverPlayers
<1>4. ASSUME DiscoverTeams(sport) PROVE Discovered(sport)
  <2> DEFINE public == p.publicContext
             league == options.mode # "private" /\ Has(public, "LEAGUE_KEY")
             listed == league /\ Needs(sport, "public", {"LEAGUE_KEYS"})
             list == Default(public, "LEAGUE_KEYS", public["LEAGUE_KEY"])
             p1 == [p EXCEPT !.publicContext = IF listed THEN list ELSE public]
             q == [p1 EXCEPT !.publicContext = Found(TeamFixtures, public["LEAGUE_KEY"]) ++ @]
  <2>1. ASSUME sport \in DOMAIN profiles
        PROVE  /\ Learned(c, p1) /\ Grows(c, p, p1)
               /\ p1.context = p.context
               /\ \A f \in {"LEAGUE_KEY", "TEAM_KEY"} :
                    /\ f \in DOMAIN p1.publicContext <=> f \in DOMAIN public
                    /\ f \in DOMAIN public => p1.publicContext[f] = public[f]
    <3>1. Learned(c, p) /\ WellFormed(p)
      BY <2>1 DEF Learned
    <3>2. CASE listed
      <4>1. p1 = [p EXCEPT !.publicContext = list]
        BY <3>2
      <4>2. p1.context = p.context /\ p1.publicContext = list
        BY <3>1, <4>1, WithContext
      <4>3. Learned(c, p1) /\ Grows(c, p, p1)
        BY <3>1, <3>2, <4>1, LeagueListLearned
      <4>4. \A f \in {"LEAGUE_KEY", "TEAM_KEY"} :
              /\ f \in DOMAIN list <=> f \in DOMAIN public
              /\ f \in DOMAIN public => list[f] = public[f]
        BY DEF Default, Defaults, ++
      <4> HIDE DEF p1, list, public
      <4> QED BY <4>2, <4>3, <4>4
    <3>3. CASE ~listed
      <4>1. p1 = [p EXCEPT !.publicContext = public]
        BY <3>3
      <4>2. p1.context = p.context /\ p1.publicContext = public
        BY <3>1, <4>1, WithContext
      <4>3. PublicInv(c, p.context, public) /\ Defined(public) /\ Wider(public, public)
        BY <3>1 DEF Learned, WellFormed, Wider
      <4>4. Learned(c, p1) /\ Grows(c, p, p1)
        BY <3>1, <4>1, <4>3, PublicLearned
      <4> HIDE DEF p1, public
      <4> QED BY <4>2, <4>4
    <3> QED BY <3>2, <3>3
  <2> HIDE DEF p1
  <2>2. CASE GoOn(sport, p1, {}) \/ Learn(sport, "teams", p1, FALSE)
    BY <1>1, <2>1, <2>2 DEF Learn
  <2>3. CASE /\ Has(public, "LEAGUE_KEY") /\ ~Has(public, "TEAM_KEY")
             /\ OfGame(p1, public["LEAGUE_KEY"]) /\ Learn(sport, "teams", q, TRUE)
    <3>1. ASSUME sport \in DOMAIN profiles PROVE Learned(c, q) /\ Grows(c, p, q)
      <4>1. /\ Has(p1.publicContext, "LEAGUE_KEY") /\ ~Has(p1.publicContext, "TEAM_KEY")
            /\ p1.publicContext["LEAGUE_KEY"] = public["LEAGUE_KEY"]
        BY <2>1, <2>3, <3>1 DEF Has
      <4>2. q = [p1 EXCEPT !.publicContext =
                   Found(TeamFixtures, p1.publicContext["LEAGUE_KEY"]) ++ p1.publicContext]
        BY <4>1
      <4>3. Learned(c, q) /\ Grows(c, p1, q)
        BY <2>1, <2>3, <3>1, <4>1, <4>2, TeamsLearned
      <4> QED BY <2>1, <3>1, <4>3, GrowsOn
    <3> QED BY <1>1, <2>3, <3>1 DEF Learn
  <2> QED BY <1>4, <2>2, <2>3 DEF DiscoverTeams, p1
<1>5. ASSUME DiscoverDates(sport) PROVE Discovered(sport)
  <2> DEFINE private == p.privateContext
             dated == [DATE |-> Given] ++ private
             q == [p EXCEPT !.privateContext = dated]
  <2>1. CASE Skip(sport) \/ Fail(sport, "dates") \/ Learn(sport, "dates", p, TRUE)
    BY <2>1, NothingLearned
  <2>2. CASE Learn(sport, "dates", q, TRUE)
    <3>1. \A f \in KeyFixtures : /\ f \in DOMAIN dated <=> f \in DOMAIN private
                                 /\ f \in DOMAIN dated => dated[f] = private[f]
      <4>1. "DATE" \notin KeyFixtures
        BY FixtureNames DEF SingleFixtures
      <4> QED BY <4>1 DEF ++
    <3>2. sport \in DOMAIN profiles => Learned(c, q) /\ Grows(c, p, q)
      <4> HIDE DEF dated
      <4> QED BY <3>1, DatesLearned
    <3> QED BY <1>1, <2>2, <3>2 DEF Learn
  <2> QED BY <1>5, <2>1, <2>2 DEF DiscoverDates
<1>6. ASSUME DiscoverAccount(sport) PROVE Discovered(sport)
  <2> DEFINE joined(team) ==
               [p EXCEPT !.privateContext =
                  Defaults(p.privateContext, TeamFixtures \cup LeagueFixtures, team)]
  <2>1. CASE Skip(sport) \/ Fail(sport, "account") \/ Learn(sport, "account", p, TRUE)
    BY <2>1, NothingLearned
  <2>2. ASSUME NEW league \in {"mine", "other"}, OfGame(p, Key("now", league)),
               Learn(sport, "account", joined(Key("now", league)), TRUE)
        PROVE  Discovered(sport)
    <3>1. sport \in DOMAIN profiles =>
            /\ Learned(c, joined(Key("now", league)))
            /\ Grows(c, p, joined(Key("now", league)))
      BY <2>2, AccountLearned
    <3> HIDE DEF joined
    <3> QED BY <1>1, <2>2, <3>1 DEF Learn
  <2> QED BY <1>6, <2>1, <2>2 DEF DiscoverAccount
<1>7. ASSUME DiscoverRoster(sport) PROVE Discovered(sport)
  <2> DEFINE private == p.privateContext
             key == Key(private["TEAM_KEY"].game, NoLeague)
             player == Found(PlayerFixtures, key)
             told(names, f) == IF f \in names THEN Given ELSE UndefinedFixture
             period(context, names) ==
               Default(Default(context, "DATE", told(names, "DATE")), "WEEK", told(names, "WEEK"))
  <2>1. CASE Skip(sport) \/ Fail(sport, "roster")
    BY <2>1, NothingLearned
  <2>2. ASSUME NEW names \in SUBSET {"DATE", "WEEK"}, NEW players \in {<< >>, player},
               Has(private, "TEAM_KEY"), ~Has(private, "PLAYER_KEY"),
               Learn(sport, "roster",
                     [p EXCEPT !.privateContext = period(players ++ private, names)], TRUE)
        PROVE  Discovered(sport)
    <3> DEFINE found == players ++ private
               p1 == [p EXCEPT !.privateContext = found]
               new == period(found, names)
               q == [p EXCEPT !.privateContext = new]
    <3>1. ASSUME sport \in DOMAIN profiles PROVE Learned(c, p1) /\ Grows(c, p, p1)
      <4>1. CASE players = player
        BY <2>2, <3>1, <4>1, RosterLearned
      <4>2. CASE players = << >>
        <5>1. \A f : /\ f \in DOMAIN found <=> f \in DOMAIN private
                     /\ f \in DOMAIN found => found[f] = private[f]
          BY <4>2 DEF ++
        <5> HIDE DEF found
        <5> QED BY <3>1, <5>1, DatesLearned
      <4> QED BY <4>1, <4>2
    <3>2. ASSUME sport \in DOMAIN profiles
          PROVE  p1.privateContext = found /\ [p1 EXCEPT !.privateContext = new] = q
      BY <3>2 DEF Learned, WellFormed
    <3>3. \A f \in KeyFixtures : /\ f \in DOMAIN new <=> f \in DOMAIN found
                                 /\ f \in DOMAIN new => new[f] = found[f]
      <4>1. {"DATE", "WEEK"} \cap KeyFixtures = {}
        BY FixtureNames DEF SingleFixtures
      <4> HIDE DEF found, told
      <4> QED BY <4>1 DEF Default, Defaults, ++
    <3>4. ASSUME sport \in DOMAIN profiles PROVE Learned(c, q) /\ Grows(c, p, q)
      <4> HIDE DEF found, new, p1, q
      <4>1. Learned(c, q) /\ Grows(c, p1, q)
        BY <3>1, <3>2, <3>3, <3>4, DatesLearned
      <4> QED BY <3>1, <3>4, <4>1, GrowsOn
    <3> HIDE DEF new
    <3> QED BY <1>1, <2>2, <3>4 DEF Learn, new
  <2> QED BY <1>7, <2>1, <2>2 DEF DiscoverRoster
<1>8. ASSUME DiscoverTransactions(sport) PROVE Discovered(sport)
  <2> DEFINE private == p.privateContext
             q == [p EXCEPT !.privateContext =
                     Found(TransactionFixtures, private["LEAGUE_KEY"]) ++ private]
  <2>1. CASE \/ Skip(sport) \/ Fail(sport, "transactions")
             \/ Learn(sport, "transactions", p, TRUE)
    BY <2>1, NothingLearned
  <2>2. CASE /\ Has(private, "LEAGUE_KEY") /\ ~Has(private, "TRANSACTION_KEY")
             /\ Learn(sport, "transactions", q, TRUE)
    <3>1. sport \in DOMAIN profiles => Learned(c, q) /\ Grows(c, p, q)
      BY <2>2, TransactionsLearned
    <3> QED BY <1>1, <2>2, <3>1 DEF Learn
  <2> QED BY <1>8, <2>1, <2>2 DEF DiscoverTransactions
<1> QED BY <1>2, <1>3, <1>4, <1>5, <1>6, <1>7, <1>8 DEF discoverProfile

-----------------------------------------------------------------------------
(* The inductive invariant                                                 *)

\* The sports of a run have a profile; those of the arguments are still open.
OptionsInv ==
  /\ options \in [dryRun : BOOLEAN, includeInvalid : BOOLEAN, mode : {"public", "private", "all"},
                  requireComplete : BOOLEAN, routeIds : {AllIds} \cup RouteIdChoices,
                  sports : SUBSET SportCodes, strictShapes : BOOLEAN]
  /\ options.sports \subseteq DOMAIN profiles
  /\ stage = "arguments" => DOMAIN profiles = SportCodes

\* What discovery has learned fits what was configured.
ProfilesInv ==
  \A sport \in DOMAIN profiles :
    WellFormed(configured[sport]) /\ Learned(configured[sport], profiles[sport])

\* A key that was known once is still to be seen, but for what may be dropped.
KnownInv ==
  \A k \in known :
    k[1] \in DOMAIN profiles =>
      /\ k[2] \in {"public", "private"} /\ k[3] \in KeyFixtures
      /\ \/ k[3] \in DOMAIN buildScenarioContext(profiles[k[1]], k[2])
         \/ MayBeDropped(configured[k[1]], k[2], k[3])

\* What a request status says about the evidence there is.
SoundResult(r) ==
  /\ r.scenario \in Applicable
  /\ r.missing = resolveTemplate(r.scenario).missing
  /\ r.path = resolveTemplate(r.scenario).path
  /\ \/ r.requestStatus = "failed"
     \/ r.requestStatus = "fixture-unavailable" /\ r.missing # {}
     \/ r.requestStatus = "expected-rejection" /\ r.evidence
     \/ /\ r.requestStatus = "passed"
        /\ \/ r.scenario.route.set = "invalid"
           \/ r.evidence
           \/ options.strictShapes /\ r.shapeStatus = "warning"

ResultsInv == \A r \in results : SoundResult(r)

Tried == {r.scenario : r \in results}
Items(s) == {s[i] : i \in 1..Len(s)}

\* What remains to be tried is what was not tried.
StageInv ==
  /\ stage \in {"arguments", "discovery", "scenarios", "ended"}
  /\ stage \in {"arguments", "discovery"} => results = {}
  /\ stage = "scenarios" => todo \in Seq(Applicable) /\ Tried \cup Items(todo) = Applicable
  /\ stage = "ended" /\ exitCode = 0 /\ ~options.dryRun => ~hasBlockingResults /\ Tried = Applicable

VInv == OptionsInv /\ ProfilesInv /\ KnownInv /\ ResultsInv /\ StageInv

\* A key that becomes known is one that the scenarios of its sport see.
LEMMA KnownKeysSeen ==
  ASSUME NEW sport, NEW p, NEW k \in KnownKeys(sport, p)
  PROVE  /\ k[1] = sport /\ k[2] \in {"public", "private"} /\ k[3] \in KeyFixtures
         /\ k[3] \in DOMAIN buildScenarioContext(p, k[2])
<1>1. PICK mode \in {"public", "private"} :
        \E f \in KeyFixtures \cap DOMAIN buildScenarioContext(p, mode) : k = <<sport, mode, f>>
  BY DEF KnownKeys
<1>2. PICK f \in KeyFixtures \cap DOMAIN buildScenarioContext(p, mode) : k = <<sport, mode, f>>
  BY <1>1
<1>3. k[1] = sport /\ k[2] = mode /\ k[3] = f
  BY <1>2
<1> QED BY <1>3

\* What is configured, with the defaults, is made of keys.
LEMMA ConfiguredWell ==
  ASSUME NEW overrides \in OverrideChoices, NEW game \in {"now", "before"}, NEW sport \in SportCodes
  PROVE  WellFormed(Configure(overrides, Key(game, "default"))[sport])
<1> DEFINE p == overrides[sport]
           league == Key(game, "default")
           shared == p.context ++ profileDefaults
           hockey == sport = "nhl" /\ ~Has(p.publicContext, "LEAGUE_KEY")
           public == IF hockey THEN [LEAGUE_KEY |-> league] ++ p.publicContext ELSE p.publicContext
           c == Configure(overrides, league)[sport]
<1>1. /\ DOMAIN c = {"context", "publicContext", "privateContext"}
      /\ c.context = shared /\ c.publicContext = public /\ c.privateContext = p.privateContext
  BY DEF Configure, Profile
<1>2. Defined(p.context) /\ Defined(p.publicContext) /\ Defined(p.privateContext)
  BY OverridesAssumption, KeysOfGames DEF Defined
<1>3. Defined(shared)
  <2>1. \A f \in KeyFixtures : /\ f \in DOMAIN shared <=> f \in DOMAIN p.context
                               /\ f \in DOMAIN shared => shared[f] = p.context[f]
    <3>1. KeyFixtures \cap DOMAIN profileDefaults = {}
      BY FixtureNames DEF profileDefaults, SingleFixtures
    <3> QED BY <3>1 DEF ++
  <2> HIDE DEF shared
  <2> QED BY <1>2, <2>1 DEF Defined
<1>4. Defined(public)
  <2>1. CASE hockey
    <3>1. \A f : /\ f \in DOMAIN public <=> f = "LEAGUE_KEY" \/ f \in DOMAIN p.publicContext
                 /\ f \in DOMAIN public =>
                      public[f] = IF f = "LEAGUE_KEY" THEN league ELSE p.publicContext[f]
      BY <2>1 DEF ++
    <3>2. IsKey(league)
      BY KeysOfGames
    <3> HIDE DEF public, league
    <3> QED BY <1>2, <3>1, <3>2 DEF Defined
  <2>2. CASE ~hockey
    BY <1>2, <2>2
  <2> QED BY <2>1, <2>2
<1> HIDE DEF c, shared, public
<1> QED BY <1>1, <1>2, <1>3, <1>4 DEF WellFormed, c

\* Before the discovery.
LEMMA NothingYetLearned ==
  ASSUME NEW c, WellFormed(c)
  PROVE  Learned(c, c)
<1>1. SharedInv(c, c.context)
  BY DEF SharedInv
<1>2. ASSUME NEW mode PROVE ModeInv(c, mode, OwnContext(c, mode))
  BY FixtureNames DEF ModeInv, StaleConfigured
<1>3. ASSUME NEW mode, NEW f \in DOMAIN OwnContext(c, mode) PROVE ~Absent(c, mode, f)
  BY <1>3 DEF Absent
<1>4. OwnContext(c, "public") = c.publicContext /\ OwnContext(c, "private") = c.privateContext
  BY DEF OwnContext
<1>5. ~(~Has(c.context, "GAME_KEY") /\ Has(c.context, "GAME_KEY"))
  OBVIOUS
<1>6. PublicInv(c, c.context, c.publicContext)
  BY <1>2, <1>3, <1>4, <1>5 DEF PublicInv
<1>7. "LEAGUE_KEY" \in DOMAIN c.privateContext => ~Absent(c, "private", "LEAGUE_KEY")
  BY <1>3, <1>4
<1>8. PrivateInv(c, c.context, c.privateContext)
  BY <1>2, <1>3, <1>4, <1>7 DEF PrivateInv
<1> QED BY <1>1, <1>6, <1>8 DEF Learned

LEMMA InitVInv == VerifierInit => VInv
<1> SUFFICES ASSUME VerifierInit PROVE VInv
  OBVIOUS
<1>1. PICK overrides \in OverrideChoices, game \in {"now", "before"} :
        configured = Configure(overrides, Key(game, "default"))
  BY DEF VerifierInit
<1>2. /\ profiles = configured /\ DOMAIN configured = SportCodes
      /\ known = UNION {KnownKeys(sport, profiles[sport]) : sport \in SportCodes}
  BY <1>1 DEF VerifierInit, Configure
<1>3. OptionsInv
  BY <1>2 DEF VerifierInit, OptionsInv
<1>4. ASSUME NEW sport \in SportCodes
      PROVE  WellFormed(configured[sport]) /\ Learned(configured[sport], configured[sport])
  <2> DEFINE c == configured[sport]
  <2>1. WellFormed(c)
    BY <1>1, ConfiguredWell
  <2>2. Learned(c, c)
    BY <2>1, NothingYetLearned
  <2> QED BY <2>1, <2>2
<1>7. ProfilesInv
  BY <1>2, <1>4 DEF ProfilesInv
<1>5. KnownInv
  <2>1. \A k \in known : \E sport \in SportCodes : k \in KnownKeys(sport, profiles[sport])
    BY <1>2
  <2> QED BY <1>2, <2>1, KnownKeysSeen DEF KnownInv
<1>6. ResultsInv /\ StageInv
  BY DEF VerifierInit, ResultsInv, StageInv
<1> QED BY <1>3, <1>5, <1>6, <1>7 DEF VInv

\* The options settle what is to be tried, with the profiles also the paths.
LEMMA SameScenarios ==
  ASSUME options' = options
  PROVE  Applicable' = Applicable
BY DEF Applicable, Scenarios, Selected, Modes

LEMMA SameResults ==
  ASSUME options' = options, profiles' = profiles, results' = results
  PROVE  /\ ResultsInv' <=> ResultsInv
         /\ Tried' = Tried
<1>1. \A s : resolveTemplate(s)' = resolveTemplate(s)
  BY DEF resolveTemplate
<1>2. \A r : SoundResult(r)' <=> SoundResult(r)
  BY <1>1, SameScenarios DEF SoundResult
<1> QED BY <1>2 DEF ResultsInv, Tried

LEMMA ReadArgumentVInv == VInv /\ ReadArgument => VInv'
<1> SUFFICES ASSUME VInv, ReadArgument PROVE VInv'
  OBVIOUS
<1>1. /\ stage = "arguments" /\ stage' = stage /\ results' = results /\ results = {}
      /\ profiles' = profiles /\ known' = known /\ configured' = configured
  BY DEF ReadArgument, VInv, StageInv
<1>2. OptionsInv'
  <2>1. options'.sports \subseteq SportCodes
    BY DEF ReadArgument, VInv, OptionsInv, parseCliArgs, parseSports
  <2>2. options' \in [dryRun : BOOLEAN, includeInvalid : BOOLEAN,
                      mode : {"public", "private", "all"}, requireComplete : BOOLEAN,
                      routeIds : {AllIds} \cup RouteIdChoices, sports : SUBSET SportCodes,
                      strictShapes : BOOLEAN]
    BY DEF ReadArgument, VInv, OptionsInv, parseCliArgs, parseSports
  <2> QED BY <1>1, <2>1, <2>2 DEF VInv, OptionsInv
<1>3. ProfilesInv' /\ KnownInv'
  BY <1>1 DEF VInv, ProfilesInv, KnownInv
<1>4. ResultsInv' /\ StageInv'
  BY <1>1 DEF ResultsInv, StageInv
<1> QED BY <1>2, <1>3, <1>4 DEF VInv

LEMMA ThrowVInv ==
  ASSUME VInv, stage = "arguments", Throw, results' = results, options' = options,
         OptionsInv', ProfilesInv', KnownInv'
  PROVE  VInv'
<1>1. results' = {} /\ stage' = "ended" /\ exitCode' = 1
  BY DEF VInv, StageInv, Throw
<1> QED BY <1>1 DEF VInv, ResultsInv, StageInv

LEMMA BadArgumentVInv == VInv /\ BadArgument => VInv'
<1> SUFFICES ASSUME VInv, BadArgument PROVE VInv'
  OBVIOUS
<1>1. /\ stage = "arguments" /\ Throw /\ results' = results /\ options' = options
      /\ profiles' = profiles /\ known' = known /\ configured' = configured
  BY DEF BadArgument
<1>2. OptionsInv' /\ ProfilesInv' /\ KnownInv'
  BY <1>1 DEF VInv, OptionsInv, ProfilesInv, KnownInv, Throw
<1> QED BY <1>1, <1>2, ThrowVInv

LEMMA StartVInv == VInv /\ Start => VInv'
<1> SUFFICES ASSUME VInv, Start PROVE VInv'
  OBVIOUS
<1>1. /\ stage = "arguments" /\ results' = results /\ options' = options /\ known' = known
      /\ configured' = configured /\ results = {} /\ profiles' = [sport \in options.sports |-> profiles[sport]]
      /\ options.sports \subseteq DOMAIN profiles
  BY DEF Start, VInv, StageInv, OptionsInv
<1>2. ASSUME stage' # "arguments" PROVE OptionsInv'
  BY <1>1, <1>2 DEF VInv, OptionsInv
<1>3. ProfilesInv' /\ KnownInv'
  BY <1>1 DEF VInv, ProfilesInv, KnownInv
<1>4. CASE Throw
  BY <1>1, <1>2, <1>3, <1>4, ThrowVInv DEF Throw
<1>5. CASE options.dryRun /\ stage' = "ended"
  BY <1>1, <1>2, <1>3, <1>5 DEF VInv, ResultsInv, StageInv
<1>6. CASE stage' = "discovery"
  BY <1>1, <1>2, <1>3, <1>6 DEF VInv, ResultsInv, StageInv
<1> QED BY <1>4, <1>5, <1>6 DEF Start

LEMMA DiscoveryVInv ==
  ASSUME VInv, NEW sport, discoverProfile(sport)
  PROVE  VInv'
<1>1. stage = "discovery"
  BY DEF discoverProfile, DiscoverGame, DiscoverPlayers, DiscoverTeams, DiscoverDates,
         DiscoverAccount, DiscoverRoster, DiscoverTransactions, At
<1>2. PICK q, records :
        /\ GoOn(sport, q, records)
        /\ sport \in DOMAIN profiles =>
             Learned(configured[sport], q) /\ Grows(configured[sport], profiles[sport], q)
  BY DiscoverySound DEF VInv, ProfilesInv, Discovered
<1>3. /\ profiles' = [profiles EXCEPT ![sport] = q] /\ known' = known \cup KnownKeys(sport, q)
      /\ stage' = stage /\ options' = options /\ results' = results /\ configured' = configured
  BY <1>2 DEF GoOn
<1>4. OptionsInv'
  BY <1>3 DEF VInv, OptionsInv
<1>5. ProfilesInv'
  BY <1>2, <1>3 DEF VInv, ProfilesInv
<1>6. KnownInv'
  <2> SUFFICES ASSUME NEW k \in known', k[1] \in DOMAIN profiles
               PROVE  /\ k[2] \in {"public", "private"} /\ k[3] \in KeyFixtures
                      /\ \/ k[3] \in DOMAIN buildScenarioContext(profiles'[k[1]], k[2])
                         \/ MayBeDropped(configured[k[1]], k[2], k[3])
    BY <1>3 DEF KnownInv
  <2>1. CASE k \in known
    <3>1. /\ k[2] \in {"public", "private"} /\ k[3] \in KeyFixtures
          /\ \/ k[3] \in DOMAIN buildScenarioContext(profiles[k[1]], k[2])
             \/ MayBeDropped(configured[k[1]], k[2], k[3])
      BY <2>1 DEF VInv, KnownInv
    <3>2. CASE k[1] = sport
      <4>1. profiles'[k[1]] = q
        BY <1>3, <3>2
      <4> QED BY <1>2, <3>1, <3>2, <4>1 DEF Grows
    <3>3. CASE k[1] # sport
      BY <1>3, <3>1, <3>3
    <3> QED BY <3>2, <3>3
  <2>2. CASE k \in KnownKeys(sport, q)
    <3>1. /\ k[1] = sport /\ k[2] \in {"public", "private"} /\ k[3] \in KeyFixtures
          /\ k[3] \in DOMAIN buildScenarioContext(q, k[2])
      BY <2>2, KnownKeysSeen
    <3>2. profiles'[k[1]] = q
      BY <1>3, <3>1
    <3> QED BY <3>1, <3>2
  <2> QED BY <1>3, <2>1, <2>2
<1>7. ResultsInv' /\ StageInv'
  BY <1>1, <1>3 DEF VInv, ResultsInv, StageInv
<1> QED BY <1>4, <1>5, <1>6, <1>7 DEF VInv

LEMMA ScenariosVInv == VInv /\ instantiateScenarios => VInv'
<1> SUFFICES ASSUME VInv, instantiateScenarios PROVE VInv'
  OBVIOUS
<1>1. /\ stage = "discovery" /\ stage' = "scenarios" /\ todo' = SetToSeq(Applicable)
      /\ options' = options /\ profiles' = profiles /\ results' = results /\ known' = known
      /\ configured' = configured /\ results = {}
  BY DEF instantiateScenarios, VInv, StageInv
<1>2. OptionsInv' /\ ProfilesInv' /\ KnownInv'
  BY <1>1 DEF VInv, OptionsInv, ProfilesInv, KnownInv
<1>3. IsFiniteSet(options.sports)
  <2>1. IsFiniteSet({"nfl", "mlb"}) /\ IsFiniteSet({"nba", "nhl"})
    BY EnumerationsFinite
  <2>2. IsFiniteSet({"nfl", "mlb"} \cup {"nba", "nhl"})
    BY <2>1, FS_Union
  <2>3. options.sports \subseteq {"nfl", "mlb"} \cup {"nba", "nhl"}
    BY DEF VInv, OptionsInv, SportCodes
  <2> QED BY <2>2, <2>3, FS_Subset
<1>4. SetToSeq(Applicable) \in Seq(Applicable) /\ Items(SetToSeq(Applicable)) = Applicable
  BY <1>3, ScenariosFinite, ListsAll DEF Items
<1>5. todo' \in Seq(Applicable') /\ Items(todo') = Applicable' /\ Tried' = {}
  BY <1>1, <1>4, SameScenarios DEF Tried
<1> QED BY <1>1, <1>2, <1>5 DEF VInv, ResultsInv, StageInv, Items

\* What is left after the head.
LEMMA HeadAndTail ==
  ASSUME NEW S, NEW s \in Seq(S), s # << >>
  PROVE  Head(s) \in S /\ Tail(s) \in Seq(S) /\ Items(s) = {Head(s)} \cup Items(Tail(s))
<1>1. /\ Len(s) \in Nat \ {0} /\ Head(s) = s[1] /\ Head(s) \in S /\ Tail(s) \in Seq(S)
      /\ Len(Tail(s)) = Len(s) - 1 /\ \A i \in 1..Len(Tail(s)) : Tail(s)[i] = s[i + 1]
  OBVIOUS
<1>2. ASSUME NEW x \in Items(s) PROVE x \in {Head(s)} \cup Items(Tail(s))
  <2>1. PICK i \in 1..Len(s) : x = s[i]
    BY <1>2 DEF Items
  <2>2. CASE i = 1
    BY <1>1, <2>1, <2>2
  <2>3. CASE i # 1
    <3>1. i - 1 \in 1..Len(Tail(s)) /\ Tail(s)[i - 1] = s[i]
      BY <1>1, <2>1, <2>3
    <3> QED BY <2>1, <3>1 DEF Items
  <2> QED BY <2>2, <2>3
<1>3. ASSUME NEW x \in {Head(s)} \cup Items(Tail(s)) PROVE x \in Items(s)
  BY <1>1 DEF Items
<1> QED BY <1>1, <1>2, <1>3

\* A route counts as answered only on evidence, or with a shape that is warned of.
LEMMA JudgeSound ==
  ASSUME NEW route, NEW answer \in Answers, Judge(route, answer).requestStatus # "failed"
  PROVE  /\ Judge(route, answer).requestStatus = "passed"
         /\ \/ route.set = "invalid"
            \/ Evidence(route, answer)
            \/ options.strictShapes /\ Judge(route, answer).shapeStatus = "warning"
<1>1. /\ Judge(route, answer).requestStatus = "passed"
      /\ verifyKeyFixtures(route, answer) /\ (answer.data \/ route.allowEmpty)
      /\ ~emptyRequiredArrays(route, answer)
      /\ Judge(route, answer).shapeStatus = ShapeStatus(route, answer)
  BY DEF Judge
<1>2. "keys" \in DOMAIN answer
  <2>1. CASE answer \in [data : {TRUE}, keys : {"asked", "others", "none"}, filled : BOOLEAN,
                         shaped : BOOLEAN]
    BY <2>1
  <2>2. CASE answer = [data |-> FALSE, keys |-> "none", filled |-> TRUE, shaped |-> FALSE]
    BY <2>2
  <2> QED BY <2>1, <2>2, Zenon DEF Answers
<1> QED BY <1>1, <1>2
  DEF Evidence, verifyKeyFixtures, emptyRequiredArrays, ShapeStatus

LEMMA RejectSound ==
  ASSUME NEW route, SoundRoute(route), NEW words, Reject(route, words).requestStatus # "failed"
  PROVE  /\ Reject(route, words).requestStatus = "expected-rejection"
         /\ Evidence(route, [words |-> words])
<1>1. /\ Reject(route, words).requestStatus = "expected-rejection"
      /\ route.set = "invalid" /\ assessFailure(words) \in route.expectedFailureKinds
  BY DEF Reject
<1>2. assessFailure(words) \in {"fixture-invalid", "unsupported-route"}
  BY <1>1 DEF SoundRoute
<1>3. words \cap (AuthWords \cup TransientWords) = {}
  BY <1>2 DEF assessFailure
<1> QED BY <1>1, <1>3 DEF Evidence

LEMMA ResultVInv ==
  ASSUME VInv, stage = "scenarios", todo # << >>,
         NEW reply, NEW verdict, Result(Head(todo), reply, verdict),
         \/ verdict.requestStatus = "failed"
         \/ /\ verdict.requestStatus = "fixture-unavailable"
            /\ resolveTemplate(Head(todo)).missing # {}
         \/ verdict.requestStatus = "expected-rejection" /\ Evidence(Head(todo).route, reply)
         \/ /\ verdict.requestStatus = "passed"
            /\ \/ Head(todo).route.set = "invalid"
               \/ Evidence(Head(todo).route, reply)
               \/ options.strictShapes /\ verdict.shapeStatus = "warning"
  PROVE  VInv'
<1> DEFINE scenario == Head(todo)
           r == [scenario |-> scenario, requestStatus |-> verdict.requestStatus,
                 shapeStatus |-> verdict.shapeStatus, evidence |-> Evidence(scenario.route, reply),
                 missing |-> resolveTemplate(scenario).missing,
                 path |-> resolveTemplate(scenario).path]
<1>1. /\ results' = results \cup {r} /\ todo' = Tail(todo)
      /\ options' = options /\ profiles' = profiles /\ known' = known /\ configured' = configured /\ stage' = stage
  BY DEF Result
<1>2. OptionsInv' /\ ProfilesInv' /\ KnownInv'
  BY <1>1 DEF VInv, OptionsInv, ProfilesInv, KnownInv
<1>3. /\ todo \in Seq(Applicable) /\ Tried \cup Items(todo) = Applicable
      /\ scenario \in Applicable /\ Tail(todo) \in Seq(Applicable)
      /\ Items(todo) = {scenario} \cup Items(Tail(todo))
  BY HeadAndTail DEF VInv, StageInv
<1>4. SoundResult(r)
  BY <1>3 DEF SoundResult
<1> HIDE DEF r
<1>5. \A x : SoundResult(x)' <=> SoundResult(x)
  <2>1. \A s : resolveTemplate(s)' = resolveTemplate(s)
    BY <1>1 DEF resolveTemplate
  <2> QED BY <1>1, <2>1, SameScenarios DEF SoundResult
<1>6. ResultsInv'
  BY <1>1, <1>4, <1>5 DEF VInv, ResultsInv
<1>7. Tried' = Tried \cup {scenario}
  <2>1. r.scenario = scenario
    BY DEF r
  <2> QED BY <1>1, <2>1 DEF Tried
<1>8. Tried' \cup Items(todo') = Applicable' /\ todo' \in Seq(Applicable')
  BY <1>1, <1>3, <1>7, SameScenarios
<1>9. StageInv'
  BY <1>1, <1>8 DEF StageInv, Items
<1> QED BY <1>2, <1>6, <1>9 DEF VInv

LEMMA RunScenarioVInv == VInv /\ runScenario => VInv'
<1> SUFFICES ASSUME VInv, runScenario PROVE VInv'
  OBVIOUS
<1> DEFINE scenario == Head(todo)
           route == scenario.route
<1>1. stage = "scenarios" /\ todo # << >>
  BY DEF runScenario
<1>2. SoundRoute(route)
  <2>1. scenario \in Applicable
    BY <1>1, HeadAndTail DEF VInv, StageInv
  <2>2. route \in AllRoutes
    BY <2>1 DEF Applicable, Scenarios, Selected
  <2> QED BY <2>2, RoutesSound
<1>3. CASE /\ resolveTemplate(scenario).missing # {}
           /\ Result(scenario, << >>,
                     [requestStatus |-> "fixture-unavailable", shapeStatus |-> "not-run"])
  BY <1>1, <1>3, ResultVInv
<1>4. ASSUME NEW answer \in Answers, Result(scenario, answer, Judge(route, answer))
      PROVE  VInv'
  BY <1>1, <1>4, JudgeSound, ResultVInv
<1>5. ASSUME NEW words \in Messages, Result(scenario, [words |-> words], Reject(route, words))
      PROVE  VInv'
  BY <1>1, <1>2, <1>5, RejectSound, ResultVInv
<1> QED BY <1>3, <1>4, <1>5, Zenon DEF runScenario

LEMMA ReportVInv == VInv /\ Report => VInv'
<1> SUFFICES ASSUME VInv, Report PROVE VInv'
  OBVIOUS
<1>1. /\ stage = "scenarios" /\ todo = << >> /\ stage' = "ended"
      /\ exitCode' = (IF hasBlockingResults THEN 1 ELSE 0)
      /\ options' = options /\ profiles' = profiles /\ discoveries' = discoveries
      /\ results' = results /\ known' = known /\ configured' = configured
  BY DEF Report
<1>2. OptionsInv' /\ ProfilesInv' /\ KnownInv'
  BY <1>1 DEF VInv, OptionsInv, ProfilesInv, KnownInv
<1>3. ResultsInv' /\ Tried' = Tried /\ Applicable' = Applicable
  BY <1>1, SameResults, SameScenarios DEF VInv
<1>4. hasBlockingResults' <=> hasBlockingResults
  BY <1>1 DEF hasBlockingResults
<1>5. Items(todo) = {}
  BY <1>1 DEF Items
<1>6. Tried = Applicable
  BY <1>1, <1>5 DEF VInv, StageInv
<1>7. StageInv'
  BY <1>1, <1>3, <1>4, <1>6 DEF StageInv
<1> QED BY <1>2, <1>3, <1>7 DEF VInv

LEMMA StutterVInv == VInv /\ UNCHANGED verifier => VInv'
<1> SUFFICES ASSUME VInv, UNCHANGED verifier PROVE VInv'
  OBVIOUS
<1>1. /\ stage' = stage /\ options' = options /\ profiles' = profiles /\ todo' = todo
      /\ discoveries' = discoveries /\ results' = results /\ exitCode' = exitCode
      /\ known' = known /\ configured' = configured
  BY DEF verifier
<1>2. OptionsInv' /\ ProfilesInv' /\ KnownInv'
  BY <1>1 DEF VInv, OptionsInv, ProfilesInv, KnownInv
<1>3. ResultsInv' /\ Tried' = Tried /\ Applicable' = Applicable
  BY <1>1, SameResults, SameScenarios DEF VInv
<1>4. hasBlockingResults' <=> hasBlockingResults
  BY <1>1 DEF hasBlockingResults
<1>5. StageInv'
  BY <1>1, <1>3, <1>4 DEF VInv, StageInv, Items
<1> QED BY <1>2, <1>3, <1>5 DEF VInv

\* The invariant of the verifier, for every choice of arguments.
THEOREM VerifierInvariant == VerifierSpec => []VInv
<1>1. VInv /\ [VerifierNext]_verifier => VInv'
  <2> SUFFICES ASSUME VInv, [VerifierNext]_verifier PROVE VInv'
    OBVIOUS
  <2>1. CASE ReadArgument
    BY <2>1, ReadArgumentVInv
  <2>2. CASE BadArgument
    BY <2>2, BadArgumentVInv
  <2>3. CASE Start
    BY <2>3, StartVInv
  <2>4. ASSUME NEW sport \in SportCodes, discoverProfile(sport) PROVE VInv'
    BY <2>4, DiscoveryVInv
  <2>5. CASE instantiateScenarios
    BY <2>5, ScenariosVInv
  <2>6. CASE runScenario
    BY <2>6, RunScenarioVInv
  <2>7. CASE Report
    BY <2>7, ReportVInv
  <2>8. CASE UNCHANGED verifier
    BY <2>8, StutterVInv
  <2> QED BY <2>1, <2>2, <2>3, <2>4, <2>5, <2>6, <2>7, <2>8, Zenon DEF VerifierNext
<1> QED BY InitVInv, <1>1, PTL DEF VerifierSpec

-----------------------------------------------------------------------------
(* What follows from it                                                    *)

\* A run of the verifier that ends well has tried every scenario of the
\* selected routes, and holds evidence for each: an answer with what was asked
\* for, or a refusal that speaks of the route and not of the account or of the
\* moment.  Only a fixture that was missing excuses a scenario, and only when
\* completeness was waived.
THEOREM ExitIsEvidence == VerifierSpec => []SuccessIsEvidence
<1>1. ASSUME VInv PROVE SuccessIsEvidence
  <2> SUFFICES ASSUME stage = "ended", exitCode = 0, ~options.dryRun
               PROVE  /\ {r.scenario : r \in results} = Applicable
                      /\ \A r \in results :
                           r.evidence \/ (~options.requireComplete /\ r.missing # {})
    BY DEF SuccessIsEvidence
  <2>1. ~hasBlockingResults /\ Tried = Applicable
    BY <1>1 DEF VInv, StageInv
  <2>2. ASSUME NEW r \in results
        PROVE  r.evidence \/ (~options.requireComplete /\ r.missing # {})
    <3>1. SoundResult(r)
      BY <1>1 DEF VInv, ResultsInv
    <3> QED BY <2>1, <3>1 DEF SoundResult, hasBlockingResults
  <2> QED BY <2>1, <2>2 DEF Tried
<1> QED BY VerifierInvariant, <1>1, PTL

\* A fixture in a path is one that a scenario of its sport and mode sees.
LEMMA PathFields ==
  ASSUME ResultsInv, NEW r \in results, NEW f \in DOMAIN r.path
  PROVE  LET seen == buildScenarioContext(profiles[r.scenario.sport], r.scenario.route.mode) IN
         f \in r.scenario.route.needs /\ f \in DOMAIN seen /\ r.path[f] = seen[f]
<1>1. r.path = resolveTemplate(r.scenario).path
  BY DEF ResultsInv, SoundResult
<1> QED BY <1>1 DEF resolveTemplate

LEMMA ResultsApply ==
  ASSUME VInv, NEW r \in results
  PROVE  /\ r.scenario \in Applicable /\ r.scenario.sport \in DOMAIN profiles
         /\ r.scenario.route.mode \in {"public", "private"}
<1>1. r.scenario \in Applicable
  BY DEF VInv, ResultsInv, SoundResult
<1>2. r.scenario.sport \in options.sports /\ r.scenario.route.mode \in Modes
  BY <1>1 DEF Applicable, Scenarios, Selected
<1> QED BY <1>1, <1>2 DEF VInv, OptionsInv, Modes

\* What a scenario sees of a key, in terms of what was configured and found.
LEMMA SeenFixtures ==
  ASSUME NEW c, WellFormed(c), NEW p, Learned(c, p), NEW mode \in {"public", "private"},
         NEW f \in EntityFixtures, f \in DOMAIN buildScenarioContext(p, mode)
  PROVE  LET seen == buildScenarioContext(p, mode)
             own == OwnContext(p, mode)
         IN
         /\ \E g \in {f, Other[f]} :
              \/ g \in DOMAIN own /\ seen[f] = own[g]
              \/ g \in DOMAIN c.context /\ seen[f] = c.context[g]
         /\ f \in DOMAIN own => seen[f] = own[f]
<1> DEFINE seen == buildScenarioContext(p, mode)
           own == OwnContext(p, mode)
<1>1. f \in KeyFixtures /\ Other[f] \in EntityFixtures
  BY FixtureNames
<1>2. WellFormed(p) /\ SharedInv(c, p.context)
  BY DEF Learned
<1>3. CASE f \in DOMAIN own \cup DOMAIN p.context
  BY <1>1, <1>2, <1>3, SeenKeys DEF SharedInv
<1>4. CASE f \notin DOMAIN own \cup DOMAIN p.context
  BY <1>1, <1>2, <1>4, SeenKeys DEF SharedInv
<1> QED BY <1>3, <1>4

\* A key that was found is of the mode itself, and of the group of its kind.
LEMMA SeenFound ==
  ASSUME NEW c, WellFormed(c), NEW p, Learned(c, p), NEW mode \in {"public", "private"},
         NEW f \in EntityFixtures, f \in DOMAIN buildScenarioContext(p, mode),
         IsFound(c, mode, f)
  PROVE  \E g \in {f, Other[f]} :
           /\ g \in DOMAIN OwnContext(p, mode) /\ Absent(c, mode, g)
           /\ buildScenarioContext(p, mode)[f] = OwnContext(p, mode)[g]
<1>1. Absent(c, mode, f) /\ Other[Other[f]] = f
  BY FoundIsAbsent, FixtureNames
<1>2. PICK g \in {f, Other[f]} :
        LET seen == buildScenarioContext(p, mode)
            own == OwnContext(p, mode)
        IN
        \/ g \in DOMAIN own /\ seen[f] = own[g]
        \/ g \in DOMAIN c.context /\ seen[f] = c.context[g]
  BY SeenFixtures
<1>3. Absent(c, mode, g) /\ g \notin DOMAIN c.context
  BY <1>1 DEF Absent
<1> QED BY <1>2, <1>3

LEMMA FoundAgree ==
  ASSUME NEW c, WellFormed(c), NEW p, Learned(c, p), NEW mode \in {"public", "private"},
         NEW f \in EntityFixtures, f \in DOMAIN buildScenarioContext(p, mode),
         IsFound(c, mode, f)
  PROVE  LET seen == buildScenarioContext(p, mode) IN
         /\ \A g \in Sources(c, mode, f) : g \in DOMAIN seen /\ Agree(seen[f], seen[g])
         /\ mode = "public" \/ f \in LeagueFixtures \cup TeamFixtures => OfGame(p, seen[f])
<1> DEFINE seen == buildScenarioContext(p, mode)
           own == OwnContext(p, mode)
<1>1. PICK h \in {f, Other[f]} : h \in DOMAIN own /\ Absent(c, mode, h) /\ seen[f] = own[h]
  BY SeenFound
<1>2. \A group \in {LeagueFixtures, TeamFixtures, PlayerFixtures, TransactionFixtures} :
        f \in group => h \in group
  BY FixtureNames
<1>3. /\ WellFormed(p) /\ PublicInv(c, p.context, p.publicContext)
      /\ PrivateInv(c, p.context, p.privateContext)
  BY DEF Learned
<1>4. ASSUME NEW g \in {"LEAGUE_KEY", "TEAM_KEY"}, g \in DOMAIN own
      PROVE  g \in DOMAIN seen /\ seen[g] = own[g]
  <2>1. g \in KeyFixtures
    BY FixtureNames DEF SingleFixtures
  <2> QED BY <1>3, <1>4, <2>1, SeenKeys
<1>5. own = IF mode = "public" THEN p.publicContext ELSE p.privateContext
  BY DEF OwnContext
<1> HIDE DEF own, seen
<1>6. ASSUME NEW g \in Sources(c, mode, f)
      PROVE  g \in DOMAIN own /\ Agree(own[h], own[g])
  <2>1. g \in {"LEAGUE_KEY", "TEAM_KEY"}
    BY <1>6 DEF Sources
  <2>2. CASE mode = "public" /\ f \in TeamFixtures /\ g = "LEAGUE_KEY"
    BY <1>1, <1>2, <1>3, <1>5, <2>2 DEF PublicInv, Agree
  <2>3. CASE mode = "private" /\ f \in PlayerFixtures /\ g = "TEAM_KEY"
    BY <1>1, <1>2, <1>3, <1>5, <2>3, KeysOfGames DEF PrivateInv, Agree
  <2>4. CASE mode = "private" /\ f \in TransactionFixtures /\ g = "LEAGUE_KEY"
    BY <1>1, <1>2, <1>3, <1>5, <2>4 DEF PrivateInv, Agree
  <2>5. CASE mode = "private" /\ f \in TeamFixtures /\ g = "LEAGUE_KEY" /\ IsFound(c, mode, g)
    <3>1. Absent(c, mode, "LEAGUE_KEY")
      BY <2>5, FoundIsAbsent, FixtureNames DEF SingleFixtures
    <3> QED BY <1>1, <1>2, <1>3, <1>5, <2>5, <3>1 DEF PrivateInv, Agree
  <2> QED BY <1>6, <2>2, <2>3, <2>4, <2>5 DEF Sources
<1>7. \A g \in Sources(c, mode, f) : g \in DOMAIN seen /\ Agree(seen[f], seen[g])
  <2>1. Sources(c, mode, f) \subseteq {"LEAGUE_KEY", "TEAM_KEY"}
    BY DEF Sources
  <2> QED BY <1>1, <1>4, <1>6, <2>1
<1>8. ASSUME mode = "public" \/ f \in LeagueFixtures \cup TeamFixtures
      PROVE  OfGame(p, seen[f])
  <2>1. OfContext(p.context, own[h])
    <3>1. CASE mode = "public"
      BY <1>1, <1>2, <1>3, <1>5, <3>1, FixtureNames DEF PublicInv
    <3>2. CASE mode = "private"
      BY <1>1, <1>2, <1>3, <1>5, <1>8, <3>2 DEF PrivateInv
    <3> QED BY <3>1, <3>2
  <2> QED BY <1>1, <2>1 DEF OfContext, OfGame
<1> QED BY <1>7, <1>8 DEF seen

\* What a scenario sees of any key.
LEMMA SeenAgree ==
  ASSUME NEW c, WellFormed(c), NEW p, Learned(c, p), NEW mode \in {"public", "private"},
         NEW f \in EntityFixtures, f \in DOMAIN buildScenarioContext(p, mode)
  PROVE  /\ buildScenarioContext(p, mode)[f].game = "now" \/ StaleConfigured(c, mode)
         /\ mode = "public" /\ LeagueRefused(c, p) /\ f \in LeagueFixtures \cup TeamFixtures =>
              {f, Other[f]} \cap DOMAIN c.context # {}
<1> DEFINE seen == buildScenarioContext(p, mode)
           own == OwnContext(p, mode)
<1>1. PICK g \in {f, Other[f]} :
        LET saw == buildScenarioContext(p, mode)
            had == OwnContext(p, mode)
        IN
        \/ g \in DOMAIN had /\ saw[f] = had[g]
        \/ g \in DOMAIN c.context /\ saw[f] = c.context[g]
  BY SeenFixtures
<1>2. /\ PublicInv(c, p.context, p.publicContext)
      /\ PrivateInv(c, p.context, p.privateContext)
  BY DEF Learned
<1>3. g \in EntityFixtures /\ g \in KeyFixtures
  BY FixtureNames
<1>4. ModeInv(c, mode, own)
  BY <1>2 DEF PublicInv, PrivateInv, OwnContext
<1>5. mode = "public" => own = p.publicContext
  BY DEF OwnContext
<1>6. \/ g \in DOMAIN own /\ seen[f] = own[g]
      \/ g \in DOMAIN c.context /\ seen[f] = c.context[g]
  BY <1>1
<1> HIDE DEF seen, own
<1>7. seen[f].game = "now" \/ StaleConfigured(c, mode)
  <2>1. CASE g \in DOMAIN own /\ seen[f] = own[g]
    BY <1>3, <1>4, <2>1 DEF ModeInv
  <2>2. CASE g \in DOMAIN c.context /\ seen[f] = c.context[g]
    BY <1>3, <2>2 DEF StaleConfigured
  <2> QED BY <1>6, <2>1, <2>2
<1>8. ASSUME mode = "public", LeagueRefused(c, p), f \in LeagueFixtures \cup TeamFixtures
      PROVE  {f, Other[f]} \cap DOMAIN c.context # {}
  <2>1. g \in LeagueFixtures \cup TeamFixtures
    BY <1>8, FixtureNames
  <2>2. g \notin DOMAIN own
    BY <1>2, <1>5, <1>8, <2>1 DEF PublicInv, LeagueRefused
  <2> QED BY <1>6, <2>2
<1> QED BY <1>7, <1>8 DEF seen

\* Whatever fixtures were configured: a key that discovery found agrees with the
\* key that it was found from, a path names an earlier game only if a key of one
\* was configured for its mode, and a public league of another game than the
\* one that was found is in no path.
THEOREM PathsAgree == VerifierSpec => []FixturesAgree
<1>1. ASSUME VInv, NEW r \in results, NEW f \in EntityFixtures \cap DOMAIN r.path
      PROVE  LET c == configured[r.scenario.sport]
                 profile == profiles[r.scenario.sport]
                 mode == r.scenario.route.mode
                 seen == buildScenarioContext(profile, mode)
             IN
             /\ IsFound(c, mode, f) =>
                  /\ \A g \in Sources(c, mode, f) :
                       g \in DOMAIN seen /\ Agree(r.path[f], seen[g])
                  /\ mode = "public" \/ f \in LeagueFixtures \cup TeamFixtures =>
                       OfGame(profile, r.path[f])
             /\ r.path[f].game = "now" \/ StaleConfigured(c, mode)
             /\ /\ mode = "public" /\ LeagueRefused(c, profile)
                /\ f \in LeagueFixtures \cup TeamFixtures
                => {f, Other[f]} \cap DOMAIN c.context # {}
  <2> DEFINE c == configured[r.scenario.sport]
             p == profiles[r.scenario.sport]
             mode == r.scenario.route.mode
             seen == buildScenarioContext(p, mode)
  <2>1. r.scenario.sport \in DOMAIN profiles /\ mode \in {"public", "private"}
    BY <1>1, ResultsApply
  <2>2. WellFormed(c) /\ Learned(c, p)
    BY <1>1, <2>1 DEF VInv, ProfilesInv
  <2>3. f \in EntityFixtures /\ f \in DOMAIN seen /\ r.path[f] = seen[f]
    BY <1>1, PathFields DEF VInv
  <2> HIDE DEF c, p, mode
  <2>4. /\ seen[f].game = "now" \/ StaleConfigured(c, mode)
        /\ mode = "public" /\ LeagueRefused(c, p) /\ f \in LeagueFixtures \cup TeamFixtures =>
             {f, Other[f]} \cap DOMAIN c.context # {}
    BY <2>1, <2>2, <2>3, SeenAgree
  <2>5. IsFound(c, mode, f) =>
          /\ \A g \in Sources(c, mode, f) : g \in DOMAIN seen /\ Agree(seen[f], seen[g])
          /\ mode = "public" \/ f \in LeagueFixtures \cup TeamFixtures => OfGame(p, seen[f])
    BY <2>1, <2>2, <2>3, FoundAgree
  <2> HIDE DEF seen
  <2> QED BY <2>3, <2>4, <2>5 DEF c, p, mode, seen
<1>2. ASSUME VInv PROVE FixturesAgree
  BY <1>1, <1>2 DEF FixturesAgree
<1> QED BY VerifierInvariant, <1>2, PTL

\* A scenario is reported as lacking a key only if none was configured or found
\* for its sport and mode, and a single key that was configured for the mode is
\* the one in the path, but for the league and teams that a public league of
\* another game takes with it.
THEOREM NothingIsForgotten == VerifierSpec => []GapsAreReal
<1>1. ASSUME VInv PROVE GapsAreReal
  <2> SUFFICES ASSUME NEW r \in results
               PROVE  LET c == configured[r.scenario.sport]
                          mode == r.scenario.route.mode
                          own == OwnContext(c, mode)
                      IN
                      /\ \A f \in r.missing :
                           <<r.scenario.sport, mode, f>> \in known => MayBeDropped(c, mode, f)
                      /\ \A f \in SingleFixtures \cap DOMAIN own \cap DOMAIN r.path :
                           r.path[f] = own[f] \/ MayBeDropped(c, mode, f)
    BY DEF GapsAreReal
  <2> DEFINE c == configured[r.scenario.sport]
             p == profiles[r.scenario.sport]
             mode == r.scenario.route.mode
             seen == buildScenarioContext(p, mode)
  <2>1. /\ r.scenario \in Applicable /\ r.scenario.sport \in DOMAIN profiles
        /\ mode \in {"public", "private"}
    BY <1>1, ResultsApply
  <2>2. WellFormed(c) /\ Learned(c, p)
    BY <1>1, <2>1 DEF VInv, ProfilesInv
  <2>3. ASSUME NEW f \in r.missing, <<r.scenario.sport, mode, f>> \in known
        PROVE  MayBeDropped(c, mode, f)
    <3>1. f \in DOMAIN seen \/ MayBeDropped(c, mode, f)
      BY <1>1, <2>1, <2>3 DEF VInv, KnownInv
    <3>2. r.missing = resolveTemplate(r.scenario).missing
      BY <1>1 DEF VInv, ResultsInv, SoundResult
    <3>3. f \notin DOMAIN seen
      BY <2>3, <3>2 DEF resolveTemplate
    <3> QED BY <3>1, <3>3
  <2>4. ASSUME NEW f \in SingleFixtures \cap DOMAIN OwnContext(c, mode) \cap DOMAIN r.path
        PROVE  r.path[f] = OwnContext(c, mode)[f] \/ MayBeDropped(c, mode, f)
    <3>1. f \in DOMAIN seen /\ r.path[f] = seen[f]
      BY <1>1, PathFields DEF VInv
    <3>2. ModeInv(c, mode, OwnContext(p, mode))
      BY <2>1, <2>2 DEF Learned, PublicInv, PrivateInv, OwnContext
    <3>3. f \in EntityFixtures
      BY FixtureNames
    <3> HIDE DEF c, p, mode
    <3>4. f \in DOMAIN OwnContext(p, mode) => seen[f] = OwnContext(p, mode)[f]
      BY <2>1, <2>2, <3>1, <3>3, SeenFixtures
    <3> QED BY <3>1, <3>2, <3>4 DEF ModeInv
  <2> QED BY <2>3, <2>4
<1> QED BY VerifierInvariant, <1>1, PTL

=============================================================================
