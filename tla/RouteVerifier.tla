---------------------------- MODULE RouteVerifier ---------------------------
(***************************************************************************)
(* The route verifier (static-route-verifier.ts with route-model.ts): it   *)
(* reads its arguments, discovers the fixtures that the selected routes    *)
(* need, sport by sport, tries every route in every sport it is for, and   *)
(* ends with an exit code.  Yahoo may answer anything, or fail.            *)
(***************************************************************************)
EXTENDS RouteCatalog, Naturals, Sequences, SequencesExt, FiniteSets

CONSTANTS
  OverrideChoices, \* what YAHOO_ROUTE_PROFILES_JSON may hold: a profile for each sport
  SportChoices,    \* what --sports may be given: sets of sports
  RouteIdChoices,  \* what --route-ids may be given: sets of ids
  MaxScenarios     \* bound: routes times sports of a run with requests

AllIds == {}       \* routeIds is null: every route

VARIABLES
  stage,        \* "arguments", "discovery", "scenarios" or "ended"
  options,      \* what parseCliArgs returns
  profiles,     \* the profile of each sport: its fixtures by context
  todo,         \* the discovery steps, or the scenarios, still to come
  discoveries,  \* a record of each discovery request
  results,      \* a record of each scenario; history: with its path and whether it is evidence
  exitCode,
  configured,   \* history: the profiles before the discovery
  known         \* history: the sports, modes and keys of which a key was configured or found

verifier ==
  <<stage, options, profiles, todo, discoveries, results, exitCode, configured, known>>

-----------------------------------------------------------------------------
(* Fixtures: keys belong to a game and may belong to a league.  A list of   *)
(* keys, X_KEYS, is written as the game and the league of its keys.        *)

Key(game, league) == [game |-> game, league |-> league]
NoLeague == ""
Given == Key("", NoLeague)        \* a fixture that is not a key
Other ==
  [LEAGUE_KEY |-> "LEAGUE_KEYS", LEAGUE_KEYS |-> "LEAGUE_KEY",
   PLAYER_KEY |-> "PLAYER_KEYS", PLAYER_KEYS |-> "PLAYER_KEY",
   TEAM_KEY |-> "TEAM_KEYS", TEAM_KEYS |-> "TEAM_KEY",
   TRANSACTION_KEY |-> "TRANSACTION_KEYS", TRANSACTION_KEYS |-> "TRANSACTION_KEY"]
EntityFixtures == DOMAIN Other
KeyFixtures == {"GAME_KEY"} \cup EntityFixtures
SingleFixtures == {"LEAGUE_KEY", "PLAYER_KEY", "TEAM_KEY", "TRANSACTION_KEY"}
LeagueFixtures == {"LEAGUE_KEY", "LEAGUE_KEYS"}
TeamFixtures == {"TEAM_KEY", "TEAM_KEYS"}
PlayerFixtures == {"PLAYER_KEY", "PLAYER_KEYS"}
TransactionFixtures == {"TRANSACTION_KEY", "TRANSACTION_KEYS"}

Profile(context, public, private) ==
  [context |-> context, publicContext |-> public, privateContext |-> private]

UndefinedFixture == Key("undefined", NoLeague)
Has(context, f) == f \in DOMAIN context /\ context[f] # UndefinedFixture
Without(context, names) == [f \in DOMAIN context \ names |-> context[f]]

\* context[f] ??= value, for each f of some names
Defaults(context, names, value) == [f \in {g \in names : ~Has(context, g)} |-> value] ++ context
Default(context, f, value) == Defaults(context, {f}, value)

\* Any fixture may be configured, in any context, beside any others.
ASSUME OverridesAssumption ==
  \A overrides \in OverrideChoices : \A sport \in SportCodes :
    LET p == overrides[sport] IN
    /\ p = Profile(p.context, p.publicContext, p.privateContext)
    /\ \A context \in {p.context, p.publicContext, p.privateContext} :
         \A f \in KeyFixtures \cap DOMAIN context : context[f].game \in {"now", "before"}

profileDefaults == [f \in {"ALT_WEEK", "PLAYER_POSITION", "PLAYER_SEARCH", "WEEK"} |-> Given]

\* The overrides beside the defaults; hockey also has a public league, of some game.
Configure(overrides, league) ==
  [sport \in SportCodes |->
     LET p == overrides[sport] IN
     Profile(p.context ++ profileDefaults,
             IF sport = "nhl" /\ ~Has(p.publicContext, "LEAGUE_KEY")
             THEN [LEAGUE_KEY |-> league] ++ p.publicContext ELSE p.publicContext,
             p.privateContext)]

OwnContext(profile, mode) ==
  IF mode = "public" THEN profile.publicContext ELSE profile.privateContext

\* A fixture of the mode hides that of the profile, even if it is undefined;
\* X_KEY and X_KEYS are made from each other.
buildScenarioContext(profile, mode) ==
  LET merged == OwnContext(profile, mode) ++ profile.context
                  ++ [f \in {"COUNT_SMALL", "SPORT_CODE"} |-> Given]
      defined == Without(merged, {f \in DOMAIN merged : ~Has(merged, f)})
  IN defined ++ [f \in {g \in EntityFixtures : Other[g] \in DOMAIN defined} |-> defined[Other[f]]]

KnownKeys(sport, profile) ==
  UNION {{<<sport, mode, f>> : f \in KeyFixtures \cap DOMAIN buildScenarioContext(profile, mode)} :
           mode \in {"public", "private"}}

-----------------------------------------------------------------------------
(* Arguments and the selection of routes                                   *)

VerifierInit ==
  /\ stage = "arguments"
  /\ options = [dryRun |-> FALSE, includeInvalid |-> FALSE, mode |-> "all",
                requireComplete |-> TRUE, routeIds |-> AllIds, sports |-> SportCodes,
                strictShapes |-> FALSE]
  /\ \E overrides \in OverrideChoices, game \in {"now", "before"} :
       configured = Configure(overrides, Key(game, "default"))
  /\ profiles = configured
  /\ todo = << >> /\ discoveries = {} /\ results = {} /\ exitCode = 0
  /\ known = UNION {KnownKeys(sport, profiles[sport]) : sport \in SportCodes}

\* Other sports, or none, are refused.
parseSports == {sports \in SportChoices : sports # {} /\ sports \subseteq SportCodes}

parseCliArgs ==
  \/ options' = [options EXCEPT !.dryRun = TRUE]
  \/ options' = [options EXCEPT !.includeInvalid = TRUE]
  \/ options' = [options EXCEPT !.strictShapes = TRUE]
  \/ \E b \in BOOLEAN : options' = [options EXCEPT !.requireComplete = b]
  \/ \E mode \in {"public", "private", "all"} : options' = [options EXCEPT !.mode = mode]
  \/ \E sports \in parseSports : options' = [options EXCEPT !.sports = sports]
  \/ \E ids \in RouteIdChoices \ {AllIds} : options' = [options EXCEPT !.routeIds = ids]

ReadArgument ==
  /\ stage = "arguments" /\ options.routeIds = AllIds
  /\ parseCliArgs
  /\ UNCHANGED <<stage, profiles, todo, discoveries, results, exitCode, configured, known>>

Modes == IF options.mode = "all" THEN {"public", "private"} ELSE {options.mode}

Selected ==
  {r \in AllRoutes :
     /\ r.mode \in Modes
     /\ r.set = "invalid" => options.includeInvalid
     /\ options.routeIds # AllIds => r.id \in options.routeIds}

\* selectRoutes throws on an id that selects nothing, and on no routes at all.
SelectionFails ==
  Selected = {} \/ ~(options.routeIds \subseteq {r.id : r \in Selected})

\* What the preflight of the definitions finds: an id used twice, a placeholder
\* that nothing fills.
validateRouteDefinitions(routes) ==
  {r \in routes : (\E s \in routes : s # r /\ s.id = r.id) \/ ~(r.needs \subseteq PlaceholderNames)}

requiredFixturesForSport(sport, mode) ==
  UNION {r.needs : r \in {s \in Selected : s.mode = mode /\ sport \in s.sports}}

Scenarios == {[route |-> r, sport |-> s] : r \in Selected, s \in options.sports}
Applicable == {s \in Scenarios : s.sport \in s.route.sports}

resolveTemplate(scenario) ==
  LET context == buildScenarioContext(profiles[scenario.sport], scenario.route.mode)
      missing == scenario.route.needs \ DOMAIN context
  IN [missing |-> missing,
      path |-> [f \in scenario.route.needs \ missing |-> context[f]]]

DiscoverySteps == <<"game", "players", "teams", "dates", "account", "roster", "transactions">>

\* The requests of discoverProfile, one profile after the other.
DiscoveryPlan ==
  LET order == SelectSeq(<<"nfl", "mlb", "nba", "nhl">>, LAMBDA s : s \in options.sports) IN
  FoldLeft(LAMBDA plan, s : plan \o [i \in DOMAIN DiscoverySteps |-> <<s, DiscoverySteps[i]>>],
           << >>, order)

Throw == stage' = "ended" /\ exitCode' = 1 /\ UNCHANGED todo

\* printUsage, or an argument that is refused.
BadArgument ==
  /\ stage = "arguments" /\ Throw
  /\ UNCHANGED <<options, profiles, discoveries, results, configured, known>>

Start ==
  /\ stage = "arguments" /\ Cardinality(Applicable) <= MaxScenarios
  /\ profiles' = [sport \in options.sports |-> profiles[sport]]   \* cloneProfiles
  /\ UNCHANGED <<options, discoveries, results, configured, known>>
  /\ IF validateRouteDefinitions(AllRoutes) # {} \/ SelectionFails THEN Throw
     ELSE IF options.dryRun
     THEN /\ stage' = "ended" /\ UNCHANGED todo
          /\ exitCode' = IF options.requireComplete
                              /\ \E s \in Applicable : resolveTemplate(s).missing # {}
                         THEN 1 ELSE 0
     ELSE stage' = "discovery" /\ todo' = DiscoveryPlan /\ UNCHANGED exitCode

-----------------------------------------------------------------------------
(* discoverProfile                                                         *)

\* The next step of the discovery: it is skipped, its request fails, or it
\* has learned something; only keys that are found are known.
At(sport, step) == stage = "discovery" /\ todo # << >> /\ Head(todo) = <<sport, step>>
GoOn(sport, profile, records) ==
  /\ todo' = Tail(todo)
  /\ profiles' = [profiles EXCEPT ![sport] = profile]
  /\ discoveries' = discoveries \cup records
  /\ known' = known \cup KnownKeys(sport, profile)
  /\ UNCHANGED <<stage, options, results, exitCode, configured>>
Skip(sport) == GoOn(sport, profiles[sport], {})
Fail(sport, step) ==
  GoOn(sport, profiles[sport], {[sport |-> sport, step |-> step, status |-> "failed"]})
Learn(sport, step, profile, found) ==
  GoOn(sport, profile,
       {[sport |-> sport, step |-> step, status |-> IF found THEN "passed" ELSE "failed"]})

\* valuesForSport: the key is of the profile's game, if that is known.
OfGame(profile, key) ==
  Has(profile.context, "GAME_KEY") => key.game = profile.context["GAME_KEY"].game

\* Both the key and the list are set to what was found.
Found(names, key) == [f \in names |-> key]

Needs(sport, mode, names) == requiredFixturesForSport(sport, mode) \cap names # {}

\* Mutant: the league of another season stays.
LearnGameOnly(profile, found) ==
  [profile EXCEPT !.context = Defaults(@, found, Key("now", NoLeague))]

\* Mutant: a public league is dropped whatever its game.
LearnGameAlone(profile, found) ==
  [profile EXCEPT !.context = Defaults(@, found, Key("now", NoLeague)),
                  !.publicContext = IF "GAME_KEY" \in found
                                    THEN Without(@, LeagueFixtures \cup TeamFixtures) ELSE @]

\* A public league of another game than the one that was just found.
StaleLeague(public) == Has(public, "LEAGUE_KEY") /\ public["LEAGUE_KEY"].game # "now"

\* The current game and season; a public league of another game is dropped, and
\* with it the teams, whatever their game.
LearnGame(profile, found) ==
  [profile EXCEPT !.context = Defaults(@, found, Key("now", NoLeague)),
                  !.publicContext = IF "GAME_KEY" \in found /\ StaleLeague(@)
                                    THEN Without(@, LeagueFixtures \cup TeamFixtures) ELSE @]

DiscoverGame(sport) ==
  LET profile == profiles[sport]
      names == KeyFixtures \cup {"SEASON"}
      needed == \E mode \in {"public", "private"} :
                  Needs(sport, mode, names \ DOMAIN buildScenarioContext(profile, mode))
  IN
  /\ At(sport, "game")
  /\ \/ ~needed /\ Skip(sport)
     \/ needed /\ Fail(sport, "game")
     \/ needed /\ \E found \in SUBSET {"GAME_KEY", "SEASON"} :
          Learn(sport, "game", LearnGame(profile, found), found = {"GAME_KEY", "SEASON"})

\* The player search of the game; Yahoo knows no players by that name, or some.
DiscoverPlayers(sport) ==
  LET profile == profiles[sport]
      player == Key("now", NoLeague)
      needed == /\ options.mode # "private" /\ Needs(sport, "public", PlayerFixtures)
                /\ ~Has(profile.publicContext, "PLAYER_KEY")
  IN
  /\ At(sport, "players")
  /\ \/ ~needed /\ Skip(sport)
     \/ needed /\ (Fail(sport, "players") \/ Learn(sport, "players", profile, FALSE))
     \/ /\ needed /\ OfGame(profile, player)
        /\ Learn(sport, "players",
                 [profile EXCEPT !.publicContext = Found(PlayerFixtures, player) ++ @], TRUE)

\* LEAGUE_KEYS ??= LEAGUE_KEY, then the teams of the public league.
DiscoverTeams(sport) ==
  LET public == profiles[sport].publicContext
      league == options.mode # "private" /\ Has(public, "LEAGUE_KEY")
      profile ==
        [profiles[sport] EXCEPT !.publicContext =
           IF league /\ Needs(sport, "public", {"LEAGUE_KEYS"})
           THEN Default(@, "LEAGUE_KEYS", public["LEAGUE_KEY"]) ELSE @]
      needed == league /\ Needs(sport, "public", TeamFixtures) /\ ~Has(public, "TEAM_KEY")
  IN
  /\ At(sport, "teams")
  /\ \/ ~needed /\ GoOn(sport, profile, {})
     \/ needed /\ Learn(sport, "teams", profile, FALSE)   \* or the request fails
     \/ /\ needed /\ OfGame(profile, public["LEAGUE_KEY"])
        /\ Learn(sport, "teams",
                 [profile EXCEPT !.publicContext =
                    Found(TeamFixtures, public["LEAGUE_KEY"]) ++ @], TRUE)

\* A day of the season, if Yahoo tells its bounds; the record passes either way.
DiscoverDates(sport) ==
  LET profile == profiles[sport]
      needed == /\ options.mode # "public" /\ sport # "nfl"
                /\ Needs(sport, "private", {"DATE"}) /\ ~Has(profile.privateContext, "DATE")
  IN
  /\ At(sport, "dates")
  /\ \/ ~needed /\ Skip(sport)
     \/ needed /\ (Fail(sport, "dates") \/ Learn(sport, "dates", profile, TRUE))
     \/ needed /\ Learn(sport, "dates",
                        [profile EXCEPT !.privateContext = [DATE |-> Given] ++ @], TRUE)

\* A team of the account, and the league that its key names.
DiscoverAccount(sport) ==
  LET profile == profiles[sport]
      needed == /\ options.mode # "public"
                /\ Needs(sport, "private",
                         EntityFixtures \ DOMAIN buildScenarioContext(profile, "private"))
      joined(team) ==
        [profile EXCEPT !.privateContext = Defaults(@, TeamFixtures \cup LeagueFixtures, team)]
  IN
  /\ At(sport, "account")
  /\ \/ ~needed /\ Skip(sport)
     \/ needed /\ (Fail(sport, "account") \/ Learn(sport, "account", profile, TRUE))
     \/ needed /\ \E league \in {"mine", "other"} :
          /\ OfGame(profile, Key("now", league))
          /\ Learn(sport, "account", joined(Key("now", league)), TRUE)

\* The players of the team, and the period of its roster; what the answer does
\* not say is undefined.
DiscoverRoster(sport) ==
  LET profile == profiles[sport]
      private == profile.privateContext
      needed == /\ options.mode # "public" /\ Has(private, "TEAM_KEY")
                /\ ~Has(private, "PLAYER_KEY") /\ Needs(sport, "private", PlayerFixtures)
      period(c, told) ==
        Default(Default(c, "DATE", IF "DATE" \in told THEN Given ELSE UndefinedFixture),
                "WEEK", IF "WEEK" \in told THEN Given ELSE UndefinedFixture)
      player == Found(PlayerFixtures, Key(private["TEAM_KEY"].game, NoLeague))
  IN
  /\ At(sport, "roster")
  /\ \/ ~needed /\ Skip(sport)
     \/ needed /\ Fail(sport, "roster")
     \/ needed /\ \E told \in SUBSET {"DATE", "WEEK"}, players \in {<< >>, player} :
          Learn(sport, "roster", [profile EXCEPT !.privateContext = period(players ++ @, told)], TRUE)

\* A transaction of the league.
DiscoverTransactions(sport) ==
  LET profile == profiles[sport]
      private == profile.privateContext
      needed == /\ options.mode # "public" /\ Has(private, "LEAGUE_KEY")
                /\ ~Has(private, "TRANSACTION_KEY") /\ Needs(sport, "private", TransactionFixtures)
  IN
  /\ At(sport, "transactions")
  /\ \/ ~needed /\ Skip(sport)
     \/ needed /\ (Fail(sport, "transactions") \/ Learn(sport, "transactions", profile, TRUE))
     \/ needed /\ Learn(sport, "transactions",
          [profile EXCEPT !.privateContext =
             Found(TransactionFixtures, private["LEAGUE_KEY"]) ++ @], TRUE)

discoverProfile(sport) ==
  \/ DiscoverGame(sport) \/ DiscoverPlayers(sport) \/ DiscoverTeams(sport) \/ DiscoverDates(sport)
  \/ DiscoverAccount(sport) \/ DiscoverRoster(sport) \/ DiscoverTransactions(sport)

instantiateScenarios ==
  /\ stage = "discovery" /\ todo = << >>
  /\ stage' = "scenarios" /\ todo' = SetToSeq(Applicable)
  /\ UNCHANGED <<options, profiles, discoveries, results, exitCode, configured, known>>

-----------------------------------------------------------------------------
(* runScenario                                                             *)

\* What an error message says, as far as the verifier looks at it.
Messages ==
  {{}, {"unauthorized"}, {"429"}, {"subresource not supported"}, {"invalid"}, {"parse"},
   {"invalid", "access token"}, {"invalid", "timeout"}, {"invalid", "subresource not supported"}}
AuthWords == {"unauthorized", "access token"}
TransientWords == {"429", "timeout"}

\* Mutant: what the message calls invalid comes first.
assessFailureInvalidFirst(words) ==
  CASE "invalid" \in words -> "fixture-invalid"
    [] words \cap AuthWords # {} -> "auth-or-scope"
    [] words \cap TransientWords # {} -> "rate-limited-or-transient"
    [] OTHER -> "unsupported-route"

assessFailure(words) ==
  IF words \cap AuthWords # {} THEN "auth-or-scope"
  ELSE IF words \cap TransientWords # {} THEN "rate-limited-or-transient"
  ELSE IF "subresource not supported" \in words THEN "unsupported-route"
  ELSE IF "invalid" \in words THEN "fixture-invalid"
  ELSE IF "parse" \in words THEN "parser-failure"
  ELSE "unknown-failure"

\* Answers: no content at all, or content whose keys are those that were asked
\* for, not quite those, or none, whose arrays are filled or empty, and
\* which has all the paths that are expected or not.
Answers ==
  [data : {TRUE}, keys : {"asked", "others", "none"}, filled : BOOLEAN, shaped : BOOLEAN]
    \cup {[data |-> FALSE, keys |-> "none", filled |-> TRUE, shaped |-> FALSE]}

verifyKeyFixtures(route, answer) == DOMAIN route.keys # {} => answer.keys = "asked"
emptyRequiredArrays(route, answer) == ~route.allowEmpty /\ route.arrays # {} /\ ~answer.filled

hasShapeExpectations(route) == route.paths # {}
ShapeStatus(route, answer) ==
  IF ~hasShapeExpectations(route) THEN "not-run" ELSE IF answer.shaped THEN "passed" ELSE "warning"

Judge(route, answer) ==
  IF \/ ~verifyKeyFixtures(route, answer)
     \/ ~answer.data /\ ~route.allowEmpty
     \/ emptyRequiredArrays(route, answer)
  THEN [requestStatus |-> "failed", shapeStatus |-> "not-run"]
  ELSE [requestStatus |-> "passed", shapeStatus |-> ShapeStatus(route, answer)]

Reject(route, words) ==
  [requestStatus |-> IF route.set = "invalid" /\ assessFailure(words) \in route.expectedFailureKinds
                     THEN "expected-rejection" ELSE "failed",
   shapeStatus |-> "not-run"]

\* History: evidence for a route.  Yahoo refused a known-invalid one for a reason
\* that is neither the account nor the moment, or answered with what was asked for.
Evidence(route, reply) ==
  IF route.set = "invalid"
  THEN "words" \in DOMAIN reply /\ reply.words \cap (AuthWords \cup TransientWords) = {}
  ELSE /\ "keys" \in DOMAIN reply
       /\ DOMAIN route.keys # {} => reply.keys = "asked"
       /\ route.allowEmpty \/ (reply.data /\ (route.arrays # {} => reply.filled))
       /\ options.strictShapes /\ hasShapeExpectations(route) => reply.shaped

Result(scenario, reply, verdict) ==
  /\ results' = results \cup
       {[scenario |-> scenario, requestStatus |-> verdict.requestStatus,
         shapeStatus |-> verdict.shapeStatus, evidence |-> Evidence(scenario.route, reply),
         missing |-> resolveTemplate(scenario).missing, path |-> resolveTemplate(scenario).path]}
  /\ todo' = Tail(todo)
  /\ UNCHANGED <<stage, options, profiles, discoveries, exitCode, configured, known>>

runScenario ==
  /\ stage = "scenarios" /\ todo # << >>
  /\ LET scenario == Head(todo)
         route == scenario.route
     IN
     IF resolveTemplate(scenario).missing # {}
     THEN Result(scenario, << >>,
                 [requestStatus |-> "fixture-unavailable", shapeStatus |-> "not-run"])
     ELSE \/ \E answer \in Answers : Result(scenario, answer, Judge(route, answer))
          \/ \E words \in Messages : Result(scenario, [words |-> words], Reject(route, words))

hasBlockingResults ==
  \/ \E d \in discoveries : d.status = "failed"
  \/ \E r \in results : r.requestStatus = "failed"
  \/ \E r \in results : r.scenario.route.set = "invalid" /\ r.requestStatus = "passed"
  \/ options.requireComplete /\ \E r \in results : r.requestStatus = "fixture-unavailable"
  \/ options.strictShapes /\ \E r \in results : r.shapeStatus = "warning"

Report ==
  /\ stage = "scenarios" /\ todo = << >>
  /\ stage' = "ended" /\ exitCode' = IF hasBlockingResults THEN 1 ELSE 0
  /\ UNCHANGED <<options, profiles, todo, discoveries, results, configured, known>>

VerifierNext ==
  \/ ReadArgument \/ BadArgument \/ Start
  \/ \E sport \in SportCodes : discoverProfile(sport)
  \/ instantiateScenarios \/ runScenario \/ Report

VerifierSpec == VerifierInit /\ [][VerifierNext]_verifier

-----------------------------------------------------------------------------
(* What the README of the verifier promises                                *)

\* A run that ends with exit code 0 has tried every selected route in every
\* sport it is for, and has evidence for each; only without --require-complete
\* may a fixture have been missing.
SuccessIsEvidence ==
  stage = "ended" /\ exitCode = 0 /\ ~options.dryRun =>
    /\ {r.scenario : r \in results} = Applicable
    /\ \A r \in results : r.evidence \/ (~options.requireComplete /\ r.missing # {})

\* A key that discovery found: none was configured in its place.
IsFound(c, mode, f) == f \notin DOMAIN buildScenarioContext(c, mode)

\* The keys of the same mode that a found key was found from, or together with.
Sources(c, mode, f) ==
  {g \in {"LEAGUE_KEY", "TEAM_KEY"} :
     \/ mode = "public" /\ f \in TeamFixtures /\ g = "LEAGUE_KEY"
     \/ mode = "private" /\ f \in PlayerFixtures /\ g = "TEAM_KEY"
     \/ mode = "private" /\ f \in TransactionFixtures /\ g = "LEAGUE_KEY"
     \/ mode = "private" /\ f \in TeamFixtures /\ g = "LEAGUE_KEY" /\ IsFound(c, mode, g)}

Agree(k, l) == k.game = l.game /\ (k.league = l.league \/ NoLeague \in {k.league, l.league})

\* Some key that was configured for a mode is of an earlier game.
StaleConfigured(c, mode) ==
  \E context \in {c.context, OwnContext(c, mode)} :
    \E f \in KeyFixtures \cap DOMAIN context : context[f].game # "now"

\* The current game was found, and the public league that was configured is of another.
LeagueRefused(c, profile) ==
  /\ ~Has(c.context, "GAME_KEY") /\ Has(profile.context, "GAME_KEY")
  /\ StaleLeague(c.publicContext)

\* A key in a path that discovery found agrees with the key it was found from,
\* and is of the sport's game unless it was found from a private key, whatever
\* else was configured.  A key of an earlier game is in a path only if such a
\* key was configured for that mode; and once the current game is found, a
\* public league of another game is in no path, and neither are its teams.
FixturesAgree ==
  \A r \in results :
    LET c == configured[r.scenario.sport]
        profile == profiles[r.scenario.sport]
        mode == r.scenario.route.mode
        seen == buildScenarioContext(profile, mode)
    IN
    \A f \in EntityFixtures \cap DOMAIN r.path :
      /\ IsFound(c, mode, f) =>
           /\ \A g \in Sources(c, mode, f) : g \in DOMAIN seen /\ Agree(r.path[f], seen[g])
           /\ mode = "public" \/ f \in LeagueFixtures \cup TeamFixtures =>
                OfGame(profile, r.path[f])
      /\ r.path[f].game = "now" \/ StaleConfigured(c, mode)
      /\ mode = "public" /\ LeagueRefused(c, profile) /\ f \in LeagueFixtures \cup TeamFixtures =>
           {f, Other[f]} \cap DOMAIN c.context # {}

\* What the refusal of a public league takes away, whatever its game.
MayBeDropped(c, mode, f) ==
  mode = "public" /\ f \in LeagueFixtures \cup TeamFixtures /\ StaleLeague(c.publicContext)

\* A scenario is reported as lacking a key only if none was configured or found
\* for its sport and mode, and where a single key was configured for the mode,
\* that one is in the path; except for the league and teams of a sport whose
\* public league was configured and is of another game.
GapsAreReal ==
  \A r \in results :
    LET c == configured[r.scenario.sport]
        mode == r.scenario.route.mode
        own == OwnContext(c, mode)
    IN
    /\ \A f \in r.missing : <<r.scenario.sport, mode, f>> \in known => MayBeDropped(c, mode, f)
    /\ \A f \in SingleFixtures \cap DOMAIN own \cap DOMAIN r.path :
         r.path[f] = own[f] \/ MayBeDropped(c, mode, f)
=============================================================================
