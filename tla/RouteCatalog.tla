---------------------------- MODULE RouteCatalog ----------------------------
(***************************************************************************)
(* The routes that the route verifier tries, from                          *)
(* static-route-definitions.ts.  Of a path template the model keeps the    *)
(* placeholders, of an expectation the keys that must come back, the paths *)
(* that must be there and the arrays that must not be empty.               *)
(***************************************************************************)
EXTENDS Integers

SportCodes == {"nfl", "mlb", "nba", "nhl"}
Daily == SportCodes \ {"nfl"}

PlaceholderNames ==
  {"ALT_WEEK", "COUNT_SMALL", "DATE", "GAME_KEY", "LEAGUE_KEY", "LEAGUE_KEYS", "PLAYER_KEY",
   "PLAYER_KEYS", "PLAYER_POSITION", "PLAYER_SEARCH", "SEASON", "SPORT_CODE", "TEAM_KEY",
   "TEAM_KEYS", "TRANSACTION_KEY", "TRANSACTION_KEYS", "TRANSACTION_TYPE", "WEEK"}

\* The object { ...g, ...f }: TLC's @@, which the prover does not know.
f ++ g == [x \in DOMAIN f \cup DOMAIN g |-> IF x \in DOMAIN f THEN f[x] ELSE g[x]]

NoExpectation == [keys |-> << >>, paths |-> {}, arrays |-> {}]
AllowEmpty == [allowEmpty |-> TRUE]
InSports(sports) == [sports |-> sports]

\* A definition, with the defaults of what its options leave out.
Route(set, mode, id, needs, expectation, options) ==
  options ++ expectation
    ++ [set |-> set, mode |-> mode, id |-> id, needs |-> needs, allowEmpty |-> FALSE,
        sports |-> SportCodes, expectedFailureKinds |-> {}]
Public(id, needs, expectation, options) ==
  Route("public", "public", id, needs, expectation, options)
Private(id, needs, expectation, options) ==
  Route("private", "private", id, needs, expectation, options)

\* The same entity, with a child that must be there, an array or not.
With(expectation, path) == [expectation EXCEPT !.paths = @ \cup {path}]
WithArray(expectation, path) == [With(expectation, path) EXCEPT !.arrays = @ \cup {path}]
Keyed(expectation, fact, fixture) == [expectation EXCEPT !.keys = [f \in {fact} |-> fixture]]

gameExpectation == With(NoExpectation, "game")
leagueExpectation == Keyed(With(NoExpectation, "league"), "leagueKey", "LEAGUE_KEY")
teamExpectation == Keyed(With(NoExpectation, "team"), "teamKey", "TEAM_KEY")
playerExpectation == Keyed(With(NoExpectation, "player"), "playerKey", "PLAYER_KEY")
collectionExpectation(path) == WithArray(NoExpectation, path)
usersExpectation == collectionExpectation("users")

-----------------------------------------------------------------------------
GameRoutes ==
  LET game(id, expectation, options) == Public(id, {"SPORT_CODE"}, expectation, options) IN
  {game("game", gameExpectation, << >>),
   game("game-metadata", gameExpectation, << >>),
   Public("game-players", {"SPORT_CODE", "PLAYER_SEARCH", "COUNT_SMALL"},
          WithArray(gameExpectation, "players"), AllowEmpty),
   Public("game-players-by-key", {"SPORT_CODE", "PLAYER_KEYS"},
          Keyed(WithArray(gameExpectation, "players"), "playerKey", "PLAYER_KEYS"), << >>),
   game("game-dates", With(gameExpectation, "dates"), << >>),
   game("game-weeks", WithArray(gameExpectation, "gameWeeks"), AllowEmpty),
   game("game-stat-categories", With(gameExpectation, "statCategories"), << >>),
   game("game-position-types", WithArray(gameExpectation, "positionTypes"), << >>),
   game("game-roster-positions", WithArray(gameExpectation, "rosterPositions"), << >>),
   game("game-out",
        [gameExpectation EXCEPT !.paths = @ \cup {"statCategories", "positionTypes", "gameWeeks"}],
        << >>)}

CollectionRoutes ==
  {Public("games-by-code", {"SPORT_CODE"}, collectionExpectation("games"), << >>),
   Public("games-by-code-season", {"SPORT_CODE", "SEASON"}, collectionExpectation("games"), << >>),
   Public("games-by-key", {"GAME_KEY"},
          Keyed(collectionExpectation("games"), "gameKey", "GAME_KEY"), << >>),
   Public("games-available-by-code", {"SPORT_CODE"}, collectionExpectation("games"), AllowEmpty),
   Public("players-by-key", {"PLAYER_KEYS"},
          Keyed(collectionExpectation("players"), "playerKey", "PLAYER_KEYS"), << >>),
   Public("game-league-by-key", {"SPORT_CODE", "LEAGUE_KEY"},
          Keyed(WithArray(gameExpectation, "leagues"), "leagueKey", "LEAGUE_KEY"), << >>),
   Public("game-league-teams", {"SPORT_CODE", "LEAGUE_KEY"},
          Keyed(WithArray(gameExpectation, "teams"), "leagueKey", "LEAGUE_KEY"), << >>),
   Public("game-league-players", {"SPORT_CODE", "LEAGUE_KEY", "PLAYER_SEARCH", "COUNT_SMALL"},
          Keyed(WithArray(gameExpectation, "players"), "leagueKey", "LEAGUE_KEY"), AllowEmpty)}

LeagueRoutes ==
  LET league(id, expectation, options) == Public(id, {"LEAGUE_KEY"}, expectation, options) IN
  {league("league", leagueExpectation, << >>),
   Public("leagues-by-key", {"LEAGUE_KEYS"},
          Keyed(collectionExpectation("leagues"), "leagueKey", "LEAGUE_KEYS"), << >>),
   league("league-settings", With(leagueExpectation, "settings"), << >>),
   league("league-standings", With(leagueExpectation, "standings"), << >>),
   Public("league-scoreboard", {"LEAGUE_KEY", "WEEK"}, With(leagueExpectation, "scoreboard"),
          AllowEmpty),
   league("league-scoreboard-current", With(leagueExpectation, "scoreboard"), AllowEmpty),
   league("league-teams", WithArray(leagueExpectation, "teams"), << >>),
   Public("leagues-teams", {"LEAGUE_KEYS"},
          Keyed(collectionExpectation("teams"), "leagueKey", "LEAGUE_KEYS"), << >>),
   Public("teams-by-key", {"TEAM_KEYS"},
          Keyed(collectionExpectation("teams"), "teamKey", "TEAM_KEYS"), << >>),
   Public("team-players", {"TEAM_KEY"}, WithArray(teamExpectation, "players"), << >>),
   league("league-draftresults", With(leagueExpectation, "draftResults"), AllowEmpty),
   Public("league-transactions", {"LEAGUE_KEY", "COUNT_SMALL"},
          WithArray(leagueExpectation, "transactions"), AllowEmpty)}

-----------------------------------------------------------------------------
UserRoutes ==
  {Private("user", {}, usersExpectation, << >>),
   Private("user-teams", {}, usersExpectation, AllowEmpty),
   Private("user-games", {"SPORT_CODE"}, usersExpectation, AllowEmpty),
   Private("user-game-leagues", {"SPORT_CODE"}, usersExpectation, AllowEmpty),
   Private("user-game-teams", {"SPORT_CODE"}, usersExpectation, AllowEmpty)}

PrivateLeagueRoutes ==
  LET league(id, expectation, options) == Private(id, {"LEAGUE_KEY"}, expectation, options) IN
  {league("private-league", leagueExpectation, << >>),
   league("private-league-settings", With(leagueExpectation, "settings"), << >>),
   league("private-league-standings", With(leagueExpectation, "standings"), << >>),
   Private("private-league-scoreboard", {"LEAGUE_KEY", "WEEK"},
           With(leagueExpectation, "scoreboard"), AllowEmpty),
   Private("private-league-players", {"LEAGUE_KEY", "PLAYER_POSITION", "COUNT_SMALL"},
           WithArray(leagueExpectation, "players"), AllowEmpty),
   league("private-league-draftresults", With(leagueExpectation, "draftResults"), AllowEmpty),
   Private("private-league-transactions", {"LEAGUE_KEY", "COUNT_SMALL"},
           WithArray(leagueExpectation, "transactions"), AllowEmpty)}

PrivateTeamRoutes ==
  LET team(id, expectation, options) == Private(id, {"TEAM_KEY"}, expectation, options) IN
  {team("private-team", teamExpectation, << >>),
   team("private-team-standings", With(teamExpectation, "teamStandings"), << >>),
   team("private-team-draftresults", With(teamExpectation, "draftResults"), AllowEmpty),
   Private("private-team-matchups", {"TEAM_KEY", "WEEK", "ALT_WEEK"},
           WithArray(teamExpectation, "matchups"), AllowEmpty),
   team("private-team-stats-season", With(teamExpectation, "teamStats"), << >>),
   Private("private-team-roster-week", {"TEAM_KEY", "WEEK"},
           WithArray(teamExpectation, "players"), InSports({"nfl"})),
   Private("private-team-stats-week", {"TEAM_KEY", "WEEK"},
           With(teamExpectation, "teamStats"), InSports({"nfl"}) ++ AllowEmpty),
   Private("private-team-roster-date", {"TEAM_KEY", "DATE"},
           WithArray(teamExpectation, "players"), InSports(Daily)),
   Private("private-team-stats-date", {"TEAM_KEY", "DATE"},
           With(teamExpectation, "teamStats"), InSports(Daily) ++ AllowEmpty)}

PrivatePlayerRoutes ==
  LET player(id, expectation, options) == Private(id, {"PLAYER_KEY"}, expectation, options) IN
  {player("private-player", playerExpectation, << >>),
   player("private-player-stats", With(playerExpectation, "playerStats"), << >>),
   player("private-player-percent-owned", With(playerExpectation, "percentOwned"), << >>),
   player("private-player-draft-analysis", With(playerExpectation, "draftAnalysis"), AllowEmpty),
   Private("private-player-ownership", {"LEAGUE_KEY", "PLAYER_KEY"},
           WithArray(leagueExpectation, "players"), << >>),
   Private("private-transactions-by-key", {"TRANSACTION_KEYS"},
           Keyed(collectionExpectation("transactions"), "transactionKey", "TRANSACTION_KEYS"),
           AllowEmpty),
   Private("private-transaction", {"TRANSACTION_KEY"},
           Keyed(With(NoExpectation, "transaction"), "transactionKey", "TRANSACTION_KEY"),
           << >>)}

InvalidRoutes ==
  {Route("invalid", "private", "invalid-user-leagues", {}, NoExpectation,
         [expectedFailureKinds |-> {"unsupported-route"}]),
   Route("invalid", "public", "invalid-games-out-leagues", {"SPORT_CODE"}, NoExpectation,
         [expectedFailureKinds |-> {"fixture-invalid", "unsupported-route"}])}

AllRoutes ==
  GameRoutes \cup CollectionRoutes \cup LeagueRoutes \cup UserRoutes \cup PrivateLeagueRoutes
    \cup PrivateTeamRoutes \cup PrivatePlayerRoutes \cup InvalidRoutes
=============================================================================
