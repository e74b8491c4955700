------------------------------ MODULE Contract ------------------------------
(***************************************************************************)
(* The response contract of normalized.ts: for every DTO the fields it     *)
(* declares and what they hold, as a value that the model can read.        *)
(*                                                                         *)
(* An element of a document is named by what transformTagName makes of its *)
(* tag.  A field is declared as a scalar of some JavaScript types, as one  *)
(* object, as an array whose elements come in a plural wrapper, as a       *)
(* scalar that repeats without a wrapper, or as the map of weeks.          *)
(***************************************************************************)
EXTENDS TLC

Scalar(types) == [kind |-> "scalar", types |-> types]
String == Scalar({"string"})
Number == Scalar({"number"})
Flag == Scalar({"boolean"})
StatValue == Scalar({"string", "number"})
LooseFlag == Scalar({"string", "boolean"})

DigitKey == [kind |-> "key"]                        \* a string of digits, kept
One(dto) == [kind |-> "one", of |-> dto]
Maybe(dto) == [kind |-> "maybe", of |-> dto]        \* string | object
Many(item, of) == [kind |-> "many", item |-> item, of |-> of]
Repeated == [kind |-> "repeated"]                   \* string | string[]
Weeks == [kind |-> "weeks"]                         \* Record<string, boolean>

Strings(fields) == [f \in fields |-> String]
Numbers(fields) == [f \in fields |-> Number]
Flags(fields) == [f \in fields |-> Flag]

Coverage == Strings({"coverageType", "date"}) @@ Numbers({"season", "week"})
ImageSource == Strings({"url", "size"})

-----------------------------------------------------------------------------
(* Games *)

YahooGameDto ==
  Strings({"name", "code", "type", "url", "alternateStartDeadline"})
    @@ Numbers({"gameId", "season"})
    @@ Flags({"isRegistrationOver", "isGameOver", "isOffseason", "isLiveDraftLobbyActive"})
    @@ [gameKey |-> DigitKey,
        dates |-> One("GameDates"),
        rosterPositions |-> Many("rosterPosition", One("GameRosterPosition")),
        players |-> Many("player", One("Player")),
        statCategories |-> One("GameStatCategories"),
        positionTypes |-> Many("positionType", One("PositionType")),
        gameWeeks |-> Many("gameWeek", One("GameWeek")),
        teams |-> Many("team", One("Team")),
        leagues |-> Many("league", One("League"))]

YahooGameDatesDto == [season |-> One("SeasonDates")]
SeasonDates == Strings({"startDate", "endDate"})

\* The fields of a game's roster position are not declared; the test of the
\* parser sends these.
YahooGameRosterPositionDto == Strings({"position", "positionType"}) @@ Numbers({"count"})

YahooGameWeekDto ==
  Strings({"start", "end"}) @@ Numbers({"week"})
    @@ [displayName |-> StatValue, current |-> Scalar({"string", "number", "boolean"})]

YahooPositionTypeDto == Strings({"type", "displayName"})

YahooGameStatCategoriesDto == [stats |-> Many("stat", One("GameStat"))]

YahooGameStatDto ==
  Strings({"name", "displayName"}) @@ Numbers({"statId"})
    @@ Flags({"sortOrder", "isCompositeStat"})
    @@ [positionTypes |-> Many("positionType", String),
        baseStats |-> Many("baseStat", One("BaseStat"))]
BaseStat == Numbers({"statId"})

-----------------------------------------------------------------------------
(* Leagues *)

YahooLeagueDto ==
  Strings({"leagueKey", "url", "logoUrl", "draftStatus", "editKey", "weeklyDeadline",
           "rosterType", "scoringType", "leagueType", "renew", "renewed", "feloTier",
           "irisGroupChatId", "startDate", "endDate", "currentDate", "gameCode"})
    @@ Numbers({"leagueId", "numTeams", "leagueUpdateTimestamp", "matchupWeek", "currentWeek",
                "startWeek", "endWeek", "season"})
    @@ Flags({"allowAddToDlExtraPos", "isProLeague", "isCashLeague", "isPlusLeague"})
    @@ [name |-> String,
        isHighscore |-> LooseFlag,
        settings |-> One("LeagueSettings"),
        standings |-> One("LeagueStandings"),
        scoreboard |-> One("LeagueScoreboard"),
        teams |-> Many("team", One("Team")),
        players |-> Many("player", One("Player")),
        transactions |-> Many("transaction", One("Transaction"))]

YahooLeagueSettingsDto ==
  Strings({"draftType", "scoringType", "invitePermission", "persistentUrl", "waiverType",
           "waiverRule", "postDraftPlayers", "tradeEndDate", "tradeRatifyType", "playerPool",
           "cantCutList", "sendbirdChannelUrl", "leaguePremiumFeatures"})
    @@ Numbers({"playoffStartWeek", "numPlayoffTeams", "numPlayoffConsolationTeams", "draftTime",
                "draftPickTime", "maxTeams", "maxWeeklyAdds"})
    @@ Flags({"isAuctionDraft", "usesPlayoff", "hasPlayoffConsolationGames",
              "usesPlayoffReseeding", "usesLockEliminatedTeams", "hasMultiweekChampionship",
              "usesFaab", "waiverTime", "tradeRejectTime", "draftTogether",
              "isPubliclyViewable"})
    @@ [isHighscore |-> LooseFlag,
        usesMedianScore |-> LooseFlag,
        minGamesPlayed |-> StatValue,
        rosterPositions |-> Many("rosterPosition", One("RosterPosition")),
        statCategories |-> One("LeagueStatCategories"),
        statModifiers |-> One("StatModifiers"),
        weekHasEnoughQualifyingDays |-> Weeks]

StatModifiers == [stats |-> Many("stat", One("StatValue"))]

YahooRosterPositionDto ==
  Strings({"position", "positionType"}) @@ Numbers({"count"}) @@ Flags({"isStartingPosition"})

YahooLeagueStatCategoriesDto ==
  [stats |-> Many("stat", One("LeagueStat")), groups |-> Many("group", One("StatGroup"))]
LeagueStat ==
  Strings({"name", "displayName", "group", "abbr", "positionType"})
    @@ Numbers({"statId"}) @@ Flags({"enabled", "sortOrder"})
    @@ [statPositionTypes |-> Many("statPositionType", One("StatPositionType"))]
StatPositionType == Strings({"positionType"})
StatGroup == Strings({"groupName", "groupDisplayName", "groupAbbr"})

YahooLeagueStandingsDto == [teams |-> Many("team", One("StandingsTeam"))]

YahooLeagueScoreboardDto ==
  Numbers({"week"}) @@ [matchups |-> Many("matchup", One("Matchup"))]

-----------------------------------------------------------------------------
(* Teams *)

YahooTeamDto ==
  Strings({"teamKey", "url", "leagueScoringType"})
    @@ Numbers({"teamId", "waiverPriority", "faabBalance", "numberOfMoves", "numberOfTrades",
                "previousSeasonTeamRank", "divisionId", "draftPosition"})
    @@ Flags({"hasDraftGrade"})
    @@ [name |-> String,
        teamLogos |-> Many("teamLogo", One("ImageSource")),
        rosterAdds |-> One("CoverageValue"),
        managers |-> Many("manager", One("Manager")),
        isOwnedByCurrentLogin |-> Scalar({"number", "boolean"}),
        clinchedPlayoffs |-> Scalar({"number", "boolean"}),
        roster |-> One("TeamRoster"),
        teamStats |-> One("TeamStats"),
        teamPoints |-> One("TeamPoints"),
        teamStandings |-> One("TeamStandings"),
        matchups |-> Many("matchup", One("Matchup"))]

YahooCoverageValueDto == Strings({"coverageType"}) @@ Numbers({"coverageValue", "value"})

YahooManagerDto ==
  Strings({"guid", "email", "imageUrl", "feloTier"})
    @@ Numbers({"managerId", "feloScore"})
    @@ [f \in {"isCommissioner", "isComanager", "isCurrentLogin"}
          |-> Scalar({"boolean", "number"})]
    @@ [nickname |-> String]

YahooTeamRosterDto ==
  Strings({"coverageType", "date"}) @@ Numbers({"week"}) @@ Flags({"isPrescoring", "isEditable"})
    @@ [players |-> Many("player", One("Player")), minimumGames |-> One("CoverageValue")]

YahooStatValueDto == Numbers({"statId"}) @@ [value |-> StatValue]
YahooTeamStatsDto == Coverage @@ [stats |-> Many("stat", One("StatValue"))]
YahooTeamPointsDto ==
  Coverage @@ Numbers({"total"}) @@ [stats |-> Many("stat", One("StatValue"))]

YahooTeamStandingsDto ==
  Numbers({"rank", "playoffSeed", "pointsFor", "pointsAgainst"})
    @@ [outcomeTotals |-> One("OutcomeTotals")]
OutcomeTotals == Numbers({"wins", "losses", "ties", "percentage"})

YahooMatchupDto ==
  Strings({"weekStart", "weekEnd", "status", "winnerTeamKey"}) @@ Numbers({"week"})
    @@ Flags({"isPlayoffs", "isConsolation", "isMatchupOfTheWeek", "isTied"})
    @@ [statWinners |-> Many("statWinner", One("StatWinner")),
        teams |-> Many("team", One("MatchupTeam"))]
StatWinner == Numbers({"statId"}) @@ Strings({"winnerTeamKey"}) @@ Flags({"isTied"})

YahooMatchupTeamDto ==
  YahooTeamDto
    @@ [teamRemainingGames |-> One("RemainingGames"),
        teamLiveProjectedPoints |-> One("TeamPoints"),
        teamProjectedPoints |-> One("TeamPoints")]
RemainingGames ==
  Strings({"coverageType"}) @@ Numbers({"week"}) @@ [total |-> One("GamesTotal")]
GamesTotal == Numbers({"remainingGames", "liveGames", "completedGames"})

-----------------------------------------------------------------------------
(* Players *)

YahooPlayerDto ==
  Strings({"playerKey", "url", "editorialPlayerKey", "editorialTeamKey", "editorialTeamFullName",
           "editorialTeamAbbr", "editorialTeamUrl", "displayPosition", "imageUrl",
           "positionType", "primaryPosition", "status", "statusFull", "injuryNote"})
    @@ Numbers({"playerId", "uniformNumber", "playerNotesLastTimestamp"})
    @@ Flags({"isUndroppable", "hasPlayerNotes", "hasRecentPlayerNotes", "isEditable",
              "onDisabledList"})
    @@ [name |-> One("PlayerName"),
        isKeeper |-> One("Keeper"),
        headshot |-> One("ImageSource"),
        eligiblePositions |-> One("Positions"),
        eligiblePositionsToAdd |-> Maybe("Positions"),
        byeWeeks |-> One("ByeWeeks"),
        selectedPosition |-> One("SelectedPosition"),
        startingStatus |-> One("StartingStatus"),
        playerStats |-> One("PlayerStats"),
        playerAdvancedStats |-> One("PlayerStats"),
        ownership |-> Maybe("Ownership"),
        percentOwned |-> One("PercentOwned"),
        draftAnalysis |-> One("DraftAnalysis")]
Keeper == Strings({"status", "cost", "kept"})
Positions == [position |-> Repeated]
ByeWeeks == Numbers({"week"})

YahooPlayerNameDto == Strings({"full", "first", "last", "asciiFirst", "asciiLast"})
YahooSelectedPositionDto ==
  Strings({"coverageType", "date", "position"}) @@ Numbers({"week"}) @@ Flags({"isFlex"})
YahooStartingStatusDto ==
  Strings({"coverageType", "date"}) @@ Numbers({"week"}) @@ Flags({"isStarting"})
YahooPlayerStatsDto == Coverage @@ [stats |-> Many("stat", One("StatValue"))]
YahooPlayerOwnershipDto ==
  Strings({"ownershipType", "ownerTeamKey"})
    @@ Numbers({"waPeriod", "faabBalance"}) @@ [ownerTeamName |-> String]
YahooPlayerPercentOwnedDto ==
  Strings({"coverageType", "date"})
    @@ Numbers({"week", "percentOwned", "percentStarted", "percentRecommended", "delta"})
YahooPlayerDraftAnalysisDto ==
  Numbers({"averagePick", "averageRound", "averageCost", "cost", "percentageOwned",
           "percentageStarted"})

-----------------------------------------------------------------------------
(* Users and transactions *)

YahooLoggedInUserDto ==
  Strings({"guid"})
    @@ [games |-> Many("game", One("Game")), teams |-> Many("team", One("Team"))]

YahooTransactionDto ==
  Strings({"transactionKey", "type", "status"})
    @@ Numbers({"transactionId", "timestamp", "faabBid"})
    @@ [players |-> Many("player", One("TransactionPlayer"))]

YahooTransactionPlayerDto ==
  Strings({"playerKey", "editorialTeamAbbr", "displayPosition", "positionType"})
    @@ Numbers({"playerId"})
    @@ [name |-> One("PlayerName"), transactionData |-> One("TransactionData")]
TransactionData ==
  Strings({"type", "sourceType", "sourceTeamKey", "destinationType", "destinationTeamKey"})
    @@ [sourceTeamName |-> String, destinationTeamName |-> String]

YahooRosterUpdateConfirmationDto == [confirmation |-> One("Confirmation")]
Confirmation == Strings({"status"})

-----------------------------------------------------------------------------
\* What may stand in fantasy_content: the root envelopes of the resources.
ResponseDto ==
  [game |-> One("Game"), games |-> Many("game", One("Game")),
   league |-> One("League"), leagues |-> Many("league", One("League")),
   team |-> One("Team"), teams |-> Many("team", One("Team")),
   player |-> One("Player"), players |-> Many("player", One("Player")),
   transaction |-> One("Transaction"),
   transactions |-> Many("transaction", One("Transaction")),
   users |-> Many("user", One("User"))] @@ YahooRosterUpdateConfirmationDto

\* The body of an error.
YahooError == Strings({"description"})

\* Every DTO by the name the fields above give it.
Dto ==
  [Response |-> ResponseDto, YahooError |-> YahooError,
   Game |-> YahooGameDto, GameDates |-> YahooGameDatesDto, SeasonDates |-> SeasonDates,
   GameRosterPosition |-> YahooGameRosterPositionDto, GameWeek |-> YahooGameWeekDto,
   PositionType |-> YahooPositionTypeDto, GameStatCategories |-> YahooGameStatCategoriesDto,
   GameStat |-> YahooGameStatDto, BaseStat |-> BaseStat,
   League |-> YahooLeagueDto, LeagueSettings |-> YahooLeagueSettingsDto,
   StatModifiers |-> StatModifiers, RosterPosition |-> YahooRosterPositionDto,
   LeagueStatCategories |-> YahooLeagueStatCategoriesDto, LeagueStat |-> LeagueStat,
   StatPositionType |-> StatPositionType, StatGroup |-> StatGroup,
   LeagueStandings |-> YahooLeagueStandingsDto, LeagueScoreboard |-> YahooLeagueScoreboardDto,
   Team |-> YahooTeamDto, StandingsTeam |-> YahooTeamDto, ImageSource |-> ImageSource,
   CoverageValue |-> YahooCoverageValueDto, Manager |-> YahooManagerDto,
   TeamRoster |-> YahooTeamRosterDto, TeamStats |-> YahooTeamStatsDto,
   TeamPoints |-> YahooTeamPointsDto, TeamStandings |-> YahooTeamStandingsDto,
   OutcomeTotals |-> OutcomeTotals, StatValue |-> YahooStatValueDto,
   Matchup |-> YahooMatchupDto, StatWinner |-> StatWinner, MatchupTeam |-> YahooMatchupTeamDto,
   RemainingGames |-> RemainingGames, GamesTotal |-> GamesTotal,
   Player |-> YahooPlayerDto, PlayerName |-> YahooPlayerNameDto, Keeper |-> Keeper,
   Positions |-> Positions, ByeWeeks |-> ByeWeeks,
   SelectedPosition |-> YahooSelectedPositionDto, StartingStatus |-> YahooStartingStatusDto,
   PlayerStats |-> YahooPlayerStatsDto, Ownership |-> YahooPlayerOwnershipDto,
   PercentOwned |-> YahooPlayerPercentOwnedDto, DraftAnalysis |-> YahooPlayerDraftAnalysisDto,
   User |-> YahooLoggedInUserDto, Transaction |-> YahooTransactionDto,
   TransactionPlayer |-> YahooTransactionPlayerDto, TransactionData |-> TransactionData,
   Confirmation |-> Confirmation]
=============================================================================
