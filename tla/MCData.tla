------------------------------- MODULE MCData -------------------------------
(***************************************************************************)
(* Instances of RouteVerifier and of Documents for TLC.  Neither shares    *)
(* state with the other or with the transport, so one run checks both: a   *)
(* behaviour is one of the one or one of the other.                        *)
(***************************************************************************)
EXTENDS Documents, RouteVerifier

Plain == {"", "abc", "007", "0", "12", "true"}
Numerals == {"", "0", "1", "12"}

\* What an application may configure: a public league and more beside it, or
\* private keys, of this season or of one before, alone or with others.
now == Key("now", "mine")
before == Key("before", "mine")
PublicOverrides ==
  {<< >>, [LEAGUE_KEY |-> now], [LEAGUE_KEY |-> before],
   [LEAGUE_KEY |-> before, TEAM_KEY |-> now], [LEAGUE_KEYS |-> before, TEAM_KEYS |-> now],
   [TEAM_KEYS |-> before, PLAYER_KEY |-> Key("before", NoLeague)]}
PrivateOverrides ==
  {[LEAGUE_KEY |-> now, TEAM_KEY |-> now, PLAYER_KEY |-> Key("now", NoLeague), DATE |-> Given],
   [LEAGUE_KEY |-> before], [TEAM_KEY |-> before], [TEAM_KEY |-> now],
   [LEAGUE_KEY |-> before, TEAM_KEY |-> now], [PLAYER_KEY |-> Key("before", NoLeague)],
   [TEAM_KEY |-> before, PLAYER_KEYS |-> Key("now", NoLeague), TRANSACTION_KEYS |-> before]}
SomeOverrides ==
  {[sport \in SportCodes |-> p] :
     p \in {Profile(<< >>, public, << >>) : public \in PublicOverrides}
            \cup {Profile(<< >>, << >>, private) : private \in PrivateOverrides}
            \cup {Profile([GAME_KEY |-> Key("before", NoLeague)], << >>, << >>),
                   Profile([LEAGUE_KEY |-> before], [LEAGUE_KEY |-> before], << >>)}}
\* Reduction: with overrides only the selection of routes varies; the other
\* flags bear neither on the discovery nor on the paths.
NoOverrides == Profile(profileDefaults, << >>, << >>)
Switches(o) == <<o.dryRun, o.includeInvalid, o.strictShapes, o.requireComplete>>
ReadFlag == Switches(options') # Switches(options) => configured["nfl"] = NoOverrides

OneSport == {{"nfl"}, {"nhl"}}
\* Of the routes that differ only in their ids and in the names of the paths
\* they expect one, alone, and two pairs of routes that share a discovery.
Kind(r) == [r EXCEPT !.id = "", !.paths = {p \in {"some"} : r.paths # {}},
                     !.arrays = {a \in {"some"} : r.arrays # {}}]
OneOrTwoRoutes ==
  {{(CHOOSE r \in AllRoutes : Kind(r) = k).id} : k \in {Kind(r) : r \in AllRoutes}}
    \cup {{"game-players-by-key", "game-league-by-key"}, {"invalid-games-out-leagues", "game"}}

NoResponse == shape = "none" /\ open = << >> /\ size = 0 /\ body = NoBody /\ answer = NoBody
NoVerifier ==
  /\ stage = "none" /\ options = NoBody /\ profiles = NoBody /\ todo = << >>
  /\ discoveries = {} /\ results = {} /\ exitCode = 0 /\ known = {} /\ configured = NoBody

MCInit ==
  \/ ResponsesInit /\ NoVerifier
  \/ NoResponse /\ VerifierInit

Reading == shape # "none" /\ UNCHANGED verifier
Verifying == stage # "none" /\ UNCHANGED vars

MCNext ==
  \/ Reading /\ open # << >> /\ \E f \in DOMAIN Children(Top.desc) : OpenElement(f)
  \/ Reading /\ open # << >> /\ \E text \in Texts(Top.desc) : WriteText(text)
  \/ Reading /\ CloseElement
  \/ Reading /\ \E status \in Statuses, method \in {"GET", "WRITE"}, rawXml, declared \in BOOLEAN :
       Answer(status, method, rawXml, declared)
  \/ Verifying /\ ReadArgument /\ ReadFlag
  \/ Verifying /\ BadArgument
  \/ Verifying /\ Start
  \/ Verifying /\ \E sport \in SportCodes : DiscoverGame(sport)
  \/ Verifying /\ \E sport \in SportCodes : DiscoverPlayers(sport)
  \/ Verifying /\ \E sport \in SportCodes : DiscoverTeams(sport)
  \/ Verifying /\ \E sport \in SportCodes : DiscoverDates(sport)
  \/ Verifying /\ \E sport \in SportCodes : DiscoverAccount(sport)
  \/ Verifying /\ \E sport \in SportCodes : DiscoverRoster(sport)
  \/ Verifying /\ \E sport \in SportCodes : DiscoverTransactions(sport)
  \/ Verifying /\ instantiateScenarios
  \/ Verifying /\ runScenario
  \/ Verifying /\ Report

MCSpec == MCInit /\ [][MCNext]_<<vars, verifier>>
=============================================================================
