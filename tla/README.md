# A TLA+ verification project for yfs-api

`yfs-api` is a typed TypeScript client for the Yahoo Fantasy Sports API.  This
directory holds TLA+ models of its stateful core, of how responses are read, and
of the verifier that tries the documented routes; the TLC configurations that
check them; and TLAPS proofs of what matters most about them.  Paths below are
relative to the repository (`src/client/http.ts`, `docs/...`).

Contents: [Inventory](#inventory), [Modules](#modules-and-how-they-correspond-to-the-code),
[Runs](#what-each-run-checks), [Bounds](#bounds), [Fairness](#fairness-and-environment-assumptions),
[Findings](#findings), [Proofs](#what-is-proved), [Model-checked only](#what-is-only-model-checked),
[Not modelled](#what-is-not-modelled), [Plan](#plan), [Running](#running-the-checks).

## Inventory

The client is single-threaded JavaScript.  Its concurrency is that of promises:
code between two `await`s runs without interruption, and anything may run in
between.  What survives a crash is what the application's `TokenStorage` kept.

| Component | State it keeps | Operations | Talks to |
|---|---|---|---|
| `RateLimiter` (`client/http.ts:87-137`) | `requests` (timestamps of the window), `admission` (the last promise of a chain) | `wait()` | clock, timers (`sleep`) |
| `HttpClient` (`client/http.ts:200-709`) | `refreshInFlight`, `tokenRefreshCallback`, `tokenProvider`, a `RateLimiter`; per request: attempt, `unauthorizedRefreshAttempted`, dispatched token | `request` (through `get/post/put/delete`), `setTokenProvider`, `setTokenRefreshCallback`, `refreshTokens` | limiter, `fetch`, the owner's tokens and refresh callback |
| `YahooFantasySportsClient` (`client/yahoo.ts`) | `tokens`, `refreshInFlight`, the storage, OAuth clients, one `HttpClient` | `authenticate`, `loadTokens`, `refreshToken`, `logout`, queries | `OAuth2Client`, `TokenStorage`, `HttpClient` |
| `OAuth2Client` (`auth/oauth2.ts`) | none between calls | authorization URL, code exchange, refresh, expiry check | Yahoo's token endpoint, with a timeout |
| `OAuth1Client` (`auth/oauth1.ts`) | none (nonce and timestamp per call) | sign a request | |
| Frontend adapter (`client/frontend.ts`) | none | route allowlist, host, public read and write | `HttpClient` |
| Resource builders (`resources/*.ts`) | immutable path state and parameters | fluent calls, `toPath`, `get`; `put` of a roster | `HttpClient` or the adapter |
| `RosterMoveBuilder` (`resources/builders/roster-move-builder.ts`) | a mutable week or date, and moves | fluent calls, `toPayload` | `RosterResource.put()` |
| Transaction builders (`resources/builders/transaction-builder.ts`) | mutable fields of one transaction | fluent calls, build | the application, which sends the payload |
| XML parsing (`utils/xmlParser.ts`) | none | parse, normalize arrays and scalars, recognize wrappers | `HttpClient`, which hands it the body of a success |
| Error classes (`client/errors.ts`) | none | one class per kind of failure, with the description Yahoo gives | `HttpClient` |
| Response contract (`domain/normalized.ts`) | none | types | the parser must produce what they declare |
| Route verifier (`research/api-path-validation/`) | options, a profile of fixtures per sport, records, an exit code | select routes, discover fixtures, try every route, report | Yahoo, one request at a time |
| Validators, formatters, constants, other types | none | pure functions, tables, types | |
| Cookie tool, other research, scripts, examples | not part of the package | | |

How they interact.  The application owns a `YahooFantasySportsClient`; resource
and payload builders end in a call of `HttpClient.request()`.  A request waits
for the limiter, asks the client for its token through `tokenProvider`
(`() => this.tokens`), refreshes through the callback (`() =>
this.refreshTokens()`) when it is expired or when an answer is 401, fetches, and
retries.  `HttpClient` shares one refresh among its requests; the client shares
one among the transport's and its own manual refreshes.  The client writes every
new pair of tokens to memory at once and then to the storage.

What is hard here, and what makes each component correct:

- **Limiter.** Callers pile up while another sleeps; timers are inexact; a sleep
  may reject.  No rolling window may hold more than the limit, callers leave in
  order of arrival, nobody oversleeps or starves.
- **Request loop.** Retries, the one refresh after a 401 and the attempt it gives
  back combine; answers arrive after the token they were sent with is gone.  A
  write is never replayed (`plans/004-harden-transport-oauth.md`), the loop ends,
  a refresh is shared, none is wasted on a pair already replaced, and one that
  fails does not block the next.
- **Session.** Logins, loads, manual and automatic refreshes, logouts, storage
  writes that take time or fail, and crashes interleave.  Refresh tokens rotate:
  none may be presented twice, memory and storage must agree once writes have
  settled, a crash may lose one refresh at most, logout must be final.
- **Builders and lineup writes.** Sequences of fluent calls that leave
  contradictory paths or payloads; arrays and bodies that the application goes
  on changing while a builder or a waiting request refers to them.  A builder's
  path is fixed when it is made, a segment has one coverage, and a lineup is sent
  as it was at the call, for the week or the date that was stated of it.
- **Adapter.** Which of the paths that builders can make leave it, for which
  host, and with which credentials.
- **OAuth clients.** Expiry arithmetic and the parameters that are signed.
- **Responses.** XML has no types and no arrays: a collection of one looks like an
  object, an empty one like an empty text, a flag like a number, and an error may
  come with a good status.  Every response must have the structure that
  `normalized.ts` declares, whatever its collections hold, and no failure may pass
  for content.
- **Route verifier.** Its fixtures come from the configuration, from an account and
  from earlier answers; some answers fail or are empty.  Exit code 0 must mean
  evidence for every route, and the keys of one path must belong together.
- **Validators.** Key grammar.

`PROJECT.json` lists every component and, under `hazards`, each hard spot at its
line with the properties that cover it or the reason none does yet.

## Modules and how they correspond to the code

| Module | What it is |
|---|---|
| `SlidingWindow` | abstract specification of the limiter: calls are let through one at a time, in order, at most `MaxRequests` in the last `Window` |
| `RateLimiter` | `RateLimiter.wait()`; implements `SlidingWindow` |
| `HttpClient` | `HttpClient.request()` and `refreshTokens()` |
| `Transport` | `HttpClient` composed with `SlidingWindow`: each `wait()` of a request is a call of the limiter |
| `TokenSession` | the OAuth 2.0 session of `YahooFantasySportsClient` and its storage |
| `Client` | `HttpClient` with `TokenSession` as its owner: a client in user mode, its requests and the calls of the application |
| `Resources` | the fluent builders: chains of calls, and the path they make |
| `Frontend` | extends `Resources`: what of those paths the frontend adapter sends, where and how |
| `Requests` | extends `Frontend`: a lineup, the roster it is put on, and the transport that sends it |
| `Contract` | the DTOs of `normalized.ts`, field by field |
| `XmlParser` | the parser as it is configured, and what `normalizeArrays()` does to the fields of an object |
| `Responses` | extends `Contract` and `XmlParser`: documents of the contract as they are written, and what a request resolves with |
| `Documents` | extends `Responses`: `normalizeArrays()` through all of a value, compared with the contract, and `detectArrayPatterns()` |
| `RouteCatalog` | the routes of the verifier and what it expects of each |
| `RouteVerifier` | extends `RouteCatalog`: selection, discovery, trial and exit code |
| `MC*` | instances for TLC: named sets and symmetry |
| `*Proofs` | theorems and TLAPS proofs, one module per component |

Some operators are marked `mutant`: each is a plausible bug (a dropped guard, an
off-by-one, `then` for `finally`) of the definition that follows it.  They are
not part of any specification; `PROJECT.json` names, for each property, the
mutant that breaks it.

### RateLimiter

An action is a stretch between two awaits.

| Model | Code |
|---|---|
| `Arrive` | `wait()` to its first await: remember `admission`, replace it by an own promise |
| `Turn`, `Awake` | the awaited promise is resolved; the sleep is over |
| `Live`, `Delay` | the `filter` of the window; the length of the sleep |
| `Admit`, `Sleep`, `SleepRejects` | the loop body with room, without room, a sleep that rejects; `Release` is the `finally` |
| `Tick` | time |
| `requests`, `age` | the array of timestamps, kept as who pushed and how long ago |

A promise is named by the invocation that made it.  Ages stop at `Window`,
because the code only compares them with `windowMs`; so states are finite while
time goes on.  `turn` and `asked` are history.

### HttpClient

| Model | Code |
|---|---|
| `Issue` | `request()` to its first await, `rateLimiter.wait()` |
| `Admit...` | what follows the admission: no token needed, a good token, a refresh first, `AuthenticationError`, `wait()` rejecting |
| `Refreshed`, `RefreshedAfter401`, `RefreshFailed` | the awaited refresh settles |
| `Answer...` | the outcomes of `fetch`: final, 429 or 5xx, lost or timed out, 401 with and without a refresh |
| `NextAttempt`, `DelayFails` | the delay of a retry ends or rejects |
| `StartRefresh`, `JoinRefresh` | `refreshTokens()` |
| `OwnerIssues`, `OwnerResolves`, `OwnerRejects` | the callback's promise: pair in memory, saved, failed |
| `OwnerRepeats` | the callback joined a refresh that the owner had begun, and answers a pair that it holds or held |
| `Login`, `TakeBack`, `Logout` | the owner gets a new pair, goes back to an earlier one (a load), has none |
| `TokenExpires`, `SetTokenRefreshCallback` | time, and the setter |

A pair of tokens is a number, 0 stands for none; `reuses` counts how often the
owner went back to an earlier pair.  `flights` records every
refresh with the pair it started from.  `dispatches` and `unfit` (pairs that
expired or drew a 401) are history.  The provider may change its answer at any
moment, which covers `setTokenProvider` too.

### Transport

`Transport` extends `HttpClient` and instantiates `SlidingWindow`; a step moves
both where the code calls `wait()` or returns from it.

| Model | Code |
|---|---|
| `Join` | a step of `HttpClient` that ends in `await this.rateLimiter.wait()` |
| `LetThrough` | `wait()` returns: authorization, and the dispatch or the refresh, in the same step |
| `WaitRejects` | `wait()` rejects |
| `GoOn`, `Depart` | the other steps of a request; `fetch` is called |
| `Elapse` | time, for the window and for what was sent |

A call of `wait()` is named by its request and its attempt.  `departed` and
`since` are history: which calls led to a dispatch, and how long ago.

### TokenSession

| Model | Code |
|---|---|
| `CallAuthenticate`, `CodeExchanged`, `CodeRefused` | `authenticate()` |
| `CallLoad`, `StorageRead`, `LoadFails`, `LoadReturns` | `loadTokens()`: the read by the storage and the continuation are separate, so other calls run in between |
| `SetTokens`, `CallSaved`, `CallSaveFails` | `setTokens()`: memory first, the save settles later |
| `RefreshUnavailable`, `StartRefresh`, `JoinRefresh`, `RefreshReturns` | `refreshToken()` and `refreshTokens()` as their callers see it |
| `RefreshIssued`, `RefreshRefused`, `RefreshSaved`, `RefreshSaveFails` | the shared refresh, with its `finally` |
| `CallLogout`, `LogoutCleared`, `LogoutFails` | `logout()` |
| `Restart` | the process dies, a new client is built over the same storage |

A pair is a login and the number of refreshes since.  A storage write that fails
may have taken effect all the same.  `Exclusive` and `LoadFirst` state how the
application uses the client: which methods it awaits before it calls another,
and whether it loads tokens before the first refresh, as
`docs/TOKEN_FILE_GUIDE.md` and `docs/OAUTH2_IMPLEMENTATION.md` tell it to.  With
`Exclusive = {}` and `LoadFirst = FALSE` it does anything, which
`RefreshIsSingleFlight` is proved for; the runs await `loadTokens()` at least.

### Client

`Client` extends `HttpClient` and instantiates `TokenSession`; a step moves both
where one calls the other.

| Model | Code |
|---|---|
| `ClientInit`, `Provide` | the constructor hands `() => this.tokens` to the transport: what the provider answers after a step is what the session holds then |
| `RequestStep` | the steps of a request that start no refresh |
| `RequestRefreshes` | the transport's `refreshTokens()` calls the session's, which starts a refresh or joins one, in the same step |
| `ApplicationCall` | `authenticate()`, `loadTokens()`, `refreshToken()`, `logout()` |
| `SessionStep`, `RefreshIssued` | the storage and the token endpoint answer the session; the refresh has its pair |
| `RefreshAnswered` | the promise that the session gave the transport settles |
| `PairExpires` | time |

A pair of the session has the number of its place in `held`, the pairs the
session has held so far; `outdated` are the numbers of those that have expired,
which a load may bring back.  `callers` says which call of the session a refresh
of the transport is.  The application awaits alone what it awaits alone (see
`Exclusive`), requests included.

### Resources

The state is the builder that the application holds and the array it passes as
keys.

| Model | Code |
|---|---|
| `Root`, `RootPlural` | `ApiRoot` (`resources/api.ts`) |
| `Select`, `TeamsOfUser`, `Enter` | the methods that make a child: those that take keys, `users().teams()`, the sub-resources |
| `Include`, `Filter`, `Week`, `Date`, `StatsType`, `MatchupWeeks`, `Types`, `TeamKey` | the methods that narrow a builder |
| `Params` | `params()`, which stores what it is given: any parameter of the builder's kind (`ParamsOf`), with any of its values or `undefined` (`ParamValues`) |
| `CopyKeys` | the `[...keys]` of the constructors |
| `Serialized`, `Segment`, `Path`, `HasPath` | `serialize()`, `createChildState()`, `toPath()` and its refusal |
| `Mutate` | the application changes its array in place |

A list that the code copies is its elements; one that it keeps, as `params()`
does, is `Alias`, the application's array, whose elements are read when the path
is made.  `raw` marks a segment whose parameters the application set by name, by
`params()` or `type()`; the properties make no promise for those.

### Frontend

| Model | Code |
|---|---|
| `Observed` | what the regular expressions of the allowlist match: they end at the first `;` |
| `Host` | `routeHost()`, `resolveFrontendRoute()` |
| `Sends` | `YahooFrontendApiClient.request()` reaches `fetch` |
| `SendsResource` | the same through `FrontendResourceTransport` |

The adapter keeps no state; it is a set of operators over the paths that
`Resources` makes.  So a filter on a parent counts: `league/...;out=standings/teams`
is seen as a league and goes to the read-only host.

### Requests

| Model | Code |
|---|---|
| `NewLineup`, `LineupWeek`, `LineupDate`, `MovePlayer`, `Players` | `RosterMoveBuilder` |
| `Conflict`, `HasPayload`, `Payload` | `toPayload()`, `validateCoverageDefaults()` |
| `PutLineup`, `PutObject` | `RosterResource.put()` with a lineup, with a body of the application's |
| `Through`, `Text` | the call up to the first await of the transport; a body turned into a string |
| `Dispatch` | `HttpClient` has its turn: the request is written out and sent |
| `PutSettles` | the promise of `put()` settles, sent or not |
| `Walk` | a step of `Resources` |

`HttpClient` writes an object body out at the dispatch, after the limiter and a
refresh perhaps, and again for each attempt; a lineup is a string by then.  The
adapter writes either out in the call.  `asked` and `stated` are history: what the
body said at the call, and the coverage that was stated of the lineup before it
took over the path's.  `toPayload()` refuses a week on a path by date and the
reverse, but does not compare two weeks (`roster-move-builder.ts:93`): a lineup of
week 2 may be sent to the path of week 1, and `CoverageStated` says that week 2 is
in its body.  Writes are sent once, by `WritesSentOnce` of `HttpClient`, so one
`Dispatch` is enough here.

`Walk` leaves out interleavings in which a builder is made while a lineup is
being edited or a write is in progress.  Builders are values, so that the steps
it leaves out commute with those of the lineup and of the write.  Changes of the
arrays, of the lineup and of the object stay possible at any time.

### Contract, XmlParser, Responses and Documents

`Contract` translates every interface of `normalized.ts` into what its fields
hold: a scalar of some types, an object, an array in a plural wrapper, a scalar
that repeats, the map of weeks.

| Model | Code |
|---|---|
| `TagValue`, `XmlValue`, `BooleanProps` | `yahooXMLParser` and its `tagValueProcessor`; `ParseValue` is `parseTagValue` of fast-xml-parser |
| `Unwrap`, `WeekFlags`, `EmptyAsArray`, `NormalizeFields`, `ArrayMapping` | what `normalizeArrays()` does to the fields of an object, in its order; `NormalizeArrays` goes on inside of them |
| `ParseYahooXML` | `parseYahooXML()` |
| `IsPluralOf`, `DetectArrayPatterns` | `detectArrayPatterns()` |
| `ReadBody`, `ErrorClass`, `Response` | the end of `HttpClient.request()` for the last attempt; `ErrorDescription` is `parseXMLError()`, and `Description` what either parser finds: a description that is empty or reads as zero is none |
| `OpenElement`, `WriteText`, `CloseElement`, `Answer` | Yahoo writes a document, element by element, and sends it with a status |

The value of an element is made when the element ends (`Ended`), so that it needs no
recursion; `normalizeArrays()` does.  `Responses` takes what it makes of inner values
as a parameter, `Normalized`; `Documents` has the recursive definition, and the run
gives it to the parameter: so the end of a request can be proved about, and what is read is checked as it is.

A document is written as the contract allows, so that `ReadsAsDeclared` can
compare what the code makes of it with what was meant.  A text is known by its
looks: `"0"`, `"1"`, `"2"`, `"12"` are numerals, `"007"` has a leading zero, `"true"`
is a boolean word, `"abc"` is none of these.  A field that is declared a string may
hold any of them but `"1"` and `"2"`, a flag `"0"`, `"1"` or `"2"`, a number a numeral
or nothing.

### RouteCatalog and RouteVerifier

`RouteCatalog` lists the routes of `static-route-definitions.ts` with the
placeholders of their paths, the sports they are for and what must come back.

| Model | Code |
|---|---|
| `ReadArgument`, `BadArgument`, `Start` | `parseCliArgs()`, `parseSports()`, `selectRoutes()`, `main()` up to the first request, dry runs included |
| `OverrideChoices`, `Configure` | `YAHOO_ROUTE_PROFILES_JSON`, the defaults beside it, and the public league that hockey has without it |
| `buildScenarioContext`, `resolveTemplate` | the fixtures a scenario sees: those of its mode hide those of the profile, and `X_KEY` and `X_KEYS` are made from each other where one is missing |
| `DiscoverGame` ... `DiscoverTransactions` | the steps of `discoverProfile()`, one request each: skipped, failed, or something is learned |
| `instantiateScenarios`, `runScenario` | one scenario per route and sport; `Judge` is the verdict on an answer, `Reject` on an error, by `assessFailure` |
| `StaleLeague`, `LearnGame` | `static-route-verifier.ts:563-575`: the game and season that were found, and the public league of another game, which is dropped with its lists and teams |
| `hasBlockingResults`, `Report` | the exit code |

A key is known by its game, this season's (`"now"`) or an earlier one's, and its
league; a list of keys is known by those of its keys.  Any fixture may be configured
in any context, beside any others and of either season (`OverridesAssumption`).
`known`, `configured` (the profiles before the discovery) and the `path` and
`evidence` of a result are history.  Yahoo's answers are whatever the code can tell
apart.

## What each run checks

| Run | Question | Result |
|---|---|---|
| `limiter` | five callers, two places, sleeps that may reject: does the window bound hold, is the chain a mutex and first come first served, does nobody oversleep, does everybody leave `wait()`, does the limiter implement `SlidingWindow`? | holds |
| `session_startup` | when `loadTokens()` is awaited before the first refresh and everything else happens at any time, across a crash: is the refresh single flight, is no refresh token presented twice, does no older pair of a login come back, does every call settle, does a refresh always make way? | holds |
| `session_awaited` | when all but refreshes is awaited alone: do memory and storage agree, does a crash lose one refresh at most, is logout final, does a login prevail over refreshes of an earlier one? | holds |
| `session_logout` | is logout final when a refresh is in flight? | violated |
| `http` | reads and writes in all modes: are writes sent once, reads boundedly often, refreshes one at a time, is no exchanged pair presented again by an owner that gives out new ones, and no good pair refreshed; does every request settle and every refresh make way? | holds |
| `http_throw` | does a refresh make way when the callback may throw synchronously? | violated |
| `transport` | with the limiter in the loop: are requests sent within the rolling bound if no refresh delays them after their admission, and is the composition an `HttpClient`, fairness included? | holds |
| `client` | whatever requests and the application do together: is the session an owner as `HttpClient` assumes one, and does a refresh of the transport that starts one of the session end with the next pair of the same login? | holds |
| `transport_burst` | does no window hold more dispatches than the limit? | violated |
| `requests` | after any chain of fluent calls: is the path fixed, has each segment one coverage, do waivers name their team; does the adapter send only what it should, and is a lineup sent as asked, for the week or date that was stated of it? | holds |
| `stats_type` | does the type of a stats segment fit the coverage it carries? | violated |
| `data` | for every document within the bounds: has a response the structure that the contract declares, does it say what the document says, are wrappers recognized, is an error never content; for every run of the verifier, with fixtures of two seasons: is exit code 0 backed by evidence, do found keys agree with those they were found from, are known keys not lost? | holds |

What `session_startup` needs is a fact about the code worth knowing: without the
documented order, `loadTokens()` that read the storage before a refresh, and
continues after it, puts a spent pair back into memory and storage.  Similarly
the discipline of `session_awaited` cannot be dropped: concurrent writes land in
either order, and a refresh that outlives an `authenticate()` replaces the new
login by the old one (`client/yahoo.ts:490`).  `docs/` does not ask for it.

What `client` shows needs a word.  A refresh that has obtained its pair stays in
flight while the pair is saved.  When a request draws a 401 with that very pair in
the meantime, its refresh joins the one in flight (`client/yahoo.ts:688`) and is
answered with the pair it wanted replaced.  The request is sent once more with the
refused pair, and its second 401 is final.  And when an `authenticate()` that is not
awaited alone has replaced the login while an explicit `refreshToken()` was in
flight, a request that finds the new pair expired joins that refresh and goes on
with a pair of the other login.  `RefreshAnswers` says that there is no third way in
which a refresh of the transport can end with anything but the next pair, and that
an explicit `refreshToken()` takes part in both.

`data` checks two specifications that share nothing with each other: a behaviour
begins as one of `Documents` or as one of `RouteVerifier` and stays that.

The code reads the type of a value off its text and not off a declaration
(`utils/xmlParser.ts:46`), so `ReadsAsDeclared` does not say that every scalar has
its declared type.  It says that every scalar says what its text says, and has a
declared type where the text looks like one.  What it leaves open is real:

- Strings whose text is a numeral or a boolean word.  The `<edit_key>16</edit_key>` of
  `docs/archive/yahoo-developer-docs-capture-2026-05-14.md:350` is declared
  `string` (`normalized.ts:132`) and read as a number; so are names that users choose.
- Flags whose text is neither 0 nor 1.  `<waiver_time>2</waiver_time>` and
  `<trade_reject_time>2</trade_reject_time>` (:388, :391 there) are declared `boolean`
  (`normalized.ts:263`, `:269`) and left the string "2".

Game keys, which the parser keeps as strings, and the flags of the weeks, which
`normalizeArrays()` converts, are held to their types whatever their texts.

`FixturesAgree` and `GapsAreReal` say what the discovery does with fixtures that were
configured, of whatever season, and their exceptions are what the code does:

- A public league of another game than the one found is dropped, and its teams with
  it; so is a `TEAM_KEY` of the current season that was configured beside it
  (`static-route-verifier.ts:571-574`), as hockey's default league may cause
  (`static-route-config.ts:101`).  Its routes are then reported as lacking a fixture
  that was configured.
- A private `LEAGUE_KEY` of an earlier season is kept beside the team that is found
  (:767-:772), so that the ownership path, which takes a league and a player, mixes
  two seasons.  A key of an earlier season is in a path only if one was
  configured for that mode.
- `PLAYER_KEYS`, `TEAM_KEYS` and `TRANSACTION_KEYS` that are configured without their
  singular are overwritten by what is found (:616, :667); a configured singular is
  what the path has.

The verifier's README (`research/api-path-validation/README.md:92`) prefers the
configured fixtures to discovery and says nothing of these cases.

## Bounds

| Constant | Value | Why it is enough |
|---|---|---|
| `Calls` (limiter) | 5 | two places, a sleeper, and two more in the chain: the window fills, empties and fills again |
| `MaxRequests`, `Window`, `Slack` | 2, 3, 1 | a window that holds more than one, a sleep of more than one unit, a timer that fires before the window has moved |
| `Calls` (session) | 3; 4 for `session_awaited` | a refresh, one that joins it or comes later, and one or two other calls around them |
| `Calls` (client) | 3 | an explicit refresh, a login in between, and the call of the request that joins the refresh; the proofs hold for any number |
| `MaxGen` | 2 | a pair, its successor, and one more: "older" and "spent" differ from "last" |
| `MaxRestarts` | 1 | a crash with anything in progress, then calls of the next process |
| `Requests` | 2; 1 in `client` | one that refreshes, and one that joins it or learns later that its token is no good; in `client` the other that shares a refresh is a call of the application, and the proofs hold for any number |
| `MaxRetries` | 1; 0 with the limiter | a first attempt, a retry, and the attempt a 401 gives back; with the limiter, the attempt a 401 gives back is the second call of `wait()` |
| `MaxTokens` | 2; 3 in `client` | how often the owner gives out a pair, new or not: a pair and one that replaces it, expired, refused or presented too late, or the first one again; the proofs hold for any number |
| `MaxRequests`, `Window` (transport) | 1, 2 | a second request is in a later window, and one admitted earlier is out of the window when it is sent |
| `Items`, `MaxSegments` | 1, 3 | keys or none, so that an array differs before and after; a root, a child and a grandchild, with parameters at any of them; a longer path only repeats what a parent does to its child, and the proofs hold for any length |
| `Weeks`, `Dates` | 2, 1 | a week overwritten by another, by a date, and back |
| `Moves`, `MaxMoves`, `Contents` | 1, 2, 2 | a lineup without moves, with one, and edited afterwards; an object that differs at the dispatch |
| `MaxDepth` | 7 | a document of single children down to the fields of every DTO but four that stand deeper (`BaseStat`, `StatPositionType`, `RemainingGames`, `GamesTotal`) |
| `MaxElements`, `MaxListed` | 5, 8 | siblings of any kind; several items in a wrapper, each with its own, or an empty wrapper beside them |
| `SmallBody` | 2 | the documents that come with any status: an error with its description, content, neither, nothing |
| `StringTexts`, `NumberTexts` | "", "abc", "007", "0", "12", "true"; "", "0", "1", "12" | a text per decision of the parser |
| `OverrideChoices` | 15 profiles, with hockey's default league of either season | nothing; a public league, alone, beside a team or in a list, of this season or the one before; a private league, team, player or lists of either season, alone and mixed; a game of the season before; the proofs hold for any |
| `SportChoices`, `RouteIdChoices`, `MaxScenarios` | NFL or NHL; one route of each kind, and two pairs that share a discovery; 2 | coverage by week or by day; every kind of route alone, and two that use the same fixtures |

Symmetry is used in runs without liveness properties only.  The proofs hold for every value of these
constants.  Deadlock is checked for the limiter, whose clock never stops, and for
the builders, which can always start again.  It is
not for the session, the `HttpClient`, a response and the verifier: calls are made
once, a document is answered once and the verifier exits, so the model really
stops.

## Fairness and environment assumptions

Weak fairness only, and only of what the run-time system does: a promise
continuation that is due runs, a timer fires and time goes by, `fetch` and the
token request settle because each carries a timeout, and the limiter lets its
callers through (`NoStarvation`; `transport` checks that this gives
`HttpClient` the fairness it assumes).  That the promises of its owner settle,
which `HttpClient` assumes as well, is `EveryCallSettles` of the session.  The
application's storage is assumed to
settle; the code puts no timeout on it, and a storage that hangs blocks the
callers of a refresh.  Nobody has to call anything, and no failure has to
happen.

The clock does not step back.  Yahoo rotates the refresh token with each
refresh, and every response carries one.

## Findings

1. `client/yahoo.ts:693` (`session_logout`): a refresh that is in flight when
   `logout()` is called sets and saves the new tokens after `logout()` has
   resolved.  `docs/OAUTH2_IMPLEMENTATION.md:18` says "`logout()` clears
   in-memory and stored tokens."
2. `client/http.ts:685` (`http_throw`): a refresh callback that throws before it
   returns a promise ends the async function before its result is assigned to
   `refreshInFlight`.  Its `finally` clears the field too early, the rejected
   promise stays, and every later refresh joins it.  `plans/004-harden-transport-oauth.md:113`
   says "Rejection must be shared and a later attempt must be able to retry."
   The client's own callback is an async function and does not do this; one
   given to `setTokenRefreshCallback` may.

3. `client/http.ts:420` (`transport_burst`): a request is admitted and then
   awaits a refresh, so it is sent in a later window than the one it was
   admitted in, beside those admitted there.  With the real limits, 20 requests
   that wait for one refresh and 20 admitted while it ran are sent together.
   `utils/constants.ts:68` says "Maximum requests per rate limit window", and
   the test at `client/http.test.ts:1257` counts the fetches of each window.

4. `resources/player.ts:266` (`stats_type`): `date()` of a player's stats keeps a
   type that is set, so that `.week(3).date('2024-10-01')` asks for
   `;date=2024-10-01;type=week`.  A team's stats builder overwrites it.
   `docs/yahoo-fantasy-api-guide/PATH_REFERENCE_TABLE.md:60` lists "`type=week;week=...`"
   and "`type=date;date=...`".

## What is proved

Every theorem holds for all values of the constants that satisfy the modules'
assumptions, and tlapm checks every leaf.  The type invariants of the limiter, the
transport and the session are proved and not repeated in the runs.

**RateLimiter.**  `TypeCorrect`; `ChainIsFair` (`FirstComeFirstServed`,
`OneInLoop`); `WindowRespected`; `NeverOversleeps`; `LimiterImplementsSlidingWindow`.
None of these is inductive alone.  The chain needs to be described as a line:
each invocation awaits the one that called just before it, the last is
`admission`, and an invocation past its first await is released or the only one
inside.  From that, being in the loop means that all earlier ones have left.
The window bound needs that `requests` forgets only admissions older than the
window.  The refinement follows: in the loop means first in line, and the live
entries are exactly the abstract `Recent`.

**TokenSession.**  `SessionTypeCorrect`; `RefreshIsSingleFlight` for any
application (an active refresh is the one `refreshInFlight` names); and, for
one that awaits all but refreshes, `StorageStaysCurrent`, `LogoutIsFinal`,
`CrashLosesOneRefresh` and `LoginsPrevail`.  Their invariant says that a call in progress is alone
but for refreshes, an active refresh has callers that await it, and what is
being saved is what memory holds; so two writes are never in progress together,
and while one is, the storage is exactly one step behind.  For an application
that awaits `loadTokens()` before the first refresh, and does as it likes
otherwise, `NoTokenReused` and `PairsAdvance` rest on another invariant: a pair
that was exchanged is older than the one in memory, and than the one presented,
if it is of the same login; a login exists nowhere before its code is exchanged;
and until the first refresh neither the storage nor what is being written to it
is behind memory, so that a load cannot set the session back.

**HttpClient.**  `TransportTypeCorrect`; `WritesAreSentOnce`;
`DispatchesAreBounded`; `RefreshesAreShared` (`OneRefreshAtATime`,
`OneRefreshPerPair`, `RefreshesNeeded`).  The bound on dispatches needs an
account per request: what it has sent equals its attempts, plus the one given
back, as far as its place in the loop has used them.  That no pair
that was exchanged is presented again needs that pairs are numbered in order of issue, a pending refresh started
from the newest pair not yet replaced by it, and a resolved one from a pair older
than the newest.  It is stated for an owner that gives out new pairs (`reuses = 0`);
everything else holds of an owner that goes back to earlier pairs too.

**Client.**  `ClientIsHttpClient` and `ClientUsesSession`: the composition refines
both of its parts, so that what is proved of `HttpClient` holds of a client's
requests, and what is proved of the session holds beside requests that refresh on
their own: `ClientReusesNoToken`.  The refinement needs to know what the numbers
stand for: each pair is held once and the provider answers the number of the
session's pair; the pair in memory, and one that is presented, is the latest of its login held so
far, so that what a refresh obtains is always a new number; and each refresh of the transport
has a call of the session that awaits a flight, whose result is what that refresh
was issued.  `RefreshesAreAnswered` proves `RefreshAnswers` for every application that awaits
`loadTokens()` alone.  It adds to the invariant that the pair a flight obtains is the
next one after the pair it presented, and that a refresh of the transport and the
flight it awaits were started for the same pair, unless the flight had its pair
already, or is an explicit one and a login came in between; where `authenticate()` is
awaited alone, no login replaces the tokens while a refresh is under way.

What the client inherits is stated of it by name: `ClientSharesRefreshes`
(`SingleRefresh` of the session, and `OneRefreshAtATime`, `OneRefreshPerPair`,
`RefreshesNeeded` of the transport), `ClientSendsOnce` (`WritesSentOnce`,
`DispatchesBounded`), `ClientPairsAdvance` (`NoRollback`), and, for an application
that awaits all but `refreshToken()` alone, `ClientKeepsItsLogin` (`StorageCurrent`,
`OneRefreshBehind`, `LogoutClears`, `LoginPrevails`).

**Who waits for whom.**  Liveness stays with TLC, but what it needs beside fairness is
a safety property, and that is proved: nobody ever waits for what can no longer
happen.  `ChainGoesOn`: whoever waits in the limiter's chain has in front of it
somebody whose promise is released, who sleeps, or who is at work.  `NoRefreshHangs`: a call of the session that
awaits a refresh awaits one that is active or has ended, and `refreshInFlight` names
an active refresh or none.  `RefreshesMakeWay`: the same of the transport's requests
and its own field, if the callback returns a promise (`ThrowingOwner = FALSE`; with
one that throws it is false, and finding 2 shows it).  `RequestsAreNotForgotten` joins them through the layers of the
client, from a request down to the token endpoint and the storage.

**Responses.**  `AnswersStayHonest` proves `AnswersAreHonest` for documents of every
depth and size, all texts, and whatever `normalizeArrays()` makes of the fields of
the content.  Its invariant says that elements stand where the contract allows them,
so that an error holds nothing but descriptions and content has no text of its own:
the one is then read as an object whose description is found unless it is empty, the other as an object exactly
when it holds anything, and normalization keeps an object an object.

**Transport.**  `TransportIsHttpClient` and `TransportUsesLimiter`: the
composition refines both of its parts, so that whatever is proved of
`HttpClient` holds of requests that go through the limiter
(`WritesSentOnceInTransport`).  `PromptRateHolds`: the rolling bound of what is
sent without a wait in between.  Its invariant says that a request at its
admission has a call of `wait()` in line, that one that refreshes before it is
sent holds a call that was let through, and so has everything that was sent.

**Requests.**  `RequestsTypeCorrect`, `PathsAreFixed`, `CoverageIsOne`,
`LineupsSentAsCalled`, `CoverageIsStated`, `FrontendWritesLineups`, for paths
of any length and any keys, weeks, dates and lineups.  Each step of `Resources`
is a parent that is serialized, or parameters that are replaced, so the
invariant is kept per kind of step and not per method: builders have the
parameters of their kind, only those marked `raw` share an array, a segment that
is not marked has one coverage, and a team with a parent cannot be, since teams
start a path.  For writes it adds that a lineup that waits equals what was asked
and covers what was stated of it, or else what its path does; what the allowlist sees of a path with a roster at its
end is `team/roster` only when nothing is hidden behind it, which needs the
invariant on teams.  `WaiversNameTheirTeam` follows from `toPath()` alone.
`FrontendIsGuarded` needs no invariant of the builders either: what the adapter
sees of a path is a prefix of its names, and every route of the allowlist decides
a path by its first names.

**RouteVerifier.**  `ExitIsEvidence`, `PathsAgree` and `NothingIsForgotten`, for
any arguments, any fixtures that are configured, and any answers and failures of
Yahoo.  All that is assumed of the configuration is that its keys are of this season
or of an earlier one (`OverridesAssumption`).  The invariant has three parts.  Each
of the seven discovery steps relates the profile to the one that was configured: what
both modes share is what was configured and the current game; public keys that were
found are players, or teams of the configured league; private ones are a team with its
league, players of the team and transactions of the league; and a single key that was
configured is still there, unless it went with a refused league.  What is known stays
visible: a step hides no key that a scenario saw, but for that league and its teams.
And the scenarios tried and those to come are all there are, with each status backed
by what it claims.  The rest is said of the catalog: no known-invalid route expects an
authorization or a transient failure, and there are finitely many routes, so that the
list of scenarios contains each of them.

## What is only model-checked

Liveness (`NoStarvation`, the fairness part of `ImplementsHttpClient`, `EveryCallSettles`, `RefreshMakesWay`,
`RequestsSettle`, `RefreshRecovers`) is beyond the prover and stays with TLC.  It is not checked of `Client`, whose states
are too many to explore without symmetry; `RequestsAreNotForgotten` is what is known
of it there.
`ReadsAsDeclared` and `PatternsAreWrappers` speak of what recursive definitions
compute on documents of any depth, which needs induction over data; they stay with
TLC too.

## What is not modelled

- Delay values: `getRetryDelay`, `parseRetryAfter`; the model lets a delay end
  at any time.
- Expiry arithmetic: `TokenExpires` may happen at any time.
- URLs, headers, error messages; bodies other than those of a roster.
- XML below the level of elements and texts: attributes, entities, the conversion
  of tag names.  A text is one of a few looks.
- The keys of single resources, and the order of parameters.  Filters that only
  store their argument are one filter.
- The transaction builders: fields that are set, copied and tested once, which no
  resource sends.  Validators and formatters: strings, character by character.
  OAuth 1.0 signing: one function of strings and a digest.  There is nothing in
  them for an interleaving or a sequence of calls to break.
- What happens to a response of the adapter: its errors keep no state.
- A wall clock that steps back; a token response without a refresh token or
  without `expires_in`.
- The verifier's report, the dumps of responses and its authorization: files and
  prompts.
- Types of arguments, constants, entry point, the other research, scripts,
  examples and the cookie tool: no behaviour of the package.

## Plan

Done: `SlidingWindow`, `RateLimiter`, `TokenSession`, `HttpClient`, `Transport`,
`Client`, `Resources`, `Frontend`, `Requests`, `Contract`, `XmlParser`, `Responses`,
`Documents`, `RouteCatalog`, `RouteVerifier`, and proofs for each component that keeps
state and for what a request resolves with.  Next, in order of importance:

1. Token responses without a refresh token or without `expires_in`
   (`auth/oauth2.ts:305`), as outcomes of `TokenEndpointStep`, with the proofs of
   the session and of the client redone for them.
2. `RateLimiter` with a clock that steps back (`client/http.ts:97`).

## Running the checks

    tlc -config RateLimiter.cfg MCRateLimiter.tla
    tlapm RateLimiterProofs.tla

and likewise for the other runs and proof modules of `PROJECT.json`.
