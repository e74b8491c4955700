----------------------------- MODULE Resources -----------------------------
(***************************************************************************)
(* The fluent resource builders (src/resources): an application walks from *)
(* a root resource to its children, narrows each with filters, and ends    *)
(* with a path.  A builder is a value; every call makes a new one.  What a *)
(* value may share with the application is an array it was given.          *)
(*                                                                         *)
(* Left out: the keys of single resources, which no property needs, and    *)
(* the order of parameters.  All filters that only store their argument    *)
(* are one, "filter", and all names that include() takes are one.          *)
(***************************************************************************)
EXTENDS Naturals, Sequences

CONSTANTS
  Items,        \* the keys a plural resource selects
  Weeks, Dates,
  MaxSegments,  \* bound on the length of a path
  Undefined,    \* a parameter that is not set
  Blank,        \* the empty string
  Alias         \* a reference to the application's array

VARIABLES
  resource,  \* the builder the application holds
  array      \* the elements of the array it passes as keys

vars == <<resource, array>>

Single == {"game", "league", "team", "player"}
Plural == {"games", "leagues", "teams", "players", "transactions"}
SubResource == {"roster", "matchups", "team stats", "player stats",
                "ownership", "percent_owned"}
Kinds == Single \cup Plural \cup SubResource \cup {"users"}

ListParams == {"keys", "out", "weeks", "types"}
ParamNames == ListParams \cup
              {"filter", "week", "date", "type", "team_key"}

NoParams == [name \in ParamNames |-> Undefined]

TransactionTypes == {"trade", "waiver", "pending_trade"}
StatsTypes == {"season", "week", "date"}

ASSUME ResourcesAssumption ==
  /\ MaxSegments \in Nat \ {0}
  /\ Undefined \notin Weeks \cup Dates \cup StatsTypes \cup TransactionTypes
  /\ Undefined \notin {"team", Blank, Alias} /\ Blank # "team"
  /\ Blank \notin Weeks \cup Dates
  /\ Weeks \cap Dates = {}
  /\ \A list \in (SUBSET Items) \cup (SUBSET Weeks) \cup
                (SUBSET TransactionTypes) \cup (SUBSET {"expansion"}):
       list # Alias

-----------------------------------------------------------------------------
\* The elements a list parameter has when it is read.
Content(list) == IF list = Alias THEN array ELSE list

\* mutant: the caller's array is kept
CopyKeysShared == Alias

\* `[...keys]`: what the array holds now.
CopyKeys == array

\* serializeParams() drops what is undefined, blank or an empty list.
Serialized(params) ==
  [name \in ParamNames |->
     IF \/ params[name] \in {Undefined, Blank}
        \/ name \in ListParams /\ Content(params[name]) = {}
     THEN Undefined
     ELSE IF name \in ListParams THEN Content(params[name])
     ELSE params[name]]

\* What serialize() and createChildState() make of a builder.
Segment(r) == [kind |-> r.kind, params |-> Serialized(r.params), raw |-> r.raw]
Path(r) == Append(r.segments, Segment(r))

\* mutant: type, which only params() can set, is forgotten
RequestedTypesFluent(params) ==
  IF params.types = Undefined THEN {} ELSE Content(params.types)

\* validateSpecialTypeFilters()
RequestedTypes(params) ==
  (IF params.type = Undefined THEN {} ELSE {params.type})
    \cup (IF params.types = Undefined THEN {} ELSE Content(params.types))

\* toPath() returns; otherwise it throws a ValidationError.
HasPath(r) ==
  r.kind = "transactions" =>
    \/ r.params.team_key \notin {Undefined, Blank}
    \/ RequestedTypes(r.params) \cap {"waiver", "pending_trade"} = {}

-----------------------------------------------------------------------------
\* `raw` is history: params(), or type(), was called on this builder or on
\* one it was cloned from, so that the application answers for the outcome.
\* It stays with the segment that the builder becomes.
NewBuilder(kind, segments, params) ==
  /\ resource' = [kind |-> kind, segments |-> segments, params |-> params,
                  raw |-> FALSE]
  /\ UNCHANGED array

\* createChildState() serializes the parent once and for all.
NewChild(kind, params) ==
  /\ Len(resource.segments) + 1 < MaxSegments
  /\ NewBuilder(kind, Path(resource), params)

CloneWith(params) ==
  /\ resource' = [resource EXCEPT !.params = params]
  /\ UNCHANGED array

Selecting(selected) ==
  [NoParams EXCEPT !["keys"] = selected, !["out"] = {}]

-----------------------------------------------------------------------------
(* ApiRoot *)
Root(kind) ==
  NewBuilder(kind, <<>>, [NoParams EXCEPT !["out"] = {}])

\* requireRootKeys() refuses an empty array.
RootPlural(kind) ==
  /\ array # {}
  /\ NewBuilder(kind, <<>>, Selecting(CopyKeys))

\* The children that take an array of keys.  Only the games of a user have
\* teams.
Selectable(r) ==
  CASE r.kind = "users" -> {"games"}
    [] r.kind = "game" -> {"players", "leagues"}
    [] r.kind = "games" -> {"players", "leagues"} \cup
                           (IF r.segments = <<>> THEN {} ELSE {"teams"})
    [] r.kind \in {"league", "leagues"} -> {"teams", "players", "transactions"}
    [] r.kind = "roster" -> {"players"}
    [] OTHER -> {}

Select(kind) ==
  /\ kind \in Selectable(resource)
  /\ resource.kind = "game" /\ kind = "leagues" => array # {}
  /\ NewChild(kind, Selecting(CopyKeys))

TeamsOfUser ==
  /\ resource.kind = "users"
  /\ NewChild("teams", Selecting({}))

SubResourcesOf(kind) ==
  CASE kind \in {"team", "teams"} -> {"roster", "matchups", "team stats"}
    [] kind \in {"player", "players"} ->
         {"player stats", "ownership", "percent_owned"}
    [] OTHER -> {}

Enter(kind) ==
  /\ kind \in SubResourcesOf(resource.kind)
  /\ NewChild(kind, NoParams)

-----------------------------------------------------------------------------
(* The methods that narrow a builder *)
Include ==
  /\ resource.kind \in Single \cup Plural
  /\ CloneWith([resource.params EXCEPT
                  !["out"] = resource.params.out \cup {"expansion"}])

Filter ==
  /\ resource.kind \in {"players", "transactions"}
  /\ CloneWith([resource.params EXCEPT !["filter"] = "set"])

\* The type that week() and date() of a stats builder leave behind: a team's
\* is overwritten, a player's stays if there is one.
CoverageType(type) ==
  CASE resource.kind = "team stats" -> type
    [] resource.kind = "player stats" /\ resource.params.type = Undefined -> type
    [] OTHER -> resource.params.type

\* mutant: the week stays
WithDateToo(d) ==
  [resource.params EXCEPT !["date"] = d, !["type"] = CoverageType("date")]

\* The parameters after week() and date(), which exclude each other.
WithWeek(w) ==
  [resource.params EXCEPT !["week"] = w, !["date"] = Undefined,
                          !["type"] = CoverageType("week")]
WithDate(d) ==
  [resource.params EXCEPT !["date"] = d, !["week"] = Undefined,
                          !["type"] = CoverageType("date")]

Covered == {"roster", "players", "team stats", "player stats"}

Week(w) == resource.kind \in Covered /\ CloneWith(WithWeek(w))
Date(d) == resource.kind \in Covered /\ CloneWith(WithDate(d))

StatsType(type) ==
  /\ resource.kind = "player stats"
  /\ resource' = [resource EXCEPT !.params["type"] = type, !.raw = TRUE]
  /\ UNCHANGED array

MatchupWeeks(weeks) ==
  /\ resource.kind = "matchups"
  /\ CloneWith([resource.params EXCEPT !["weeks"] = weeks])

Types(types) ==
  /\ resource.kind = "transactions"
  /\ CloneWith([resource.params EXCEPT !["types"] = types])

TeamKey(key) ==
  /\ resource.kind = "transactions"
  /\ CloneWith([resource.params EXCEPT !["team_key"] = key])

\* The parameters that the type of a kind of resource has.
ParamsOf(kind) ==
  {name \in ParamNames:
     \/ name = "out" /\ kind \in Single \cup Plural
     \/ name = "keys" /\ kind \in Plural
     \/ name \in {"week", "date"} /\ kind \in Covered
     \/ name = "weeks" /\ kind = "matchups"
     \/ name = "filter" /\ kind \in {"players", "transactions"}
     \/ name \in {"types", "team_key"} /\ kind = "transactions"
     \/ name = "type" /\ kind \in {"team stats", "player stats", "transactions"}}

ParamValues(kind, name) ==
  CASE name = "keys" -> {Undefined, Alias} \cup SUBSET Items
    [] name = "out" -> IF kind \in SubResource THEN {Undefined}
                       ELSE SUBSET {"expansion"}
    [] name = "weeks" -> {Undefined} \cup SUBSET Weeks
    [] name = "types" -> {Undefined} \cup SUBSET TransactionTypes
    [] name = "filter" -> {Undefined, "set"}
    [] name = "week" -> {Undefined} \cup Weeks
    [] name = "date" -> {Undefined} \cup Dates
    [] name = "type" -> {Undefined} \cup (IF kind = "transactions"
                                           THEN TransactionTypes ELSE StatsTypes)
    [] name = "team_key" -> {Undefined, Blank, "team"}

\* params(): any parameter of the builder, as it is given.
Params(name, value) ==
  /\ name \in ParamsOf(resource.kind) /\ value \in ParamValues(resource.kind, name)
  /\ resource' = [resource EXCEPT !.params[name] = value, !.raw = TRUE]
  /\ UNCHANGED array

\* The application changes its array in place.
Mutate(elements) ==
  /\ elements # array
  /\ array' = elements
  /\ UNCHANGED resource

-----------------------------------------------------------------------------
Init ==
  /\ array \in SUBSET Items
  /\ resource = [kind |-> "users", segments |-> <<>>,
                 params |-> [NoParams EXCEPT !["out"] = {}], raw |-> FALSE]

Start ==
  \/ \E kind \in Single \cup {"users"}: Root(kind)
  \/ \E kind \in Plural \ {"transactions"}: RootPlural(kind)

Descend ==
  \/ \E kind \in Plural: Select(kind)
  \/ TeamsOfUser
  \/ \E kind \in SubResource: Enter(kind)

Narrow ==
  \/ Include
  \/ Filter
  \/ \E w \in Weeks: Week(w)
  \/ \E d \in Dates: Date(d)
  \/ \E type \in StatsTypes: StatsType(type)
  \/ \E weeks \in SUBSET Weeks: MatchupWeeks(weeks)
  \/ \E types \in SUBSET TransactionTypes: Types(types)
  \/ \E key \in {"team", Blank}: TeamKey(key)
  \/ \E name \in ParamsOf(resource.kind):
       \E value \in ParamValues(resource.kind, name): Params(name, value)

Next ==
  \/ Start
  \/ Descend
  \/ Narrow
  \/ \E elements \in SUBSET Items: Mutate(elements)

Spec == Init /\ [][Next]_vars

-----------------------------------------------------------------------------
(* Properties *)

\* A builder has the parameters of its kind; in particular one whose names
\* include() extends has a list of them, and a sub-resource has a parent.
ResourceTypeOK ==
  /\ array \in SUBSET Items
  /\ resource.kind \in Kinds /\ resource.raw \in BOOLEAN
  /\ Len(resource.segments) < MaxSegments
  /\ resource.kind \in SubResource => resource.segments # <<>>
  /\ DOMAIN resource.params = ParamNames
  /\ \A name \in ParamNames:
       resource.params[name] \in ParamValues(resource.kind, name)

\* A path is fixed when its builder is made: what the application does with
\* the arrays it passed changes neither the builder nor, through params(), a
\* child of it.
PathsFixed ==
  [][resource' = resource /\ ~resource.raw => Path(resource)' = Path(resource)]_vars

\* No chain of calls puts a week and a date on one segment of a path.
OneCoverage ==
  \A i \in DOMAIN Path(resource):
    LET segment == Path(resource)[i] IN
    ~segment.raw => segment.params["week"] = Undefined \/ segment.params["date"] = Undefined

\* A path that asks for waivers or pending trades, by either parameter, names
\* a team in it.
WaiverHasTeam ==
  LET asked == Segment(resource).params
      special == {"waiver", "pending_trade"} IN
  HasPath(resource) /\ resource.kind = "transactions" /\ asked["team_key"] = Undefined =>
    /\ asked["type"] \notin special
    /\ asked["types"] # Undefined => asked["types"] \cap special = {}

\* A stats segment names the coverage whose value it carries.
StatsTypeFits ==
  \A i \in DOMAIN Path(resource):
    LET segment == Path(resource)[i] IN
    ~segment.raw /\ segment.kind \in {"team stats", "player stats"} =>
      /\ segment.params["type"] = "week" => segment.params["date"] = Undefined
      /\ segment.params["type"] = "date" => segment.params["week"] = Undefined
=============================================================================
