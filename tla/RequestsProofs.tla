--------------------------- MODULE RequestsProofs ---------------------------
(***************************************************************************)
(* Theorems about the builders and the writes of Requests, for all keys,   *)
(* weeks, dates, moves and depths of paths.                                *)
(***************************************************************************)
EXTENDS Requests, TLAPS

-----------------------------------------------------------------------------
(* Builders are well typed *)

Values ==
  {Undefined, Blank, Alias, "set", "team"} \cup Weeks \cup Dates
    \cup StatsTypes \cup TransactionTypes
    \cup (SUBSET Items) \cup (SUBSET Weeks) \cup (SUBSET TransactionTypes)
    \cup (SUBSET {"expansion"})

Segments == [kind: Kinds, params: [ParamNames -> Values], raw: BOOLEAN]

Typed(kind, params) ==
  /\ params \in [ParamNames -> Values]
  /\ \A name \in ParamNames: params[name] \in ParamValues(kind, name)

Builders ==
  [kind: Kinds, segments: Seq(Segments), params: [ParamNames -> Values],
   raw: BOOLEAN]

Typing ==
  /\ array \in SUBSET Items
  /\ resource \in Builders
  /\ Typed(resource.kind, resource.params)
  /\ Len(resource.segments) < MaxSegments
  /\ resource.kind \in SubResource => resource.segments # <<>>

\* A segment is made of the parameters of its builder.
LEMMA SegmentTyped ==
  ASSUME array \in SUBSET Items, resource \in Builders
  PROVE  /\ Segment(resource) \in Segments
         /\ Path(resource) \in Seq(Segments)
         /\ Len(Path(resource)) = Len(resource.segments) + 1
<1>1. ASSUME NEW name \in ParamNames
      PROVE  Serialized(resource.params)[name] \in Values
  <2>1. resource.params[name] \in Values
    BY DEF Builders
  <2>2. Content(resource.params[name]) \in Values
    BY <2>1 DEF Content, Values
  <2> QED BY <2>1, <2>2 DEF Serialized, Values
<1>2. Serialized(resource.params) \in [ParamNames -> Values]
  BY <1>1 DEF Serialized
<1>3. Segment(resource) \in Segments
  BY <1>2 DEF Segment, Builders, Segments
<1> QED BY <1>3 DEF Path, Builders

\* Values that a parameter may take keep the parameters well typed.
LEMMA UpdateTyped ==
  ASSUME NEW kind, NEW params, Typed(kind, params),
         NEW name \in ParamNames, NEW value \in Values,
         value \in ParamValues(kind, name)
  PROVE  Typed(kind, [params EXCEPT ![name] = value])
BY DEF Typed

LEMMA NoParamsTyped ==
  ASSUME NEW kind \in Kinds
  PROVE  /\ kind \in SubResource => Typed(kind, NoParams)
         /\ kind \notin SubResource =>
              /\ Typed(kind, [NoParams EXCEPT !["out"] = {}])
              /\ \A selected \in SUBSET Items: Typed(kind, Selecting(selected))
BY DEF Typed, NoParams, Selecting, ParamValues, Values, ParamNames, ListParams

LEMMA NewBuilderTyped ==
  ASSUME Typing, NEW kind \in Kinds, NEW segments \in Seq(Segments),
         NEW params, Typed(kind, params), Len(segments) < MaxSegments,
         kind \in SubResource => segments # <<>>,
         NewBuilder(kind, segments, params)
  PROVE  Typing'
BY DEF Typing, NewBuilder, Builders, Typed, ParamValues

LEMMA NewChildTyped ==
  ASSUME Typing, NEW kind \in Kinds, NEW params, Typed(kind, params),
         NewChild(kind, params)
  PROVE  Typing'
<1>1. /\ Path(resource) \in Seq(Segments)
      /\ Len(Path(resource)) = Len(resource.segments) + 1
  BY SegmentTyped DEF Typing
<1>2. Len(Path(resource)) < MaxSegments /\ Path(resource) # <<>>
  BY <1>1 DEF NewChild, Typing, Builders
<1> QED BY <1>1, <1>2, NewBuilderTyped DEF NewChild

LEMMA CloneTyped ==
  ASSUME Typing, NEW params, NEW raw \in BOOLEAN,
         Typed(resource.kind, params),
         resource' = [resource EXCEPT !.params = params, !.raw = raw],
         UNCHANGED array
  PROVE  Typing'
BY DEF Typing, Builders, Typed, ParamValues

LEMMA StartTyped == ASSUME Typing, Start PROVE Typing'
<1>1. MaxSegments \in Nat \ {0} /\ array \in SUBSET Items
  BY ResourcesAssumption DEF Typing
<1>2. /\ <<>> \in Seq(Segments)
      /\ Len(<<>>) < MaxSegments
  BY <1>1
<1>3. ASSUME NEW kind \in Single \cup {"users"}, Root(kind) PROVE Typing'
  <2>1. kind \in Kinds \ SubResource
    BY DEF Kinds, Single, SubResource
  <2> QED BY <1>2, <1>3, <2>1, NoParamsTyped, NewBuilderTyped DEF Root
<1>4. ASSUME NEW kind \in Plural, RootPlural(kind) PROVE Typing'
  <2>1. kind \in Kinds \ SubResource
    BY DEF Kinds, Plural, SubResource
  <2> QED BY <1>1, <1>2, <1>4, <2>1, NoParamsTyped, NewBuilderTyped
          DEF RootPlural, CopyKeys
<1> QED BY <1>3, <1>4 DEF Start

LEMMA DescendTyped == ASSUME Typing, Descend PROVE Typing'
<1>1. array \in SUBSET Items /\ {} \in SUBSET Items
  BY DEF Typing
<1>2. ASSUME NEW kind \in Plural, Select(kind) PROVE Typing'
  <2>1. kind \in Kinds \ SubResource
    BY DEF Kinds, Plural, SubResource
  <2> QED BY <1>1, <1>2, <2>1, NoParamsTyped, NewChildTyped DEF Select, CopyKeys
<1>3. ASSUME TeamsOfUser PROVE Typing'
  <2>1. "teams" \in Kinds \ SubResource
    BY DEF Kinds, Plural, SubResource
  <2> QED BY <1>1, <1>3, <2>1, NoParamsTyped, NewChildTyped DEF TeamsOfUser
<1>4. ASSUME NEW kind \in SubResource, Enter(kind) PROVE Typing'
  <2>1. kind \in Kinds
    BY DEF Kinds
  <2> QED BY <1>4, <2>1, NoParamsTyped, NewChildTyped DEF Enter
<1> QED BY <1>2, <1>3, <1>4 DEF Descend

\* A builder whose filter has changed is typed if the filter is.
LEMMA FilterTyped ==
  ASSUME Typing, NEW name \in ParamNames, NEW value \in Values,
         value \in ParamValues(resource.kind, name),
         CloneWith([resource.params EXCEPT ![name] = value])
  PROVE  Typing'
<1>1. Typed(resource.kind, [resource.params EXCEPT ![name] = value])
  BY UpdateTyped DEF Typing
<1>2. resource' = [resource EXCEPT !.params = [resource.params EXCEPT ![name] = value],
                                   !.raw = resource.raw]
  BY DEF CloneWith, Typing, Builders
<1>3. resource.raw \in BOOLEAN
  BY DEF Typing, Builders
<1> QED BY <1>1, <1>2, <1>3, CloneTyped DEF CloneWith

LEMMA CoverageTyped ==
  ASSUME Typing
  PROVE  /\ \A w \in Weeks: Typed(resource.kind, WithWeek(w))
         /\ \A d \in Dates: Typed(resource.kind, WithDate(d))
<1>1. Typed(resource.kind, resource.params)
  BY DEF Typing
<1>2. /\ {"week", "date", "type"} \subseteq ParamNames
      /\ Weeks \cup Dates \cup {Undefined} \subseteq Values
      /\ StatsTypes \subseteq Values
  BY DEF ParamNames, Values
<1>3. /\ Weeks \cup {Undefined} \subseteq ParamValues(resource.kind, "week")
      /\ Dates \cup {Undefined} \subseteq ParamValues(resource.kind, "date")
      /\ resource.kind # "transactions" => StatsTypes \subseteq ParamValues(resource.kind, "type")
  BY DEF ParamValues
<1>4. ASSUME NEW type \in {"week", "date"}
      PROVE  /\ CoverageType(type) \in Values
             /\ CoverageType(type) \in ParamValues(resource.kind, "type")
  <2>1. type \in StatsTypes
    BY DEF StatsTypes
  <2>2. /\ resource.params.type \in Values
        /\ resource.params.type \in ParamValues(resource.kind, "type")
    BY <1>1, <1>2 DEF Typed
  <2> QED BY <1>2, <1>3, <2>1, <2>2 DEF CoverageType
<1> QED BY <1>1, <1>2, <1>3, <1>4 DEF WithWeek, WithDate, Typed

LEMMA ParamsInValues ==
  ASSUME NEW kind, NEW name \in ParamNames
  PROVE  ParamValues(kind, name) \subseteq Values
BY DEF ParamNames, ListParams, Values, ParamValues

LEMMA NarrowTyped == ASSUME Typing, Narrow PROVE Typing'
<1>1. Typed(resource.kind, resource.params)
  BY DEF Typing
<1>2. ASSUME Include PROVE Typing'
  <2>1. resource.kind \in Kinds \ SubResource
    BY <1>2 DEF Include, Kinds, Single, Plural, SubResource
  <2>2. /\ "out" \in ParamNames
        /\ ParamValues(resource.kind, "out") = SUBSET {"expansion"}
    BY <2>1 DEF ParamNames, ListParams, ParamValues
  <2>3. resource.params["out"] \in SUBSET {"expansion"}
    BY <1>1, <2>2 DEF Typed
  <2>4. resource.params["out"] \cup {"expansion"} \in SUBSET {"expansion"}
    BY <2>3
  <2>5. resource.params["out"] \cup {"expansion"} \in Values
    BY <2>4 DEF Values
  <2> QED BY <1>2, <2>2, <2>4, <2>5, FilterTyped DEF Include
<1>3. ASSUME Filter PROVE Typing'
  <2>1. /\ "filter" \in ParamNames
        /\ "set" \in Values /\ "set" \in ParamValues(resource.kind, "filter")
    BY DEF ParamNames, Values, ParamValues
  <2> QED BY <1>3, <2>1, FilterTyped DEF Filter
<1>4. ASSUME NEW params, Typed(resource.kind, params), CloneWith(params)
      PROVE  Typing'
  <2>1. resource' = [resource EXCEPT !.params = params, !.raw = resource.raw]
    BY <1>4 DEF CloneWith, Typing, Builders
  <2>2. resource.raw \in BOOLEAN
    BY DEF Typing, Builders
  <2> QED BY <1>4, <2>1, <2>2, CloneTyped DEF CloneWith
<1>5. ASSUME NEW w \in Weeks, Week(w) PROVE Typing'
  BY <1>4, <1>5, CoverageTyped DEF Week
<1>6. ASSUME NEW d \in Dates, Date(d) PROVE Typing'
  BY <1>4, <1>6, CoverageTyped DEF Date
<1>7. ASSUME NEW weeks \in SUBSET Weeks, MatchupWeeks(weeks) PROVE Typing'
  <2>1. /\ "weeks" \in ParamNames
        /\ weeks \in Values /\ weeks \in ParamValues(resource.kind, "weeks")
    BY DEF ParamNames, ListParams, Values, ParamValues
  <2> QED BY <1>7, <2>1, FilterTyped DEF MatchupWeeks
<1>8. ASSUME NEW types \in SUBSET TransactionTypes, Types(types) PROVE Typing'
  <2>1. /\ "types" \in ParamNames
        /\ types \in Values /\ types \in ParamValues(resource.kind, "types")
    BY DEF ParamNames, ListParams, Values, ParamValues
  <2> QED BY <1>8, <2>1, FilterTyped DEF Types
<1>9. ASSUME NEW key \in {"team", Blank}, TeamKey(key) PROVE Typing'
  <2>1. /\ "team_key" \in ParamNames
        /\ key \in Values /\ key \in ParamValues(resource.kind, "team_key")
    BY DEF ParamNames, Values, ParamValues
  <2> QED BY <1>9, <2>1, FilterTyped DEF TeamKey
\* StatsType and Params mark the builder too.
<1>10. ASSUME NEW name \in ParamNames, NEW value \in Values,
              value \in ParamValues(resource.kind, name),
              resource' = [resource EXCEPT !.params[name] = value, !.raw = TRUE],
              UNCHANGED array
       PROVE  Typing'
  <2>1. resource' = [resource EXCEPT
                       !.params = [resource.params EXCEPT ![name] = value],
                       !.raw = TRUE]
    BY <1>10
  <2>2. Typed(resource.kind, [resource.params EXCEPT ![name] = value])
    BY <1>1, <1>10, UpdateTyped
  <2> QED BY <1>10, <2>1, <2>2, CloneTyped
<1>11. ASSUME NEW type \in StatsTypes, StatsType(type) PROVE Typing'
  <2>1. /\ "type" \in ParamNames
        /\ type \in Values /\ type \in ParamValues(resource.kind, "type")
    BY <1>11 DEF StatsType, ParamNames, Values, ParamValues
  <2> QED BY <1>10, <1>11, <2>1 DEF StatsType
<1>12. ASSUME NEW name, NEW value, Params(name, value) PROVE Typing'
  <2>1. /\ name \in ParamNames
        /\ value \in Values /\ value \in ParamValues(resource.kind, name)
    BY <1>12, ParamsInValues DEF Params, ParamsOf
  <2> QED BY <1>10, <1>12, <2>1 DEF Params
<1> QED
  BY <1>2, <1>3, <1>5, <1>6, <1>7, <1>8, <1>9, <1>11, <1>12 DEF Narrow

LEMMA MutateTyped ==
  ASSUME Typing, NEW elements \in SUBSET Items, Mutate(elements)
  PROVE  Typing'
BY DEF Typing, Mutate, Builders, Typed, ParamValues

-----------------------------------------------------------------------------
(* What a step does to the builder *)

Fresh(params) ==
  /\ params["keys"] # Alias
  /\ params["week"] = Undefined /\ params["date"] = Undefined

TeamChildren == {"roster", "matchups", "team stats"}
PlayerKinds == {"players", "player stats", "ownership", "percent_owned"}

\* What may stand below a team, and below that.
Below(parent, kind) ==
  /\ kind # "team"
  /\ parent = "team" => kind \in TeamChildren
  /\ parent \in TeamChildren \cup PlayerKinds => kind \in PlayerKinds

Rooted == \E kind \in Kinds: \E params:
            Fresh(params) /\ NewBuilder(kind, <<>>, params)
Descended == \E kind \in Kinds: \E params:
               Fresh(params) /\ Below(resource.kind, kind) /\ NewChild(kind, params)
Narrowed == \E params:
              /\ CloneWith(params)
              /\ params["keys"] = resource.params["keys"]
              /\ \/ /\ params["week"] = resource.params["week"]
                    /\ params["date"] = resource.params["date"]
                 \/ params["week"] = Undefined \/ params["date"] = Undefined
Marked == /\ resource'.raw
          /\ resource'.kind = resource.kind
          /\ resource'.segments = resource.segments

LEMMA FreshParams ==
  ASSUME Typing
  PROVE  /\ Fresh(NoParams) /\ Fresh([NoParams EXCEPT !["out"] = {}])
         /\ \A selected \in SUBSET Items: Fresh(Selecting(selected))
BY ResourcesAssumption
DEF Fresh, NoParams, Selecting, ParamNames, ListParams

LEMMA StartEffect == ASSUME Typing, Start PROVE Rooted
<1>1. array \in SUBSET Items
  BY DEF Typing
<1>2. ASSUME NEW kind \in Single \cup {"users"}, Root(kind) PROVE Rooted
  BY <1>2, FreshParams DEF Root, Rooted, Kinds
<1>3. ASSUME NEW kind \in Plural, RootPlural(kind) PROVE Rooted
  BY <1>1, <1>3, FreshParams DEF RootPlural, CopyKeys, Rooted, Kinds
<1> QED BY <1>2, <1>3 DEF Start

LEMMA DescendEffect == ASSUME Typing, Descend PROVE Descended
<1>1. array \in SUBSET Items /\ {} \in SUBSET Items
  BY DEF Typing
<1>2. ASSUME NEW kind \in Plural, Select(kind) PROVE Descended
  <2>1. Below(resource.kind, kind) /\ kind \in Kinds
    BY <1>2 DEF Select, Selectable, Below, TeamChildren, PlayerKinds, Plural, Kinds
  <2> QED BY <1>1, <1>2, <2>1, FreshParams DEF Select, CopyKeys, Descended
<1>3. ASSUME TeamsOfUser PROVE Descended
  <2>1. Below(resource.kind, "teams") /\ "teams" \in Kinds
    BY <1>3 DEF TeamsOfUser, Below, TeamChildren, PlayerKinds, Plural, Kinds
  <2> QED BY <1>1, <1>3, <2>1, FreshParams DEF TeamsOfUser, Descended
<1>4. ASSUME NEW kind \in SubResource, Enter(kind) PROVE Descended
  <2>1. Below(resource.kind, kind) /\ kind \in Kinds
    BY <1>4 DEF Enter, SubResourcesOf, Below, TeamChildren, PlayerKinds,
                SubResource, Kinds
  <2> QED BY <1>4, <2>1, FreshParams DEF Enter, Descended
<1> QED BY <1>2, <1>3, <1>4 DEF Descend

LEMMA NarrowEffect == ASSUME Typing, Narrow PROVE Narrowed \/ Marked
<1>1. /\ resource.params \in [ParamNames -> Values]
      /\ resource \in Builders
  BY DEF Typing, Builders
<1>2. ASSUME NEW name \in {"out", "filter", "weeks", "types", "team_key"}, NEW value,
             CloneWith([resource.params EXCEPT ![name] = value])
      PROVE  Narrowed
  <2> DEFINE params == [resource.params EXCEPT ![name] = value]
  <2>1. /\ params["keys"] = resource.params["keys"]
        /\ params["week"] = resource.params["week"]
        /\ params["date"] = resource.params["date"]
    BY <1>1 DEF ParamNames, ListParams
  <2>2. CloneWith(params)
    BY <1>2
  <2> HIDE DEF params
  <2> QED BY <2>1, <2>2 DEF Narrowed
<1>3. ASSUME NEW w \in Weeks, Week(w) PROVE Narrowed
  <2>1. /\ WithWeek(w)["keys"] = resource.params["keys"]
        /\ WithWeek(w)["date"] = Undefined
    BY <1>1 DEF WithWeek, ParamNames, ListParams
  <2> QED BY <1>3, <2>1 DEF Week, Narrowed
<1>4. ASSUME NEW d \in Dates, Date(d) PROVE Narrowed
  <2>1. /\ WithDate(d)["keys"] = resource.params["keys"]
        /\ WithDate(d)["week"] = Undefined
    BY <1>1 DEF WithDate, ParamNames, ListParams
  <2> QED BY <1>4, <2>1 DEF Date, Narrowed
<1>5. ASSUME NEW type, StatsType(type) PROVE Marked
  BY <1>1, <1>5 DEF StatsType, Marked, Builders
<1>6. ASSUME NEW name, NEW value, Params(name, value) PROVE Marked
  BY <1>1, <1>6 DEF Params, Marked, Builders
<1>7. Include \/ Filter => Narrowed
  BY <1>2 DEF Include, Filter
<1>8. ASSUME NEW value, MatchupWeeks(value) \/ Types(value) \/ TeamKey(value)
      PROVE  Narrowed
  BY <1>2, <1>8 DEF MatchupWeeks, Types, TeamKey
<1> QED BY <1>3, <1>4, <1>5, <1>6, <1>7, <1>8 DEF Narrow

-----------------------------------------------------------------------------
(* What holds of the builder *)

\* Only a marked builder may share an array with the application.
Unaliased == ~resource.raw => resource.params["keys"] # Alias

OneOf(r) == ~r.raw => r.params["week"] = Undefined \/ r.params["date"] = Undefined
Covering == /\ OneOf(resource)
            /\ \A i \in 1..Len(resource.segments): OneOf(resource.segments[i])

\* A single team is a root, and a roster is the first thing below it.
TeamFirst ==
  /\ resource.kind = "team" => resource.segments = <<>>
  /\ resource.segments # <<>> /\ resource.segments[1].kind = "team" =>
       \/ Len(resource.segments) = 1 /\ resource.kind \in TeamChildren
       \/ resource.kind \in PlayerKinds

BuilderInv == Typing /\ Unaliased /\ Covering /\ TeamFirst

LEMMA BuilderInit == Init => BuilderInv
<1> SUFFICES ASSUME Init PROVE BuilderInv
  OBVIOUS
<1>1. "users" \in Kinds \ SubResource
  BY DEF Kinds, SubResource
<1>2. Typed("users", [NoParams EXCEPT !["out"] = {}])
  BY <1>1, NoParamsTyped
<1>3. Typing
  BY <1>1, <1>2, ResourcesAssumption DEF Init, Typing, Builders, Typed
<1>4. Fresh([NoParams EXCEPT !["out"] = {}])
  BY <1>3, FreshParams
<1> QED BY <1>3, <1>4
        DEF Init, BuilderInv, Unaliased, Covering, OneOf, TeamFirst, Fresh, TeamChildren,
            PlayerKinds

LEMMA BuilderNext ==
  ASSUME BuilderInv, Start \/ Descend \/ Narrow \/ (\E elements \in SUBSET Items: Mutate(elements))
  PROVE  BuilderInv'
<1>1. Typing'
  BY StartTyped, DescendTyped, NarrowTyped, MutateTyped DEF BuilderInv
<1>2. CASE Rooted
  <2>1. PICK kind, params:
          kind \in Kinds /\ Fresh(params) /\ NewBuilder(kind, <<>>, params)
    BY <1>2 DEF Rooted
  <2>2. /\ resource'.params = params /\ ~resource'.raw
        /\ resource'.segments = <<>>
    BY <2>1 DEF NewBuilder
  <2> QED BY <1>1, <2>1, <2>2
          DEF BuilderInv, Unaliased, Covering, OneOf, TeamFirst, Fresh
<1>3. CASE Descended
  <2>1. PICK kind, params:
          /\ kind \in Kinds /\ Below(resource.kind, kind)
          /\ Fresh(params) /\ NewChild(kind, params)
    BY <1>3 DEF Descended
  <2>2. /\ resource'.kind = kind /\ resource'.params = params /\ ~resource'.raw
        /\ resource'.segments = Path(resource)
    BY <2>1 DEF NewChild, NewBuilder
  <2>3. resource.segments \in Seq(Segments)
    BY DEF BuilderInv, Typing, Builders
  <2>4. /\ Len(Path(resource)) = Len(resource.segments) + 1
        /\ \A i \in 1..Len(resource.segments): Path(resource)[i] = resource.segments[i]
        /\ Path(resource)[Len(resource.segments) + 1] = Segment(resource)
    BY <2>3 DEF Path
  <2>5. OneOf(Segment(resource))
    BY DEF BuilderInv, Covering, OneOf, Segment, Serialized, Typing, Builders, ParamNames, ListParams
  <2>6. Covering'
    BY <2>1, <2>2, <2>3, <2>4, <2>5 DEF BuilderInv, Covering, OneOf, Fresh
  <2>7. Unaliased'
    BY <2>1, <2>2 DEF Unaliased, Fresh
  <2>8. TeamFirst'
    <3>1. CASE resource.segments = <<>>
      <4>1. Path(resource)[1].kind = resource.kind /\ Len(Path(resource)) = 1
        BY <2>4, <3>1 DEF Segment
      <4> QED BY <2>1, <2>2, <4>1 DEF TeamFirst, Below, TeamChildren
    <3>2. CASE resource.segments # <<>>
      <4>1. Path(resource)[1] = resource.segments[1]
        BY <2>3, <2>4, <3>2
      <4> QED BY <2>1, <2>2, <3>2, <4>1 DEF BuilderInv, TeamFirst, Below
    <3> QED BY <3>1, <3>2
  <2> QED BY <1>1, <2>6, <2>7, <2>8 DEF BuilderInv
<1>4. CASE Narrowed
  <2>1. PICK params: /\ CloneWith(params)
                     /\ params["keys"] = resource.params["keys"]
                     /\ \/ /\ params["week"] = resource.params["week"]
                           /\ params["date"] = resource.params["date"]
                        \/ params["week"] = Undefined \/ params["date"] = Undefined
    BY <1>4 DEF Narrowed
  <2>2. /\ resource'.kind = resource.kind /\ resource'.params = params
        /\ resource'.raw = resource.raw /\ resource'.segments = resource.segments
    BY <2>1 DEF CloneWith, BuilderInv, Typing, Builders
  <2> QED BY <1>1, <2>1, <2>2 DEF BuilderInv, Unaliased, Covering, OneOf, TeamFirst
<1>5. CASE Marked
  BY <1>1, <1>5 DEF Marked, BuilderInv, Unaliased, Covering, OneOf, TeamFirst
<1>6. CASE UNCHANGED resource
  BY <1>1, <1>6 DEF BuilderInv, Unaliased, Covering, OneOf, TeamFirst
<1>7. \A elements: Mutate(elements) => UNCHANGED resource
  BY DEF Mutate
<1> QED
  BY <1>2, <1>3, <1>4, <1>5, <1>6, <1>7, StartEffect, DescendEffect, NarrowEffect
  DEF BuilderInv

\* What the application does with an array it passed changes no path.
LEMMA PathKept ==
  ASSUME BuilderInv, ~resource.raw, resource' = resource
  PROVE  Path(resource)' = Path(resource)
<1>1. ASSUME NEW name \in ListParams PROVE resource.params[name] # Alias
  <2>1. resource.params[name] \in ParamValues(resource.kind, name)
    BY DEF BuilderInv, Typing, Typed, ParamNames
  <2>2. CASE name = "keys"
    BY <2>2 DEF BuilderInv, Unaliased
  <2>3. CASE name = "out"
    BY <2>1, <2>3, ResourcesAssumption DEF ParamValues
  <2>4. CASE name = "weeks"
    BY <2>1, <2>4, ResourcesAssumption DEF ParamValues
  <2>5. CASE name = "types"
    BY <2>1, <2>5, ResourcesAssumption DEF ParamValues
  <2> QED BY <2>2, <2>3, <2>4, <2>5 DEF ListParams
<1>2. Serialized(resource.params)' = Serialized(resource.params)
  BY <1>1 DEF Serialized, Content
<1> QED BY <1>2 DEF Path, Segment

-----------------------------------------------------------------------------
(* Lineups and the writes that carry them *)

Lineups ==
  [week: Weeks \cup {Undefined}, date: Dates \cup {Undefined}, moves: Seq(Moves)]
Bodies == {Object} \cup Contents \cup Lineups
Calls ==
  [via: Transports, path: Seq(Segments), body: Bodies, asked: Bodies,
   stated: [week: Weeks \cup {Undefined}, date: Dates \cup {Undefined}], sent: BOOLEAN]

\* What CoverageStated says of one request.
Agrees(body, stated, path) ==
  LET params == path[Len(path)].params
      unstated == stated.week = Undefined /\ stated.date = Undefined IN
  /\ body.moves # <<>>
  /\ (body.week = Undefined) # (body.date = Undefined)
  /\ body.week = IF unstated THEN params["week"] ELSE stated.week
  /\ body.date = IF unstated THEN params["date"] ELSE stated.date
  /\ body.week # Undefined => params["date"] = Undefined
  /\ body.date # Undefined => params["week"] = Undefined

\* What is stated of the lineup that the application holds.
Stated == [week |-> lineup.week, date |-> lineup.date]

Drafting ==
  /\ lineup \in Lineups /\ Len(lineup.moves) <= MaxMoves
  /\ lineup.week = Undefined \/ lineup.date = Undefined
  /\ object \in Contents

Writing ==
  call # None =>
    /\ call \in Calls
    /\ IsLineup(call.body) => call.body = call.asked /\ Agrees(call.body, call.stated, call.path)
    /\ call.via # Http =>
         /\ call.sent /\ call.body = call.asked
         /\ call.via = <<"browser-session", "private">>
         /\ Names(call.path) = <<"team", "roster">>

RequestsInv == BuilderInv /\ Drafting /\ Writing

LEMMA PathShape ==
  ASSUME BuilderInv
  PROVE  /\ Path(resource) \in Seq(Segments)
         /\ Len(Path(resource)) = Len(resource.segments) + 1
         /\ \A i \in 1..Len(resource.segments): Path(resource)[i] = resource.segments[i]
         /\ Path(resource)[Len(resource.segments) + 1] = Segment(resource)
<1>1. resource.segments \in Seq(Segments)
  BY DEF BuilderInv, Typing, Builders
<1>2. Segment(resource) \in Segments
  BY SegmentTyped DEF BuilderInv, Typing
<1> QED BY <1>1, <1>2 DEF Path

\* A lineup that the frontend adapter lets through is for one team.
LEMMA LineupRoute ==
  ASSUME BuilderInv, resource.kind = "roster"
  PROVE  Host("PUT", Observed(Path(resource))) # "" =>
           Names(Path(resource)) = <<"team", "roster">>
<1>0. SUFFICES ASSUME Host("PUT", Observed(Path(resource))) # ""
               PROVE  Names(Path(resource)) = <<"team", "roster">>
  OBVIOUS
<1>1. Observed(Path(resource)) = <<"team", "roster">>
  BY <1>0 DEF Host
<1>2. 1 \in DOMAIN Observed(Path(resource)) /\ Observed(Path(resource))[1] = "team"
  <2>1. /\ DOMAIN <<"team", "roster">> = 1..2
        /\ <<"team", "roster">>[1] = "team"
    OBVIOUS
  <2> QED BY <1>1, <2>1
<1>3. Path(resource)[1].kind = "team"
  BY <1>2 DEF Observed
<1>4. resource.segments \in Seq(Segments)
  BY DEF BuilderInv, Typing, Builders
<1>5. resource.segments # <<>>
  <2> SUFFICES ASSUME resource.segments = <<>> PROVE FALSE
    OBVIOUS
  <2>1. Len(resource.segments) = 0
    OBVIOUS
  <2>2. Path(resource)[1] = Segment(resource)
    BY <2>1, PathShape
  <2> QED BY <1>3, <2>2 DEF Segment
<1>6. Path(resource)[1] = resource.segments[1]
  BY <1>4, <1>5, PathShape
<1>7. Len(resource.segments) = 1
  BY <1>3, <1>5, <1>6 DEF BuilderInv, TeamFirst, PlayerKinds
<1>8. Len(Path(resource)) = 2 /\ Path(resource)[2].kind = "roster" /\ Path(resource) \in Seq(Segments)
  BY <1>7, PathShape DEF Segment
<1> QED BY <1>3, <1>8 DEF Names

\* A lineup that has a payload agrees with the roster it is put on.
LEMMA PayloadAgrees ==
  ASSUME BuilderInv, Drafting, resource.kind = "roster",
         HasPayload(lineup, resource.params)
  PROVE  LineupBody \in Lineups /\ Agrees(LineupBody, Stated, Path(resource))
<1> DEFINE params == resource.params
<1>1. /\ params["week"] \in Weeks \cup {Undefined}
      /\ params["date"] \in Dates \cup {Undefined}
  BY DEF BuilderInv, Typing, Typed, ParamValues, ParamNames
<1>2. LineupBody \in Lineups
  BY <1>1 DEF LineupBody, Payload, Drafting, Lineups
<1>3. /\ Serialized(params)["week"] = params["week"]
      /\ Serialized(params)["date"] = params["date"]
  BY <1>1, ResourcesAssumption DEF Serialized, ParamNames, ListParams
<1>4. Path(resource)[Len(Path(resource))].params = Serialized(params)
  BY PathShape DEF Segment, BuilderInv, Typing, Builders
<1>5. /\ LineupBody.week = IF Explicit(lineup) THEN lineup.week ELSE params["week"]
      /\ LineupBody.date = IF Explicit(lineup) THEN lineup.date ELSE params["date"]
      /\ LineupBody.moves = lineup.moves /\ lineup.moves # <<>>
      /\ ~Conflict(lineup, params)
  BY DEF LineupBody, Payload, HasPayload
<1>6. /\ Stated.week = lineup.week /\ Stated.date = lineup.date
      /\ lineup.week = Undefined \/ lineup.date = Undefined
  BY DEF Stated, Drafting
<1> HIDE DEF params
<1>7. Agrees(LineupBody, Stated, Path(resource))
  BY <1>3, <1>4, <1>5, <1>6 DEF Agrees, Conflict, Explicit
<1> QED BY <1>2, <1>7

LEMMA ThroughWrites ==
  ASSUME RequestsInv, resource.kind = "roster",
         NEW via \in Transports, NEW body \in Bodies,
         IsLineup(body) => Agrees(body, Stated, Path(resource)),
         Through(via, body)
  PROVE  Writing'
<1>1. object \in Contents /\ Path(resource) \in Seq(Segments)
  BY PathShape DEF RequestsInv, Drafting
<1>2. /\ Text(body) \in Bodies
      /\ IsLineup(body) => Text(body) = body
      /\ IsLineup(Text(body)) => Text(body) = body
  BY <1>1 DEF Text, IsLineup, Bodies
<1>5. /\ Stated \in [week: Weeks \cup {Undefined}, date: Dates \cup {Undefined}]
      /\ call' # None => call'.stated = Stated /\ call'.path = Path(resource)
  BY DEF Stated, RequestsInv, Drafting, Lineups, Through, Request
<1> HIDE DEF Agrees
<1>3. CASE via = Http
  <2>1. call' = [via |-> via, path |-> Path(resource), body |-> body, asked |-> Text(body),
                 stated |-> Stated, sent |-> FALSE]
    BY <1>3 DEF Through, Request, Stated
  <2>2. call' \in Calls
    BY <1>1, <1>2, <1>5, <2>1 DEF Calls
  <2>3. IsLineup(call'.body) => call'.body = call'.asked /\ Agrees(call'.body, call'.stated, call'.path)
    BY <1>2, <2>1
  <2> QED BY <1>3, <2>1, <2>2, <2>3 DEF Writing, IsLineup, Agrees
<1>4. CASE via # Http
  <2>1. via \in Authentications \X Accesses
    BY <1>4 DEF Transports
  <2>2. SendsResource(via[1], "PUT", Observed(Path(resource)), via[2])
    BY <1>4 DEF Through
  <2>3. via[2] = "private" /\ via[1] # "public"
    BY <2>1, <2>2 DEF SendsResource, Sends, Accesses
  <2>4. via = <<"browser-session", "private">>
    BY <2>1, <2>3 DEF Authentications
  <2>5. Names(Path(resource)) = <<"team", "roster">>
    BY <2>2, LineupRoute DEF RequestsInv, SendsResource, Sends
  <2>6. call' = [via |-> via, path |-> Path(resource), body |-> Text(body),
                 asked |-> Text(body), stated |-> Stated, sent |-> TRUE]
    BY <1>4 DEF Through, Request, Stated
  <2>7. call' \in Calls
    BY <1>1, <1>2, <1>5, <2>6 DEF Calls
  <2>8. IsLineup(call'.body) => call'.body = call'.asked /\ Agrees(call'.body, call'.stated, call'.path)
    BY <1>2, <2>6
  <2>9. call'.via = via /\ call'.sent /\ call'.body = call'.asked /\ call'.path = Path(resource)
    BY <2>6
  <2> QED BY <2>4, <2>5, <2>7, <2>8, <2>9 DEF Writing, IsLineup, Agrees, Names
<1> QED BY <1>3, <1>4

-----------------------------------------------------------------------------
(* The invariant *)

LEMMA RequestsInvInit == RequestsInit => RequestsInv
<1> SUFFICES ASSUME RequestsInit PROVE RequestsInv
  OBVIOUS
<1>1. BuilderInv
  BY BuilderInit DEF RequestsInit
<1>2. lineup = [week |-> Undefined, date |-> Undefined, moves |-> <<>>]
  BY DEF RequestsInit, EmptyLineup
<1>3. lineup \in Lineups /\ Len(lineup.moves) = 0 /\ lineup.week = Undefined
  BY <1>2 DEF Lineups
<1>4. Drafting
  BY <1>3, RequestsAssumption DEF RequestsInit, Drafting
<1> QED BY <1>1, <1>4 DEF RequestsInit, RequestsInv, Writing

\* Steps that leave the builder alone keep what holds of it.
LEMMA BuilderStutter == ASSUME BuilderInv, UNCHANGED vars PROVE BuilderInv'
BY DEF BuilderInv, Typing, Typed, Builders, Unaliased, Covering, OneOf, TeamFirst,
       ParamValues, vars

LEMMA WritingStutter == ASSUME Writing, UNCHANGED call PROVE Writing'
BY DEF Writing, IsLineup, Agrees, Names

LEMMA EditKeeps ==
  ASSUME RequestsInv, NEW l \in Lineups, Len(l.moves) <= MaxMoves,
         l.week = Undefined \/ l.date = Undefined, EditLineup(l)
  PROVE  RequestsInv'
<1>1. BuilderInv' /\ Writing'
  BY BuilderStutter, WritingStutter DEF EditLineup, RequestsInv
<1> QED BY <1>1 DEF EditLineup, RequestsInv, Drafting

LEMMA LineupSteps ==
  ASSUME RequestsInv,
         \/ NewLineup
         \/ \E w \in Weeks: LineupWeek(w)
         \/ \E d \in Dates: LineupDate(d)
         \/ \E m \in Moves: MovePlayer(m) \/ Players(m)
  PROVE  RequestsInv'
<1>1. /\ lineup \in Lineups /\ Len(lineup.moves) <= MaxMoves
      /\ lineup.week = Undefined \/ lineup.date = Undefined
  BY DEF RequestsInv, Drafting
<1>2. CASE NewLineup
  <2>1. EmptyLineup \in Lineups /\ Len(EmptyLineup.moves) <= MaxMoves
        /\ EmptyLineup.week = Undefined
    BY RequestsAssumption DEF EmptyLineup, Lineups
  <2> QED BY <1>2, <2>1, EditKeeps DEF NewLineup
<1>3. ASSUME NEW w \in Weeks, LineupWeek(w) PROVE RequestsInv'
  <2> DEFINE l == [lineup EXCEPT !.week = w, !.date = Undefined]
  <2>1. l \in Lineups /\ l.moves = lineup.moves /\ l.date = Undefined
    BY <1>1 DEF Lineups
  <2>2. EditLineup(l)
    BY <1>3 DEF LineupWeek
  <2> HIDE DEF l
  <2> QED BY <1>1, <2>1, <2>2, EditKeeps
<1>4. ASSUME NEW d \in Dates, LineupDate(d) PROVE RequestsInv'
  <2> DEFINE l == [lineup EXCEPT !.date = d, !.week = Undefined]
  <2>1. l \in Lineups /\ l.moves = lineup.moves /\ l.week = Undefined
    BY <1>1 DEF Lineups
  <2>2. EditLineup(l)
    BY <1>4 DEF LineupDate
  <2> HIDE DEF l
  <2> QED BY <1>1, <2>1, <2>2, EditKeeps
<1>5. ASSUME NEW m \in Moves, MovePlayer(m) PROVE RequestsInv'
  <2> DEFINE l == [lineup EXCEPT !.moves = Append(@, m)]
  <2>1. l \in Lineups /\ l.week = lineup.week /\ l.date = lineup.date
        /\ Len(l.moves) = Len(lineup.moves) + 1
    BY <1>1 DEF Lineups
  <2>2. EditLineup(l) /\ Len(lineup.moves) + 1 <= MaxMoves
    BY <1>1, <1>5, RequestsAssumption DEF MovePlayer, Lineups
  <2> HIDE DEF l
  <2> QED BY <1>1, <2>1, <2>2, EditKeeps
<1>6. ASSUME NEW m \in Moves, Players(m) PROVE RequestsInv'
  <2> DEFINE l == [lineup EXCEPT !.moves = <<m>>]
  <2>0. <<m>> \in Seq(Moves) /\ Len(<<m>>) = 1
    OBVIOUS
  <2>1. /\ l \in Lineups /\ l.week = lineup.week /\ l.date = lineup.date
        /\ l.moves = <<m>>
    BY <1>1, <2>0 DEF Lineups
  <2>2. EditLineup(l)
    BY <1>6 DEF Players
  <2> HIDE DEF l
  <2>3. Len(l.moves) <= MaxMoves
    BY <2>0, <2>1, RequestsAssumption
  <2> QED BY <1>1, <2>1, <2>2, <2>3, EditKeeps
<1> QED BY <1>2, <1>3, <1>4, <1>5, <1>6

LEMMA WriteSteps ==
  ASSUME RequestsInv,
         \/ \E via \in Transports: PutLineup(via) \/ PutObject(via)
         \/ Dispatch
         \/ PutSettles
         \/ \E content \in Contents: MutateObject(content)
  PROVE  RequestsInv'
<1>1. BuilderInv'
  BY BuilderStutter
  DEF RequestsInv, PutLineup, PutObject, Through, Dispatch, PutSettles, MutateObject
<1>2. Drafting'
  BY DEF RequestsInv, Drafting, PutLineup, PutObject, Through, Dispatch, PutSettles,
         MutateObject
<1>3. ASSUME NEW via \in Transports, PutLineup(via) PROVE Writing'
  <2>1. /\ resource.kind = "roster" /\ HasPayload(lineup, resource.params)
        /\ Through(via, LineupBody)
    BY <1>3 DEF PutLineup, Holding
  <2>2. LineupBody \in Lineups /\ Agrees(LineupBody, Stated, Path(resource))
    BY <2>1, PayloadAgrees DEF RequestsInv
  <2>3. LineupBody \in Bodies
    BY <2>2 DEF Bodies
  <2> QED BY <2>1, <2>2, <2>3, ThroughWrites
<1>4. ASSUME NEW via \in Transports, PutObject(via) PROVE Writing'
  <2>1. Object \in Bodies /\ ~IsLineup(Object)
    BY DEF Bodies, IsLineup
  <2>2. resource.kind = "roster" /\ Through(via, Object)
    BY <1>4 DEF PutObject, Holding
  <2> QED BY <2>1, <2>2, ThroughWrites
<1>5. CASE Dispatch
  <2>1. call # None /\ ~call.sent /\ call \in Calls /\ object \in Contents
    BY <1>5 DEF Dispatch, RequestsInv, Writing, Drafting
  <2>2. call.via = Http
    BY <2>1 DEF RequestsInv, Writing
  <2>3. call' = [call EXCEPT !.body = Text(call.body), !.sent = TRUE]
    BY <1>5 DEF Dispatch
  <2>4. /\ call' \in Calls
        /\ call'.via = Http /\ call'.asked = call.asked /\ call'.path = call.path
        /\ call'.stated = call.stated
        /\ call'.body = Text(call.body)
    BY <2>1, <2>2, <2>3 DEF Calls, Bodies, Text
  <2>5. object \in Contents /\ call'.via = Http
    BY <2>1, <2>4
  <2>6. ASSUME NEW body, IsLineup(Text(body)) PROVE Text(body) = body
    BY <2>5, <2>6 DEF Text, IsLineup
  <2>7. IsLineup(call'.body) => call'.body = call.body
    BY <2>4, <2>6
  <2>8. IsLineup(call.body) => call.body = call.asked /\ Agrees(call.body, call.stated, call.path)
    BY <2>1 DEF RequestsInv, Writing
  <2>9. ASSUME IsLineup(call'.body)
        PROVE  call'.body = call'.asked /\ Agrees(call'.body, call'.stated, call'.path)
    <3>1. call'.body = call.body /\ IsLineup(call.body)
      BY <2>7, <2>9 DEF IsLineup
    <3>2. call.body = call.asked /\ Agrees(call.body, call.stated, call.path)
      BY <2>8, <3>1
    <3> QED BY <2>4, <3>1, <3>2 DEF Agrees
  <2>10. call'.via = Http /\ call' \in Calls
    BY <2>4
  <2>11. Agrees(call.body, call.stated, call.path)' = Agrees(call'.body, call'.stated, call'.path)
    BY DEF Agrees
  <2>12. IsLineup(call.body)' = IsLineup(call'.body)
    BY DEF IsLineup
  <2>13. Writing'
    BY <2>9, <2>10, <2>11, <2>12 DEF Writing
  <2> QED BY <1>1, <1>2, <2>13 DEF RequestsInv
<1>6. CASE PutSettles
  <2>1. Writing'
    BY <1>6 DEF PutSettles, Writing
  <2> QED BY <1>1, <1>2, <2>1 DEF RequestsInv
<1>7. ASSUME NEW content, MutateObject(content) PROVE Writing'
  BY <1>7, WritingStutter DEF MutateObject, RequestsInv
<1> QED BY <1>1, <1>2, <1>3, <1>4, <1>5, <1>6, <1>7 DEF RequestsInv

LEMMA RequestsInvNext ==
  RequestsInv /\ [RequestsNext]_<<vars, writes>> => RequestsInv'
<1> SUFFICES ASSUME RequestsInv, [RequestsNext]_<<vars, writes>>
             PROVE  RequestsInv'
  OBVIOUS
<1>1. CASE Walk
  <2>1. BuilderInv'
    BY <1>1, BuilderNext DEF Walk, RequestsInv
  <2>2. Drafting' /\ Writing'
    BY <1>1, WritingStutter DEF Walk, writes, RequestsInv, Drafting
  <2> QED BY <2>1, <2>2 DEF RequestsInv
<1>2. CASE UNCHANGED <<vars, writes>>
  BY <1>2, BuilderStutter, WritingStutter DEF writes, RequestsInv, Drafting
<1> QED BY <1>1, <1>2, LineupSteps, WriteSteps DEF RequestsNext

THEOREM RequestsInvariant == RequestsSpec => []RequestsInv
BY RequestsInvInit, RequestsInvNext, PTL DEF RequestsSpec

-----------------------------------------------------------------------------
(* The properties *)

\* Builders, lineups and requests always have the parts of their kind.
THEOREM RequestsTypeCorrect == RequestsSpec => []TypeOK
<1>1. RequestsInv => TypeOK
  <2> SUFFICES ASSUME RequestsInv PROVE TypeOK
    OBVIOUS
  <2>1. ResourceTypeOK
    BY DEF RequestsInv, BuilderInv, Typing, Typed, Builders, ResourceTypeOK
  <2>2. /\ lineup \in Lineups /\ Len(lineup.moves) <= MaxMoves
        /\ object \in Contents
    BY DEF RequestsInv, Drafting
  <2>3. call # None => call.via \in Transports /\ call.sent \in BOOLEAN
    BY DEF RequestsInv, Writing, Calls
  <2> QED BY <2>1, <2>2, <2>3 DEF TypeOK, Lineups
<1> QED BY <1>1, RequestsInvariant, PTL

\* resource.ts copies every array it is given: a path is fixed when its
\* builder is made.
THEOREM PathsAreFixed == RequestsSpec => PathsFixed
<1>1. RequestsInv /\ [RequestsNext]_<<vars, writes>> =>
        [resource' = resource /\ ~resource.raw => Path(resource)' = Path(resource)]_vars
  BY PathKept DEF RequestsInv
<1> QED BY <1>1, RequestsInvariant, PTL DEF RequestsSpec, PathsFixed

\* week() and date() exclude each other on every segment of a path, however
\* the calls are ordered.
THEOREM CoverageIsOne == RequestsSpec => []OneCoverage
<1>1. RequestsInv => OneCoverage
  <2> SUFFICES ASSUME RequestsInv, NEW i \in DOMAIN Path(resource)
               PROVE  OneOf(Path(resource)[i])
    BY DEF OneCoverage, OneOf
  <2>1. /\ BuilderInv
        /\ resource.segments \in Seq(Segments)
        /\ OneOf(resource)
    BY DEF RequestsInv, BuilderInv, Typing, Builders, Covering
  <2>2. i \in 1..(Len(resource.segments) + 1)
    BY <2>1, PathShape
  <2>3. CASE i \in 1..Len(resource.segments)
    BY <2>1, <2>3, PathShape DEF BuilderInv, Covering
  <2>4. CASE i = Len(resource.segments) + 1
    <3>1. OneOf(Segment(resource))
      BY <2>1 DEF OneOf, Segment, Serialized, BuilderInv, Typing, Builders, ParamNames, ListParams
    <3> QED BY <2>1, <2>4, <3>1, PathShape
  <2> QED BY <2>1, <2>2, <2>3, <2>4
<1> QED BY <1>1, RequestsInvariant, PTL

\* validateSpecialTypeFilters() looks at every way to ask for waivers.
THEOREM WaiversNameTheirTeam == RequestsSpec => []WaiverHasTeam
<1>1. WaiverHasTeam
  BY ResourcesAssumption
  DEF WaiverHasTeam, HasPath, RequestedTypes, Segment, Serialized, Content, ParamNames,
      ListParams, TransactionTypes
<1> QED BY <1>1, PTL

\* roster.put() writes the lineup out before its first await.
THEOREM LineupsSentAsCalled == RequestsSpec => []SentAsCalled
<1>1. RequestsInv => SentAsCalled
  BY DEF RequestsInv, Writing, SentAsCalled
<1> QED BY <1>1, RequestsInvariant, PTL

\* A lineup covers what was stated of it at the call, which is of the kind that
\* its path is for, or what its path is for.
THEOREM CoverageIsStated == RequestsSpec => []CoverageStated
<1>1. RequestsInv => CoverageStated
  BY DEF RequestsInv, Writing, CoverageStated, Agrees
<1> QED BY <1>1, RequestsInvariant, PTL

\* Nothing but a team's lineup is written through the frontend adapter.
THEOREM FrontendWritesLineups == RequestsSpec => []FrontendWrites
<1>1. RequestsInv => FrontendWrites
  BY DEF RequestsInv, Writing, FrontendWrites
<1> QED BY <1>1, RequestsInvariant, PTL

\* A route that is seen is a beginning of the path.
LEMMA ObservedIsPrefix ==
  ASSUME BuilderInv, NEW i \in DOMAIN Observed(Path(resource))
  PROVE  /\ i \in 1..Len(Path(resource))
         /\ Names(Path(resource))[i] = Observed(Path(resource))[i]
<1>1. Path(resource) \in Seq(Segments)
  BY PathShape
<1> QED BY <1>1 DEF Observed, Names

LEMMA TupleItems ==
  ASSUME NEW a, NEW b
  PROVE  /\ 1 \in DOMAIN <<a>> /\ <<a>>[1] = a
         /\ 1 \in DOMAIN <<a, b>> /\ <<a, b>>[1] = a
         /\ 2 \in DOMAIN <<a, b>> /\ <<a, b>>[2] = b
<1>1. DOMAIN <<a>> = 1..1 /\ DOMAIN <<a, b>> = 1..2
  OBVIOUS
<1>2. 1 \in 1..1 /\ 1 \in 1..2 /\ 2 \in 1..2
  OBVIOUS
<1>3. <<a>>[1] = a /\ <<a, b>>[1] = a /\ <<a, b>>[2] = b
  OBVIOUS
<1> QED BY <1>1, <1>2, <1>3

\* Every route of the allowlist has a first name, and a write has two.
LEMMA AllowedRoutes ==
  ASSUME NEW method \in Methods, NEW names, Host(method, names) # "", names # V3
  PROVE  /\ 1 \in DOMAIN names /\ names[1] \in Single \cup {"games"}
         /\ method # "GET" => /\ 2 \in DOMAIN names
                              /\ names[1] = "team" /\ names[2] = "roster"
                              /\ Host(method, names) = "readWrite"
<1>1. CASE method = "GET"
  <2>1. names \in Readable
    BY <1>1 DEF Host, Readable, ReadableNested
  <2>2. ASSUME NEW kind \in Single \cup {"games"}, names = <<kind>>
        PROVE  1 \in DOMAIN names /\ names[1] = kind
    BY <2>2, TupleItems, Zenon
  <2>3. ASSUME names \in ReadableNested
        PROVE  1 \in DOMAIN names /\ names[1] \in {"game", "league", "team"}
    <3>1. PICK first \in {"game", "league", "team"} : \E second : names = <<first, second>>
      BY <2>3 DEF ReadableNested
    <3>2. PICK second : names = <<first, second>>
      BY <3>1
    <3> QED BY <3>2, TupleItems, Zenon
  <2> QED BY <1>1, <2>1, <2>2, <2>3 DEF Readable, Single
<1>2. CASE method # "GET"
  <2>1. /\ method = "PUT" /\ names = <<"team", "roster">>
        /\ Host(method, names) = "readWrite"
    BY <1>2 DEF Host
  <2>2. 1 \in DOMAIN names /\ 2 \in DOMAIN names /\ names[1] = "team" /\ names[2] = "roster"
    BY <2>1, TupleItems, Zenon
  <2> QED BY <1>2, <2>1, <2>2 DEF Single
<1> QED BY <1>1, <1>2

\* The allowlist sees a path only up to its first parameters, and yet lets
\* through no write but a team's, and no read that starts elsewhere than it says.
THEOREM FrontendIsGuarded == RequestsSpec => []FrontendGuards
<1>1. RequestsInv => FrontendGuards
  <2> SUFFICES ASSUME BuilderInv,
                      NEW authentication \in Authentications, NEW method \in Methods,
                      NEW access \in Accesses, NEW headers \in Headers,
                      NEW names \in {Observed(Path(resource)), V3},
                      Sends(authentication, method, names, access, headers)
               PROVE
        LET path == Names(Path(resource)) IN
        /\ method # "GET" => /\ authentication = "browser-session"
                             /\ Len(path) > 1 /\ path[1] = "team" /\ path[2] = "roster"
                             /\ Host(method, names) = "readWrite"
        /\ authentication = "public" => headers = "none" /\ access = "public"
        /\ names = V3 \/ path[1] \in Single \cup {"games"}
    BY DEF FrontendGuards, RequestsInv
  <2>1. Host(method, names) # ""
    BY DEF Sends
  <2>2. authentication = "public" => method = "GET" /\ headers = "none" /\ access = "public"
    BY DEF Sends, Headers
  <2>3. names = V3 => method = "GET"
    <3>1. V3[1] = "v3" /\ <<"team", "roster">>[1] = "team"
      BY DEF V3
    <3>2. V3 # <<"team", "roster">>
      BY <3>1
    <3> QED BY <2>1, <3>2 DEF Host
  <2>4. ASSUME names # V3 PROVE names[1] = Names(Path(resource))[1]
    <3>1. names = Observed(Path(resource)) /\ 1 \in DOMAIN names
      BY <2>1, <2>4, AllowedRoutes
    <3> QED BY <3>1, ObservedIsPrefix
  <2>5. ASSUME method # "GET"
        PROVE  /\ Len(Names(Path(resource))) > 1
               /\ Names(Path(resource))[1] = "team" /\ Names(Path(resource))[2] = "roster"
               /\ Host(method, names) = "readWrite"
    <3>1. names = Observed(Path(resource)) /\ names # V3
      BY <2>3, <2>5
    <3>2. /\ 1 \in DOMAIN names /\ 2 \in DOMAIN names
          /\ names[1] = "team" /\ names[2] = "roster"
          /\ Host(method, names) = "readWrite"
      BY <2>1, <2>5, <3>1, AllowedRoutes
    <3>3. 2 \in 1..Len(Path(resource)) /\ Names(Path(resource))[1] = "team"
            /\ Names(Path(resource))[2] = "roster"
      BY <3>1, <3>2, ObservedIsPrefix
    <3>4. Len(Names(Path(resource))) = Len(Path(resource))
      BY PathShape DEF Names
    <3>5. Len(Path(resource)) \in Nat
      BY PathShape
    <3> QED BY <3>2, <3>3, <3>4, <3>5
  <2>6. names = V3 \/ Names(Path(resource))[1] \in Single \cup {"games"}
    <3>1. names # V3 => names[1] \in Single \cup {"games"}
      BY <2>1, AllowedRoutes, Zenon
    <3> QED BY <2>4, <3>1
  <2> QED
    BY <2>2, <2>5, <2>6 DEF Authentications
<1> QED BY <1>1, RequestsInvariant, PTL
=============================================================================
