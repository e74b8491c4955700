----------------------------- MODULE XmlParser ------------------------------
(***************************************************************************)
(* The XML parser as xmlParser.ts configures it, and what normalizeArrays  *)
(* does to the fields of an object.                                        *)
(*                                                                         *)
(* A text is known by its looks alone: "0", "1", "2" and "12" are numerals, *)
(* "007" has a leading zero, "abc" is neither a numeral nor a boolean word. *)
(***************************************************************************)
EXTENDS Integers, Sequences, TLC

\* Values are JavaScript values, tagged with their type.
Value(type, value) == [type |-> type, value |-> value]
Undefined == Value("undefined", "")

BooleanProps ==
  {"allowAddToDlExtraPos", "enabled", "draftTogether", "onDisabledList", "sortOrder",
   "tradeRejectTime", "waiverTime", "hasDraftGrade", "hasMultiweekChampionship",
   "hasPlayerNotes", "hasPlayoffConsolationGames", "hasRecentPlayerNotes", "isAuctionDraft",
   "isCashLeague", "isComanager", "isCommissioner", "isCompositeStat", "isConsolation",
   "isEditable", "isFlex", "isGameOver", "isHighscore", "isLiveDraftLobbyActive",
   "isMatchupOfTheWeek", "isOffseason", "isPlayoffs", "isPlusLeague", "isPrescoring",
   "isProLeague", "isPubliclyViewable", "isRegistrationOver", "isStarting",
   "isStartingPosition", "isTied", "isUndroppable", "usesFaab", "usesLockEliminatedTeams",
   "usesMedianScore", "usesPlayoff", "usesPlayoffReseeding"}

\* fast-xml-parser with parseTagValue, and without leadingZeros.
ParseValue(text) ==
  CASE text \in {"0", "1", "2", "12"} -> Value("number", text)
    [] text \in {"true", "false"} -> Value("boolean", text)
    [] OTHER -> Value("string", text)

\* The text of an element: tagValueProcessor may decide (a boolean), decline
\* (undefined: the text is kept), or leave it to the parser.
TagValue(name, text) ==
  IF \/ text = "" \/ name = "gameKey"
     \/ name \in BooleanProps /\ text \notin {"0", "1"}
  THEN Value("string", text)
  ELSE IF name \in BooleanProps THEN Value("boolean", IF text = "1" THEN "true" ELSE "false")
  ELSE ParseValue(text)

Named(kids, name) == SelectSeq(kids, LAMBDA k : k.name = name)

\* An element with children is an object of their values, which were made when
\* they ended; children of one name are an array exactly when there are several.
XmlValue(element) ==
  IF element.kids = << >> THEN TagValue(element.name, element.text)
  ELSE Value("object",
    [name \in {element.kids[i].name : i \in DOMAIN element.kids} |->
      LET same == {i \in DOMAIN element.kids : element.kids[i].name = name} IN
      IF \A i, j \in same : i = j THEN element.kids[CHOOSE i \in same : TRUE].value
      ELSE LET kids == Named(element.kids, name) IN
           Value("array", [i \in DOMAIN kids |-> kids[i].value])])

Empty(v) == v.type = "string" /\ v.value = ""

Truthy(v) ==
  /\ v.type # "undefined"
  /\ ~Empty(v)
  /\ v.type = "number" => v.value # "0"
  /\ v.type = "boolean" => v.value = "true"

-----------------------------------------------------------------------------
(* normalizeArrays *)

ArrayMapping ==
  [baseStats |-> "baseStat", gameWeeks |-> "gameWeek", games |-> "game", groups |-> "group",
   managers |-> "manager", matchups |-> "matchup", players |-> "player",
   positionTypes |-> "positionType", rosterPositions |-> "rosterPosition",
   statPositionTypes |-> "statPositionType", statWinners |-> "statWinner",
   stats |-> "stat", teamLogos |-> "teamLogo", teams |-> "team",
   transactions |-> "transaction", users |-> "user", leagues |-> "league"]

\* Mutant: a single item is left as it is.
UnwrapSeveral(plural, v) ==
  IF /\ plural \in DOMAIN ArrayMapping
     /\ v.type = "object"
     /\ ArrayMapping[plural] \in DOMAIN v.value
  THEN v.value[ArrayMapping[plural]]
  ELSE v

\* A plural wrapper gives way to the array of its items.
Unwrap(plural, v) ==
  IF /\ plural \in DOMAIN ArrayMapping
     /\ v.type = "object"
     /\ ArrayMapping[plural] \in DOMAIN v.value
  THEN LET items == v.value[ArrayMapping[plural]] IN
       IF items.type = "array" THEN items ELSE Value("array", <<items>>)
  ELSE v

\* An empty wrapper was parsed as an empty string.
EmptyAsArray(plural, v) ==
  IF plural \in DOMAIN ArrayMapping /\ Empty(v) THEN Value("array", << >>) ELSE v

\* `week-N` becomes `weekNN`, N padded to two digits.
WeekName == ("week-1" :> "week01") @@ ("week-9" :> "week09") @@ ("week-12" :> "week12")

WeekFlags(field, v) ==
  IF field = "weekHasEnoughQualifyingDays" /\ v.type = "object"
  THEN Value("object",
    [week \in {WeekName[w] : w \in DOMAIN v.value} |->
      LET w == CHOOSE w \in DOMAIN v.value : WeekName[w] = week IN
      Value("boolean", IF Truthy(v.value[w]) THEN "true" ELSE "false")])
  ELSE v

\* What normalizeArrays makes of the fields of an object before it goes on inside
\* of them; an array has no such fields.
NormalizeFields(v) ==
  IF v.type = "object"
  THEN Value("object",
    [f \in DOMAIN v.value |-> EmptyAsArray(f, WeekFlags(f, Unwrap(f, v.value[f])))])
  ELSE v

Composite(v) == v.type \in {"object", "array"}
=============================================================================
