----------------------------- MODULE Documents ------------------------------
(***************************************************************************)
(* What callers read from the documents of Responses.tla: normalizeArrays  *)
(* through all of a value, compared with the contract, and the patterns    *)
(* that detectArrayPatterns finds.                                         *)
(***************************************************************************)
EXTENDS Responses

\* What Normalized is in the code: all levels of a value.
RECURSIVE NormalizeArrays(_)
NormalizeArrays(v) ==
  IF Composite(v)
  THEN LET w == NormalizeFields(v) IN
       Value(w.type, [f \in DOMAIN w.value |-> NormalizeArrays(w.value[f])])
  ELSE v

-----------------------------------------------------------------------------
(* detectArrayPatterns: wrappers recognized by their tags alone            *)

\* team and teams, match and matches, category and categories.
IsPluralOf(parent, child) ==
  \/ parent \in {child \o "s", child \o "es"}
  \/ parent = SubSeq(child, 1, Len(child) - 1) \o "ies" /\ child = SubSeq(child, 1, Len(child) - 1) \o "y"

\* Mutant: only the first tag of the document is looked at.
DetectFirst(element) ==
  IF element.kids # << >> /\ IsPluralOf(element.name, element.kids[1].name)
  THEN {<<element.name, element.kids[1].name>>} ELSE {}

\* An opening tag and the next one, when nothing is closed in between.
RECURSIVE DetectArrayPatterns(_)
DetectArrayPatterns(element) ==
  (IF element.kids # << >> /\ IsPluralOf(element.name, element.kids[1].name)
   THEN {<<element.name, element.kids[1].name>>} ELSE {})
    \cup UNION {DetectArrayPatterns(element.kids[i]) : i \in DOMAIN element.kids}

-----------------------------------------------------------------------------
(* What the contract promises                                              *)

\* A value that says what the text says.
SaysText(v, text) ==
  v.value = CASE v.type # "boolean" -> text
              [] text \in {"0", "false"} -> "false"
              [] OTHER -> "true"

\* A text that looks like a value of one of the types; other numbers than 0 and 1
\* do not look like a flag, nor like what may be a flag or a number.
LooksLike(text, types) ==
  \/ text \in {"0", "1"} /\ types \cap {"number", "boolean"} # {}
  \/ text \in {"2", "12"} /\ "number" \in types /\ "boolean" \notin types
  \/ text \notin {"0", "1", "2", "12", "true", "false"} /\ "string" \in types

\* A scalar of a declared type, unless its text looks like none of them.
ReadsScalar(v, text, types) ==
  /\ SaysText(v, text)
  /\ LooksLike(text, types) => v.type \in types

\* The value is built as the contract declares the element: every wrapper is the
\* array of its items in their order, whatever their number, every element is
\* there once, and every scalar says what its text says.
RECURSIVE Conforms(_, _, _)
Conforms(v, element, desc) ==
  LET kids == element.kids
      fields == Children(desc)
  IN
  CASE desc.kind = "scalar" -> ReadsScalar(v, element.text, desc.types)
    [] desc.kind = "repeated" -> ReadsScalar(v, element.text, {"string"})
    [] desc.kind = "key" -> v = Value("string", element.text)
    [] desc.kind = "maybe" /\ kids = << >> -> Empty(v)
    [] desc.kind = "many" ->
         /\ v.type = "array" /\ DOMAIN v.value = DOMAIN kids
         /\ \A i \in DOMAIN kids : Conforms(v.value[i], kids[i], desc.of)
    [] desc.kind = "weeks" ->
         /\ v.type = "object" /\ DOMAIN v.value = {WeekName[kids[i].name] : i \in DOMAIN kids}
         /\ \A i \in DOMAIN kids :
              LET flag == v.value[WeekName[kids[i].name]] IN
              flag.type = "boolean" /\ SaysText(flag, kids[i].text)
    [] desc.kind = "one" \/ (desc.kind = "maybe" /\ kids # << >>) ->
         /\ v.type = "object" /\ DOMAIN v.value = {kids[i].name : i \in DOMAIN kids}
         /\ \A f \in DOMAIN v.value :
              LET same == Named(kids, f) IN
              IF Len(same) = 1 THEN Conforms(v.value[f], same[1], fields[f])
              ELSE /\ v.value[f].type = "array" /\ DOMAIN v.value[f].value = DOMAIN same
                   /\ \A i \in DOMAIN same : Conforms(v.value[f].value[i], same[i], fields[f])

\* Whatever a request resolves with has the structure that normalized.ts declares
\* and says what the document says: no element is lost, doubled or put elsewhere,
\* a week's flag is a boolean and a game key a string.  Any other scalar has a
\* type that is declared, unless its text looks like no such type: an <edit_key>
\* of 16 is declared a string and read as a number, a <waiver_time> of 2 is
\* declared a boolean and left a string.
ReadsAsDeclared ==
  answer # NoBody /\ answer.result.kind = "data" => Conforms(answer.result.value, body, One("Response"))

RECURSIVE Wrappers(_)
Wrappers(element) ==
  (IF element.desc.kind = "many" /\ element.kids # << >>
   THEN {<<element.name, element.desc.item>>} ELSE {})
    \cup UNION {Wrappers(element.kids[i]) : i \in DOMAIN element.kids}

\* The patterns that detectArrayPatterns finds in a document are the wrappers
\* that normalizeArrays would unwrap in it, no more and no fewer.
PatternsAreWrappers ==
  body # NoBody =>
    /\ DetectArrayPatterns(body) = Wrappers(body)
    /\ \A p \in DetectArrayPatterns(body) : ArrayMapping[p[1]] = p[2]
=============================================================================
