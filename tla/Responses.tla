----------------------------- MODULE Responses ------------------------------
(***************************************************************************)
(* From the body of a response to what a request resolves with:            *)
(* parseYahooXML, the end of HttpClient.request(), and the error classes   *)
(* that it throws.                                                         *)
(*                                                                         *)
(* The document is written element by element, as the contract allows it   *)
(* (Contract.tla), and answered once it is complete.  What is read from it *)
(* is compared with the contract in Documents.tla.                         *)
(***************************************************************************)
EXTENDS Contract, XmlParser, SequencesExt

CONSTANTS
  StringTexts,  \* the texts of fields declared as strings
  NumberTexts,  \* the texts of fields declared as numbers
  MaxDepth,     \* bound: depth of a document of single children
  MaxElements,  \* bound: elements of a document with siblings anywhere
  MaxListed,    \* bound: elements of a document with siblings in wrappers only
  SmallBody,    \* bound: elements of a document that any status may carry
  NoBody,       \* an empty body, and the document not yet written
  Normalized(_) \* what normalizeArrays makes of a value, see Documents.tla

VARIABLES
  shape,   \* which documents are written: "deep", "wide" or "lists"
  open,    \* the elements begun and not ended, outermost first
  size,    \* how many elements were begun
  body,    \* the root element, once it has ended
  answer   \* what the request came to, and how it was made

vars == <<shape, open, size, body, answer>>

-----------------------------------------------------------------------------
\* normalizeArrays, up to what it makes of what is inside.
NormalizeContent(v) ==
  IF Composite(v)
  THEN LET w == NormalizeFields(v) IN
       Value(w.type, [f \in DOMAIN w.value |-> Normalized(w.value[f])])
  ELSE v

\* What an error says of itself; an empty description says nothing, and neither
\* does one that reads as zero or false.
Description(root) ==
  IF root.name = "error" /\ root.value.type = "object" /\ Truthy(root.value.value["description"])
  THEN root.value.value["description"] ELSE Undefined

\* parseYahooXML: the content, or an Error with what is known of the reason.
ParseYahooXML(root) ==
  LET parsed == root.value IN
  CASE root.name = "fantasyContent" /\ Truthy(parsed) ->
         [ok |-> TRUE, data |-> NormalizeContent(parsed)]
    [] OTHER -> [ok |-> FALSE, reason |-> Description(root)]

-----------------------------------------------------------------------------
(* The end of HttpClient.request()                                         *)

Statuses == {200, 204, 401, 404, 418, 429, 500}
Ok(status) == status \in {200, 204}

\* The description that YahooApiError finds in a response with a declaration.
ErrorDescription(declared) ==
  IF body # NoBody /\ declared THEN Description(body) ELSE Undefined

Thrown(class, reason) == [kind |-> "error", class |-> class, reason |-> reason]
Resolve(kind, value) == [kind |-> kind, value |-> value]

\* Mutant: an error in the body of a success is taken for its content.
ReadBodyAnyway(method) ==
  IF body = NoBody
  THEN IF method = "GET" THEN Thrown("ParseError", Undefined) ELSE Resolve("undefined", Undefined)
  ELSE Resolve("data", NormalizeContent(body.value))

\* The body of a success.
ReadBody(method) ==
  IF body = NoBody
  THEN IF method = "GET" THEN Thrown("ParseError", Undefined) ELSE Resolve("undefined", Undefined)
  ELSE LET parsed == ParseYahooXML(body) IN
       IF parsed.ok THEN Resolve("data", parsed.data) ELSE Thrown("ParseError", parsed.reason)

ErrorClass(status) ==
  CASE status = 429 -> "RateLimitError"
    [] status = 401 -> "AuthenticationError"
    [] status = 404 -> "NotFoundError"
    [] OTHER -> "YahooApiError"

\* What the last attempt of a request comes to.
Response(status, method, rawXml, declared) ==
  IF ~Ok(status) THEN Thrown(ErrorClass(status), ErrorDescription(declared))
  ELSE IF status = 204 /\ method # "GET" /\ ~rawXml THEN Resolve("undefined", Undefined)
  ELSE IF rawXml THEN Resolve("raw", Undefined)
  ELSE ReadBody(method)

-----------------------------------------------------------------------------
(* Yahoo: writes a document and sends it                                   *)

Element(name, desc) ==
  [name |-> name, desc |-> desc, text |-> "", kids |-> << >>, value |-> Undefined]

ResponsesInit ==
  /\ shape \in {"deep", "wide", "lists"}
  /\ \E root \in {<<"fantasyContent", One("Response")>>, <<"error", One("YahooError")>>,
                  <<"html", Maybe("YahooError")>>} :
       open = <<Element(root[1], root[2])>>
  /\ size = 1
  /\ body = NoBody
  /\ answer = NoBody

Top == Last(open)
Compound == {"one", "maybe", "many", "weeks"}

\* The elements that may stand in an element, and how they are declared.
Children(desc) ==
  CASE desc.kind \in {"one", "maybe"} -> Dto[desc.of]
    [] desc.kind = "many" -> [f \in {desc.item} |-> desc.of]
    [] desc.kind = "weeks" -> [f \in DOMAIN WeekName |-> Flag]
    [] OTHER -> << >>

Texts(desc) ==
  CASE desc.kind = "scalar" ->
         (IF "string" \in desc.types THEN StringTexts ELSE {})
           \cup (IF "boolean" \in desc.types THEN {"0", "1", "2"}
                 ELSE IF "number" \in desc.types THEN NumberTexts ELSE {})
    [] desc.kind = "key" -> {"12", "abc"}
    [] desc.kind = "repeated" -> StringTexts \ {""}
    [] OTHER -> {}

\* A document with siblings has every kind of wrapper and object, and of the
\* scalars of a DTO one.
Sampled(fields, f) ==
  LET scalars == {g \in DOMAIN fields : fields[g].kind \in {"scalar", "key"}} IN
  f \in scalars => f = CHOOSE g \in scalars : TRUE

OpenElement(f) ==
  LET fields == Children(Top.desc) IN
  /\ Named(Top.kids, f) # << >> => Top.desc.kind = "many" \/ fields[f].kind = "repeated"
  /\ \/ shape = "deep" /\ Top.kids = << >> /\ Len(open) < MaxDepth
     \/ shape = "wide" /\ size < MaxElements /\ Sampled(fields, f)
     \/ /\ shape = "lists" /\ size < MaxListed /\ Sampled(fields, f)
        /\ Top.kids # << >> => Top.desc.kind = "many"
  /\ open' = Append(open, Element(f, fields[f]))
  /\ size' = size + 1
  /\ UNCHANGED <<shape, body, answer>>

WriteText(text) ==
  /\ Top.text = "" /\ text # ""
  /\ open' = [open EXCEPT ![Len(open)].text = text]
  /\ UNCHANGED <<shape, size, body, answer>>

\* Objects have fields, and maps have weeks.
MayClose(element) ==
  CASE element.desc.kind \in {"one", "weeks"} -> element.kids # << >> \/ Len(open) = 1
    [] element.desc.kind \in {"maybe", "many"} -> TRUE
    [] OTHER -> element.text \in Texts(element.desc)

\* The parser makes the value of an element when it ends.
Ended == [Top EXCEPT !.value = XmlValue(Top)]

CloseElement ==
  /\ open # << >> /\ MayClose(Top)
  /\ IF Len(open) = 1
     THEN open' = << >> /\ body' = Ended
     ELSE /\ open' = [Front(open) EXCEPT ![Len(open) - 1].kids = Append(@, Ended)]
          /\ UNCHANGED body
  /\ UNCHANGED <<shape, size, answer>>

\* The body is complete, or there is none: the request is answered.
Answer(status, method, rawXml, declared) ==
  /\ answer = NoBody
  /\ open = << >> \/ size = 1
  /\ size > SmallBody => status = 200 /\ method = "GET" /\ ~rawXml /\ declared
  /\ answer' = [result |-> Response(status, method, rawXml, declared),
                status |-> status, method |-> method, declared |-> declared]
  /\ open' = << >>
  /\ UNCHANGED <<shape, size, body>>

ResponsesNext ==
  \/ open # << >> /\ \E f \in DOMAIN Children(Top.desc) : OpenElement(f)
  \/ open # << >> /\ \E text \in Texts(Top.desc) : WriteText(text)
  \/ CloseElement
  \/ \E status \in Statuses, method \in {"GET", "WRITE"}, rawXml, declared \in BOOLEAN :
       Answer(status, method, rawXml, declared)

ResponsesSpec == ResponsesInit /\ [][ResponsesNext]_vars

-----------------------------------------------------------------------------
(* What callers rely on *)

\* An error that Yahoo describes is never taken for content, with whatever
\* status it comes, and its description reaches the caller; a read never
\* resolves without content, and a write that Yahoo accepted, with a document
\* of the contract or without a body, is not reported as failed.
Described ==
  /\ body # NoBody /\ body.name = "error"
  /\ \E i \in DOMAIN body.kids : Truthy(body.kids[i].value)
Accepted == body = NoBody \/ (body.name = "fantasyContent" /\ body.kids # << >>)

AnswersAreHonest ==
  answer # NoBody =>
    LET result == answer.result IN
    /\ Described => result.kind # "data"
    /\ Described /\ result.kind = "error" /\ answer.declared => result.reason.type # "undefined"
    /\ result.kind = "data" => Truthy(result.value)
    /\ answer.method = "GET" => result.kind # "undefined"
    /\ answer.method # "GET" /\ Ok(answer.status) /\ Accepted => result.kind # "error"
=============================================================================
