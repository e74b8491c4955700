-------------------------- MODULE ResponsesProofs ---------------------------
(***************************************************************************)
(* Theorems about Responses, for documents of any size, and whatever       *)
(* normalizeArrays makes of the values inside of an object.                *)
(***************************************************************************)
EXTENDS Responses, SequenceTheorems, TLAPS

-----------------------------------------------------------------------------
(* The document while it is written.                                       *)

Elements(U) == [name : U, desc : U, text : U, kids : Seq(U), value : U]

Textless(element) == element.text = ""

\* A root is declared as what it is: content has no text of its own, and an error
\* has descriptions only.
RootInv(root) ==
  /\ root.name = "fantasyContent" => root.desc = One("Response") /\ Textless(root)
  /\ root.name = "error" =>
       /\ root.desc = One("YahooError")
       /\ \A i \in 1..Len(root.kids) : root.kids[i].name = "description"

\* Elements stand where the contract allows it, the body is what was written, and
\* once it is answered nothing is written any more.
DocumentInv ==
  /\ \E U : open \in Seq(Elements(U))
  /\ \A i \in 2..Len(open) : open[i].name \in DOMAIN Children(open[i - 1].desc)
  /\ open # << >> => RootInv(open[1])
  /\ body # NoBody => RootInv(body) /\ body.value = XmlValue(body) /\ \E U : body \in Elements(U)
  /\ answer # NoBody => open = << >>

\* More values make more elements.
LEMMA ElementsGrow ==
  ASSUME NEW U, NEW W, U \subseteq W
  PROVE  Elements(U) \subseteq Elements(W) /\ Seq(Elements(U)) \subseteq Seq(Elements(W))
<1>1. Seq(U) \subseteq Seq(W)
  OBVIOUS
<1>2. Elements(U) \subseteq Elements(W)
  BY <1>1 DEF Elements
<1> QED
  BY <1>2

\* An element that begins,
LEMMA ElementBegins ==
  ASSUME NEW name, NEW desc
  PROVE  /\ \E U : Element(name, desc) \in Elements(U)
         /\ Element(name, desc).name = name /\ Element(name, desc).desc = desc
         /\ Textless(Element(name, desc)) /\ Element(name, desc).kids = << >>
<1>1. ASSUME NEW t, NEW v
      PROVE  [name |-> name, desc |-> desc, text |-> t, kids |-> << >>, value |-> v]
               \in Elements({name, desc, t, v})
  BY DEF Elements
<1>2. Element(name, desc) \in Elements({name, desc, "", Undefined})
  BY <1>1, Zenon DEF Element
<1>3. PICK t, v :
        /\ t = ""
        /\ Element(name, desc)
             = [name |-> name, desc |-> desc, text |-> t, kids |-> << >>, value |-> v]
  BY Zenon DEF Element
<1>4. /\ Element(name, desc).name = name /\ Element(name, desc).desc = desc
      /\ Element(name, desc).text = t /\ Element(name, desc).kids = << >>
  <2>1. Element(name, desc)
          = [name |-> name, desc |-> desc, text |-> t, kids |-> << >>, value |-> v]
    BY ONLY <1>3, Zenon
  <2> QED
    BY ONLY <2>1
<1> QED
  BY <1>2, <1>3, <1>4, Zenon DEF Textless

\* An error holds descriptions.
LEMMA ErrorFields == DOMAIN Children(One("YahooError")) = {"description"}
<1>1. Dto["YahooError"] = YahooError
  BY DEF Dto
<1>2. DOMAIN YahooError = {"description"}
  BY DEF YahooError, Strings
<1>3. One("YahooError").kind = "one" /\ One("YahooError").of = "YahooError"
  BY DEF One
<1> QED
  BY <1>1, <1>2, <1>3 DEF Children

-----------------------------------------------------------------------------
(* The steps of a document.                                                *)

\* The document before it has begun,
LEMMA DocumentInit == ResponsesInit => DocumentInv
<1> SUFFICES ASSUME ResponsesInit PROVE DocumentInv
  OBVIOUS
<1>1. PICK name \in {"fantasyContent", "error", "html"},
           desc \in {One("Response"), One("YahooError"), Maybe("YahooError")} :
        /\ open = <<Element(name, desc)>>
        /\ name = "fantasyContent" => desc = One("Response")
        /\ name = "error" => desc = One("YahooError")
  BY DEF ResponsesInit
<1>2. PICK U : Element(name, desc) \in Elements(U)
  BY ElementBegins
<1>3. open \in Seq(Elements(U)) /\ Len(open) = 1 /\ open[1] = Element(name, desc)
  BY <1>1, <1>2
<1>4. RootInv(open[1])
  BY <1>1, <1>3, ElementBegins DEF RootInv
<1> QED
  BY <1>3, <1>4 DEF DocumentInv, ResponsesInit

\* when an element begins,
LEMMA OpenStep ==
  ASSUME DocumentInv, open # << >>, NEW f \in DOMAIN Children(Top.desc), OpenElement(f)
  PROVE  DocumentInv'
<1> DEFINE new == Element(f, Children(Top.desc)[f])
<1>1. PICK U : open \in Seq(Elements(U))
  BY DEF DocumentInv
<1>2. PICK W : new \in Elements(W)
  BY ElementBegins
<1>3. open \in Seq(Elements(U \cup W)) /\ new \in Elements(U \cup W)
  BY <1>1, <1>2, ElementsGrow
<1>4. open' = Append(open, new) /\ UNCHANGED <<body, answer>>
  BY DEF OpenElement
<1>5. /\ open' \in Seq(Elements(U \cup W)) /\ Len(open') = Len(open) + 1
      /\ \A i \in 1..Len(open) : open'[i] = open[i]
      /\ open'[Len(open) + 1] = new
  BY <1>3, <1>4
<1>6. Len(open) \in Nat \ {0} /\ open[Len(open)] = Top
  BY <1>1 DEF Top, Last
<1>7. new.name = f
  BY ElementBegins
<1>8. \A i \in 2..Len(open') : open'[i].name \in DOMAIN Children(open'[i - 1].desc)
  <2> SUFFICES ASSUME NEW i \in 2..Len(open')
               PROVE  open'[i].name \in DOMAIN Children(open'[i - 1].desc)
    OBVIOUS
  <2>1. CASE i = Len(open) + 1
    BY <1>5, <1>6, <1>7, <2>1
  <2>2. CASE i # Len(open) + 1
    <3>1. i \in 2..Len(open) /\ i - 1 \in 1..Len(open)
      BY <1>5, <1>6, <2>2
    <3> QED
      BY <1>5, <3>1 DEF DocumentInv
  <2> QED
    BY <2>1, <2>2
<1>9. RootInv(open'[1])
  BY <1>5, <1>6 DEF DocumentInv
<1>10. answer' = NoBody
  BY <1>4 DEF DocumentInv
<1> QED
  BY <1>4, <1>5, <1>8, <1>9, <1>10 DEF DocumentInv

\* when its text is written,
LEMMA TextStep ==
  ASSUME DocumentInv, open # << >>, NEW text \in Texts(Top.desc), WriteText(text)
  PROVE  DocumentInv'
<1>1. PICK U : open \in Seq(Elements(U))
  BY DEF DocumentInv
<1>2. open' = [open EXCEPT ![Len(open)].text = text] /\ UNCHANGED <<body, answer>>
  BY DEF WriteText
<1>3. Len(open) \in Nat \ {0} /\ open[Len(open)] = Top /\ Top \in Elements(U)
  BY <1>1 DEF Top, Last
<1>4. open \in Seq(Elements(U \cup {text})) /\ Top \in Elements(U \cup {text})
  BY <1>1, <1>3, ElementsGrow
<1>5. [Top EXCEPT !.text = text] \in Elements(U \cup {text})
      /\ [Top EXCEPT !.text = text].name = Top.name
      /\ [Top EXCEPT !.text = text].desc = Top.desc
      /\ [Top EXCEPT !.text = text].kids = Top.kids
  BY <1>4 DEF Elements
<1>6. /\ open' \in Seq(Elements(U \cup {text})) /\ Len(open') = Len(open)
      /\ \A i \in 1..Len(open) :
           open'[i] = IF i = Len(open) THEN [Top EXCEPT !.text = text] ELSE open[i]
  BY <1>2, <1>3, <1>4, <1>5
<1>7. \A i \in 1..Len(open) : open'[i].name = open[i].name /\ open'[i].desc = open[i].desc
                               /\ open'[i].kids = open[i].kids
  BY <1>3, <1>5, <1>6
<1>8. \A i \in 2..Len(open') : open'[i].name \in DOMAIN Children(open'[i - 1].desc)
  <2> SUFFICES ASSUME NEW i \in 2..Len(open')
               PROVE  open'[i].name \in DOMAIN Children(open'[i - 1].desc)
    OBVIOUS
  <2>1. i \in 2..Len(open) /\ i \in 1..Len(open) /\ i - 1 \in 1..Len(open)
    BY <1>3, <1>6
  <2> QED
    BY <1>7, <2>1 DEF DocumentInv
<1>9. RootInv(open'[1])
  <2>1. open[1].name = "fantasyContent" => Len(open) # 1
    <3>1. ASSUME Top.desc = One("Response") PROVE Texts(Top.desc) = {}
      <4>1. Top.desc.kind = "one"
        BY <3>1 DEF One
      <4> QED
        BY <4>1, Zenon DEF Texts
    <3> QED
      BY <1>3, <3>1 DEF DocumentInv, RootInv
  <2>2. Len(open) # 1 => open'[1] = open[1]
    BY <1>3, <1>6
  <2>3. RootInv(open[1])
    BY DEF DocumentInv
  <2>4. 1 \in 1..Len(open)
    BY <1>3
  <2> QED
    BY <1>7, <2>1, <2>2, <2>3, <2>4 DEF RootInv
<1>10. answer' = NoBody
  BY <1>2 DEF DocumentInv
<1> QED
  BY <1>2, <1>6, <1>8, <1>9, <1>10 DEF DocumentInv

\* when an element ends,
LEMMA CloseStep == ASSUME DocumentInv, CloseElement PROVE DocumentInv'
<1>1. PICK U : open \in Seq(Elements(U))
  BY DEF DocumentInv
<1>2. open # << >> /\ UNCHANGED answer
  BY DEF CloseElement
<1>3. Len(open) \in Nat \ {0} /\ open[Len(open)] = Top /\ Top \in Elements(U)
  BY <1>1, <1>2 DEF Top, Last
<1> PICK W : W = U \cup {XmlValue(Top)}
  OBVIOUS
<1>4. open \in Seq(Elements(W)) /\ Top \in Elements(W)
  BY <1>1, <1>3, ElementsGrow
<1>5. /\ Ended \in Elements(W) /\ Ended.name = Top.name /\ Ended.desc = Top.desc
      /\ Ended.text = Top.text /\ Ended.kids = Top.kids /\ Ended.value = XmlValue(Top)
  BY <1>4 DEF Elements, Ended
<1>6. XmlValue(Ended) = XmlValue(Top)
  BY <1>5 DEF XmlValue
<1>7. CASE Len(open) = 1
  <2>1. open' = << >> /\ body' = Ended
    BY <1>7 DEF CloseElement
  <2>2. RootInv(Ended)
    BY <1>2, <1>3, <1>5, <1>7 DEF DocumentInv, RootInv, Textless
  <2>3. << >> \in Seq(Elements(W)) /\ Len(<< >>) = 0
    OBVIOUS
  <2> QED
    BY <1>2, <1>5, <1>6, <2>1, <2>2, <2>3 DEF DocumentInv
<1>8. CASE Len(open) # 1
  <2>0. Len(open) - 1 \in 1..Len(open)
    <3>1. \A k \in Nat \ {0} : k # 1 => k - 1 \in 1..k
      OBVIOUS
    <3> QED
      BY <1>3, <1>8, <3>1
  <2> PICK n : n = Len(open) - 1 /\ n \in 1..Len(open)
    BY <2>0
  <2> PICK X : X = W \cup {Ended}
    OBVIOUS
  <2> PICK parent : parent = [open[n] EXCEPT !.kids = Append(@, Ended)]
    OBVIOUS
  <2>1. open[n] \in Elements(W)
    BY <1>4
  <2>2. /\ open[n].kids \in Seq(W) /\ Append(open[n].kids, Ended) \in Seq(X)
        /\ Len(Append(open[n].kids, Ended)) = Len(open[n].kids) + 1
        /\ \A i \in 1..Len(open[n].kids) : Append(open[n].kids, Ended)[i] = open[n].kids[i]
        /\ Append(open[n].kids, Ended)[Len(open[n].kids) + 1] = Ended
    BY <2>1 DEF Elements
  <2>3. open[n] \in Elements(X) /\ open \in Seq(Elements(X))
    BY <1>4, <2>1, ElementsGrow
  <2>4. /\ parent \in Elements(X) /\ parent.name = open[n].name /\ parent.desc = open[n].desc
        /\ parent.text = open[n].text /\ parent.kids = Append(open[n].kids, Ended)
    BY <2>2, <2>3 DEF Elements
  <2>5. /\ Front(open) \in Seq(Elements(X)) /\ Len(Front(open)) = n
        /\ \A i \in 1..n : Front(open)[i] = open[i]
    BY <1>3, <2>1, <2>3 DEF Front
  <2>6. open' = [Front(open) EXCEPT ![n].kids = Append(@, Ended)] /\ UNCHANGED body
    BY <1>8 DEF CloseElement
  <2>7. /\ open' \in Seq(Elements(X)) /\ Len(open') = n
        /\ \A i \in 1..n : open'[i] = IF i = n THEN parent ELSE open[i]
    <3>1. Front(open)[n] = open[n]
      BY <2>0, <2>5
    <3>2. open' = [Front(open) EXCEPT ![n] = parent]
      BY <2>6, <3>1
    <3> QED
      BY <2>4, <2>5, <3>2
  <2>8. \A i \in 1..n : open'[i].name = open[i].name /\ open'[i].desc = open[i].desc
                        /\ open'[i].text = open[i].text
    BY <2>4, <2>7
  <2>9. \A i \in 2..Len(open') : open'[i].name \in DOMAIN Children(open'[i - 1].desc)
    <3> SUFFICES ASSUME NEW i \in 2..Len(open')
                 PROVE  open'[i].name \in DOMAIN Children(open'[i - 1].desc)
      OBVIOUS
    <3>1. i \in 2..Len(open) /\ i \in 1..n /\ i - 1 \in 1..n
      BY <2>1, <2>7
    <3> QED
      BY <2>8, <3>1 DEF DocumentInv
  <2>10. RootInv(open'[1])
    <3>1. RootInv(open[1]) /\ 1 \in 1..n
      BY <1>2, <2>1 DEF DocumentInv
    <3>2. CASE n # 1
      BY <2>7, <3>1, <3>2
    <3>3. CASE n = 1
      <4>1. open'[1] = parent /\ Len(open) = 2 /\ open[2] = Top /\ 2 \in 2..Len(open)
        BY <1>3, <2>7, <3>1, <3>3
      <4>2. Ended.name \in DOMAIN Children(open[1].desc)
        BY <1>3, <1>5, <4>1 DEF DocumentInv
      <4>3. open[1].desc = One("YahooError") => Ended.name = "description"
        BY <4>2, ErrorFields
      <4>4. Textless(open[1]) => Textless(parent)
        BY <2>4, <3>3, Zenon DEF Textless
      <4>5. ASSUME open[1].name = "error", NEW i \in 1..Len(parent.kids)
            PROVE  parent.kids[i].name = "description"
        <5>1. CASE i = Len(open[n].kids) + 1
          BY <2>2, <2>4, <3>1, <4>3, <4>5, <5>1 DEF RootInv
        <5>2. CASE i # Len(open[n].kids) + 1
          <6>1. i \in 1..Len(open[1].kids)
            BY <2>2, <2>4, <3>3, <5>2
          <6> QED
            BY <2>2, <2>4, <3>1, <3>3, <4>5, <6>1 DEF RootInv
        <5> QED
          BY <5>1, <5>2
      <4> QED
        BY <2>4, <3>1, <3>3, <4>1, <4>4, <4>5 DEF RootInv
    <3> QED
      BY <3>2, <3>3
  <2>11. answer' = NoBody
    BY <1>2 DEF DocumentInv
  <2> QED
    BY <2>6, <2>7, <2>9, <2>10, <2>11 DEF DocumentInv
<1> QED
  BY <1>7, <1>8

\* and when the request is answered.
LEMMA DocumentStep == DocumentInv /\ [ResponsesNext]_vars => DocumentInv'
<1> SUFFICES ASSUME DocumentInv, [ResponsesNext]_vars PROVE DocumentInv'
  OBVIOUS
<1>1. ASSUME NEW status \in Statuses, NEW method \in {"GET", "WRITE"},
             NEW rawXml \in BOOLEAN, NEW declared \in BOOLEAN,
             Answer(status, method, rawXml, declared)
      PROVE  DocumentInv'
  <2>1. open' = << >> /\ UNCHANGED body
    BY <1>1 DEF Answer
  <2>2. \A U : << >> \in Seq(Elements(U)) /\ Len(<< >>) = 0
    OBVIOUS
  <2> QED
    BY <2>1, <2>2 DEF DocumentInv
<1>2. CASE UNCHANGED vars
  BY <1>2 DEF vars, DocumentInv
<1> QED
  BY <1>1, <1>2, OpenStep, TextStep, CloseStep DEF ResponsesNext

LEMMA DocumentInvHolds == ResponsesSpec => []DocumentInv
BY DocumentInit, DocumentStep, PTL DEF ResponsesSpec

-----------------------------------------------------------------------------
(* What a request comes to.                                                *)

\* Objects and arrays are truthy, and what has no text is not.
LEMMA ObjectsAreTruthy == ASSUME NEW v, v.type \in {"object", "array"} PROVE Truthy(v)
<1>1. v.type \notin {"undefined", "string", "number", "boolean"}
  OBVIOUS
<1> QED
  BY <1>1, Zenon DEF Truthy, Empty

\* An object stays one, whatever is made of its fields.
LEMMA ObjectsStay ==
  ASSUME NEW v, v.type = "object"
  PROVE  NormalizeContent(v).type = "object"
<1>1. Composite(v) /\ NormalizeFields(v).type = "object"
  BY DEF Composite, NormalizeFields, Value
<1> QED
  BY <1>1 DEF NormalizeContent, Value

\* An element with children was read as an object, which has for each name an array
\* or the value of the one child of that name;
LEMMA ObjectRead ==
  ASSUME NEW U, NEW element \in Elements(U), element.kids # << >>
  PROVE  /\ XmlValue(element).type = "object"
         /\ \A i \in 1..Len(element.kids) :
              LET name == element.kids[i].name
                  read == XmlValue(element).value[name]
              IN  read.type = "array" \/ read = element.kids[i].value
<1> DEFINE Same(name) == {i \in DOMAIN element.kids : element.kids[i].name = name}
           Items(name) == [i \in DOMAIN Named(element.kids, name) |-> Named(element.kids, name)[i].value]
           Read(name) == IF \A i, j \in Same(name) : i = j
                         THEN element.kids[CHOOSE i \in Same(name) : TRUE].value
                         ELSE Value("array", Items(name))
<1>1. DOMAIN element.kids = 1..Len(element.kids)
  BY DEF Elements
<1>2. XmlValue(element) =
        Value("object", [name \in {element.kids[i].name : i \in DOMAIN element.kids} |-> Read(name)])
  BY Zenon DEF XmlValue
<1> HIDE DEF Items, Read
<1>3. /\ XmlValue(element).type = "object"
      /\ XmlValue(element).value =
           [name \in {element.kids[i].name : i \in DOMAIN element.kids} |-> Read(name)]
  BY <1>2 DEF Value
<1>4. ASSUME NEW i \in 1..Len(element.kids)
      PROVE  LET name == element.kids[i].name
                 read == XmlValue(element).value[name]
             IN  read.type = "array" \/ read = element.kids[i].value
  <2>1. XmlValue(element).value[element.kids[i].name] = Read(element.kids[i].name)
    BY <1>1, <1>3
  <2>2. i \in Same(element.kids[i].name)
    BY <1>1
  <2>3. (CHOOSE k \in Same(element.kids[i].name) : TRUE) \in Same(element.kids[i].name)
    BY <2>2
  <2>4. CASE \A k, l \in Same(element.kids[i].name) : k = l
    <3>1. (CHOOSE k \in Same(element.kids[i].name) : TRUE) = i
      BY <2>2, <2>3, <2>4
    <3>2. Read(element.kids[i].name)
            = element.kids[CHOOSE k \in Same(element.kids[i].name) : TRUE].value
      BY <2>4 DEF Read
    <3> QED
      BY <2>1, <3>1, <3>2
  <2>5. CASE ~(\A k, l \in Same(element.kids[i].name) : k = l)
    BY <2>1, <2>5 DEF Read, Value
  <2> QED
    BY <2>4, <2>5
<1> QED
  BY <1>3, <1>4

\* and one without children or text as an empty string.
LEMMA EmptyRead ==
  ASSUME NEW element, element.kids = << >>, Textless(element)
  PROVE  ~Truthy(XmlValue(element))
<1>1. XmlValue(element) = TagValue(element.name, element.text)
  BY DEF XmlValue
<1>2. \A type, value : Value(type, value).type = type /\ Value(type, value).value = value
  BY DEF Value
<1>3. TagValue(element.name, element.text) = Value("string", "")
  BY Zenon DEF TagValue, Textless
<1>4. PICK t : t = "" /\ XmlValue(element) = Value("string", t)
  BY <1>1, <1>3, Zenon
<1>5. XmlValue(element).type = "string" /\ XmlValue(element).value = t
  <2>1. XmlValue(element) = Value("string", t)
    BY ONLY <1>4, Zenon
  <2> QED
    BY ONLY <1>2, <2>1
<1> QED
  BY <1>4, <1>5, Zenon DEF Truthy, Empty

\* So a description of an error is found,
LEMMA DescriptionRead ==
  ASSUME DocumentInv, Described
  PROVE  /\ Description(body) = body.value.value["description"]
         /\ Description(body).type # "undefined"
<1>1. PICK U : body \in Elements(U)
  BY DEF DocumentInv, Described
<1>2. body.value = XmlValue(body) /\ RootInv(body) /\ body.name = "error"
  BY DEF DocumentInv, Described
<1>3. PICK i \in 1..Len(body.kids) : Truthy(body.kids[i].value)
  BY <1>1 DEF Elements, Described
<1>4. body.kids[i].name = "description" /\ body.kids # << >>
  BY <1>1, <1>2, <1>3 DEF RootInv, Elements
<1>5. /\ body.value.type = "object"
      /\ \/ body.value.value["description"].type = "array"
         \/ body.value.value["description"] = body.kids[i].value
  BY <1>1, <1>2, <1>3, <1>4, ObjectRead
<1>6. Truthy(body.value.value["description"])
  BY <1>3, <1>5, ObjectsAreTruthy
<1> QED
  BY <1>2, <1>5, <1>6, Zenon DEF Description, Truthy

\* and content is truthy exactly when it has any, before and after it is normalized.
LEMMA ContentRead ==
  ASSUME DocumentInv, body # NoBody, body.name = "fantasyContent"
  PROVE  /\ Truthy(body.value) <=> body.kids # << >>
         /\ Truthy(body.value) => Truthy(NormalizeContent(body.value))
<1>1. PICK U : body \in Elements(U)
  BY DEF DocumentInv
<1>2. body.value = XmlValue(body) /\ Textless(body)
  BY DEF DocumentInv, RootInv
<1>3. CASE body.kids # << >>
  <2>1. body.value.type = "object"
    BY <1>1, <1>2, <1>3, ObjectRead
  <2> QED
    BY <1>3, <2>1, ObjectsAreTruthy, ObjectsStay
<1>4. CASE body.kids = << >>
  BY <1>2, <1>4, EmptyRead
<1> QED
  BY <1>3, <1>4

\* The answer is honest when it is given.
LEMMA HonestStep ==
  ASSUME DocumentInv, NEW status \in Statuses, NEW method \in {"GET", "WRITE"},
         NEW rawXml \in BOOLEAN, NEW declared \in BOOLEAN,
         Answer(status, method, rawXml, declared)
  PROVE  AnswersAreHonest'
<1> DEFINE result == Response(status, method, rawXml, declared)
<1>1. UNCHANGED body /\ answer'.result = result /\ answer'.method = method
      /\ answer'.status = status /\ answer'.declared = declared
  BY DEF Answer
<1>2. \A class, reason : Thrown(class, reason).kind = "error" /\ Thrown(class, reason).reason = reason
  BY DEF Thrown
<1>3. \A kind, value : Resolve(kind, value).kind = kind /\ Resolve(kind, value).value = value
  BY DEF Resolve
<1>4. (Described' <=> Described) /\ (Accepted' <=> Accepted)
  BY <1>1 DEF Described, Accepted
<1>5. CASE ~Ok(status)
  <2>1. result = Thrown(ErrorClass(status), ErrorDescription(declared))
    BY <1>5 DEF Response
  <2>2. Described /\ declared => ErrorDescription(declared).type # "undefined"
    BY DescriptionRead DEF ErrorDescription, Described
  <2> QED
    BY <1>1, <1>2, <1>4, <1>5, <2>1, <2>2 DEF AnswersAreHonest
<1>6. CASE Ok(status) /\ (rawXml \/ (status = 204 /\ method # "GET"))
  <2>1. \/ result.kind = "raw"
        \/ result.kind = "undefined" /\ method # "GET"
    BY <1>3, <1>6 DEF Response
  <2> QED
    BY <1>1, <1>4, <2>1 DEF AnswersAreHonest
<1>7. CASE Ok(status) /\ ~rawXml /\ ~(status = 204 /\ method # "GET")
  <2>1. result = ReadBody(method)
    BY <1>7 DEF Response
  <2>2. CASE body = NoBody
    <3>1. \/ result.kind = "error" /\ method = "GET"
          \/ result.kind = "undefined" /\ method # "GET"
      BY <1>2, <1>3, <2>1, <2>2 DEF ReadBody
    <3> QED
      BY <1>1, <1>4, <2>2, <3>1 DEF AnswersAreHonest, Described
  <2>3. CASE body # NoBody /\ body.name = "fantasyContent" /\ Truthy(body.value)
    <3>1. result = Resolve("data", NormalizeContent(body.value))
      BY <2>1, <2>3 DEF ReadBody, ParseYahooXML
    <3>2. Truthy(NormalizeContent(body.value)) /\ ~Described
      BY <2>3, ContentRead DEF Described
    <3> QED
      BY <1>1, <1>3, <1>4, <3>1, <3>2 DEF AnswersAreHonest
  <2>4. CASE body # NoBody /\ ~(body.name = "fantasyContent" /\ Truthy(body.value))
    <3>1. result = Thrown("ParseError", Description(body))
      BY <2>1, <2>4 DEF ReadBody, ParseYahooXML
    <3>2. ~Accepted
      BY <2>4, ContentRead DEF Accepted
    <3>3. Described => Description(body).type # "undefined"
      BY DescriptionRead
    <3> QED
      BY <1>1, <1>2, <1>4, <3>1, <3>2, <3>3 DEF AnswersAreHonest
  <2> QED
    BY <2>2, <2>3, <2>4
<1> QED
  BY <1>5, <1>6, <1>7

\* An error that Yahoo describes is never taken for content, and its description
\* reaches the caller; a read never resolves without content; and a write that was
\* accepted is not reported as failed: for documents of every size, and whatever
\* normalizeArrays makes of the fields of the content.
THEOREM AnswersStayHonest == ResponsesSpec => []AnswersAreHonest
<1>1. ResponsesInit => AnswersAreHonest
  BY DEF ResponsesInit, AnswersAreHonest
<1>2. DocumentInv /\ AnswersAreHonest /\ [ResponsesNext]_vars => AnswersAreHonest'
  <2> SUFFICES ASSUME DocumentInv, AnswersAreHonest, [ResponsesNext]_vars
               PROVE  AnswersAreHonest'
    OBVIOUS
  <2>1. CASE UNCHANGED vars
    BY <2>1 DEF vars, AnswersAreHonest, Described, Accepted
  <2>2. ASSUME open # << >>, UNCHANGED answer PROVE AnswersAreHonest'
    BY <2>2 DEF DocumentInv, AnswersAreHonest
  <2>3. CASE \/ open # << >> /\ \E f \in DOMAIN Children(Top.desc) : OpenElement(f)
             \/ open # << >> /\ \E text \in Texts(Top.desc) : WriteText(text)
             \/ CloseElement
    <3>1. open # << >> /\ UNCHANGED answer
      BY <2>3, Zenon DEF OpenElement, WriteText, CloseElement
    <3> QED
      BY <2>2, <3>1
  <2> QED
    BY <2>1, <2>3, HonestStep DEF ResponsesNext
<1> QED
  BY <1>1, <1>2, DocumentInvHolds, PTL DEF ResponsesSpec
=============================================================================
