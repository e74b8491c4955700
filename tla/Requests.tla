------------------------------ MODULE Requests ------------------------------
(***************************************************************************)
(* Lineup writes: a RosterMoveBuilder, the roster resource it is given to, *)
(* and the transport that sends the request.  The builder is mutable and   *)
(* the application may keep using it, and so is an object it passes as a   *)
(* body.  HttpClient waits between the call and fetch(); the frontend      *)
(* adapter does not.                                                       *)
(*                                                                         *)
(* roster.ts, roster-move-builder.ts, the ends of resource.ts and http.ts. *)
(***************************************************************************)
EXTENDS Frontend

CONSTANTS
  Moves,     \* a player and a position
  MaxMoves,  \* bound on the moves of a lineup
  Object,    \* a reference to the object the application passes as a body
  Contents,  \* what that object may hold
  Http,      \* the HttpClient as a transport
  None

ASSUME RequestsAssumption ==
  /\ MaxMoves \in Nat \ {0}
  /\ None \notin Contents
  /\ Http \notin Authentications \X Accesses

VARIABLES
  lineup,  \* the RosterMoveBuilder the application holds
  object,  \* the object it passes instead
  call     \* the put() in progress, or None

writes == <<lineup, object, call>>

EmptyLineup == [week |-> Undefined, date |-> Undefined, moves |-> <<>>]

-----------------------------------------------------------------------------
(* RosterMoveBuilder *)
Holding == resource.kind = "roster"

EditLineup(l) ==
  /\ Holding
  /\ lineup' = l
  /\ UNCHANGED <<vars, object, call>>

NewLineup == EditLineup(EmptyLineup)

\* mutant: the week is stored as a date
LineupWeekSwapped(w) ==
  EditLineup([lineup EXCEPT !.week = Undefined, !.date = w])

LineupWeek(w) == EditLineup([lineup EXCEPT !.week = w, !.date = Undefined])
LineupDate(d) == EditLineup([lineup EXCEPT !.date = d, !.week = Undefined])
MovePlayer(m) ==
  /\ Len(lineup.moves) < MaxMoves
  /\ EditLineup([lineup EXCEPT !.moves = Append(@, m)])
Players(m) == EditLineup([lineup EXCEPT !.moves = <<m>>])

Explicit(l) == l.week # Undefined \/ l.date # Undefined

\* mutant: a date that conflicts with a week goes unnoticed
ConflictOfWeeks(l, defaults) ==
  \/ l.week # Undefined /\ defaults["date"] # Undefined
  \/ /\ ~Explicit(l)
     /\ (defaults["week"] = Undefined) = (defaults["date"] = Undefined)

\* Coverage that validateCoverageDefaults() refuses, or that the defaults
\* leave open or state twice.
Conflict(l, defaults) ==
  \/ l.week # Undefined /\ defaults["date"] # Undefined
  \/ l.date # Undefined /\ defaults["week"] # Undefined
  \/ /\ ~Explicit(l)
     /\ (defaults["week"] = Undefined) = (defaults["date"] = Undefined)

\* toPayload() returns, and what it returns.
HasPayload(l, defaults) == l.moves # <<>> /\ ~Conflict(l, defaults)
Payload(l, defaults) ==
  [week |-> IF Explicit(l) THEN l.week ELSE defaults["week"],
   date |-> IF Explicit(l) THEN l.date ELSE defaults["date"],
   moves |-> l.moves]

-----------------------------------------------------------------------------
(* RosterResource.put() *)

\* What becomes of the body when the request is made: a string is final, an
\* object is still a reference.
Text(body) == IF body = Object THEN object ELSE body

\* A resource is built over HttpClient, or over a frontend client of some
\* authentication with some access.
Transports == {Http} \cup (Authentications \X Accesses)

\* The request that put() hands to the transport; `asked` and `stated` are
\* history: what the body said at the call, and the lineup's own coverage.
Request(via, body) ==
  [via |-> via, path |-> Path(resource), body |-> body, asked |-> Text(body),
   stated |-> [week |-> lineup.week, date |-> lineup.date], sent |-> FALSE]

\* HttpClient.put() waits for the limiter.  The frontend adapter makes its
\* request, body included, without an await, or throws.
Through(via, body) ==
  /\ call = None
  /\ call' = IF via = Http THEN Request(via, body)
             ELSE [Request(via, body) EXCEPT !.body = Text(body), !.sent = TRUE]
  /\ via # Http => SendsResource(via[1], "PUT", Observed(Path(resource)), via[2])
  /\ UNCHANGED <<vars, lineup, object>>

\* put(moves): the body is made at the call.
LineupBody == Payload(lineup, resource.params)
PutLineup(via) ==
  /\ Holding
  /\ HasPayload(lineup, resource.params)
  /\ Through(via, LineupBody)

PutObject(via) == Holding /\ Through(via, Object)

\* mutant: the lineup is written out only when the request has its turn
DispatchLate ==
  /\ call # None /\ ~call.sent
  /\ call' = [call EXCEPT !.sent = TRUE,
                          !.body = IF @ = Object THEN object
                                   ELSE Payload(lineup, resource.params)]
  /\ UNCHANGED <<vars, lineup, object>>

\* The request has its turn: requestInit.body is made, and fetch() is called.
Dispatch ==
  /\ call # None /\ ~call.sent
  /\ call' = [call EXCEPT !.body = Text(@), !.sent = TRUE]
  /\ UNCHANGED <<vars, lineup, object>>

\* put() settles, before or after the request was sent.
PutSettles ==
  /\ call # None
  /\ call' = None
  /\ UNCHANGED <<vars, lineup, object>>

MutateObject(content) ==
  /\ Holding /\ content # object
  /\ object' = content
  /\ UNCHANGED <<vars, lineup, call>>

-----------------------------------------------------------------------------
RequestsInit ==
  /\ Init
  /\ lineup = EmptyLineup
  /\ object \in Contents
  /\ call = None

\* Reduction: the application leaves a roster with an empty lineup, and makes
\* no builder while a write is in progress.  Builders are values: neither the
\* lineup nor the write depends on one that is made before or after.
Walk ==
  /\ \/ (Start \/ Descend) /\ lineup = EmptyLineup /\ call = None
     \/ Narrow /\ call = None
     \/ \E elements \in SUBSET Items: Mutate(elements)
  /\ UNCHANGED writes

RequestsNext ==
  \/ Walk
  \/ NewLineup
  \/ \E w \in Weeks: LineupWeek(w)
  \/ \E d \in Dates: LineupDate(d)
  \/ \E m \in Moves: MovePlayer(m) \/ Players(m)
  \/ \E via \in Transports: PutLineup(via) \/ PutObject(via)
  \/ Dispatch
  \/ PutSettles
  \/ \E content \in Contents: MutateObject(content)

RequestsSpec == RequestsInit /\ [][RequestsNext]_<<vars, writes>>

-----------------------------------------------------------------------------
(* Properties *)

TypeOK ==
  /\ ResourceTypeOK
  /\ lineup.week \in Weeks \cup {Undefined} /\ lineup.date \in Dates \cup {Undefined}
  /\ Len(lineup.moves) <= MaxMoves /\ \A i \in DOMAIN lineup.moves: lineup.moves[i] \in Moves
  /\ object \in Contents
  /\ call # None => call.via \in Transports /\ call.sent \in BOOLEAN

IsLineup(body) == body # Object /\ body \notin Contents

\* A lineup is sent as it was when put() was called, although the application
\* goes on with the builder while the request waits.  The frontend adapter
\* keeps that of objects too.
SentAsCalled ==
  call # None /\ call.sent /\ (IsLineup(call.body) \/ call.via # Http) =>
    call.body = call.asked

\* A lineup that is sent has moves and covers one week or one date, whichever
\* of the two the path is for, if it is for any.  It is the one that was stated
\* of the lineup at the call, though the path may be for another week or
\* another date; the one of the path if none was stated.
CoverageStated ==
  call # None /\ IsLineup(call.body) =>
    LET path == call.path[Len(call.path)].params
        body == call.body
        unstated == call.stated.week = Undefined /\ call.stated.date = Undefined IN
    /\ body.moves # <<>>
    /\ (body.week = Undefined) # (body.date = Undefined)
    /\ body.week = IF unstated THEN path["week"] ELSE call.stated.week
    /\ body.date = IF unstated THEN path["date"] ELSE call.stated.date
    /\ body.week # Undefined => path["date"] = Undefined
    /\ body.date # Undefined => path["week"] = Undefined

\* What leaves through the frontend adapter is the lineup of one team, by a
\* client with a browser session and private access.
FrontendWrites ==
  call # None /\ call.via # Http =>
    /\ call.via = <<"browser-session", "private">>
    /\ Names(call.path) = <<"team", "roster">>
=============================================================================
