------------------------------ MODULE Frontend ------------------------------
(***************************************************************************)
(* The frontend adapter (src/client/frontend.ts): which requests leave it, *)
(* for which host, and with which credentials.  It keeps no state.         *)
(*                                                                         *)
(* A route is a path of Resources, or one outside of it, given to the      *)
(* client directly.  The regular expressions of the allowlist end at the   *)
(* first `;`, so that they see the names on the path up to and with the    *)
(* first segment that has parameters.                                      *)
(***************************************************************************)
EXTENDS Resources

Methods == {"GET", "POST", "PUT", "DELETE"}
Authentications == {"public", "browser-session"}
Accesses == {"public", "private"}

\* The credentials that the caller of the client put in `headers`.
Headers == {"none", "cookie", "authorization"}

Names(path) == [i \in DOMAIN path |-> path[i].kind]

\* `users` always has use_login.
HasParameters(segment) ==
  segment.kind = "users" \/ \E name \in ParamNames: segment.params[name] # Undefined

\* What the regular expressions see of a path.
Observed(path) ==
  [i \in {i \in DOMAIN path: \A j \in 1..(i - 1): ~HasParameters(path[j])}
     |-> path[i].kind]

\* The routes of the v3 service, which no builder makes.
V3 == <<"v3">>

ReadableNested ==
  {<<"game", "players">>, <<"league", "teams">>, <<"league", "players">>,
   <<"league", "transactions">>, <<"team", "roster">>,
   <<"team", "matchups">>, <<"team", "team stats">>}
Readable ==
  {<<kind>>: kind \in Single \cup {"games"}} \cup ReadableNested

\* mutant: writes are looked up among the reads
HostOfAnyMethod(method, names) ==
  CASE names = V3 -> "neutral"
    [] names = <<"league", "teams">> -> "readWrite"
    [] names \in Readable \ {<<"league", "teams">>} -> "readOnly"
    [] OTHER -> ""

\* routeHost() and the check of resolveFrontendRoute(); "" stands for a throw.
Host(method, names) ==
  CASE names = V3 /\ method = "GET" -> "neutral"
    [] method = "GET" /\ names = <<"league", "teams">> -> "readWrite"
    [] method = "GET" /\ names \in Readable \ {<<"league", "teams">>} -> "readOnly"
    [] method = "PUT" /\ names = <<"team", "roster">> -> "readWrite"
    [] OTHER -> ""

\* mutant: a public client may do what one with a session may
SendsOfAnyClient(authentication, method, names, access, headers) ==
  /\ Host(method, names) # ""
  /\ headers # "authorization"
  /\ authentication = "public" => headers # "cookie"

\* YahooFrontendApiClient.request() calls fetch.
Sends(authentication, method, names, access, headers) ==
  /\ authentication = "public" => method = "GET" /\ access = "public"
  /\ Host(method, names) # ""
  /\ headers # "authorization"
  /\ authentication = "public" => headers # "cookie"

\* FrontendResourceTransport, which checks writes itself and adds no headers.
SendsResource(authentication, method, names, access) ==
  /\ method # "GET" => access = "private"
  /\ Sends(authentication, method, names, access, "none")

-----------------------------------------------------------------------------
(* Properties *)

\* Whatever path an application builds, and whichever client, method and
\* access it uses: a write leaves for the read-write host only, is for the
\* roster of one team, and carries a browser session; a public client sends
\* reads without credentials; and nothing is sent that starts at users or at
\* a collection other than games.
FrontendGuards ==
  LET path == Names(Path(resource)) IN
  \A authentication \in Authentications, method \in Methods,
     access \in Accesses, headers \in Headers,
     names \in {Observed(Path(resource)), V3}:
    Sends(authentication, method, names, access, headers) =>
      /\ method # "GET" => /\ authentication = "browser-session"
                           /\ Len(path) > 1 /\ path[1] = "team" /\ path[2] = "roster"
                           /\ Host(method, names) = "readWrite"
      /\ authentication = "public" => headers = "none" /\ access = "public"
      /\ names = V3 \/ path[1] \in Single \cup {"games"}
=============================================================================
