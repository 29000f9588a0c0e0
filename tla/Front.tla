-------------------------------- MODULE Front --------------------------------
(***************************************************************************)
(* A request from the socket to its answer: the HTTP services pick path    *)
(* and operation (http/sys.rs, http/logical.rs, http/mod.rs), the core     *)
(* runs its handlers phase by phase (core.rs handle_request), the token    *)
(* store authenticates before the routing and registers what a response    *)
(* grants after it (token_store.rs), the router hands the request to what  *)
(* is mounted (router.rs), and the backend dispatches it (Routes).         *)
(*                                                                         *)
(* Other clients may replace the backend mounted at "app" between any two  *)
(* phases: they hold the same read lock.  Sealing takes the write lock and *)
(* waits for the request.                                                  *)
(***************************************************************************)
EXTENDS Routes

CONSTANTS AppBackends,  \* the backends that get mounted at "app"
          AppPaths      \* paths below it

ASSUME AppAssumption == AppBackends \subseteq DOMAIN Backends /\ AppPaths \subseteq Seq(STRING)

VARIABLES fsealed,  \* Core::sealed
          fapp,     \* what is mounted at "app", or "none"
          freq,     \* the request
          fchanged  \* the mount was replaced between the request's check and its routing

frontVars == <<fsealed, fapp, freq, fchanged>>

NoRequest == [at |-> "idle"]

FrontInit ==
    /\ fsealed = FALSE
    /\ fapp \in AppBackends
    /\ freq = NoRequest
    /\ fchanged = FALSE

-----------------------------------------------------------------------------
(* HTTP *)

Methods == {"GET", "POST", "PUT", "DELETE", "LIST", "PATCH"}

\* A resource of the sys service, a method it has a handler for, and what the
\* handler asks of the core.
Resource(res, method, path, op) == [res |-> res, method |-> method, path |-> path, op |-> op]

MountResources(n) ==
    {Resource(<<"remount">>, m, <<"remount">>, "Write") : m \in {"POST", "PUT"}} \cup
    UNION {{Resource(<<t>>, "GET", <<t>>, "Read"), Resource(<<t, Blank>>, "GET", <<t>>, "Read"),
            Resource(<<t, Blank>>, "POST", <<t, n>>, "Write"),
            Resource(<<t, Blank>>, "DELETE", <<t, n>>, "Delete")} : t \in {"mounts", "auth"}}

\* A read without a name is a list.
PolicyResources(n) ==
    UNION {{Resource(t, "GET", t, "List"),
            Resource(Append(t, Blank), "GET", Append(t, n), IF n = Blank THEN "List" ELSE "Read"),
            Resource(Append(t, Blank), "POST", Append(t, n), "Write"),
            Resource(Append(t, Blank), "DELETE", Append(t, n), "Delete")} :
           t \in {<<"policy">>, <<"policies", "acl">>}}

SysResources(n) == MountResources(n) \cup PolicyResources(n)

Answer(status) == [at |-> "answered", status |-> status, be |-> Blank, path |-> <<>>, op |-> Blank,
                   token |-> Blank, ran |-> "none", resp |-> "none"]

\* To the core: be is "sys" or "app".
Submit(be, path, op, token) ==
    [Answer("none") EXCEPT !.at = "pre_route", !.be = be, !.path = path, !.op = op, !.token = token]

\* The handlers of the sys service: a body that does not parse, then a missing
\* name, end it.
HttpSys(n, r, token, parses) ==
    /\ freq = NoRequest
    /\ r \in SysResources(n)
    /\ freq' = IF r.op = "Write" /\ ~parses THEN Answer("error")
               ELSE IF n = Blank /\ r.op \in {"Write", "Delete"} /\ r.res # <<"remount">> THEN Answer("404")
               ELSE Submit("sys", r.path, r.op, token)
    /\ fchanged' = FALSE
    /\ UNCHANGED <<fsealed, fapp>>

\* logical_request_handler: any path, the operation from the method.
HttpLogical(method, path, token, parses) ==
    LET op == CASE method = "GET" -> "Read" [] method \in {"POST", "PUT"} -> "Write"
                [] method = "DELETE" -> "Delete" [] method = "LIST" -> "List" [] OTHER -> Blank IN
    /\ freq = NoRequest
    /\ freq' = IF op = "Write" /\ ~parses THEN Answer("error")
               ELSE IF op = Blank THEN Answer("405") ELSE Submit("app", path, op, token)
    /\ fchanged' = FALSE
    /\ UNCHANGED <<fsealed, fapp>>

-----------------------------------------------------------------------------
(* The phases of Core::handle_request *)

Mounted(be) == IF be = "sys" THEN "sys" ELSE fapp

Unauth(r) == Mounted(r.be) # "none" /\ is_unauth_path(Backends[Mounted(r.be)], r.path)

\* What get_token_from_req may find in a request: nothing, or a token.
ClientTokens == {Blank, "root", "bare", "reader", "gone"}

\* check_token finds the token, and the policy store's post_auth admits it:
\* the root token and one that names no policy to everything, the other one
\* to reads below "app".
check_token(r) == r.token \in {"root", "bare", "reader"}
post_auth(r) == \/ r.token \in {"root", "bare"}
                \/ r.be = "app" /\ r.op \in {"Read", "List"}

\* Slip: a token that is not found is let through to post_auth.
Authenticated_any(r) == r.token # Blank /\ post_auth([r EXCEPT !.token = "root"])

Authenticated(r) == check_token(r) /\ post_auth(r)

\* Sealed, no handler runs.  TokenStore::pre_route: an unauthenticated path
\* passes, any other needs a token.
PreRoute ==
    /\ freq.at = "pre_route"
    /\ freq' = IF fsealed THEN Answer("error")
               ELSE IF Unauth(freq) \/ Authenticated(freq) THEN [freq EXCEPT !.at = "route"]
               ELSE Answer("error")
    /\ UNCHANGED <<fsealed, fapp, fchanged>>

\* Router::handle_request and the backend's dispatch; the handler may fail,
\* return nothing, or a response with data, a secret or a login.
RouteRequest ==
    /\ freq.at = "route"
    /\ LET be == Mounted(freq.be)
           i == IF be = "none" THEN 0 ELSE match_path(Backends[be], freq.path)
           served == i # 0 /\ freq.op \in DOMAIN Backends[be].routes[i].ops
       IN  \/ /\ ~served
              /\ freq' = [freq EXCEPT !.at = "answered",
                                      !.status = IF be = "none" THEN "not mounted" ELSE "unsupported"]
           \/ /\ served
              /\ LET h == Backends[be].routes[i].ops[freq.op] IN
                 \/ freq' = [freq EXCEPT !.at = "answered", !.status = "error", !.ran = h]
                 \/ \E resp \in {"none", "data"} \cup (IF h = "login" THEN {"login"} ELSE {}) :
                       freq' = [freq EXCEPT !.at = "post_route", !.ran = h, !.resp = resp]
    /\ UNCHANGED <<fsealed, fapp, fchanged>>

\* The answer to what a handler returned: nothing to a read is 404, but from sys.
response_logical(r) ==
    CASE r.resp = "login" -> "token"
      [] r.resp = "data" -> "200"
      [] r.resp = "none" /\ r.be = "app" /\ r.op \in {"Read", "List"} -> "404"
      [] OTHER -> "204"

\* TokenStore::post_route: a login gets its token, unless the path needs one,
\* or creating it fails.  log: no handler has one.
PostRoute ==
    /\ freq.at = "post_route"
    /\ \/ freq.resp = "login" /\ freq' = [freq EXCEPT !.at = "answered", !.status = "error"]
       \/ /\ freq.resp = "login" => Unauth(freq)
          /\ freq' = [freq EXCEPT !.at = "answered", !.status = response_logical(freq)]
    /\ UNCHANGED <<fsealed, fapp, fchanged>>

NextRequest == freq.at = "answered" /\ freq' = NoRequest /\ UNCHANGED <<fsealed, fapp, fchanged>>

\* Another client's mount, unmount or remount.
ReplaceMount(be) ==
    /\ be # fapp
    /\ fapp' = be
    /\ fchanged' = (fchanged \/ freq.at = "route")
    /\ UNCHANGED <<fsealed, freq>>

\* With the write lock of the core.
SealOrUnseal ==
    /\ freq.at \in {"idle", "answered"}
    /\ fsealed' = ~fsealed
    /\ UNCHANGED <<fapp, freq, fchanged>>

FrontNext ==
    \/ \E token \in ClientTokens, parses \in BOOLEAN :
          \/ \E n \in {Blank, "nam"} : \E r \in SysResources(n) : HttpSys(n, r, token, parses)
          \/ \E m \in Methods, path \in AppPaths : HttpLogical(m, path, token, parses)
    \/ PreRoute \/ RouteRequest \/ PostRoute \/ NextRequest
    \/ \E be \in AppBackends \cup {"none"} : ReplaceMount(be)
    \/ SealOrUnseal

FrontSpec == FrontInit /\ [][FrontNext]_frontVars

-----------------------------------------------------------------------------
\* From the socket to the answer, over the two tables of routes, the phases and
\* the mounts other clients change: a handler that is not public runs only for
\* a request whose token was found and admitted - unless the mount was replaced
\* after the check, which the phases do not repeat; an answer other than an
\* error comes from a handler that ran; a token is handed out by a login only;
\* and whatever the sys service lets through is a route of the system backend
\* with that operation.
FrontSound ==
    freq.at \in {"post_route", "answered"} =>
      /\ freq.ran \notin {"none"} \cup PublicHandlers =>
            (check_token(freq) /\ post_auth(freq)) \/ fchanged
      /\ freq.status \in {"200", "204", "token"} => freq.ran # "none"
      /\ freq.status = "token" => freq.ran = "login"
      /\ freq.status = "unsupported" => freq.be # "sys"
===============================================================================
