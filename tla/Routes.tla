------------------------------- MODULE Routes -------------------------------
(***************************************************************************)
(* How a logical backend serves a request: LogicalBackend::handle_request  *)
(* picks the first route whose pattern matches, hands the captured parts   *)
(* of the path to the handler, the handler reads the fields it needs, and  *)
(* the secret fields are blanked when it returns (logical/backend.rs,      *)
(* logical/request.rs, logical/field.rs).  The router asks first whether   *)
(* the path needs a token or sudo (router.rs).                             *)
(*                                                                         *)
(* A field's value is abstracted to its kind: what the JSON type is and    *)
(* what its text parses as.                                                *)
(***************************************************************************)
EXTENDS RouteTables, FiniteSets, SequencesExt

CONSTANTS
    SampleNames   \* the name segments and tails that requests are tried with

ASSUME SampleNamesAreSegments == SampleNames \subseteq STRING

VARIABLES
    hreq    \* the request: its backend, path, operation, captured data, body and progress

Texts   == {"str", "blank", "decimal", "signed", "duration"}
Kinds   == Texts \cup {"int", "negint", "bool", "array", "mixed", "object"}
OpNames == {"Read", "Write", "Delete", "List", "Help"}

-----------------------------------------------------------------------------
\* FieldTrait for Value: which kinds pass the type check, and which convert.
is_int(v)      == v \in {"int", "negint", "decimal", "signed"}
is_duration(v) == v \in {"int", "negint", "decimal", "duration"}
is_comma_string_slice(v) == v \in Texts \cup {"array", "int", "negint"}
as_int(v)      == is_int(v)
as_duration(v) == v \in {"int", "decimal", "duration"}
as_comma_string_slice(v) == is_comma_string_slice(v)

check_data_type(type, v) ==
    CASE type \in {Str, SecretStr} -> v \in Texts
      [] type = Integer  -> is_int(v)
      [] type = Bool     -> v = "bool"
      [] type = Array    -> v \in {"array", "mixed"}
      [] type = Map      -> v = "object"
      [] type = Duration -> is_duration(v)
      [] type = Slice    -> is_comma_string_slice(v)

\* serde's own conversions: no text is a number for them.
as_u64(v) == v = "int"
as_i64(v) == v \in {"int", "negint"}

\* The conversion of an Int field is up to the handler that reads it (the
\* backends agree on the keys): only some take as_int, which fits the check.
\* ttl is read twice.
converts_int(key, v) ==
    CASE key \in {"token_num_uses", "key_bits", "signature_bits", "not_before_duration",
                  "lease", "max_ttl"} -> as_u64(v)
      [] key \in {"num_uses", "ocsp_cache_size"} -> as_i64(v)
      [] key = "secret_id_ttl" -> as_duration(v)
      [] key = "ttl" -> as_int(v) /\ as_duration(v)
      [] OTHER -> as_int(v)

\* The conversion a handler applies to a field of this type.
converts(key, type, v) ==
    CASE type \in {Str, SecretStr} -> v \in Texts
      [] type = Integer  -> converts_int(key, v)
      [] type = Bool     -> v = "bool"
      [] type = Array    -> v \in {"array", "mixed"}
      [] type = Map      -> v = "object"
      [] type = Duration -> as_duration(v)
      [] type = Slice    -> as_comma_string_slice(v)

\* A field's default, or the zero of its type; "error" when the declared one
\* has another type.
get_default(field) ==
    IF field.default = "null"
    THEN CASE field.type \in {Str, SecretStr}     -> "blank"
           [] field.type \in {Integer, Duration} -> "int"
           [] field.type = Bool                  -> "bool"
           [] field.type \in {Array, Slice}      -> "array"
           [] field.type = Map                   -> "object"
    ELSE CASE field.type \in {Str, SecretStr} -> IF field.default \in Texts THEN field.default ELSE "error"
           [] field.type = Integer  -> IF field.default \in {"int", "negint"} THEN field.default ELSE "error"
           [] field.type = Bool     -> IF field.default = "bool" THEN field.default ELSE "error"
           [] field.type = Array    -> IF field.default = "array" THEN field.default ELSE "error"
           [] field.type = Map      -> IF field.default = "object" THEN field.default ELSE "error"
           [] field.type = Duration -> IF is_duration(field.default) THEN field.default ELSE "error"
           [] field.type = Slice    -> IF is_comma_string_slice(field.default) THEN field.default
                                       ELSE "error"

-----------------------------------------------------------------------------
\* init anchors every pattern at both ends, so a match is a match of the
\* whole path.
Matches(path, route) ==
    LET n    == Len(route.pattern)
        rest == SubSeq(path, n + 1, Len(path))
    IN  /\ Len(path) >= n
        /\ \A i \in 1..n : path[i] \in route.pattern[i].is
        /\ CASE route.tail.kind = "end"   -> rest = <<>>
             [] route.tail.kind = "slash" -> rest \in {<<>>, <<Blank>>}
             [] route.tail.kind = "pem"   -> rest \in {<<>>, <<"pem">>}
             [] route.tail.kind = "rest"  -> rest \notin {<<>>, <<Blank>>}
             [] route.tail.kind = "any"   -> TRUE

\* A pattern without the closing anchor matches every longer path.
Anchored_open(path, route) ==
    \E n \in 0..Len(path) : Matches(SubSeq(path, 1, n), route)

Anchored(path, route) == Matches(path, route)

\* The index of the first route that matches, 0 when there is none.
match_path(b, path) ==
    LET hits == {i \in 1..Len(b.routes) : Anchored(path, b.routes[i])}
    IN  IF hits = {} THEN 0 ELSE CHOOSE i \in hits : \A j \in hits : i <= j

\* The named groups of a match.
captures(route) ==
    ({e.as : e \in Range(route.pattern)} \cup {route.tail.as}) \ {Blank}

\* The longest registered key the path starts with decides, by a prefix or
\* by an exact match (Router::is_unauth_path and is_root_path).
Covered(key, path) ==
    /\ IsPrefix(key.path, path)
    /\ key.prefix => Len(path) > Len(key.path)

best_key(keys, path) ==
    {k \in keys : /\ Covered(k, path)
                  /\ \A j \in keys : Covered(j, path) =>
                        Len(j.path) < Len(k.path) \/ (Len(j.path) = Len(k.path) /\ (j.prefix => k.prefix))}

\* Every key taken for a prefix.
is_special_path_prefix(keys, path) == \E k \in best_key(keys, path) : TRUE

is_special_path(keys, path) ==
    \E k \in best_key(keys, path) : k.prefix \/ k.path = path

is_unauth_path(b, path) == is_special_path(b.unauth, path)
is_root_path(b, path)   == is_special_path(b.root, path)

-----------------------------------------------------------------------------
\* Request::get_data_raw: the captured data first, then the body, then the
\* default; [ok, src, kind] or an error.
Error(e) == [ok |-> FALSE, src |-> e, kind |-> "null"]

\* The body before what the path says.
get_data_raw_body_first(req, route, key, default) ==
    IF key \notin DOMAIN route.fields THEN Error("NoDataField")
    ELSE CASE key \in DOMAIN req.body ->
                 IF check_data_type(route.fields[key].type, req.body[key])
                 THEN [ok |-> TRUE, src |-> "body", kind |-> req.body[key]] ELSE Error("FieldInvalid")
           [] key \in req.data \ DOMAIN req.body -> [ok |-> TRUE, src |-> "path", kind |-> "str"]
           [] OTHER -> Error("FieldNotFound")

get_data_raw(req, route, key, default) ==
    IF key \notin DOMAIN route.fields THEN Error("NoDataField")
    ELSE CASE key \in req.data ->
                 IF check_data_type(route.fields[key].type, "str")
                 THEN [ok |-> TRUE, src |-> "path", kind |-> "str"] ELSE Error("FieldInvalid")
           [] key \in DOMAIN req.body \ req.data ->
                 IF check_data_type(route.fields[key].type, req.body[key])
                 THEN [ok |-> TRUE, src |-> "body", kind |-> req.body[key]] ELSE Error("FieldInvalid")
           [] OTHER ->
                 IF ~default \/ route.fields[key].required THEN Error("FieldNotFound")
                 ELSE LET v == get_default(route.fields[key])
                      IN  IF v = "error" THEN Error("DowncastFailed")
                          ELSE [ok |-> TRUE, src |-> "default", kind |-> v]

NoData(req) == req.data = {} /\ req.body = <<>>

get_data(req, route, key) ==
    IF NoData(req) THEN Error("NoData") ELSE get_data_raw(req, route, key, FALSE)

get_data_or_default(req, route, key) ==
    IF NoData(req) THEN Error("NoData") ELSE get_data_raw(req, route, key, TRUE)

\* The first of two names that is present.
get_data_or_next(req, route, key, next) ==
    LET first == get_data(req, route, key)
    IN  IF first.ok \/ first.src # "FieldNotFound" THEN first ELSE get_data(req, route, next)

get_data_as_str(req, route, key) ==
    LET v == get_data(req, route, key)
    IN  CASE ~v.ok            -> v
          [] v.kind = "blank" -> Error("Missing")
          [] v.kind \in Texts \ {"blank"} -> v
          [] OTHER            -> Error("FieldInvalid")

\* clear_data over the secret fields of every route of the backend.
SecretFields(b) ==
    UNION {{k \in DOMAIN r.fields : r.fields[k].type = SecretStr} : r \in Range(b.routes)}

clear_secret_field(req, b) ==
    [k \in DOMAIN req.body |->
        IF k \in SecretFields(b) /\ req.body[k] \in Texts THEN "blank" ELSE req.body[k]]

-----------------------------------------------------------------------------
Idle == [at |-> "idle", be |-> Blank, path |-> <<>>, op |-> Blank, data |-> {}, body |-> <<>>,
         route |-> 0, key |-> Blank, got |-> Error(Blank)]

\* The paths requests are made for: every route's pattern with the sample
\* names in its places, those cut short, and those with a segment added.
Instances(route) ==
    LET places == [i \in 1..Len(route.pattern) |->
                       IF Cardinality(route.pattern[i].is) <= 3 THEN route.pattern[i].is
                       ELSE SampleNames]
    IN  {p \in [1..Len(route.pattern) -> {Blank} \cup UNION Range(places)] :
            \A i \in 1..Len(route.pattern) : p[i] \in places[i]}

SampleTails == {<<>>, <<Blank>>, <<"pem">>} \cup {<<s>> : s \in SampleNames}

PathsLike(route) ==
    {SubSeq(p, 1, n) \o t : p \in Instances(route), n \in 0..Len(route.pattern), t \in SampleTails}

SamplePaths(b) == UNION {PathsLike(r) : r \in Range(b.routes)}

SampleBodies(route) ==
    {<<>>} \cup UNION {[{k} -> Kinds] : k \in DOMAIN route.fields \cup {"other", "password"}}

RouteInit == hreq = Idle

\* handle_request up to the handler: no route, a route without the
\* operation, or the handler of the first route that matches.
Dispatch(be, path, op) ==
    LET b == Backends[be]
        i == match_path(b, path)
        help == op = "Help" /\ path = <<Blank>>
    IN  /\ hreq.at = "idle"
        /\ hreq' = CASE help -> [Idle EXCEPT !.at = "help", !.be = be]
                     [] ~help /\ i = 0 ->
                            [Idle EXCEPT !.at = "PathUnsupported", !.be = be, !.path = path, !.op = op]
                     [] ~help /\ i # 0 /\ op \notin DOMAIN b.routes[i].ops ->
                            [Idle EXCEPT !.at = "OperationUnsupported", !.be = be, !.path = path,
                                         !.op = op]
                     [] OTHER ->
                            [Idle EXCEPT !.at = "handler", !.be = be, !.path = path, !.op = op,
                                         !.data = captures(b.routes[i]), !.route = i]

ARoute == Backends[hreq.be].routes[hreq.route]

\* The names handlers fall back from.
OlderName == [token_policies |-> "policies", token_period |-> "period",
              secret_id_bound_cidrs |-> "bound_cidr_list"]

\* The handler of this request reads a field of a body it came with.
ReadField(key, body) ==
    LET req == [hreq EXCEPT !.body = body] IN
    /\ hreq.at = "handler"
    /\ \/ \E v \in {get_data(req, ARoute, key), get_data_or_default(req, ARoute, key),
                    get_data_as_str(req, ARoute, key)} :
             hreq' = [req EXCEPT !.at = "read", !.key = key, !.got = v]
       \/ \E newer \in DOMAIN OlderName :
             /\ OlderName[newer] = key
             /\ hreq' = [req EXCEPT !.at = "read", !.key = key,
                                    !.got = get_data_or_next(req, ARoute, newer, key)]

\* write_config of the cert backend unwraps what as_i64 gives.
panics(key, got) == key = "ocsp_cache_size" /\ got.ok /\ ~as_i64(got.kind)

\* The handler returns, with or without an error: a value that does not convert
\* is one.  Or it panics.
Return ==
    /\ hreq.at = "read"
    /\ hreq' = IF panics(hreq.key, hreq.got) THEN [hreq EXCEPT !.at = "panicked"]
               ELSE [hreq EXCEPT !.at = "done",
                                 !.body = clear_secret_field(hreq, Backends[hreq.be])]

\* A lease is renewed or revoked: handle_revoke_renew goes to the renewal of
\* a login, to the handlers of the secret's type, or to nothing.
RevokeRenew(be, op, auth, secret) ==
    LET b == Backends[be] IN
    /\ hreq.at = "idle"
    /\ hreq' = [Idle EXCEPT
          !.be = be, !.op = op,
          !.at = CASE op = "Renew" /\ auth -> IF b.renew THEN "auth_renew" ELSE "OperationUnsupported"
                   [] ~(op = "Renew" /\ auth) /\ secret \in b.secrets -> "secret"
                   [] OTHER -> "none"]

RouteNext ==
    \/ hreq.at = "idle" /\ \E be \in DOMAIN Backends :
          \E path \in SamplePaths(Backends[be]), op \in OpNames : Dispatch(be, path, op)
    \/ hreq.at = "handler" /\ \E body \in SampleBodies(ARoute) :
          \E key \in hreq.data \cup DOMAIN body : ReadField(key, body)
    \/ Return
    \/ \E be \in DOMAIN Backends, op \in {"Renew", "Revoke"}, auth \in BOOLEAN,
          secret \in {"kv", "pki", Blank} : RevokeRenew(be, op, auth, secret)

RouteSpec == RouteInit /\ [][RouteNext]_hreq

-----------------------------------------------------------------------------
\* The routes of a backend that serve an operation on a path, whatever their
\* order.
Servers(b, path, op) ==
    {r \in Range(b.routes) : Anchored(path, r) /\ op \in DOMAIN r.ops}

(***************************************************************************)
(* The order of registration never matters: the handler match_path picks   *)
(* is the only one of its backend whose pattern takes the path and whose   *)
(* operations include the request's, and a request is refused only when    *)
(* there is none (backend.rs handle_request and match_path).               *)
(***************************************************************************)
RouteUnambiguous ==
    /\ hreq.at = "handler" => Servers(Backends[hreq.be], hreq.path, hreq.op) = {ARoute}
    /\ hreq.at \in {"PathUnsupported", "OperationUnsupported"} /\ hreq.op \in OpNames =>
           Servers(Backends[hreq.be], hreq.path, hreq.op) = {}

\* The handlers anybody may call: logins, and what PKI publishes.
PublicHandlers ==
    {"login", "read_path_fetch_ca", "read_path_fetch_crl", "read_path_fetch_cert",
     "read_path_fetch_cert_crl"}

(***************************************************************************)
(* A request without a token reaches the login handlers and the public     *)
(* fetches of PKI and no other, and every login is reachable without one   *)
(* (router.rs is_unauth_path against the unauth_paths of the backends).    *)
(***************************************************************************)
UnauthIsPublic ==
    hreq.at = "handler" =>
        (is_unauth_path(Backends[hreq.be], hreq.path) <=> ARoute.ops[hreq.op] \in PublicHandlers)

(***************************************************************************)
(* What a handler works with fits the request: a name captured from the    *)
(* path, which the ACL was checked against, is never replaced by a body    *)
(* field of the same name; and where the conversion a handler chose is     *)
(* narrower than the type check of its field, so that the handler fails    *)
(* after the check, the value is a negative number or a number in a text:  *)
(* nothing else that is checked fails (request.rs get_data_raw, field.rs). *)
(***************************************************************************)
FieldsFit ==
    hreq.at = "read" /\ hreq.got.ok =>
        LET type == ARoute.fields[hreq.key].type
        IN  /\ hreq.key \in hreq.data => hreq.got.src = "path"
            /\ \/ converts(hreq.key, type, hreq.got.kind)
               \/ type = Integer /\ hreq.got.kind \in {"negint", "signed", "decimal"}
               \/ type = Duration /\ hreq.got.kind = "negint"
=============================================================================
