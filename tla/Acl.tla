-------------------------------- MODULE Acl --------------------------------
(***************************************************************************)
(* Policies and the ACL made of them (modules/policy/policy.rs and         *)
(* modules/policy/acl.rs).  A policy is a set of path rules; ACL::new adds *)
(* the rules of a token's policies one by one, merging the permissions of  *)
(* rules with the same path, and allow_operation picks the most specific   *)
(* rule for a request.  Rules come out of hash maps, so they are added in  *)
(* any order here.                                                         *)
(*                                                                         *)
(* A path is a sequence of segments and a segment a sequence of letters;   *)
(* the segment Plus is the wildcard "+", and glob says that the rule ended *)
(* with "*".  A bitmap of capabilities is the set of its bits, a parameter *)
(* maps to the set of values it lists.                                     *)
(***************************************************************************)
EXTENDS Naturals, Sequences, FiniteSets, SequencesExt, FiniteSetsExt

CONSTANTS
    RulePaths,     \* [segs, glob] a policy may name
    RulePerms,     \* the bodies of a rule, as parsed
    Requests,      \* [path, op, params] the ACL is asked about
    MaxRules       \* rules added to one ACL

ASSUME MaxRulesIsNat == MaxRules \in Nat

VARIABLES
    acl,     \* rule path -> merged permissions (exact_rules, prefix_rules, segment_wildcard_paths)
    added    \* the rules added so far, as a set

Plus   == <<"+">>
Caps   == {"deny", "create", "read", "update", "delete", "list", "sudo", "patch"}
OldPolicies == {"deny", "read", "write", "sudo", ""}
Operations  == {"Read", "Write", "List", "Delete", "Renew", "Revoke", "Rollback", "Help"}

\* A body holds maps of parameters, and a request asks for one of the
\* operations (logical/mod.rs).
ASSUME BodiesHoldMaps ==
    \A body \in RulePerms :
        /\ body.allowed = [k \in DOMAIN body.allowed |-> body.allowed[k]]
        /\ body.denied = [k \in DOMAIN body.denied |-> body.denied[k]]

ASSUME RequestsAsk == \A req \in Requests : req.op \in Operations

-----------------------------------------------------------------------------
\* utils/string.rs: "*" at either end of an item of two letters or more.
globbed_strings_match(item, val) ==
    LET n      == Len(item)
        head   == n >= 2 /\ item[1] = "*"
        tail   == n >= 2 /\ item[n] = "*"
        middle == SubSeq(item, IF head THEN 2 ELSE 1, IF tail THEN n - 1 ELSE n)
    IN  CASE head /\ tail  -> \E i \in 0..Len(val) : IsPrefix(middle, SubSeq(val, i + 1, Len(val)))
          [] head /\ ~tail -> IsSuffix(middle, val)
          [] ~head /\ tail -> IsPrefix(middle, val)
          [] OTHER         -> item = val

\* An empty list stands for every value.
glob_contains(items, val) == items = {} \/ \E i \in items : globbed_strings_match(i, val)

-----------------------------------------------------------------------------
\* Policy::parse of one rule's body: parameters with names in lower case,
\* and the capabilities an old style policy adds; a deny drops every other
\* capability (Policy::init).
rule_capabilities(body) ==
    LET old  == CASE body.policy = "read"  -> {"read", "list"}
                  [] body.policy = "write" -> {"read", "list", "create", "update", "delete"}
                  [] body.policy = "sudo"  -> {"read", "list", "create", "update", "delete", "sudo"}
                  [] body.policy = "deny"  -> {"deny"}
                  [] OTHER                 -> {}
        caps == IF body.policy = "deny" THEN old ELSE body.caps \cup old
    IN  IF "deny" \in caps THEN {"deny"} ELSE caps

rule_permissions(body) ==
    [caps |-> rule_capabilities(body), min |-> body.min, max |-> body.max,
     allowed |-> body.allowed, denied |-> body.denied, required |-> body.required]

\* An empty list on either side means every value; otherwise the lists add up.
merge_parameters(mine, other) ==
    [k \in DOMAIN mine \cup DOMAIN other |->
        CASE k \notin DOMAIN mine  -> other[k]
          [] k \notin DOMAIN other -> mine[k]
          [] OTHER -> IF mine[k] = {} \/ other[k] = {} THEN {} ELSE mine[k] \cup other[k]]

\* Two blocks of one policy for the same path: the parameters merge, the
\* capabilities and the wrapping times of the second block are dropped.
parse_again(first, second) ==
    [first EXCEPT !.required = first.required \cup second.required,
                  !.allowed  = merge_parameters(first.allowed, second.allowed),
                  !.denied   = merge_parameters(first.denied, second.denied)]

Larger(a, b) == IF a < b THEN b ELSE a

\* The capabilities of both sides, a deny among them.
merge_plain(mine, other) ==
    [caps |-> mine.caps \cup other.caps, min |-> Larger(mine.min, other.min),
     max |-> Larger(mine.max, other.max),
     allowed |-> merge_parameters(mine.allowed, other.allowed),
     denied |-> merge_parameters(mine.denied, other.denied),
     required |-> mine.required \cup other.required]

\* Permissions::merge.
merge(mine, other) ==
    CASE "deny" \in mine.caps -> mine
      [] "deny" \notin mine.caps /\ "deny" \in other.caps ->
            [mine EXCEPT !.caps = {"deny"}, !.allowed = <<>>, !.denied = <<>>]
      [] OTHER ->
            [caps |-> mine.caps \cup other.caps, min |-> Larger(mine.min, other.min),
             max |-> Larger(mine.max, other.max),
             allowed |-> merge_parameters(mine.allowed, other.allowed),
             denied |-> merge_parameters(mine.denied, other.denied),
             required |-> mine.required \cup other.required]

-----------------------------------------------------------------------------
\* Permissions::check of a request: whether it is allowed.
NeededCap(op) ==
    CASE op = "Read" -> "read" [] op = "List" -> "list" [] op = "Delete" -> "delete"
      [] op \in {"Write", "Renew", "Revoke", "Rollback"} -> "update"

parameters_pass(perms, params) ==
    /\ perms.required \subseteq DOMAIN params
    /\ params # <<>> =>
          /\ "*" \notin DOMAIN perms.denied
          /\ \A k \in DOMAIN params \cap DOMAIN perms.denied :
                ~glob_contains(perms.denied[k], params[k])
          /\ \/ perms.allowed = <<>>
             \/ DOMAIN perms.allowed = {"*"}
             \/ \A k \in DOMAIN params :
                   IF k \in DOMAIN perms.allowed
                   THEN glob_contains(perms.allowed[k], params[k])
                   ELSE "*" \in DOMAIN perms.allowed

\* Slip: "create" counts for every operation.
check_create_any(perms, req) ==
    /\ {NeededCap(req.op), "create"} \cap perms.caps # {}
    /\ ~(perms.min # 0 /\ perms.max # 0 /\ perms.max < perms.min)
    /\ req.op \in {"Read", "Write"} => parameters_pass(perms, req.params)

check(perms, req) ==
    /\ \/ NeededCap(req.op) \in perms.caps
       \/ req.op = "Write" /\ "create" \in perms.caps
    /\ ~(perms.min # 0 /\ perms.max # 0 /\ perms.max < perms.min)
    /\ req.op \in {"Read", "Write"} => parameters_pass(perms, req.params)

-----------------------------------------------------------------------------
HasWildcard(rp) == Plus \in Range(rp.segs)
PrefixRules(a) == {rp \in DOMAIN a : rp.glob /\ ~HasWildcard(rp)}
WildcardRules(a) == {rp \in DOMAIN a : HasWildcard(rp)}

\* Letters in the text of a path, slashes included.
TextLen(segs) == Len(segs) - 1 +
    LET Count[i \in 0..Len(segs)] == IF i = 0 THEN 0 ELSE Count[i - 1] + Len(segs[i])
    IN  Count[Len(segs)]

\* A prefix rule's text is a prefix of the path's.
TextPrefix(segs, path) ==
    /\ Len(segs) <= Len(path)
    /\ \A i \in 1..(Len(segs) - 1) : segs[i] = path[i]
    /\ IsPrefix(segs[Len(segs)], path[Len(segs)])

\* The loop over the segments of a wildcard rule: "+" takes one segment, and
\* the last segment of a prefix rule may be the start of the path's.
segment_match(rp, path) ==
    LET n == Len(rp.segs) IN
    /\ IF rp.glob THEN Len(path) >= n ELSE Len(path) = n
    /\ \A i \in 1..n : \/ rp.segs[i] \in {Plus, path[i]}
                       \/ rp.glob /\ i = n /\ IsPrefix(rp.segs[i], path[i])

\* WcPathDescr: where the first "+" or the end of a prefix is, and the
\* order of the descriptions; the greatest one decides.
Descr(rp) ==
    LET plus == {i \in 1..Len(rp.segs) : rp.segs[i] = Plus}
    IN  [first |-> IF plus = {} THEN TextLen(rp.segs)
                   ELSE LET i == Min(plus) IN IF i = 1 THEN 0 ELSE TextLen(SubSeq(rp.segs, 1, i - 1)) + 1,
         prefix |-> rp.glob, wildcards |-> Cardinality(plus), len |-> TextLen(rp.segs), rp |-> rp]

\* At the first difference the one with "+" is the lesser text.
TextLess(s, t) ==
    \E i \in 1..Len(s) : /\ i <= Len(t) /\ s[i] = Plus /\ t[i] # Plus
                         /\ \A j \in 1..(i - 1) : s[j] = t[j]

DescrLess(d, e) ==
    \/ d.first < e.first
    \/ /\ d.first = e.first
       /\ \/ d.prefix /\ ~e.prefix
          \/ /\ d.prefix = e.prefix
             /\ \/ d.wildcards > e.wildcards
                \/ /\ d.wildcards = e.wildcards
                   /\ \/ d.len < e.len
                      \/ d.len = e.len /\ TextLess(d.rp.segs, e.rp.segs)

\* get_none_exact_paths_permissions: the longest prefix rule and the
\* wildcard rules that match; the set of rules that may decide.
get_none_exact_paths_permissions(a, path) ==
    LET prefixes == {rp \in PrefixRules(a) : TextPrefix(rp.segs, path)}
        longest  == {rp \in prefixes : \A q \in prefixes : TextLen(q.segs) <= TextLen(rp.segs)}
        all      == longest \cup {rp \in WildcardRules(a) : segment_match(rp, path)}
    IN  {rp \in all : \A q \in all : q = rp \/ DescrLess(Descr(q), Descr(rp))}

Exact(path) == [segs |-> path, glob |-> FALSE]

\* "a/" or "a//" asked for a list is also covered by the exact rule "a".
NoTrailingSlash(path) ==
    LET named == {i \in 1..Len(path) : path[i] # <<>>}
    IN  SubSeq(path, 1, IF named = {} THEN 1 ELSE Max(named))

\* The rule that decides a request, none if the set is empty.
deciding_rule(a, req) ==
    CASE Exact(req.path) \in DOMAIN a -> {Exact(req.path)}
      [] Exact(req.path) \notin DOMAIN a /\ req.op = "List"
            /\ Exact(NoTrailingSlash(req.path)) \in DOMAIN a -> {Exact(NoTrailingSlash(req.path))}
      [] OTHER -> get_none_exact_paths_permissions(a, req.path)

\* ACL::allow_operation for a token without the root policy: what check says
\* of the rule that decides; no result where no rule does.
allow_operation(a, req) ==
    IF req.op = "Help" THEN {[allowed |-> TRUE, root_privs |-> FALSE]}
    ELSE {[allowed |-> check(a[rp], req), root_privs |-> "sudo" \in a[rp].caps] :
             rp \in deciding_rule(a, req)}

\* PolicyStore::post_auth of an authenticated request: a token that names no
\* policy passes, on a root path too; named says that the token names some, and
\* a is the ACL of those.
post_auth_ok(named, a, req, is_root_path) ==
    named => \E result \in allow_operation(a, req) :
                /\ is_root_path /\ req.op # "Help" => result.root_privs
                /\ result.allowed

-----------------------------------------------------------------------------
AclInit == acl = <<>> /\ added = {}

\* ACL::new takes the next rule of a policy: merged with what is there,
\* unless that is a deny, or inserted.
AddRule(rp, body) ==
    LET perms == rule_permissions(body) IN
    /\ Cardinality(added) < MaxRules
    /\ acl' = [q \in DOMAIN acl \cup {rp} |->
                  CASE q # rp            -> acl[q]
                    [] q \notin DOMAIN acl -> perms
                    [] OTHER             -> merge(acl[q], perms)]
    /\ added' = added \cup {[path |-> rp, perms |-> perms]}

\* A policy with two blocks for one path, in the order of the text.
AddTwoBlocks(rp, body, body2) ==
    LET perms == rule_permissions(parse_again(body, body2)) IN
    /\ Cardinality(added) < MaxRules
    /\ rp \notin DOMAIN acl
    /\ acl' = [q \in DOMAIN acl \cup {rp} |-> IF q = rp THEN perms ELSE acl[q]]
    /\ added' = added \cup {[path |-> rp, perms |-> perms]}

AclNext ==
    \E rp \in RulePaths, body \in RulePerms :
        \/ AddRule(rp, body)
        \/ added = {} /\ \E body2 \in RulePerms : AddTwoBlocks(rp, body, body2)

aclVars == <<acl, added>>

AclSpec == AclInit /\ [][AclNext]_aclVars

-----------------------------------------------------------------------------
\* What the rules of one path mean together, whatever their order.
RulesAt(rp) == {r.perms : r \in {r \in added : r.path = rp}}
MeaningCaps(rp) ==
    LET caps == UNION {p.caps : p \in RulesAt(rp)}
    IN  IF "deny" \in caps THEN {"deny"} ELSE caps
MeaningParams(rp, F(_)) ==
    [k \in UNION {DOMAIN F(p) : p \in RulesAt(rp)} |->
        LET lists == {F(p)[k] : p \in {p \in RulesAt(rp) : k \in DOMAIN F(p)}}
        IN  IF {} \in lists THEN {} ELSE UNION lists]

(***************************************************************************)
(* The ACL does not depend on the order in which policies and their rules  *)
(* are read: at every path a deny absorbs the rest, capabilities add up,   *)
(* and a parameter takes every value when one rule lists none, else the    *)
(* values all rules list (acl.rs ACL::new, policy.rs Permissions::merge).  *)
(***************************************************************************)
AclOrderFree ==
    \A rp \in DOMAIN acl :
        /\ acl[rp].caps = MeaningCaps(rp)
        /\ "deny" \notin acl[rp].caps =>
              /\ acl[rp].allowed = MeaningParams(rp, LAMBDA p : p.allowed)
              /\ acl[rp].denied = MeaningParams(rp, LAMBDA p : p.denied)
              /\ acl[rp].required = UNION {p.required : p \in RulesAt(rp)}

\* The rules that a request for this path may come under.
PathOf(rp, path) ==
    \/ rp = Exact(path) \/ rp = Exact(NoTrailingSlash(path))
    \/ rp.glob /\ ~HasWildcard(rp) /\ TextPrefix(rp.segs, path)
    \/ HasWildcard(rp) /\ segment_match(rp, path)

\* What lets an operation through: its capability, and for a write also "create".
GrantingCaps(op) == {NeededCap(op)} \cup IF op = "Write" THEN {"create"} ELSE {}

(***************************************************************************)
(* Some matching rule grants what post_auth lets through for a token that  *)
(* names policies: there is one path whose rules match the request, none   *)
(* of them denies, one of them has a capability that stands for the        *)
(* operation ("create" for a write only) and, when the request is for a    *)
(* root path, one has "sudo"; and no rule for exactly the path denies      *)
(* (policy_store.rs post_auth, acl.rs allow_operation, policy.rs check).   *)
(***************************************************************************)
AllowedIsGranted ==
    \A req \in Requests, root \in BOOLEAN :
      req.op # "Help" /\ post_auth_ok(TRUE, acl, req, root) =>
        /\ \E rp \in {r.path : r \in added} :
              /\ PathOf(rp, req.path)
              /\ \A p \in RulesAt(rp) : "deny" \notin p.caps
              /\ \E p \in RulesAt(rp) : p.caps \cap GrantingCaps(req.op) # {}
              /\ root => \E p \in RulesAt(rp) : "sudo" \in p.caps
        /\ \A p \in RulesAt(Exact(req.path)) : "deny" \notin p.caps
=============================================================================
