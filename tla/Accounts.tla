------------------------------ MODULE Accounts ------------------------------
(***************************************************************************)
(* The accounts logins are checked against: a role of AppRole, a user of   *)
(* userpass, an entry of the cert method.  All three carry the settings of *)
(* the tokens they give (TokenParams), and the older fields these settings *)
(* replace: "policies" beside "token_policies", and so on.  Writes keep    *)
(* the two in step; reads, logins and renewals each use one of them.       *)
(*                                                                         *)
(* One account of one kind.  A list of policies or CIDR blocks is a set;   *)
(* the block "bad" does not parse.  AppRole has the ids of roles and their *)
(* secret ids, CertAuth the certificates.                                  *)
(***************************************************************************)
EXTENDS Integers

CONSTANTS
    AccountBodies,  \* of each kind, the bodies of a write: the token, plain and own fields they carry
    FieldValues,    \* of each field of a role, the values its own path is given
    Passwords

VARIABLES
    akind,   \* the kind of the account
    acct,    \* storage: the entry under each key
    asess    \* the auth of the last login

accountVars == <<akind, acct, asess>>

NoAccount == [kind |-> "none"]
NoSession == [key |-> ""]

\* TokenParams::default; a field is named without its prefix token_.
TokenParams ==
    [type |-> "", ttl |-> 0, max_ttl |-> 0, explicit_max_ttl |-> 0, period |-> 0,
     no_default_policy |-> FALSE, num_uses |-> 0, policies |-> {}, bound_cidrs |-> {}]

\* The settings that have an older field beside them.
Paired == [role |-> {"policies", "period"},
           user |-> {"policies", "ttl", "max_ttl", "bound_cidrs"},
           cert |-> {"policies", "period", "ttl", "max_ttl", "bound_cidrs"}]

\* The rest of each entry.
RoleOwn == [bind_secret_id |-> FALSE, secret_id_bound_cidrs |-> {}, bound_cidr_list |-> {},
            secret_id_num_uses |-> 0, secret_id_ttl |-> 0, local_secret_ids |-> FALSE]
UserOwn == [password_hash |-> ""]
CertOwn == [certificate |-> "none", display_name |-> ""]

Fresh(kind, own) ==
    [kind |-> kind, token |-> TokenParams, own |-> own,
     plain |-> [f \in Paired[kind] |-> TokenParams[f]]]

\* The key of an account.  A user may be addressed by names that differ in
\* case; the others are always in lower case.
Lower(name) == IF name = "Bob" THEN "bob" ELSE name
Names == [role |-> {"app"}, user |-> {"bob", "Bob"}, cert |-> {"web"}]

AccountInit ==
    /\ akind \in DOMAIN Paired
    /\ acct = [k \in Names[akind] |-> NoAccount]
    /\ asess = NoSession

-----------------------------------------------------------------------------
\* The fields of body over those of e.
Updated(e, body) == [f \in DOMAIN e |-> IF f \in DOMAIN body THEN body[f] ELSE e[f]]

\* A field that is not given is taken to be v.
OrElse(body, field, v) ==
    [f \in DOMAIN body \cup {field} |-> IF f \in DOMAIN body THEN body[f] ELSE v]

CidrsValid(cidrs) == "bad" \notin cidrs

\* parse_token_fields: the type is reset to its default when it is not given.
TokenType(body) ==
    LET given == IF "type" \in DOMAIN body THEN body.type ELSE "default" IN
    IF given = "" THEN "default"
    ELSE IF given = "default-service" THEN "service"
    ELSE IF given = "default-batch" THEN "batch"
    ELSE given

parse_token_fields(t, body) == [Updated(t, body) EXCEPT !.type = TokenType(body)]

TokenFieldsParse(body) ==
    /\ TokenType(body) \in {"default", "service", "batch"}
    /\ "bound_cidrs" \in DOMAIN body => CidrsValid(body.bound_cidrs)

\* get_role, get_user, get_cert: a setting that is not set takes the older field.
GetEntry(e) ==
    [e EXCEPT !.token =
        [f \in DOMAIN e.token |->
            IF f \in DOMAIN e.plain /\ e.token[f] = TokenParams[f] THEN e.plain[f] ELSE e.token[f]]]

\* Slip: a setting that changes leaves the older field alone.
SettlePairs_plain_stale(e, body) ==
    LET parsed == parse_token_fields(e.token, body.token)
        older(f) == f \in DOMAIN e.plain /\ parsed[f] = e.token[f] /\ f \in DOMAIN body.plain
    IN  [e EXCEPT
          !.token = [f \in DOMAIN parsed |-> IF older(f) THEN body.plain[f] ELSE parsed[f]],
          !.plain = [f \in DOMAIN e.plain |-> IF older(f) THEN body.plain[f] ELSE e.plain[f]]]

\* The pairs in write_role, write_user and write_cert: a setting that changes
\* goes to the older field too, else the older field goes to both.  (So when
\* both are given, the older one wins as soon as the setting is in force.)
SettlePairs(e, body) ==
    LET parsed == parse_token_fields(e.token, body.token)
        changed(f) == parsed[f] # e.token[f]
        older(f) == f \in DOMAIN e.plain /\ ~changed(f) /\ f \in DOMAIN body.plain
    IN  [e EXCEPT
          !.token = [f \in DOMAIN parsed |-> IF older(f) THEN body.plain[f] ELSE parsed[f]],
          !.plain = [f \in DOMAIN e.plain |->
                        IF changed(f) THEN parsed[f]
                        ELSE IF older(f) THEN body.plain[f] ELSE e.plain[f]]]

Put(name, e) == acct' = [acct EXCEPT ![name] = e] /\ UNCHANGED <<akind, asess>>

Exists(name) == acct[name] # NoAccount
EntryOr(name, fresh) == IF Exists(name) THEN GetEntry(acct[name]) ELSE fresh

-----------------------------------------------------------------------------
(* Roles, approle/path_role.rs *)

\* validate_role_constraints.
Constrained(e) ==
    \/ e.own.bind_secret_id
    \/ e.own.bound_cidr_list # {} \/ e.own.secret_id_bound_cidrs # {}
    \/ e.token.bound_cidrs # {}

\* set_role, without the index of role ids.
set_role(e) == Constrained(e) /\ Put("app", e)

\* secret_id_bound_cidrs is taken before bound_cidr_list.
RoleOwnFields(old, body, create) ==
    LET given == IF "bound_cidr_list" \in DOMAIN body
                 THEN OrElse(body, "secret_id_bound_cidrs", body.bound_cidr_list) ELSE body
        base == IF create THEN [old EXCEPT !.bind_secret_id = TRUE] ELSE old
    IN  [Updated(base, given) EXCEPT !.bound_cidr_list = old.bound_cidr_list,
             !.local_secret_ids = old.local_secret_ids \/ ("local_secret_ids" \in DOMAIN body
                                                           /\ body.local_secret_ids)]

write_role(body) ==
    LET create == ~Exists("app")
        e == SettlePairs(EntryOr("app", Fresh("role", RoleOwn)), body)
        own == RoleOwnFields(e.own, body.own, create)
    IN  /\ TokenFieldsParse(body.token)
        /\ "local_secret_ids" \in DOMAIN body.own /\ body.own.local_secret_ids => create
        /\ CidrsValid(own.secret_id_bound_cidrs)
        /\ own.secret_id_num_uses >= 0
        /\ set_role([e EXCEPT !.own = own])

\* sanitize_policies: root alone; duplicates go, default is added if asked for.
sanitize_policies(policies, add_default) ==
    IF "root" \in policies THEN {"root"}
    ELSE policies \cup (IF add_default THEN {"default"} ELSE {})

write_role_policies(policies) ==
    LET p == sanitize_policies(policies, FALSE) IN
    /\ Exists("app")
    /\ set_role([GetEntry(acct["app"]) EXCEPT !.token.policies = p, !.plain.policies = p])

delete_role_policies ==
    /\ Exists("app")
    /\ set_role([GetEntry(acct["app"]) EXCEPT !.token.policies = {}, !.plain.policies = {}])

\* The paths with one field each: the token settings that have one, and the
\* fields of the role.
TokenFieldPaths == {"bound_cidrs", "period", "num_uses", "ttl", "max_ttl"}
OwnFieldPaths == {"bind_secret_id", "secret_id_bound_cidrs", "bound_cidr_list",
                  "secret_id_num_uses", "secret_id_ttl"}

\* update_role_field.  The path of bound_cidr_list writes
\* secret_id_bound_cidrs.
UpdatedField(e, f, v) ==
    CASE f = "period" -> [e EXCEPT !.token.period = v, !.plain.period = v]
      [] f = "bound_cidr_list" -> [e EXCEPT !.own.secret_id_bound_cidrs = v]
      [] f \in OwnFieldPaths \ {"bound_cidr_list"} -> [e EXCEPT !.own[f] = v]
      [] f \in TokenFieldPaths \ {"period"} -> [e EXCEPT !.token[f] = v]

FieldAccepted(e, f, v) ==
    /\ f \in {"bound_cidr_list", "secret_id_bound_cidrs", "bound_cidrs"} => v # {} /\ CidrsValid(v)
    /\ f = "secret_id_num_uses" => v >= 0
    /\ f \in {"ttl", "max_ttl"} =>
          LET t == UpdatedField(e, f, v).token IN t.max_ttl > 0 => t.ttl <= t.max_ttl

update_role_field(f, v) ==
    /\ Exists("app")
    /\ LET e == GetEntry(acct["app"]) IN FieldAccepted(e, f, v) /\ set_role(UpdatedField(e, f, v))

\* delete_role_field: back to the default.  The path of bound_cidr_list clears
\* the old list, which is always empty.
delete_role_field(f) ==
    /\ Exists("app")
    /\ LET e == GetEntry(acct["app"]) IN
       set_role(CASE f = "bind_secret_id" -> [e EXCEPT !.own[f] = TRUE]
                  [] f \in OwnFieldPaths \ {"bind_secret_id"} -> [e EXCEPT !.own[f] = RoleOwn[f]]
                  [] f = "period" -> [e EXCEPT !.token.period = 0, !.plain.period = 0]
                  [] f \in TokenFieldPaths \ {"period"} -> [e EXCEPT !.token[f] = TokenParams[f]])

\* read_role_field and read_role_policies: what a client is shown of a field.
read_role_field(f) ==
    LET e == GetEntry(acct["app"]) IN
    IF f \in OwnFieldPaths THEN e.own[f] ELSE e.token[f]

-----------------------------------------------------------------------------
(* Users, userpass/path_users.rs, and entries of cert, cert/path_certs.rs *)

\* An empty password changes nothing.
write_user(name, body) ==
    LET e == EntryOr(Lower(name), Fresh("user", UserOwn))
        hashed == IF "password" \in DOMAIN body.own /\ body.own.password # ""
                  THEN [e EXCEPT !.own.password_hash = body.own.password] ELSE e
    IN  TokenFieldsParse(body.token) /\ Put(Lower(name), SettlePairs(hashed, body))

\* The entry is read under the name in lower case and written under the name
\* as it was given.
write_user_password(name, password) ==
    Put(name, [EntryOr(Lower(name), Fresh("user", UserOwn)) EXCEPT !.own.password_hash = password])

\* lease stands in for ttl.  A certificate that is not for clients is refused.
write_cert(body) ==
    LET e == EntryOr("web", Fresh("cert", CertOwn))
        plain == IF "lease" \in DOMAIN body.plain THEN OrElse(body.plain, "ttl", body.plain.lease)
                 ELSE body.plain
        own == Updated(e.own, body.own)
    IN  /\ TokenFieldsParse(body.token)
        /\ own.certificate \in {"ca", "client"}
        /\ Put("web", [SettlePairs(e, [body EXCEPT !.plain = plain]) EXCEPT
                          !.own = IF own.display_name = "" THEN [own EXCEPT !.display_name = "web"]
                                  ELSE own])

\* delete_role, delete_user, delete_cert.
DeleteAccount(name) == acct' = [acct EXCEPT ![Lower(name)] = NoAccount] /\ UNCHANGED <<akind, asess>>

-----------------------------------------------------------------------------
(* Logins and renewals *)

\* populate_token_auth: the period and the explicit maximum of the account are
\* left out.
populate_token_auth(t) ==
    [ttl |-> t.ttl, max_ttl |-> t.max_ttl, period |-> 0, policies |-> t.policies,
     no_default_policy |-> t.no_default_policy, renewable |-> TRUE]

\* A login whose policies contain root is refused by the token store.
GrantAuth(name, e) ==
    /\ LET auth == populate_token_auth(e.token) IN
          /\ "root" \notin sanitize_policies(auth.policies, ~auth.no_default_policy)
          /\ asess' = [key |-> name, auth |-> auth]
    /\ UNCHANGED <<akind, acct>>

\* verify_password_hash: without a hash it is an error.
user_login(name, password) ==
    /\ Exists(Lower(name))
    /\ LET e == GetEntry(acct[Lower(name)]) IN
          e.own.password_hash # "" /\ e.own.password_hash = password /\ GrantAuth(Lower(name), e)

\* The rest of an AppRole or cert login, once the credentials are accepted.
AcceptedLogin(name) == Exists(name) /\ GrantAuth(name, GetEntry(acct[name]))

equivalent_policies(a, b) ==
    \/ a = {} /\ b \in {{}, {"default"}}
    \/ b = {} /\ a = {"default"}
    \/ a # {} /\ b # {} /\ a \ {"default"} = b \ {"default"}

\* Slip: an account that is there renews.
Renewable_any(name, auth) == Exists(name)

\* login_renew of userpass and cert: the older field is compared.
Renewable(name, auth) ==
    Exists(name) /\ equivalent_policies(GetEntry(acct[name]).plain.policies, auth.policies)

\* The renewal of AppRole asks for metadata that its login does not write, and
\* renews nothing.
RenewLogin ==
    /\ asess # NoSession
    /\ akind \in {"user", "cert"}
    /\ Renewable(asess.key, asess.auth)
    /\ LET t == GetEntry(acct[asess.key]).token IN
          asess' = [asess EXCEPT !.auth.period = t.period, !.auth.ttl = t.ttl,
                                 !.auth.max_ttl = t.max_ttl]
    /\ UNCHANGED <<akind, acct>>

-----------------------------------------------------------------------------
RoleRequest ==
    /\ akind = "role"
    /\ \/ \E body \in AccountBodies["role"] : write_role(body)
       \/ \E body \in AccountBodies["role"] :
             "policies" \in DOMAIN body.token /\ write_role_policies(body.token.policies)
       \/ delete_role_policies
       \/ \E f \in OwnFieldPaths \cup TokenFieldPaths :
             \/ \E v \in FieldValues[f] : update_role_field(f, v)
             \/ delete_role_field(f)

UserRequest ==
    /\ akind = "user"
    /\ \E name \in Names["user"] :
          \/ \E body \in AccountBodies["user"] : write_user(name, body)
          \/ \E p \in Passwords : write_user_password(name, p) \/ user_login(name, p)

AccountNext ==
    \/ RoleRequest
    \/ UserRequest
    \/ akind = "cert" /\ \E body \in AccountBodies["cert"] : write_cert(body)
    \/ akind # "user" /\ \E name \in Names[akind] : AcceptedLogin(name)
    \/ \E name \in Names[akind] : DeleteAccount(name)
    \/ RenewLogin

AccountSpec == AccountInit /\ [][AccountNext]_accountVars

-----------------------------------------------------------------------------
\* After any sequence of whole writes, writes and deletes of one field, and
\* deletions, a setting and the older field beside it are the same in storage.
\* So it does not matter that reads and logins take the one and renewals the
\* other, and a setting put back to its default does not come back out of the
\* older field when the entry is loaded (path_role.rs, path_users.rs,
\* path_certs.rs: write, single fields, get).
AccountsCoherent ==
    \A k \in DOMAIN acct : Exists(k) =>
        \A f \in DOMAIN acct[k].plain : acct[k].plain[f] = acct[k].token[f]

\* A login or a renewal only ever leaves a client with the policies that its
\* account gives at that time, but for "default", however the account was
\* rewritten under either name of the field since the login: a renewal compares
\* the older field, a login takes the new one (login_renew of userpass and cert).
GrantsFollowAccount ==
    [][asess' # asess =>
          equivalent_policies(GetEntry(acct[asess'.key]).token.policies, asess'.auth.policies)]_accountVars
=============================================================================
