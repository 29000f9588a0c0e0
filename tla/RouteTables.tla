---------------------------- MODULE RouteTables ----------------------------
(***************************************************************************)
(* The routes the backends register: for each one the path pattern, the    *)
(* fields a request to it may carry and the handler of each operation      *)
(* (new_path!, new_fields! and new_logical_backend!).                      *)
(*                                                                         *)
(* A path is the sequence of its segments between slashes.  A pattern is a *)
(* sequence of [is, as]: the segments it accepts at that place and the     *)
(* name it captures them under (if any), and a tail that says what         *)
(* may follow.  Regular expressions over characters are abstracted to the  *)
(* segments they tell apart.                                               *)
(***************************************************************************)
EXTENDS Naturals, Sequences

CONSTANTS
    Words,    \* segments that \w[\w-]+\w accepts: three word characters or more
    Serials   \* segments that [0-9A-Fa-f-:]+ accepts

\* The empty string: the segment after a last slash, a name that is missing.
Blank == ""

ASSUME SegmentClasses ==
    /\ Blank \notin Words \cup Serials
    /\ "crl" \notin Serials
    /\ {"password", "policies", "crl"} \subseteq Words

Lit(s)    == [is |-> {s}, as |-> Blank]
OneOf(S)  == [is |-> S, as |-> Blank]
Word(n)   == [is |-> Words, as |-> n]
Serial(n) == [is |-> Serials, as |-> n]

End     == [kind |-> "end", as |-> Blank]
Slash   == [kind |-> "slash", as |-> Blank]  \* "/?"
Pem     == [kind |-> "pem", as |-> Blank]    \* "(/pem)?"
Whole   == [kind |-> "any", as |-> Blank]    \* ".*"
Rest(n) == [kind |-> "rest", as |-> n]       \* "(?P<n>.+)"

\* FieldType.
Str == "Str"
SecretStr == "SecretStr"
Integer == "Int"
Bool == "Bool"
Array == "Array"
Map == "Map"
Duration == "DurationSecond"
Slice == "CommaStringSlice"

\* Fields of one type: without a default, with one (its kind of value), and
\* required ones.
Field(type, names) == [n \in names |-> [type |-> type, default |-> "null", required |-> FALSE]]
Default(type, kind, names) == [n \in names |-> [type |-> type, default |-> kind, required |-> FALSE]]
Required(type, names) == [n \in names |-> [type |-> type, default |-> "null", required |-> TRUE]]
NoFields == Field(Str, {})

\* Two sets of fields together.
f ++ g == [n \in DOMAIN f \cup DOMAIN g |-> IF n \in DOMAIN f THEN f[n] ELSE g[n]]

Route(pattern, tail, fields, ops) ==
    [pattern |-> pattern, tail |-> tail, fields |-> fields, ops |-> ops]

token_fields ==
    Default(Str, "str", {"token_type"}) ++ Field(Bool, {"token_no_default_policy"}) ++
    Field(Duration, {"token_ttl", "token_max_ttl", "token_explicit_max_ttl", "token_period"}) ++
    Field(Slice, {"token_policies", "token_bound_cidrs"}) ++ Field(Integer, {"token_num_uses"})

(***************************************************************************)
(* System backend, modules/system/mod.rs.                                  *)
(***************************************************************************)
sys_mounts_path ==
    Route(<<Lit("mounts")>>, End,
        NoFields,
        [Read |-> "handle_mount_table"])

sys_mounts_at_path ==
    Route(<<Lit("mounts")>>, Rest("path"),
        Field(Str, {"path", "type"}) ++ Default(Str, "blank", {"description"}) ++
        Field(Map, {"options"}),
        [Write |-> "handle_mount", Delete |-> "handle_unmount"])

sys_remount_path ==
    Route(<<Lit("remount")>>, End,
        Field(Str, {"from", "to"}),
        [Write |-> "handle_remount"])

sys_renew_path ==
    Route(<<Lit("renew")>>, Rest("lease_id"),
        Field(Str, {"lease_id"}) ++ Field(Integer, {"increment"}),
        [Write |-> "handle_renew"])

sys_revoke_path ==
    Route(<<Lit("revoke")>>, Rest("lease_id"),
        Field(Str, {"lease_id"}),
        [Write |-> "handle_revoke"])

sys_revoke_prefix_path ==
    Route(<<Lit("revoke-prefix")>>, Rest("prefix"),
        Field(Str, {"prefix"}),
        [Write |-> "handle_revoke_prefix"])

sys_auth_path ==
    Route(<<Lit("auth")>>, End,
        NoFields,
        [Read |-> "handle_auth_table"])

sys_auth_at_path ==
    Route(<<Lit("auth")>>, Rest("path"),
        Field(Str, {"path", "type"}) ++ Default(Str, "blank", {"description"}) ++
        Field(Map, {"options"}),
        [Write |-> "handle_auth_enable", Delete |-> "handle_auth_disable"])

sys_policy_list_path ==
    Route(<<Lit("policy")>>, Slash,
        NoFields,
        [Read |-> "handle_policy_list", List |-> "handle_policy_list"])

sys_policy_path ==
    Route(<<Lit("policy")>>, Rest("name"),
        Field(Str, {"name", "policy"}),
        [Read |-> "handle_policy_read", Write |-> "handle_policy_write",
         Delete |-> "handle_policy_delete"])

sys_acl_policy_list_path ==
    Route(<<Lit("policies"), Lit("acl")>>, Slash,
        NoFields,
        [Read |-> "handle_policy_list", List |-> "handle_policy_list"])

sys_acl_policy_path ==
    Route(<<Lit("policies"), Lit("acl")>>, Rest("name"),
        Field(Str, {"name", "policy"}),
        [Read |-> "handle_policy_read", Write |-> "handle_policy_write",
         Delete |-> "handle_policy_delete"])

sys_audit_path ==
    Route(<<Lit("audit")>>, End,
        NoFields,
        [Read |-> "handle_audit_table"])

sys_audit_at_path ==
    Route(<<Lit("audit")>>, Rest("path"),
        Field(Str, {"path", "type", "description"}) ++ Field(Map, {"options"}),
        [Write |-> "handle_audit_enable", Delete |-> "handle_audit_disable"])

sys_raw_path ==
    Route(<<Lit("raw")>>, Rest("path"),
        Field(Str, {"path", "value"}),
        [Read |-> "handle_raw_read", Write |-> "handle_raw_write",
         Delete |-> "handle_raw_delete"])

(***************************************************************************)
(* Token store, modules/auth/token_store.rs.                               *)
(***************************************************************************)
token_create_path ==
    Route(<<OneOf({"creat", "create", "createe"})>>, End,
        Field(Integer, {"num_uses"}) ++ Field(Str, {"period"}) ++
        Field(Duration, {"ttl"}) ++ Default(Bool, "bool", {"renewable"}) ++
        Field(Array, {"policies"}),
        [Write |-> "handle_create"])

token_lookup_path ==
    Route(<<Lit("lookup")>>, Rest("token"),
        Field(Str, {"token"}),
        [Read |-> "handle_lookup"])

token_lookup_self_path ==
    Route(<<Lit("lookup-self")>>, End,
        Field(Str, {"token"}),
        [Read |-> "handle_lookup_self"])

token_revoke_path ==
    Route(<<Lit("revoke")>>, Rest("token"),
        Field(Str, {"token"}),
        [Write |-> "handle_revoke_tree"])

token_revoke_orphan_path ==
    Route(<<Lit("revoke-orphan")>>, Rest("token"),
        Field(Str, {"token"}),
        [Write |-> "handle_revoke_orphan"])

token_renew_path ==
    Route(<<Lit("renew")>>, Rest("token"),
        Field(Str, {"token"}) ++ Field(Integer, {"increment"}),
        [Write |-> "handle_renew"])

(***************************************************************************)
(* AppRole, modules/credential/approle.                                    *)
(***************************************************************************)
role_path ==
    Route(<<Lit("role")>>, Slash,
        token_fields,
        [List |-> "list_role"])

role_name_path ==
    Route(<<Lit("role"), Word("role_name")>>, End,
        token_fields ++ Required(Str, {"role_name"}) ++
        Default(Bool, "bool", {"bind_secret_id", "local_secret_ids"}) ++
        Field(Slice, {"bound_cidr_list", "secret_id_bound_cidrs", "policies"}) ++
        Field(Integer, {"secret_id_num_uses"}) ++ Field(Duration, {"secret_id_ttl"}) ++
        Default(Duration, "int", {"period"}) ++ Field(Str, {"role_id"}),
        [Read |-> "read_role", Write |-> "write_role", Delete |-> "delete_role"])

role_policies_path ==
    Route(<<Lit("role"), Word("role_name"), Lit("policies")>>, End,
        Required(Str, {"role_name"}) ++ Field(Slice, {"policies"}) ++
        Required(Slice, {"token_policies"}),
        [Read |-> "read_role_policies", Write |-> "write_role_policies",
         Delete |-> "delete_role_policies"])

role_local_secret_ids_path ==
    Route(<<Lit("role"), Word("role_name"), Lit("local-secret-ids")>>, End,
        Required(Str, {"role_name"}),
        [Read |-> "read_role_local_secret_ids"])

role_bound_cidr_list_path ==
    Route(<<Lit("role"), Word("role_name"), Lit("bound-cidr-list")>>, End,
        Required(Str, {"role_name"}) ++ Field(Slice, {"bound_cidr_list"}),
        [Read |-> "read_role_bound_cidr_list", Write |-> "write_role_bound_cidr_list",
         Delete |-> "delete_role_bound_cidr_list"])

role_secret_id_bound_cidrs_path ==
    Route(<<Lit("role"), Word("role_name"), Lit("secret-id-bound-cidrs")>>, End,
        Required(Str, {"role_name"}) ++ Field(Slice, {"secret_id_bound_cidrs"}),
        [Read |-> "read_role_secret_id_bound_cidrs",
         Write |-> "write_role_secret_id_bound_cidrs",
         Delete |-> "delete_role_secret_id_bound_cidrs"])

role_token_bound_cidrs_path ==
    Route(<<Lit("role"), Word("role_name"), Lit("token-bound-cidrs")>>, End,
        Required(Str, {"role_name"}) ++ Field(Slice, {"token_bound_cidrs"}),
        [Read |-> "read_role_token_bound_cidrs", Write |-> "write_role_token_bound_cidrs",
         Delete |-> "delete_role_token_bound_cidrs"])

role_bind_secret_id_path ==
    Route(<<Lit("role"), Word("role_name"), Lit("bind-secret-id")>>, End,
        Required(Str, {"role_name"}) ++ Default(Bool, "bool", {"bind_secret_id"}),
        [Read |-> "read_role_bind_secret_id", Write |-> "write_role_bind_secret_id",
         Delete |-> "delete_role_bind_secret_id"])

role_secret_id_num_uses_path ==
    Route(<<Lit("role"), Word("role_name"), Lit("secret-id-num-uses")>>, End,
        Required(Str, {"role_name"}) ++ Default(Integer, "int", {"secret_id_num_uses"}),
        [Read |-> "read_role_secret_id_num_uses",
         Write |-> "write_role_secret_id_num_uses",
         Delete |-> "delete_role_secret_id_num_uses"])

role_secret_id_ttl_path ==
    Route(<<Lit("role"), Word("role_name"), Lit("secret-id-ttl")>>, End,
        Required(Str, {"role_name"}) ++ Default(Integer, "int", {"secret_id_ttl"}),
        [Read |-> "read_role_secret_id_ttl", Write |-> "write_role_secret_id_ttl",
         Delete |-> "delete_role_secret_id_ttl"])

role_period_path ==
    Route(<<Lit("role"), Word("role_name"), Lit("period")>>, End,
        Required(Str, {"role_name"}) ++ Default(Duration, "int", {"period"}) ++
        Field(Duration, {"token_period"}),
        [Read |-> "read_role_period", Write |-> "write_role_period",
         Delete |-> "delete_role_period"])

role_token_num_uses_path ==
    Route(<<Lit("role"), Word("role_name"), Lit("token-num-uses")>>, End,
        Required(Str, {"role_name"}) ++ Default(Integer, "int", {"token_num_uses"}),
        [Read |-> "read_role_token_num_uses", Write |-> "write_role_token_num_uses",
         Delete |-> "delete_role_token_num_uses"])

role_token_ttl_path ==
    Route(<<Lit("role"), Word("role_name"), Lit("token-ttl")>>, End,
        Required(Str, {"role_name"}) ++ Field(Duration, {"token_ttl"}),
        [Read |-> "read_role_token_ttl", Write |-> "write_role_token_ttl",
         Delete |-> "delete_role_token_ttl"])

role_token_max_ttl_path ==
    Route(<<Lit("role"), Word("role_name"), Lit("token-max-ttl")>>, End,
        Required(Str, {"role_name"}) ++ Field(Duration, {"token_max_ttl"}),
        [Read |-> "read_role_token_max_ttl", Write |-> "write_role_token_max_ttl",
         Delete |-> "delete_role_token_max_ttl"])

role_role_id_path ==
    Route(<<Lit("role"), Word("role_name"), Lit("role-id")>>, End,
        Required(Str, {"role_name"}) ++ Field(Str, {"role_id"}),
        [Read |-> "read_role_role_id", Write |-> "write_role_role_id"])

role_secret_id_path ==
    Route(<<Lit("role"), Word("role_name"), Lit("secret-id")>>, Slash,
        Required(Str, {"role_name"}) ++ Field(Str, {"metadata"}) ++
        Field(Slice, {"cidr_list", "token_bound_cidrs"}) ++ Field(Integer, {"num_uses"}) ++
        Field(Duration, {"ttl"}),
        [List |-> "list_role_secret_id", Write |-> "write_role_secret_id"])

role_secret_id_lookup_path ==
    Route(<<Lit("role"), Word("role_name"), Lit("secret-id"), Lit("lookup")>>, Slash,
        Required(Str, {"role_name"}) ++ Field(Str, {"secret_id"}),
        [Write |-> "write_role_secret_id_lookup"])

role_secret_id_destroy_path ==
    Route(<<Lit("role"), Word("role_name"), Lit("secret-id"), Lit("destroy")>>, Slash,
        Required(Str, {"role_name"}) ++ Field(Str, {"secret_id"}),
        [Write |-> "write_role_secret_id_destory",
         Delete |-> "delete_role_secret_id_destory"])

role_secret_id_accessor_lookup_path ==
    Route(<<Lit("role"), Word("role_name"), Lit("secret-id-accessor"), Lit("lookup")>>, Slash,
        Required(Str, {"role_name"}) ++ Field(Str, {"secret_id_accessor"}),
        [Write |-> "write_role_secret_id_accessor_lookup"])

role_secret_id_accessor_destroy_path ==
    Route(<<Lit("role"), Word("role_name"), Lit("secret-id-accessor"), Lit("destroy")>>, Slash,
        Required(Str, {"role_name"}) ++ Field(Str, {"secret_id_accessor"}),
        [Write |-> "write_role_secret_id_accessor_destory",
         Delete |-> "delete_role_secret_id_accessor_destory"])

role_custom_secret_id_path ==
    Route(<<Lit("role"), Word("role_name"), Lit("custom-secret-id")>>, End,
        Required(Str, {"role_name"}) ++ Field(Str, {"secret_id", "metadata"}) ++
        Field(Slice, {"cidr_list", "token_bound_cidrs"}) ++ Field(Integer, {"num_uses"}) ++
        Field(Duration, {"ttl"}),
        [Write |-> "write_role_custom_secret_id"])

approle_login_path ==
    Route(<<Lit("login")>>, End,
        Required(Str, {"role_id", "secret_id"}),
        [Write |-> "login"])

tidy_secret_id_path ==
    Route(<<Lit("tidy"), Lit("secret-id")>>, End,
        NoFields,
        [Write |-> "tidy_secret_id"])

(***************************************************************************)
(* TLS certificates, modules/credential/cert.                              *)
(***************************************************************************)
config_path ==
    Route(<<Lit("config")>>, End,
        Default(Bool, "bool", {"disable_binding", "enable_identity_alias_metadata"}) ++
        Default(Integer, "int", {"ocsp_cache_size"}),
        [Read |-> "read_config", Write |-> "write_config"])

cert_rule_fields ==
    Default(Bool, "bool", {"ocsp_enabled", "ocsp_fail_open", "ocsp_query_all_servers"}) ++
    Field(Str, {"ocsp_ca_certificates"}) ++
    Field(Slice, {"ocsp_servers_override", "allowed_names", "allowed_common_names",
                  "allowed_dns_sans", "allowed_email_sans", "allowed_uri_sans",
                  "allowed_organizational_units", "required_extensions",
                  "allowed_metadata_extensions"})

cert_token_fields ==
    token_fields ++ Field(Slice, {"policies", "bound_cidrs"}) ++ Field(Integer, {"lease"}) ++
    Field(Duration, {"ttl", "max_ttl"}) ++ Default(Duration, "int", {"period"}) ++
    Field(Str, {"display_name"})

certs_path ==
    Route(<<Lit("certs"), Word("name")>>, End,
        Required(Str, {"name", "certificate"}) ++ cert_rule_fields ++ cert_token_fields,
        [Read |-> "read_cert", Write |-> "write_cert", Delete |-> "delete_cert"])

certs_list_path ==
    Route(<<Lit("certs")>>, Slash,
        NoFields,
        [List |-> "list_cert"])

crl_path ==
    Route(<<Lit("crls"), Word("name")>>, End,
        Required(Str, {"name"}) ++ Field(Str, {"crl", "url"}),
        [Read |-> "read_crl", Write |-> "write_crl", Delete |-> "delete_crl"])

crl_list_path ==
    Route(<<Lit("crls")>>, Slash,
        NoFields,
        [List |-> "list_crl"])

cert_login_path ==
    Route(<<Lit("login")>>, End,
        Required(Str, {"name"}),
        [Write |-> "login"])

(***************************************************************************)
(* Userpass, modules/credential/userpass.                                  *)
(***************************************************************************)
users_path ==
    Route(<<Lit("users"), Word("username")>>, End,
        token_fields ++ Required(Str, {"username"}) ++ Field(SecretStr, {"password"}) ++
        Field(Str, {"policies"}) ++ Default(Integer, "int", {"ttl", "max_ttl"}),
        [Read |-> "read_user", Write |-> "write_user", Delete |-> "delete_user"])

user_list_path ==
    Route(<<Lit("users")>>, Slash,
        NoFields,
        [List |-> "list_user"])

user_password_path ==
    Route(<<Lit("users"), Word("username"), Lit("password")>>, End,
        Required(Str, {"username"}) ++ Required(SecretStr, {"password"}),
        [Write |-> "write_user_password"])

userpass_login_path ==
    Route(<<Lit("login"), Word("username")>>, End,
        Required(Str, {"username"}) ++ Required(SecretStr, {"password"}),
        [Write |-> "login"])

(***************************************************************************)
(* Key-value secrets, modules/kv/mod.rs.                                   *)
(***************************************************************************)
kv_any_path ==
    Route(<<>>, Whole,
        Default(Integer, "blank", {"ttl"}),
        [Read |-> "handle_read", Write |-> "handle_write", Delete |-> "handle_delete",
         List |-> "handle_list"])

ca_common_fields ==
    Required(Str, {"common_name"}) ++ Field(Str, {"ttl"}) ++
    Default(Integer, "int", {"not_before_duration"}) ++
    Default(Str, "blank", {"alt_names", "not_after", "ou", "organization", "country", "locality",
                           "province", "street_address", "postal_code", "serial_number"})

ca_key_generation_fields ==
    Default(Str, "str", {"exported", "key_type"}) ++
    Default(Integer, "int", {"key_bits", "signature_bits"}) ++ Default(Bool, "bool", {"use_pss"})

ca_issue_fields ==
    Default(Str, "str", {"permitted_dns_domains"}) ++
    Default(Integer, "negint", {"max_path_length"})

(***************************************************************************)
(* PKI, modules/pki.                                                       *)
(***************************************************************************)
role_allow_fields ==
    Field(Str, {"ttl", "max_ttl", "allowed_domains"}) ++
    Default(Bool, "bool", {"use_pss", "allow_localhost", "allow_bare_domains", "allow_subdomains",
                           "allow_any_name", "allow_ip_sans", "server_flag", "client_flag"}) ++
    Field(Bool, {"code_signing_flag"})

role_key_fields ==
    Default(Str, "str", {"key_type"}) ++ Default(Str, "blank", {"not_after"}) ++
    Default(Integer, "int", {"key_bits", "signature_bits", "not_before_duration"}) ++
    Default(Slice, "str", {"key_usage"}) ++ Field(Slice, {"ext_key_usage"})

role_subject_fields ==
    Field(Str, {"ou", "organization", "country", "locality", "province", "street_address",
                "postal_code"}) ++
    Default(Bool, "bool", {"use_csr_common_name", "use_csr_sans", "generate_lease", "no_store"})

roles_path ==
    Route(<<Lit("roles"), Word("name")>>, End,
        Required(Str, {"name"}) ++ role_allow_fields ++ role_key_fields ++ role_subject_fields,
        [Read |-> "read_path_role", Write |-> "create_path_role", Delete |-> "delete_path_role"])

config_ca_path ==
    Route(<<Lit("config"), Lit("ca")>>, End,
        Field(Str, {"pem_bundle"}),
        [Write |-> "write_path_ca"])

config_crl_path ==
    Route(<<Lit("config"), Lit("crl")>>, End,
        Default(Str, "str", {"expiry"}),
        [Read |-> "read_path_crl", Write |-> "write_path_crl"])

root_generate_path ==
    Route(<<Lit("root"), Lit("generate")>>, Rest("exported"),
        ca_common_fields ++ ca_key_generation_fields ++ ca_issue_fields,
        [Write |-> "generate_root"])

root_delete_path ==
    Route(<<Lit("root")>>, End,
        NoFields,
        [Delete |-> "delete_root"])

fetch_ca_path ==
    Route(<<Lit("ca")>>, Pem,
        NoFields,
        [Read |-> "read_path_fetch_ca"])

fetch_crl_path ==
    Route(<<Lit("crl")>>, Pem,
        NoFields,
        [Read |-> "read_path_fetch_crl"])

fetch_cert_path ==
    Route(<<Lit("cert"), Serial("serial")>>, End,
        Field(Str, {"serial"}),
        [Read |-> "read_path_fetch_cert"])

fetch_cert_crl_path ==
    Route(<<Lit("cert"), Lit("crl")>>, End,
        NoFields,
        [Read |-> "read_path_fetch_cert_crl"])

issue_path ==
    Route(<<Lit("issue"), Word("role")>>, End,
        Field(Str, {"role", "common_name", "alt_names", "ip_sans", "ttl"}),
        [Write |-> "issue_cert"])

revoke_path ==
    Route(<<Lit("revoke")>>, End,
        Field(Str, {"serial_number"}),
        [Write |-> "revoke_cert"])

crl_rotate_path ==
    Route(<<Lit("crl"), Lit("rotate")>>, End,
        NoFields,
        [Read |-> "read_rotate_crl"])

keys_generate_path ==
    Route(<<Lit("keys"), Lit("generate"), OneOf({"exported", "internal"})>>, End,
        Required(Str, {"key_name"}) ++ Default(Integer, "int", {"key_bits"}) ++
        Default(Str, "str", {"key_type"}),
        [Write |-> "generate_key"])

keys_import_path ==
    Route(<<Lit("keys"), Lit("import")>>, End,
        Required(Str, {"key_name"}) ++ Default(Str, "str", {"key_type"}) ++
        Field(Str, {"pem_bundle", "hex_bundle", "iv"}),
        [Write |-> "import_key"])

keys_sign_path ==
    Route(<<Lit("keys"), Lit("sign")>>, End,
        Required(Str, {"key_name", "data"}),
        [Write |-> "key_sign"])

keys_verify_path ==
    Route(<<Lit("keys"), Lit("verify")>>, End,
        Required(Str, {"key_name", "data", "signature"}),
        [Write |-> "key_verify"])

keys_encrypt_path ==
    Route(<<Lit("keys"), Lit("encrypt")>>, End,
        Required(Str, {"key_name", "data"}) ++ Default(Str, "blank", {"aad"}),
        [Write |-> "key_encrypt"])

keys_decrypt_path ==
    Route(<<Lit("keys"), Lit("decrypt")>>, End,
        Required(Str, {"key_name", "data"}) ++ Default(Str, "blank", {"aad"}),
        [Write |-> "key_decrypt"])

(***************************************************************************)
(* The backends: their routes in the order of registration, which is the   *)
(* order match_path tries them in, and the paths a client reaches without  *)
(* a token (unauth) or only with sudo (root).                              *)
(***************************************************************************)
Key(p)    == [path |-> p, prefix |-> FALSE]
Prefix(p) == [path |-> p, prefix |-> TRUE]

sys_backend ==
    [routes |-> <<sys_mounts_path, sys_mounts_at_path, sys_remount_path, sys_renew_path,
                  sys_revoke_path, sys_revoke_prefix_path, sys_auth_path, sys_auth_at_path,
                  sys_policy_list_path, sys_policy_path, sys_acl_policy_list_path,
                  sys_acl_policy_path, sys_audit_path, sys_audit_at_path, sys_raw_path>>,
     unauth |-> {},
     root   |-> {Prefix(<<"mounts">>), Prefix(<<"auth">>), Key(<<"remount">>), Key(<<"policy">>),
                 Prefix(<<"policy">>), Key(<<"audit">>), Prefix(<<"audit">>), Key(<<"seal">>),
                 Prefix(<<"raw">>), Prefix(<<"revoke-prefix">>)},
     secrets |-> {}, renew |-> FALSE]

token_backend ==
    [routes |-> <<token_create_path, token_lookup_path, token_lookup_self_path, token_revoke_path,
                  token_revoke_orphan_path, token_renew_path>>,
     unauth |-> {}, root |-> {Prefix(<<"revoke-orphan">>)}, secrets |-> {}, renew |-> TRUE]

role_paths ==
    <<role_path, role_name_path, role_policies_path, role_local_secret_ids_path,
      role_bound_cidr_list_path, role_secret_id_bound_cidrs_path, role_token_bound_cidrs_path,
      role_bind_secret_id_path, role_secret_id_num_uses_path, role_secret_id_ttl_path,
      role_period_path, role_token_num_uses_path, role_token_ttl_path, role_token_max_ttl_path,
      role_role_id_path, role_secret_id_path, role_secret_id_lookup_path,
      role_secret_id_destroy_path, role_secret_id_accessor_lookup_path,
      role_secret_id_accessor_destroy_path, role_custom_secret_id_path>>

approle_backend ==
    [routes |-> role_paths \o <<approle_login_path, role_path, tidy_secret_id_path>>,
     unauth |-> {Key(<<"login">>)}, root |-> {}, secrets |-> {}, renew |-> TRUE]

cert_backend ==
    [routes |-> <<config_path, certs_path, certs_list_path, crl_path, crl_list_path,
                  cert_login_path>>,
     unauth |-> {Key(<<"login">>)}, root |-> {}, secrets |-> {}, renew |-> TRUE]

userpass_backend ==
    [routes |-> <<users_path, user_list_path, user_password_path, userpass_login_path>>,
     unauth |-> {Prefix(<<"login">>)}, root |-> {}, secrets |-> {}, renew |-> TRUE]

kv_backend ==
    [routes |-> <<kv_any_path>>, unauth |-> {}, root |-> {}, secrets |-> {"kv"}, renew |-> FALSE]

\* config_crl_path is defined and never registered.
pki_backend ==
    [routes |-> <<roles_path, config_ca_path, root_generate_path, root_delete_path, fetch_ca_path,
                  fetch_crl_path, fetch_cert_path, fetch_cert_crl_path, issue_path, revoke_path,
                  crl_rotate_path, keys_generate_path, keys_import_path, keys_sign_path,
                  keys_verify_path, keys_encrypt_path, keys_decrypt_path>>,
     unauth |-> {Prefix(<<"cert">>), Key(<<"ca", "pem">>), Key(<<"ca">>), Key(<<"crl">>),
                 Key(<<"crl", "pem">>)},
     root   |-> {Prefix(<<"config">>), Prefix(<<"revoke">>), Key(<<"crl", "rotate">>)},
     secrets |-> {"pki"}, renew |-> FALSE]

Backends ==
    [sys |-> sys_backend, token |-> token_backend, approle |-> approle_backend,
     cert |-> cert_backend, userpass |-> userpass_backend, kv |-> kv_backend, pki |-> pki_backend]
=============================================================================
