----------------------------- MODULE MCBackends -----------------------------
(* The components that share no state, side by side: the first state picks  *)
(* the part that moves, the other parts stay in a first state of theirs.    *)
(* Values of their constants for TLC.                                       *)
EXTENDS Front, Acl, PolicyStore, Accounts, MCCertAuth, Pki, Keys, Leases

VARIABLE moving  \* the part that moves

-----------------------------------------------------------------------------
\* Front
MCAppPaths == {<<"login", "nam">>, <<"users", "nam">>, <<"users">>, <<"login">>}

\* Acl: an exact path, prefixes and wildcards that overlap; rules that deny,
\* that name parameters, that bound a lifetime and that require one.
a == <<"a">>
b == <<"b">>

MCRulePaths ==
    {[segs |-> <<a, b>>, glob |-> FALSE], [segs |-> <<a, <<>>>>, glob |-> TRUE],
     [segs |-> <<a, b>>, glob |-> TRUE], [segs |-> <<Plus, b>>, glob |-> FALSE],
     [segs |-> <<a, Plus>>, glob |-> FALSE], [segs |-> <<Plus, <<>>>>, glob |-> TRUE]}

Body(policy, caps, allowed, denied, required, min, max) ==
    [policy |-> policy, caps |-> caps, allowed |-> allowed, denied |-> denied,
     required |-> required, min |-> min, max |-> max]

MCRulePerms ==
    {Body("deny", {"read"}, <<>>, <<>>, {}, 0, 0),
     Body("", {"read", "list"}, <<>>, [p |-> {a}], {}, 2, 0),
     Body("write", {}, [p |-> {<<"a", "*">>}], <<>>, {}, 0, 1),
     Body("", {"create", "sudo"}, [p |-> {}], [p |-> {}], {"p"}, 0, 0)}

MCRequests ==
    LET paths == {<<a, b>>, <<a, <<"b", "a">>>>, <<b, b>>}
    IN  [path : paths, op : {"Read"}, params : {<<>>, [p |-> b]}]
          \cup [path : paths, op : {"Write"}, params : {<<>>, [p |-> a], [p |-> b]}]
          \cup [path : paths \cup {<<a, b, <<>>, <<>>>>}, op : {"List"}, params : {<<>>}]

-----------------------------------------------------------------------------
\* Accounts: each half of a pair of names missing, given or given with the
\* value that stands for "unset".
P == {{"dev"}, {"root"}}

MCBodies ==
    [role |-> [token : {<<>>} \cup {[policies |-> x] : x \in P}
                         \cup {[period |-> 1, type |-> "x"], [bound_cidrs |-> {"net"}]},
               plain : {<<>>} \cup {[policies |-> {"dev"}, period |-> y] : y \in {0, 1}},
               own : {<<>>, [bind_secret_id |-> FALSE],
                      [bound_cidr_list |-> {"net"}, local_secret_ids |-> TRUE]}],
     user |-> [token : {<<>>} \cup {[policies |-> x] : x \in P} \cup {[bound_cidrs |-> {"net"}]},
               plain : {<<>>, [policies |-> {"dev"}], [ttl |-> 1]},
               own : {[password |-> ""], [password |-> "p1"]}],
     cert |-> [token : {<<>>} \cup {[policies |-> x] : x \in P}
                         \cup {[ttl |-> 1, period |-> y] : y \in {0, 1}},
               plain : {<<>>} \cup {[policies |-> {"dev"}, bound_cidrs |-> y] : y \in {{}, {"net"}}}
                         \cup {[lease |-> x, max_ttl |-> 1] : x \in {0, 1}},
               own : {[certificate |-> "ca"], [certificate |-> "server", display_name |-> "d"]}]]

MCFieldValues ==
    [bound_cidrs |-> {{"net"}}, period |-> {1}, num_uses |-> {0}, ttl |-> {0, 2}, max_ttl |-> {1},
     bind_secret_id |-> BOOLEAN, secret_id_bound_cidrs |-> {{}, {"net"}, {"bad"}},
     bound_cidr_list |-> {{"net"}}, secret_id_num_uses |-> {-1, 0}, secret_id_ttl |-> {0}]

-----------------------------------------------------------------------------
\* CertAuth: the lists are written before the entries, which use them as they
\* are in memory.  Once requests for lists are mixed, nothing is claimed until a
\* restart: a read mixes them, and the restart follows.
ListsFirst ==
    /\ crlVars' # crlVars => entryVars = <<[n \in EntryNames |-> NoEntry], NoCert, TRUE>>
    /\ entryVars' # entryVars => /\ \A c \in CrlClients : At(c, "idle")
                                 /\ ccrl = [m \in CertMounts |-> IF m = CertMount THEN ccrls ELSE NoCrls]
    /\ cuse' = "mixed" => cuse # "mixed" /\ \E c \in CrlClients : ccalls'[c] # ccalls[c] /\ ccalls'[c].op = "read"

-----------------------------------------------------------------------------
\* Pki: a bundle with a CA, one with two, one whose certificate is no CA and
\* one whose key is not the certificate's.
Imported(n, ca) == [serial |-> n, is_ca |-> ca, key |-> n, not_after |-> 3, signed_by |-> n]

MCRootLives == {[ttl |-> 2, not_after |-> 0], [ttl |-> 0, not_after |-> 2]}

MCRoleBodies ==
    {[key_type |-> "rsa", key_bits |-> 0, no_store |-> FALSE, generate_lease |-> TRUE],
     [key_type |-> "ec", key_bits |-> 100, no_store |-> TRUE, generate_lease |-> FALSE]}

MCPemBundles ==
    {[certs |-> <<Imported(101, TRUE)>>, keys |-> <<101>>],
     [certs |-> <<Imported(101, TRUE), Imported(102, TRUE)>>, keys |-> <<101>>],
     [certs |-> <<Imported(103, FALSE)>>, keys |-> <<103>>],
     [certs |-> <<Imported(101, TRUE)>>, keys |-> <<102>>]}

\* The role is made, or unmade, before the CA: a call keeps the role its first
\* step read, and nothing that is checked asks for a role afterwards.
RolesFirst == pkroles' # pkroles => pkca = NoBundle /\ pkserial = 0 /\ \A c \in PkiClients : PkiFree(c)

\* The clients of the three parts that take two are the same.
MCSymmetry == Permutations(PkiClients)

\* Keys
Kind(t, n) == [type |-> t, bits |-> n]
Import(t, pem, hex, iv) == [type |-> t, pem |-> pem, hex |-> hex, iv |-> iv]

MCKinds == {Kind("rsa", 0), Kind("ec", 256), Kind("ec", 512), Kind("aes-gcm", 0),
            Kind("aes-ecb", 192), Kind("sm4-gcm", 0)}
MCImports == {Import("aes-gcm", 0, 128, "short"),
              Import("aes-cbc", 0, 128, "empty"), Import("ec", 256, 256, "full"),
              Import("sm2", 256, 0, "full")}
MCTexts == {[body |-> "m1", zero |-> FALSE], [body |-> "m2", zero |-> TRUE]}

-----------------------------------------------------------------------------
Components == {"routes", "front", "acl", "policies", "accounts", "cert", "pki", "keys", "leases"}

\* Where a part has several first states, the idle one keeps to the first.
Pinned ==
    /\ moving # "front" => fapp = "kv"
    /\ moving # "policies" => pdisk["default"] = "none"
    /\ moving # "accounts" => akind = "user"

BackendsInit ==
    /\ moving \in Components
    /\ RouteInit /\ FrontInit /\ AclInit /\ PolicyInit /\ AccountInit /\ CertInit
    /\ PkiInit /\ KeysInit /\ LeaseInit
    /\ Pinned

BackendsNext ==
    /\ UNCHANGED moving
    /\ \/ /\ moving = "routes" /\ RouteNext
          /\ UNCHANGED <<frontVars, aclVars, pvars, accountVars, certVars, pkiVars, keyVars, leaseVars>>
       \/ /\ moving = "front" /\ FrontNext
          /\ UNCHANGED <<hreq, aclVars, pvars, accountVars, certVars, pkiVars, keyVars, leaseVars>>
       \/ /\ moving = "acl" /\ AclNext
          /\ UNCHANGED <<hreq, frontVars, pvars, accountVars, certVars, pkiVars, keyVars, leaseVars>>
       \/ /\ moving = "policies" /\ PolicyNext
          /\ UNCHANGED <<hreq, frontVars, aclVars, accountVars, certVars, pkiVars, keyVars, leaseVars>>
       \/ /\ moving = "accounts" /\ AccountNext
          /\ UNCHANGED <<hreq, frontVars, aclVars, pvars, certVars, pkiVars, keyVars, leaseVars>>
       \/ /\ moving = "cert" /\ CertNext /\ ListsFirst
          /\ UNCHANGED <<hreq, frontVars, aclVars, pvars, accountVars, pkiVars, keyVars, leaseVars>>
       \/ /\ moving = "pki" /\ PkiNext /\ RolesFirst
          /\ UNCHANGED <<hreq, frontVars, aclVars, pvars, accountVars, certVars, keyVars, leaseVars>>
       \/ /\ moving = "keys" /\ KeysNext
          /\ UNCHANGED <<hreq, frontVars, aclVars, pvars, accountVars, certVars, pkiVars, leaseVars>>
       \/ /\ moving = "leases" /\ LeaseNext
          /\ UNCHANGED <<hreq, frontVars, aclVars, pvars, accountVars, certVars, pkiVars, keyVars>>

backendVars == <<moving, hreq, frontVars, aclVars, pvars, accountVars, certVars, pkiVars, keyVars,
                 leaseVars>>

BackendsSpec == BackendsInit /\ [][BackendsNext]_backendVars
=============================================================================
