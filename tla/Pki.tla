-------------------------------- MODULE Pki --------------------------------
(***************************************************************************)
(* The certificate authority of the pki backend: roles, the CA bundle, and *)
(* the certificates issued with it (src/src/modules/pki/ and utils/cert.rs).*)
(*                                                                         *)
(* A request is one call of a client; each read or write of storage is a   *)
(* step, since the backend holds no lock.  A key pair is a number, and a   *)
(* certificate is the record of what later code compares.  Serial numbers  *)
(* are 159 random bits: two draws are taken to differ.                     *)
(***************************************************************************)
EXTENDS Naturals, Sequences

CONSTANTS
    PkiClients,
    PkiRoles,      \* names of roles
    RoleBodies,    \* [key_type, key_bits, no_store, generate_lease]
    PemBundles,    \* [certs, keys]: what is imported, as parsed
    IssueTtls,     \* the ttls a request may ask for
    RootLives,     \* [ttl, not_after]: what is asked for a root, 0 for none
    DefaultLife,   \* "30d" of issue_cert
    MaxSerial,     \* bound on the certificates that are made
    MaxClock

ASSUME PkiConstants ==
    /\ IssueTtls \subseteq Nat /\ DefaultLife \in Nat
    /\ \A pem \in PemBundles : Len(pem.certs) \in Nat /\ DOMAIN pem.certs = 1 .. Len(pem.certs)

VARIABLES
    pkroles,   \* role/<name>
    pkca,      \* config/ca_bundle
    pkpem,     \* ca
    pkcerts,   \* certs/<serial>: spelling of a serial -> certificate
    pkcrl,     \* is there a crl entry?
    pkcalls,   \* the call of each client
    pkserial,  \* the last serial number that was drawn
    pkclock,
    pkissued   \* history: the answers of issue_cert

pkiVars == <<pkroles, pkca, pkpem, pkcerts, pkcrl, pkcalls, pkserial, pkclock, pkissued>>

NoBundle == [serial_number |-> "none"]
PkiIdle == [pc |-> "idle"]
NoX509 == [serial |-> 0]
NoRole == [key_type |-> "none"]

\* to_hex_str and join: a serial number as text.  Number 0 is the empty text.
Spelled(n, sep, capitals) == [n |-> n, sep |-> sep, capitals |-> capitals]
Spellings_of(n) == {Spelled(n, sep, c) : sep \in {":", "-"}, c \in BOOLEAN}

\* replace(':', "-").to_lowercase()
serial_number_hex(text) == Spelled(text.n, "-", FALSE)

PkiInit ==
    /\ pkroles = [r \in PkiRoles |-> NoRole]
    /\ pkca = NoBundle
    /\ pkpem = NoX509
    /\ pkcerts = <<>>
    /\ pkcrl = FALSE
    /\ pkcalls = [c \in PkiClients |-> PkiIdle]
    /\ pkserial = 0
    /\ pkclock = 1
    /\ pkissued = {}

PkiFree(c) == pkcalls[c] = PkiIdle
PkiAt(c, pc) == pkcalls[c].pc = pc
PkiGoto(c, call) == pkcalls' = [pkcalls EXCEPT ![c] = call]
PkiReturn(c) == PkiGoto(c, PkiIdle)

-----------------------------------------------------------------------------
(* Roles, path_roles.rs *)

\* The bits of a key, its type's default for 0; 0 when the type or the bits are refused.
checked_key_bits(type, bits) ==
    LET default == [rsa |-> 2048, ec |-> 256]
        allowed == [rsa |-> {2048, 3072, 4096}, ec |-> {224, 256, 384, 512}]
        wanted  == IF bits = 0 THEN default[type] ELSE bits
    IN  IF type \in DOMAIN default /\ wanted \in allowed[type] THEN wanted ELSE 0

create_path_role(c, r, body) ==
    /\ PkiFree(c)
    /\ checked_key_bits(body.key_type, body.key_bits) # 0
    /\ pkroles' = [pkroles EXCEPT ![r] =
                     [body EXCEPT !.key_bits = checked_key_bits(body.key_type, body.key_bits)]]
    /\ UNCHANGED <<pkca, pkpem, pkcerts, pkcrl, pkcalls, pkserial, pkclock, pkissued>>

delete_path_role(c, r) ==
    /\ PkiFree(c)
    /\ pkroles' = [pkroles EXCEPT ![r] = NoRole]
    /\ UNCHANGED <<pkca, pkpem, pkcerts, pkcrl, pkcalls, pkserial, pkclock, pkissued>>

get_role(r) == pkroles[r]

-----------------------------------------------------------------------------
(* Making a certificate, utils/cert.rs *)

\* to_cert_bundle makes keys of these sizes only: 521, where the roles say 512.
MakesKey(type, bits) ==
    \/ type = "rsa" /\ bits \in {2048, 3072, 4096}
    \/ type = "ec" /\ bits \in {224, 256, 384, 521}

\* to_x509 under a fresh serial and key pair: self-signed, or signed with the
\* key of the bundle `ca`.
to_x509(ca, is_ca, not_after) ==
    LET fresh == pkserial + 1
    IN  [serial |-> fresh, is_ca |-> is_ca, key |-> fresh, not_after |-> not_after,
         signed_by |-> IF ca = NoBundle THEN fresh ELSE ca.private_key]

to_cert_bundle(ca, is_ca, not_after) ==
    LET x509 == to_x509(ca, is_ca, not_after)
    IN  [certificate |-> x509, private_key |-> x509.key,
         ca_chain |-> IF ca = NoBundle THEN <<>> ELSE <<ca.certificate>>,
         serial_number |-> Spelled(x509.serial, ":", FALSE)]

\* A root puts itself in the chain: it is not taken twice.
get_cert_chain(b) ==
    IF b.ca_chain # <<>> /\ b.ca_chain[1].serial # b.certificate.serial
    THEN <<b.certificate>> \o b.ca_chain
    ELSE <<b.certificate>>

\* Slip: the chain is looked at and the key is not.
verify_chain_only(b) ==
    LET chain == get_cert_chain(b)
    IN  \A i \in 2 .. Len(chain) : chain[i].is_ca /\ chain[i].key = chain[i - 1].key

\* The key fits the certificate, and every certificate of the chain is a CA with
\* the subject key id of the one before it.
verify(b) ==
    LET chain == get_cert_chain(b)
    IN  /\ b.private_key = b.certificate.key
        /\ \A i \in 2 .. Len(chain) : chain[i].is_ca /\ chain[i].key = chain[i - 1].key

-----------------------------------------------------------------------------
(* The CA bundle, path_root.rs and path_config_ca.rs *)

\* get_role_params: the key is checked as for a role, ttl 0 counts as none given.
get_role_params(type, bits, life) ==
    [key_type |-> type, key_bits |-> checked_key_bits(type, bits),
     ttl |-> life.ttl, not_after |-> life.not_after]

\* generate_certificate: an end that is given, in the past or not, counts before a
\* ttl.  The life of a root starts 10 seconds (a tick) ago.
generate_certificate(params) ==
    IF params.not_after # 0 THEN params.not_after
    ELSE pkclock - 1 + (IF params.ttl # 0 THEN params.ttl ELSE DefaultLife)

\* store_ca_bundle is three puts; import adds a fourth.
StoreCaBundle(c, bundle, then) ==
    PkiGoto(c, [pc |-> "bundle", bundle |-> bundle, then |-> then])

generate_root(c, type, bits, life) ==
    LET params == get_role_params(type, bits, life)
    IN  /\ PkiFree(c)
        /\ params.key_bits # 0
        /\ MakesKey(params.key_type, params.key_bits)
        /\ pkserial < MaxSerial
        /\ StoreCaBundle(c, to_cert_bundle(NoBundle, TRUE, generate_certificate(params)), "idle")
        /\ pkserial' = pkserial + 1
        /\ UNCHANGED <<pkroles, pkca, pkpem, pkcerts, pkcrl, pkclock, pkissued>>

\* The first certificate is the CA's; every one must be a CA's, with at most one
\* key.  serial_number stays empty.
write_path_ca(c, pem) ==
    LET bundle == [certificate |-> pem.certs[1], private_key |-> pem.keys[1],
                   ca_chain |-> Tail(pem.certs), serial_number |-> Spelled(0, ":", FALSE)]
    IN  /\ PkiFree(c)
        /\ \A i \in DOMAIN pem.certs : pem.certs[i].is_ca
        /\ Len(pem.certs) > 0 /\ Len(pem.keys) = 1
        /\ verify(bundle)
        /\ StoreCaBundle(c, bundle, "crl")
        /\ UNCHANGED <<pkroles, pkca, pkpem, pkcerts, pkcrl, pkserial, pkclock, pkissued>>

PutBundle(c) ==
    /\ PkiAt(c, "bundle")
    /\ pkca' = pkcalls[c].bundle
    /\ PkiGoto(c, [pkcalls[c] EXCEPT !.pc = "pem"])
    /\ UNCHANGED <<pkroles, pkpem, pkcerts, pkcrl, pkserial, pkclock, pkissued>>

PutPem(c) ==
    /\ PkiAt(c, "pem")
    /\ pkpem' = pkcalls[c].bundle.certificate
    /\ PkiGoto(c, [pkcalls[c] EXCEPT !.pc = "cert"])
    /\ UNCHANGED <<pkroles, pkca, pkcerts, pkcrl, pkserial, pkclock, pkissued>>

store_cert(text, x509) ==
    LET key == serial_number_hex(text)
    IN  pkcerts' = [k \in DOMAIN pkcerts \cup {key} |-> IF k = key THEN x509 ELSE pkcerts[k]]

PutCaCert(c) ==
    /\ PkiAt(c, "cert")
    /\ store_cert(pkcalls[c].bundle.serial_number, pkcalls[c].bundle.certificate)
    /\ IF pkcalls[c].then = "crl" THEN PkiGoto(c, [pc |-> "crl"]) ELSE PkiReturn(c)
    /\ UNCHANGED <<pkroles, pkca, pkpem, pkcrl, pkserial, pkclock, pkissued>>

PutCrl(c) ==
    /\ PkiAt(c, "crl")
    /\ pkcrl' = TRUE
    /\ PkiReturn(c)
    /\ UNCHANGED <<pkroles, pkca, pkpem, pkcerts, pkserial, pkclock, pkissued>>

\* delete_root: reads the bundle, then deletes its certificate, then the bundle
\* that is there by then.  The pem under "ca" stays.
delete_root(c) ==
    /\ PkiFree(c)
    /\ pkca # NoBundle
    /\ PkiGoto(c, [pc |-> "uncert", serial |-> pkca.serial_number])
    /\ UNCHANGED <<pkroles, pkca, pkpem, pkcerts, pkcrl, pkserial, pkclock, pkissued>>

delete_cert(c) ==
    LET key == serial_number_hex(pkcalls[c].serial)
    IN  /\ PkiAt(c, "uncert")
        /\ pkcerts' = [k \in DOMAIN pkcerts \ {key} |-> pkcerts[k]]
        /\ PkiGoto(c, [pc |-> "unbundle"])
        /\ UNCHANGED <<pkroles, pkca, pkpem, pkcrl, pkserial, pkclock, pkissued>>

delete_ca_bundle(c) ==
    /\ PkiAt(c, "unbundle")
    /\ pkca' = NoBundle
    /\ PkiReturn(c)
    /\ UNCHANGED <<pkroles, pkpem, pkcerts, pkcrl, pkserial, pkclock, pkissued>>

-----------------------------------------------------------------------------
(* Issuing, path_issue.rs.  ttl 0 is a request without one. *)

issue_cert(c, r, ttl) ==
    /\ PkiFree(c)
    /\ get_role(r) # NoRole
    /\ PkiGoto(c, [pc |-> "sign", role |-> get_role(r), ttl |-> ttl])
    /\ UNCHANGED <<pkroles, pkca, pkpem, pkcerts, pkcrl, pkserial, pkclock, pkissued>>

\* A ttl that ends after the CA is refused; the default is not compared.
TtlFits(ttl, ca) == ttl # 0 => pkclock + ttl <= ca.certificate.not_after

IssueSign(c) ==
    LET call == pkcalls[c]
        life == IF call.ttl = 0 THEN pkclock - 1 + DefaultLife ELSE pkclock + call.ttl
        made == to_cert_bundle(pkca, FALSE, life)
    IN  /\ PkiAt(c, "sign")
        /\ pkca # NoBundle
        /\ TtlFits(call.ttl, pkca)
        /\ MakesKey(call.role.key_type, call.role.key_bits)
        /\ pkserial < MaxSerial
        /\ pkserial' = pkserial + 1
        /\ PkiGoto(c, [pc |-> IF call.role.no_store THEN "answer" ELSE "store",
                       made |-> made, role |-> call.role, ttl |-> call.ttl])
        /\ UNCHANGED <<pkroles, pkca, pkpem, pkcerts, pkcrl, pkclock, pkissued>>

IssueStore(c) ==
    /\ PkiAt(c, "store")
    /\ store_cert(pkcalls[c].made.serial_number, pkcalls[c].made.certificate)
    /\ PkiGoto(c, [pkcalls[c] EXCEPT !.pc = "answer"])
    /\ UNCHANGED <<pkroles, pkca, pkpem, pkcrl, pkserial, pkclock, pkissued>>

\* The lease ends with the certificate; the subtraction panics for one already over.
IssueAnswer(c) ==
    LET call == pkcalls[c]
        lease == call.made.certificate.not_after - pkclock
    IN  /\ PkiAt(c, "answer")
        /\ call.role.generate_lease => call.made.certificate.not_after > pkclock
        /\ pkissued' = pkissued \cup
             {[cert |-> call.made.certificate, issuing_ca |-> call.made.ca_chain[1],
               stored |-> ~call.role.no_store, asked |-> call.ttl # 0,
               ends |-> IF call.role.generate_lease THEN pkclock + lease ELSE 0]}
        /\ PkiReturn(c)
        /\ UNCHANGED <<pkroles, pkca, pkpem, pkcerts, pkcrl, pkserial, pkclock>>

\* An error of storage, a refusal, a panic, or a restart: the call ends where it is.
PkiFails(c) ==
    /\ ~PkiFree(c)
    /\ PkiReturn(c)
    /\ UNCHANGED <<pkroles, pkca, pkpem, pkcerts, pkcrl, pkserial, pkclock, pkissued>>

PkiTick ==
    /\ pkclock < MaxClock
    /\ pkclock' = pkclock + 1
    /\ UNCHANGED <<pkroles, pkca, pkpem, pkcerts, pkcrl, pkcalls, pkserial, pkissued>>

-----------------------------------------------------------------------------
(* Reading, path_fetch.rs *)

\* read_path_fetch_cert: the certificate must be there, and so must a CA.
read_path_fetch_cert(text) ==
    IF serial_number_hex(text) \in DOMAIN pkcerts /\ pkca # NoBundle
    THEN pkcerts[serial_number_hex(text)] ELSE NoX509

\* revoke_cert, read_rotate_crl, revoke_secret_creds, renew_secret_creds and the
\* reads of the crl return nothing and change nothing.
NothingDone == UNCHANGED pkiVars

PkiStep(c) ==
    \/ \E r \in PkiRoles, body \in RoleBodies : create_path_role(c, r, body)
    \/ \E r \in PkiRoles : delete_path_role(c, r)
    \/ \E life \in RootLives, type \in {"rsa", "ec"}, bits \in {0, 512} :
         generate_root(c, type, bits, life)
    \/ \E pem \in PemBundles : write_path_ca(c, pem)
    \/ PutBundle(c) \/ PutPem(c) \/ PutCaCert(c) \/ PutCrl(c)
    \/ delete_root(c) \/ delete_cert(c) \/ delete_ca_bundle(c)
    \/ \E r \in PkiRoles, ttl \in IssueTtls : issue_cert(c, r, ttl)
    \/ IssueSign(c) \/ IssueStore(c) \/ IssueAnswer(c)
    \/ PkiFails(c)

PkiNext == PkiTick \/ NothingDone \/ \E c \in PkiClients : PkiStep(c)

PkiSpec == PkiInit /\ [][PkiNext]_pkiVars

-----------------------------------------------------------------------------
\* What an answer said of a stored certificate stays true through every later
\* rotation, import and deletion of the CA: it is found under its serial, in
\* either spelling, whenever there is a CA, without which nothing is found
\* (path_fetch.rs:128-129, path_issue.rs:160).
IssuedFound ==
    \A i \in pkissued : \A text \in Spellings_of(i.cert.serial) :
        i.stored /\ pkca # NoBundle => read_path_fetch_cert(text) = i.cert

\* The certificate is signed with the key of the CA that the answer names, even
\* when the CA changes during the call, and that CA is one.
IssuedSigned ==
    \A i \in pkissued : i.cert.signed_by = i.issuing_ca.key /\ i.issuing_ca.is_ca

\* A certificate with a requested ttl ends before its CA, and its lease with it.
IssuedInTime ==
    \A i \in pkissued : /\ i.asked => i.cert.not_after <= i.issuing_ca.not_after
                        /\ i.ends \in {0, i.cert.not_after}

\* Every certificate that issue_cert returned is kept, was signed by the CA it was
\* returned with, and does not outlive what was checked (path_issue.rs:67-205).
IssuedStands == IssuedFound /\ IssuedSigned /\ IssuedInTime
=============================================================================
