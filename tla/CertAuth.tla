------------------------------ MODULE CertAuth ------------------------------
(***************************************************************************)
(* Login with a TLS client certificate: the trusted entries, the           *)
(* revocation lists in storage and in memory, and the decision on a login  *)
(* (src/src/modules/credential/cert/).                                     *)
(*                                                                         *)
(* A certificate is a record of what the decision reads; its signer is the *)
(* id of the certificate whose key signed it.  A glob pattern is the set   *)
(* of the names it matches, or Malformed.  Building a chain is OpenSSL's.  *)
(* The settings of an entry that Accounts has are left out here.           *)
(***************************************************************************)
EXTENDS Crls, Sequences

CONSTANTS
    Peers,          \* the sequences of certificates clients present
    TrustedEntries, \* the entries that are written: certificates and constraints
    EntryNames,
    CertMount,      \* the mount that logins go to
    Malformed

Members(seq) == {seq[i] : i \in DOMAIN seq}

ASSUME CertAssumption ==
    /\ CertMount \in CertMounts
    /\ \A p \in Peers : p \in Seq(Members(p)) /\ p # <<>>
    /\ \A e \in TrustedEntries : /\ e.certificate \in Seq(Members(e.certificate))
                                /\ e.ocsp_ca_certificates \in Seq(Members(e.ocsp_ca_certificates))

VARIABLES
    centry,   \* cert/: the entry under each name
    csess,    \* the auth of the last login
    cbinding  \* config, the default where none is stored: is a renewal bound to
              \* the certificate of the login?

entryVars == <<centry, csess, cbinding>>
certVars == <<crlVars, entryVars>>

NoEntry == [certificate |-> <<>>]
NoCert == [name |-> ""]

CertInit ==
    /\ CrlInit
    /\ centry = [n \in EntryNames |-> NoEntry]
    /\ csess = NoCert
    /\ cbinding = TRUE

find_serial_in_crls(serial) == {n \in DOMAIN ccrls : serial \in ccrls[n]}

-----------------------------------------------------------------------------
(* Constraints, path_login.rs *)

\* One list of patterns against the names of a certificate: the first
\* malformed pattern ends the search, no list lets everything pass.
AnyMatches(patterns, names) ==
    \/ patterns = <<>>
    \/ \E i \in DOMAIN patterns :
          /\ patterns[i] # Malformed
          /\ patterns[i] \cap names # {}
          /\ \A j \in 1 .. i : patterns[j] # Malformed

matches_names(cert, entry) ==
    \/ entry.allowed_names = <<>>
    \/ cert.cn # {} /\ AnyMatches(entry.allowed_names, cert.cn \cup cert.dns \cup cert.email)
matches_common_name(cert, entry) == AnyMatches(entry.allowed_common_names, cert.cn)
matches_dns_sans(cert, entry) == AnyMatches(entry.allowed_dns_sans, cert.dns)
matches_email_sans(cert, entry) == AnyMatches(entry.allowed_email_sans, cert.email)
matches_uri_sans(cert, entry) == AnyMatches(entry.allowed_uri_sans, cert.uri)
matches_organizational_units(cert, entry) == AnyMatches(entry.allowed_organizational_units, cert.ou)

\* Each required extension must be there and match; in hex it is matched
\* against the encoded value, else against the text.
matches_certificate_extensions(cert, entry) ==
    \A i \in DOMAIN entry.required_extensions :
        LET r == entry.required_extensions[i] IN
        /\ r # Malformed
        /\ r.oid \in DOMAIN cert.ext
        /\ r.pattern # Malformed
        /\ (IF r.hex THEN cert.ext[r.oid].hex ELSE cert.ext[r.oid].text) \in r.pattern

\* The extensions that go into the metadata of the auth.
certificate_extensions_metadata(cert, entry) ==
    [oid \in DOMAIN cert.ext \cap entry.allowed_metadata_extensions |-> cert.ext[oid].text]

check_for_chain_in_crls(chain) == \E c \in chain : find_serial_in_crls(c.serial) # {}

\* The OCSP check is not written yet and lets everything pass.
check_for_cert_in_ocsp(cert, chain) == TRUE

\* Slip: the revocation lists are not looked at.
matches_constraints_crl_skipped(cert, chain, entry) ==
    /\ matches_names(cert, entry) /\ matches_common_name(cert, entry)
    /\ matches_dns_sans(cert, entry) /\ matches_email_sans(cert, entry)
    /\ matches_uri_sans(cert, entry) /\ matches_organizational_units(cert, entry)
    /\ matches_certificate_extensions(cert, entry)

matches_constraints(cert, chain, entry) ==
    /\ ~check_for_chain_in_crls(chain)
    /\ matches_names(cert, entry) /\ matches_common_name(cert, entry)
    /\ matches_dns_sans(cert, entry) /\ matches_email_sans(cert, entry)
    /\ matches_uri_sans(cert, entry) /\ matches_organizational_units(cert, entry)
    /\ matches_certificate_extensions(cert, entry)
    /\ entry.ocsp_enabled => check_for_cert_in_ocsp(cert, chain)

-----------------------------------------------------------------------------
(* The decision, path_login.rs *)

\* has_x509_ext_key_usage, has_x509_ext_key_usage_flag.
ForClients(cert) == cert.eku \in {"absent", "client"}

\* Certificates of an entry: its own, and those it lists for OCSP.
CertsOf(entry) == entry.certificate \o entry.ocsp_ca_certificates
is_ca_cert(cert) == cert.ca

\* OpenSSL: from the first certificate up, over the presented ones, to one of
\* the roots (PARTIAL_CHAIN); the signer of none is "".
ChainOf(roots, peer) ==
    LET known == roots \cup Members(peer)
        up(c) == {d \in known : d.id = c.signer /\ d # c}
        leaf == peer[1]
        two == {<<leaf, d>> : d \in up(leaf)}
        three == {<<leaf, d, e>> : d \in up(leaf), e \in UNION {up(x) : x \in up(leaf)}}
        chains == {c \in {<<leaf>>} \cup two \cup three : c[Len(c)] \in roots
                      /\ \A i \in 1 .. Len(c) - 1 : c[i + 1] \in up(c[i]) /\ c[i] \notin roots}
    IN  IF chains = {} THEN <<>> ELSE CHOOSE c \in chains : TRUE

\* The certificates that lead up from c.
Signers(c, known) ==
    LET up(S) == S \cup {d \in known : \E e \in S : d.id = e.signer} IN up(up(up({c})))

\* validate_cert: the chain, whose order no one looks at, without the
\* certificates that are not for clients.  A signer that is not found leaves an empty chain; anything
\* expired or self-signed and not trusted is an error.
validate_cert(roots, peer) ==
    LET chain == ChainOf(roots, peer)
        self_signed == \E c \in Signers(peer[1], Members(peer)) : c.signer = c.id
    IN  [ok |-> IF chain = <<>> THEN ~peer[1].expired /\ ~self_signed
                ELSE \A c \in Members(chain) : ~c.expired,
         chain |-> {c \in Members(chain) : ForClients(c)}]

\* load_trusted_certs: of one entry, or of all.
Loaded(name) == {n \in EntryNames : (name = "" \/ n = name) /\ centry[n].certificate # <<>>}
Authorities(name) == {n \in Loaded(name) : is_ca_cert(CertsOf(centry[n])[1])}
Roots(name) == UNION {Members(CertsOf(centry[n])) : n \in Authorities(name)}

\* verify_credentials: the entries that accept the peer.  Of several the first
\* in the order of their names is taken, and those for one certificate come
\* before those for an authority.
SingleMatches(name, peer) ==
    {n \in Loaded(name) \ Authorities(name) :
        LET crt == CertsOf(centry[n])[1] IN
        /\ crt.signer # "" /\ peer[1].signer # ""
        /\ crt.serial = peer[1].serial /\ crt.signer = peer[1].signer
        /\ matches_constraints(peer[1], Members(CertsOf(centry[n])), centry[n])}

ChainMatches(name, peer, chain) ==
    {n \in Authorities(name) :
        /\ Members(CertsOf(centry[n])) \cap chain # {}
        /\ matches_constraints(peer[1], chain, centry[n])}

verify_credentials(name, peer) ==
    LET v == validate_cert(Roots(name), peer) IN
    IF ~v.ok THEN {}
    ELSE IF SingleMatches(name, peer) # {} THEN SingleMatches(name, peer)
    ELSE IF v.chain = {} THEN {} ELSE ChainMatches(name, peer, v.chain)

-----------------------------------------------------------------------------
\* login; the address of the client is among those of the entry, or it is
\* refused.  subject and issuer are the key ids of the certificate.  The refusal
\* of a method without config is dead code: get_config gives the default one.
cert_login(name, peer) ==
    /\ \E n \in verify_credentials(name, peer) :
          csess' = [name |-> n, subject |-> peer[1].id, issuer |-> peer[1].signer,
                    metadata |-> certificate_extensions_metadata(peer[1], centry[n])]
    /\ UNCHANGED <<crlVars, centry, cbinding>>

\* login_renew: bound to the certificate of the login, the credentials are
\* checked again and one of the two key ids must be the same.
RenewalAccepted(peer) ==
    /\ cbinding => /\ verify_credentials(csess.name, peer) # {}
                   /\ csess.subject = peer[1].id \/ csess.issuer = peer[1].signer
    /\ centry[csess.name] # NoEntry

cert_login_renew(peer) ==
    /\ csess # NoCert
    /\ RenewalAccepted(peer)
    /\ UNCHANGED certVars

\* write_cert, delete_cert: Accounts has their other fields.
write_entry(name, entry) ==
    /\ is_ca_cert(entry.certificate[1]) \/ ForClients(entry.certificate[1])
    /\ centry' = [centry EXCEPT ![name] = entry]
    /\ UNCHANGED <<crlVars, csess, cbinding>>

delete_entry(name) ==
    /\ centry' = [centry EXCEPT ![name] = NoEntry]
    /\ UNCHANGED <<crlVars, csess, cbinding>>

\* write_config: disable_binding.
write_config(binding) ==
    /\ cbinding' = binding
    /\ UNCHANGED <<crlVars, centry, csess>>

\* What changes no list.
EntryNext ==
    \/ \E n \in EntryNames : (\E e \in TrustedEntries : write_entry(n, e)) \/ delete_entry(n)
    \/ \E b \in BOOLEAN : write_config(b)
    \/ \E n \in EntryNames \cup {""}, p \in Peers : cert_login(n, p)
    \/ \E p \in Peers : cert_login_renew(p)

CertNext == (CrlNext /\ UNCHANGED entryVars) \/ EntryNext

CertSpec == CertInit /\ [][CertNext]_certVars

-----------------------------------------------------------------------------
\* One of the patterns of a list, in whatever place, allows one of the names.
Allows(patterns, names) ==
    patterns = <<>> \/ \E p \in Members(patterns) : p # Malformed /\ p \cap names # {}

\* What an entry asks of a certificate, the order of its lists aside.
MeetsEntry(leaf, entry) ==
    /\ Allows(entry.allowed_names, leaf.cn \cup leaf.dns \cup leaf.email)
    /\ Allows(entry.allowed_common_names, leaf.cn)
    /\ Allows(entry.allowed_dns_sans, leaf.dns)
    /\ Allows(entry.allowed_email_sans, leaf.email)
    /\ Allows(entry.allowed_uri_sans, leaf.uri)
    /\ Allows(entry.allowed_organizational_units, leaf.ou)
    /\ \A r \in Members(entry.required_extensions) :
          r # Malformed /\ r.oid \in DOMAIN leaf.ext /\ r.pattern # Malformed
             /\ {leaf.ext[r.oid].hex, leaf.ext[r.oid].text} \cap r.pattern # {}

(***************************************************************************)
(* Whatever is presented and stored, verify_credentials accepts a client   *)
(* for an entry only when its certificate has not expired and meets every  *)
(* list of names and every extension of that same entry, and the entry     *)
(* trusts it: it names the same certificate, or it has a certificate on    *)
(* the way up from it.  No list in memory has the serial of a certificate  *)
(* that the acceptance rests on: of the entry's, for an entry of one       *)
(* certificate, else of the chain's.  The certificates of a chain that are *)
(* not for clients are left out, as the code does: a leaf for servers only *)
(* is accepted by an authority's entry and its own serial is not looked    *)
(* up (path_login.rs verify_credentials, validate_cert).                   *)
(***************************************************************************)
LoginGrounded ==
    \A n \in {m \in EntryNames : centry[m] # NoEntry} :
        \A name \in EntryNames \cup {""}, peer \in Peers : n \in verify_credentials(name, peer) =>
            LET leaf == peer[1]
                certs == Members(CertsOf(centry[n]))
                chain == Members(ChainOf(Roots(name), peer))
            IN  /\ name \in {"", n}
                /\ ~leaf.expired
                /\ MeetsEntry(leaf, centry[n])
                /\ \A c \in IF n \in Authorities(name) THEN {d \in chain : ForClients(d)}
                             ELSE certs \cup {leaf} :
                      find_serial_in_crls(c.serial) = {}
                /\ \/ \E c \in certs : c.serial = leaf.serial /\ c.signer = leaf.signer
                   \/ certs \cap Signers(leaf, Members(peer) \cup Roots(name)) # {}

\* path_crls.rs: "Any chain containing a serial number revoked by one or more
\* of the CRLs causes that chain to be marked as invalid for the authentication
\* attempt."  No login is accepted with a certificate whose serial a list that
\* is stored, and that no request is about to change, has.
RevokedRefused ==
    (\A c \in CrlClients : At(c, "idle")) =>
        \A name \in EntryNames, peer \in Peers :
            verify_credentials(name, peer) # {} /\ ForClients(peer[1]) =>
                \A n \in DOMAIN ccrl[CertMount] : peer[1].serial \notin ccrl[CertMount][n]
=============================================================================
