----------------------------- MODULE MCCertAuth -----------------------------
(* Values of the constants of CertAuth for TLC: a root, a CA below it, and
   leaves that are good, expired, of the other usage or of an unknown signer. *)
EXTENDS CertAuth

Crt(id, signer, serial, ca, eku, expired, names) ==
    [id |-> id, signer |-> signer, serial |-> serial, ca |-> ca, eku |-> eku, expired |-> expired,
     cn |-> names, dns |-> names, email |-> {}, uri |-> {}, ou |-> names,
     ext |-> [x \in IF names = {} THEN {} ELSE {"oid"} |-> [hex |-> "0c01", text |-> "t"]]]

rootCA == Crt("root", "root", 1, TRUE, "absent", FALSE, {})
interCA == Crt("inter", "root", 2, TRUE, "absent", FALSE, {})
leafA == Crt("a", "inter", 3, FALSE, "client", FALSE, {"a.com"})
leafB == Crt("b", "root", 4, FALSE, "server", FALSE, {"b.com"})
leafOld == Crt("old", "root", 3, FALSE, "client", TRUE, {"a.com"})
leafSolo == Crt("solo", "gone", 3, FALSE, "client", FALSE, {"a.com", "b.com"})

MCPeers == {<<leafA>>, <<leafA, interCA>>, <<leafB>>, <<leafOld>>, <<leafSolo>>,
            <<leafSolo, rootCA>>}

Open(certs) ==
    [certificate |-> certs, ocsp_ca_certificates |-> <<>>, ocsp_enabled |-> FALSE,
     allowed_names |-> <<>>, allowed_common_names |-> <<>>, allowed_dns_sans |-> <<>>,
     allowed_email_sans |-> <<>>, allowed_uri_sans |-> <<>>, allowed_organizational_units |-> <<>>,
     required_extensions |-> <<>>, allowed_metadata_extensions |-> {"oid"}]

MCEntries ==
    {Open(<<rootCA>>), Open(<<leafSolo>>), Open(<<leafB>>),
     [Open(<<interCA>>) EXCEPT !.allowed_common_names = <<{"b.com"}, Malformed, {"a.com"}>>,
                               !.allowed_names = <<{"b.com"}, {"a.com"}>>],
     [Open(<<rootCA, interCA>>) EXCEPT !.allowed_common_names = <<{"a.com"}>>, !.ocsp_enabled = TRUE,
         !.required_extensions = <<[oid |-> "oid", hex |-> TRUE, pattern |-> {"0c01"}]>>],
     [Open(<<leafSolo>>) EXCEPT !.ocsp_ca_certificates = <<rootCA>>, !.allowed_email_sans = <<{"a.com"}>>]}
=============================================================================
