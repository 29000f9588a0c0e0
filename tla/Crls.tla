-------------------------------- MODULE Crls --------------------------------
(***************************************************************************)
(* The revocation lists of the cert method (credential/cert/path_crls.rs): *)
(* each mount stores its lists, and one map in memory, filled on demand,   *)
(* serves them all (cert/mod.rs: the backends of the method share their    *)
(* CertBackendInner).  No lock is held across a request, so one is cut at  *)
(* every access to storage and to the map.  A storage access may fail; the *)
(* process may stop at any step.                                           *)
(***************************************************************************)
EXTENDS Naturals

CONSTANTS
    CertMounts,   \* the mounts of the method
    CrlClients,   \* who sends requests
    CrlNames,
    CrlSerials    \* the sets of serials of the revocation lists

ASSUME CrlAssumption == {"none", "mixed"} \cap CertMounts = {}

VARIABLES
    ccrl,    \* of each mount, crls/: the serials of each stored list
    ccrls,   \* CertBackendInner.crls, in memory
    ccalls,  \* of each client, its request
    cuse     \* history: the mount whose requests used the map since the start,
             \* "none", or "mixed" once requests overlapped or two mounts used it

crlVars == <<ccrl, ccrls, ccalls, cuse>>

NoCrls == <<>>
CrlIdle == [pc |-> "idle"]

CrlInit ==
    /\ ccrl = [m \in CertMounts |-> NoCrls]
    /\ ccrls = NoCrls
    /\ ccalls = [c \in CrlClients |-> CrlIdle]
    /\ cuse = "none"

-----------------------------------------------------------------------------
Revoke(crls, name, serials) ==
    [n \in DOMAIN crls \cup {name} |-> IF n = name THEN serials ELSE crls[n]]
Without(crls, name) == [n \in DOMAIN crls \ {name} |-> crls[n]]

At(c, pc) == ccalls[c].pc = pc
CrlGoto(c, call) == ccalls' = [ccalls EXCEPT ![c] = call]
Stored(c) == ccrl[ccalls[c].mount]

\* write_crl (with a list, or an address it is fetched from), delete_crl or
\* read_crl begins: update_crl_cache looks whether the map is empty.
CrlRequest(c, m, op, name, serials) ==
    /\ At(c, "idle")
    /\ CrlGoto(c, [pc |-> IF ccrls = NoCrls THEN "list" ELSE "act", mount |-> m, op |-> op,
                name |-> name, serials |-> serials, todo |-> {}, key |-> name, got |-> {}])
    /\ cuse' = IF cuse \in {"none", m} /\ \A d \in CrlClients : At(d, "idle") THEN m ELSE "mixed"
    /\ UNCHANGED <<ccrl, ccrls>>

\* update_crl_cache: the names, then one list after the other.
ListCrls(c) ==
    /\ At(c, "list")
    /\ \/ CrlGoto(c, CrlIdle)
       \/ CrlGoto(c, [ccalls[c] EXCEPT !.pc = IF DOMAIN Stored(c) = {} THEN "act" ELSE "load",
                                    !.todo = DOMAIN Stored(c)])
    /\ UNCHANGED <<ccrl, ccrls, cuse>>

Done(c, n) ==
    [ccalls[c] EXCEPT !.pc = IF ccalls[c].todo = {n} THEN "act" ELSE "load", !.todo = @ \ {n}]

\* A list that was deleted meanwhile is passed over; an error, of the storage or
\* in the text of the list, goes on to clear the map.
ReadCrl(c) ==
    /\ At(c, "load")
    /\ \/ CrlGoto(c, [ccalls[c] EXCEPT !.pc = "clear"])
       \/ \E n \in ccalls[c].todo :
             CrlGoto(c, IF n \notin DOMAIN Stored(c) THEN Done(c, n)
                     ELSE [ccalls[c] EXCEPT !.pc = "keep", !.key = n, !.got = Stored(c)[n]])
    /\ UNCHANGED <<ccrl, ccrls, cuse>>

KeepCrl(c) ==
    /\ At(c, "keep")
    /\ ccrls' = Revoke(ccrls, ccalls[c].key, ccalls[c].got)
    /\ CrlGoto(c, Done(c, ccalls[c].key))
    /\ UNCHANGED <<ccrl, cuse>>

\* Slip: what was loaded before an error is kept.
ClearCrls_kept(c) ==
    /\ At(c, "clear")
    /\ CrlGoto(c, CrlIdle)
    /\ UNCHANGED <<ccrl, ccrls, cuse>>

\* The request ends with the error.
ClearCrls(c) ==
    /\ At(c, "clear")
    /\ ccrls' = NoCrls
    /\ CrlGoto(c, CrlIdle)
    /\ UNCHANGED <<ccrl, cuse>>

\* The rest of read_crl.
read_crl(c) ==
    /\ At(c, "act") /\ ccalls[c].op = "read"
    /\ CrlGoto(c, CrlIdle)
    /\ UNCHANGED <<ccrl, ccrls, cuse>>

\* The rest of set_crl up to the map, its write failing or not.
set_crl(c) ==
    /\ At(c, "act") /\ ccalls[c].op = "set"
    /\ \/ CrlGoto(c, CrlIdle) /\ UNCHANGED ccrl
       \/ /\ CrlGoto(c, [ccalls[c] EXCEPT !.pc = "cache"])
          /\ ccrl' = [ccrl EXCEPT ![ccalls[c].mount] = Revoke(@, ccalls[c].name, ccalls[c].serials)]
    /\ UNCHANGED <<ccrls, cuse>>

\* delete_crl: the map must have the name.
delete_crl(c) ==
    /\ At(c, "act") /\ ccalls[c].op = "delete"
    /\ CrlGoto(c, IF ccalls[c].name \in DOMAIN ccrls THEN [ccalls[c] EXCEPT !.pc = "delete"] ELSE CrlIdle)
    /\ UNCHANGED <<ccrl, ccrls, cuse>>

DeleteStoredCrl(c) ==
    /\ At(c, "delete")
    /\ \/ CrlGoto(c, CrlIdle) /\ UNCHANGED ccrl
       \/ /\ CrlGoto(c, [ccalls[c] EXCEPT !.pc = "cache"])
          /\ ccrl' = [ccrl EXCEPT ![ccalls[c].mount] = Without(@, ccalls[c].name)]
    /\ UNCHANGED <<ccrls, cuse>>

\* The map after storage.
UpdateMap(c) ==
    /\ At(c, "cache")
    /\ ccrls' = IF ccalls[c].op = "set" THEN Revoke(ccrls, ccalls[c].name, ccalls[c].serials)
                ELSE Without(ccrls, ccalls[c].name)
    /\ CrlGoto(c, CrlIdle)
    /\ UNCHANGED <<ccrl, cuse>>

\* The process stops, and starts again with an empty map (CertBackend::new).
CrlRestart ==
    /\ ccrls' = NoCrls
    /\ ccalls' = [c \in CrlClients |-> CrlIdle]
    /\ cuse' = "none"
    /\ UNCHANGED ccrl

CrlStep(c) ==
    \/ \E m \in CertMounts, n \in CrlNames :
          \/ \E s \in CrlSerials : CrlRequest(c, m, "set", n, s)
          \/ \E op \in {"delete", "read"} : CrlRequest(c, m, op, n, {})
    \/ ListCrls(c) \/ ReadCrl(c) \/ KeepCrl(c) \/ ClearCrls(c)
    \/ read_crl(c) \/ set_crl(c) \/ delete_crl(c) \/ DeleteStoredCrl(c) \/ UpdateMap(c)

CrlNext == (\E c \in CrlClients : CrlStep(c)) \/ CrlRestart

CrlSpec == CrlInit /\ [][CrlNext]_crlVars

-----------------------------------------------------------------------------
(***************************************************************************)
(* As long as the requests for lists since the start came one at a time    *)
(* and to one mount, the map between two requests is empty or that mount's *)
(* stored lists, all of them: no error or stop while lists are loaded,     *)
(* written or deleted leaves a part, which update_crl_cache would never    *)
(* complete.  Requests that overlap, and a second mount, do leave one:     *)
(* nothing holds load, storage and map together (path_crls.rs set_crl,     *)
(* delete_crl, update_crl_cache).                                          *)
(***************************************************************************)
CrlCacheWhole ==
    cuse # "mixed" /\ (\A c \in CrlClients : At(c, "idle")) =>
        ccrls = NoCrls \/ (cuse \in CertMounts /\ ccrls = ccrl[cuse])
=============================================================================
