---------------------------- MODULE PolicyStore ----------------------------
(***************************************************************************)
(* The policy store: policies on the barrier, a cache in front of it and a *)
(* map that says of which type a token's policy is                         *)
(* (modules/policy/policy_store.rs, with the handlers of                   *)
(* modules/policy/mod.rs).  Requests of several clients run at the same    *)
(* time; no lock spans the steps of one, so each step is an action.  Only  *)
(* ACL policies are modelled: no code path creates an RGP or an EGP.       *)
(***************************************************************************)
EXTENDS Sequences, FiniteSets, SequencesExt

CONSTANTS
    PolClients,   \* requests that may be under way
    CustomNames,  \* names of policies that users write, in lower case
    PolTexts      \* texts users write

ASSUME PolicyNamesApart ==
    /\ CustomNames \cap {"root", "default", "response-wrapping"} = {}
    /\ PolTexts \cap {"none", "shipped", "outdated"} = {}

VARIABLES
    pdisk,    \* name -> text stored under policy/ on the barrier, "none" if absent
    pcache,   \* name -> text in token_policies_lru
    ptypes,   \* names in policy_type_map
    ploads,   \* policies the unseal has still to load
    pcalls    \* client -> its request

pvars == <<pdisk, pcache, ptypes, ploads, pcalls>>

Shipped    == {"default", "response-wrapping"}   \* control-group goes as response-wrapping does
Immutable  == {"root", "response-wrapping"}
StoredNames == CustomNames \cup Shipped
PolNames   == StoredNames \cup {"root"}
AllTexts   == PolTexts \cup {"none", "shipped", "outdated"}

\* A client may spell a name with capitals.
Spellings == {[name |-> n, capitals |-> c] : n \in PolNames, c \in BOOLEAN}
\* The name in lower case.
sanitize_name(s) == s.name

NoCall == [pc |-> "idle", op |-> "", name |-> "root", text |-> "none", res |-> ""]

\* The cache (stretto): an insert of a key that is there replaces it, of a
\* new key may be dropped, and may say so.
CacheInsert(n, text, said) ==
    IF pcache[n] # "none"
    THEN said /\ pcache' = [pcache EXCEPT ![n] = text]
    ELSE \/ said /\ pcache' = [pcache EXCEPT ![n] = text]
         \/ pcache' = pcache

Goto(c, pc) == pcalls' = [pcalls EXCEPT ![c].pc = pc]
Finish(c, res) == pcalls' = [pcalls EXCEPT ![c] = [NoCall EXCEPT !.res = res]]

-----------------------------------------------------------------------------
PolicyInit ==
    /\ pdisk \in [StoredNames -> {"none"}] \cup
                 {[[n \in StoredNames |-> "none"] EXCEPT !["response-wrapping"] = w, !["default"] = "outdated"] :
                      w \in {"outdated", "shipped"}}
    /\ pcache = [n \in PolNames |-> "none"]
    /\ ptypes = {"root"} \cup {n \in StoredNames : pdisk[n] # "none"}
    /\ ploads = <<"default", "response-wrapping">>
    /\ pcalls = [c \in PolClients |-> NoCall]

\* PolicyStore::new: an empty cache, the types of what is stored.
NewStore == ptypes' = {"root"} \cup {n \in StoredNames : pdisk[n] # "none"}

\* The vault is sealed or its process ends, and it is unsealed: requests in
\* progress are gone, PolicyModule::init builds a new store.
Unseal ==
    /\ NewStore
    /\ pcache' = [n \in PolNames |-> "none"]
    /\ ploads' = <<"default", "response-wrapping">>
    /\ pcalls' = [c \in PolClients |-> NoCall]
    /\ UNCHANGED pdisk

\* load_acl_policy leaves a stored policy alone unless it is immutable and
\* its text is another one.
NeedsLoad(n) == pdisk[n] = "none" \/ (n \in Immutable /\ pdisk[n] # "shipped")

\* load_default_acl_policy, one policy; a failing write fails the unseal.
LoadDefault ==
    LET n == Head(ploads) IN
    /\ ploads # <<>>
    /\ ploads' = Tail(ploads)
    /\ IF NeedsLoad(n)
       THEN /\ pdisk' = [pdisk EXCEPT ![n] = "shipped"]
            /\ CacheInsert(n, "shipped", TRUE)
       ELSE UNCHANGED pdisk /\ CacheInsert(n, pdisk[n], TRUE)
    /\ ptypes' = ptypes \cup {n}
    /\ UNCHANGED pcalls

LoadFails ==
    /\ ploads # <<>>
    /\ Unseal

-----------------------------------------------------------------------------
Ready(c) == ploads = <<>> /\ pcalls[c].pc = "idle"

\* handle_policy_write: set_policy refuses the immutable names.
WriteStart(c, s, text) ==
    LET n == sanitize_name(s) IN
    /\ Ready(c)
    /\ IF n \in Immutable THEN Finish(c, "refused")
       ELSE pcalls' = [pcalls EXCEPT ![c] = [pc |-> "put", op |-> "write", name |-> n, text |-> text, res |-> ""]]
    /\ UNCHANGED <<pdisk, pcache, ptypes, ploads>>

\* set_policy_internal: look for an RGP of that name and store the entry,
\* either of which may fail.
WritePut(c) ==
    LET call == pcalls[c] IN
    /\ call.pc = "put"
    /\ \/ pdisk' = [pdisk EXCEPT ![call.name] = call.text] /\ Goto(c, "type")
       \/ UNCHANGED pdisk /\ Finish(c, "error")
    /\ UNCHANGED <<pcache, ptypes, ploads>>

WriteType(c) ==
    /\ pcalls[c].pc = "type"
    /\ ptypes' = ptypes \cup {pcalls[c].name}
    /\ Goto(c, "cache")
    /\ UNCHANGED <<pdisk, pcache, ploads>>

\* A write that leaves the cache as it is.
SaveCache_none(c, said) == UNCHANGED pcache

SaveCache(c, said) == CacheInsert(pcalls[c].name, pcalls[c].text, said)

\* save_token_policy_cache; an insert the cache refuses is an error though
\* the policy is stored.
WriteCache(c) ==
    /\ pcalls[c].pc = "cache"
    /\ \E said \in BOOLEAN : SaveCache(c, said) /\ Finish(c, IF said THEN "ok" ELSE "error")
    /\ UNCHANGED <<pdisk, ptypes, ploads>>

\* handle_policy_delete.
DeleteStart(c, s) ==
    LET n == sanitize_name(s) IN
    /\ Ready(c)
    /\ IF n \in Immutable \cup {"default"} THEN Finish(c, "refused")
       ELSE pcalls' = [pcalls EXCEPT ![c] = [pc |-> "unput", op |-> "delete", name |-> n,
                                              text |-> "none", res |-> ""]]
    /\ UNCHANGED <<pdisk, pcache, ptypes, ploads>>

DeleteStored(c) ==
    /\ pcalls[c].pc = "unput"
    /\ \/ pdisk' = [pdisk EXCEPT ![pcalls[c].name] = "none"] /\ Goto(c, "uncache")
       \/ UNCHANGED pdisk /\ Finish(c, "error")
    /\ UNCHANGED <<pcache, ptypes, ploads>>

DeleteCache(c) ==
    /\ pcalls[c].pc = "uncache"
    /\ pcache' = [pcache EXCEPT ![pcalls[c].name] = "none"]
    /\ Goto(c, "untype")
    /\ UNCHANGED <<pdisk, ptypes, ploads>>

DeleteType(c) ==
    /\ pcalls[c].pc = "untype"
    /\ ptypes' = ptypes \ {pcalls[c].name}
    /\ Finish(c, "ok")
    /\ UNCHANGED <<pdisk, pcache, ploads>>

\* get_policy, for a read of the policy (kind "acl") or for the ACL of a
\* request (kind "token", new_acl): the type map, then the cache; a token's
\* policy of no known type has no view and fails the request.
GetStart(c, s, kind) ==
    LET n == sanitize_name(s) IN
    /\ Ready(c)
    /\ \/ (kind = "acl" \/ n \in ptypes) /\ pcache[n] # "none" /\ Finish(c, "found") /\ UNCHANGED pcache
       \/ /\ kind = "acl" \/ n \in ptypes
          /\ pcache[n] = "none" /\ n = "root"
          /\ CacheInsert("root", "shipped", TRUE) /\ Finish(c, "found")
       \/ /\ kind = "acl" \/ n \in ptypes
          /\ pcache[n] = "none" /\ n # "root" /\ UNCHANGED pcache
          /\ pcalls' = [pcalls EXCEPT ![c] = [pc |-> "get", op |-> kind, name |-> n,
                                               text |-> "none", res |-> ""]]
       \/ kind = "token" /\ n \notin ptypes /\ Finish(c, "error") /\ UNCHANGED pcache
    /\ UNCHANGED <<pdisk, ptypes, ploads>>

GetStored(c) ==
    LET call == pcalls[c] IN
    /\ call.pc = "get"
    /\ \/ pdisk[call.name] = "none" /\ Finish(c, "missing")
       \/ pdisk[call.name] # "none"
          /\ pcalls' = [pcalls EXCEPT ![c].pc = "gettype", ![c].text = pdisk[call.name]]
       \/ Finish(c, "error")
    /\ UNCHANGED <<pdisk, pcache, ptypes, ploads>>

GetType(c) ==
    /\ pcalls[c].pc = "gettype"
    /\ ptypes' = ptypes \cup {pcalls[c].name}
    /\ Goto(c, "getcache")
    /\ UNCHANGED <<pdisk, pcache, ploads>>

GetCache(c) ==
    /\ pcalls[c].pc = "getcache"
    /\ CacheInsert(pcalls[c].name, pcalls[c].text, TRUE)
    /\ Finish(c, "found")
    /\ UNCHANGED <<pdisk, ptypes, ploads>>

\* The cache drops an entry to make room.
Evict ==
    /\ \E n \in PolNames : pcache[n] # "none" /\ pcache' = [pcache EXCEPT ![n] = "none"]
    /\ UNCHANGED <<pdisk, ptypes, ploads, pcalls>>

PolicyNext ==
    \/ Unseal
    \/ LoadDefault
    \/ LoadFails
    \/ Evict
    \/ \E c \in PolClients :
          \/ \E s \in Spellings : \/ \E text \in PolTexts : WriteStart(c, s, text)
                                  \/ DeleteStart(c, s)
                                  \/ \E kind \in {"acl", "token"} : GetStart(c, s, kind)
          \/ WritePut(c) \/ WriteType(c) \/ WriteCache(c)
          \/ DeleteStored(c) \/ DeleteCache(c) \/ DeleteType(c)
          \/ GetStored(c) \/ GetType(c) \/ GetCache(c)

PolicySpec == PolicyInit /\ [][PolicyNext]_pvars

-----------------------------------------------------------------------------
Quiet == \A c \in PolClients : pcalls[c].pc = "idle"

(***************************************************************************)
(* With requests one at a time, whatever fails on the way: when none is    *)
(* under way the cache holds what is stored or nothing, and a token's      *)
(* policies that are stored are found by their type, so no request fails   *)
(* for a policy that exists (policy_store.rs get_policy, set_policy,       *)
(* delete_policy).                                                         *)
(***************************************************************************)
CacheFollowsStore ==
    Quiet => \A n \in StoredNames :
                /\ pcache[n] \in {"none", pdisk[n]}
                /\ pdisk[n] # "none" => n \in ptypes

(***************************************************************************)
(* A deleted policy is in force no longer: when no request is under way, a *)
(* policy that is not stored is not in the cache either.  delete_policy is *)
(* documented to remove the policy from its view and update the cache.     *)
(***************************************************************************)
DeletedOutOfForce ==
    Quiet => \A n \in StoredNames : pdisk[n] = "none" => pcache[n] = "none"
=============================================================================
