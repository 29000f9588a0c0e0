---------------------------- MODULE AccessProofs ----------------------------
(* Proofs about who may do what: the policy store (PolicyStore), login with *)
(* a certificate (CertAuth), the accounts logins read (Accounts), the ACL   *)
(* made of a token's policies (Acl), the routes of the backends (Routes)    *)
(* and a request's way through the phases of the core (Front).              *)
EXTENDS PolicyStore, CertAuth, Accounts, Acl, Front, SequenceTheorems, WellFoundedInduction, TLAPS

-----------------------------------------------------------------------------
(* The policy store *)

\* Requests do not overlap.
OneAtATime ==
    \A c, d \in PolClients : pcalls[c].pc # "idle" /\ pcalls[d].pc # "idle" => c = d

PolPcs == {"idle", "put", "type", "cache", "unput", "uncache", "untype", "get", "gettype", "getcache"}

PolOps == {"", "write", "delete", "acl", "token"}
PolResults == {"", "refused", "error", "ok", "found", "missing"}

PolCalls ==
    [pc : PolPcs, op : PolOps, name : PolNames, text : AllTexts, res : PolResults]

PolTyped ==
    /\ pdisk \in [StoredNames -> AllTexts]
    /\ pcache \in [PolNames -> AllTexts]
    /\ pcalls \in [PolClients -> PolCalls]
    /\ ploads \in {<<"default", "response-wrapping">>, <<"response-wrapping">>, <<>>}

\* What CacheFollowsStore says of one name.
Follows(n, disk, cache, types) ==
    cache[n] \in {"none", disk[n]} /\ (disk[n] # "none" => n \in types)

\* What holds of the name of a call on its way.
CallFits(call, disk, cache, types) ==
    /\ call.pc # "idle" => call.name \in StoredNames
    /\ call.pc \in {"put", "unput", "get", "gettype", "getcache"} => Follows(call.name, disk, cache, types)
    /\ call.pc \in {"type", "cache", "gettype", "getcache"} => disk[call.name] = call.text
    /\ call.pc \in {"cache", "getcache"} => call.name \in types
    /\ call.pc \in {"uncache", "untype"} => disk[call.name] = "none"
    /\ call.pc = "untype" => cache[call.name] = "none"

\* Under way with name n.
Busy(n) == \E c \in PolClients : pcalls[c].pc # "idle" /\ pcalls[c].name = n

PolInv ==
    /\ PolTyped
    /\ ploads # <<>> => Quiet
    /\ \A c \in PolClients : CallFits(pcalls[c], pdisk, pcache, ptypes)
    /\ \A n \in StoredNames : ~Busy(n) => Follows(n, pdisk, pcache, ptypes)

\* Names and texts, and which are which.
LEMMA PolConstants ==
    /\ "default" \in StoredNames /\ "response-wrapping" \in StoredNames /\ "root" \notin StoredNames
    /\ StoredNames \subseteq PolNames /\ "root" \in PolNames
    /\ PolNames \subseteq StoredNames \cup {"root"}
    /\ PolTexts \subseteq AllTexts /\ "none" \in AllTexts /\ "shipped" \in AllTexts
    /\ "outdated" \in AllTexts
BY PolicyNamesApart DEF StoredNames, PolNames, Shipped, AllTexts

LEMMA PolWords ==
    /\ "" \in PolOps /\ "write" \in PolOps /\ "delete" \in PolOps /\ "acl" \in PolOps
    /\ "token" \in PolOps
    /\ "" \in PolResults /\ "refused" \in PolResults /\ "error" \in PolResults
    /\ "ok" \in PolResults /\ "found" \in PolResults /\ "missing" \in PolResults
BY DEF PolOps, PolResults

\* The cache after an insert has the text, or is as it was and had nothing.
LEMMA InsertFacts ==
    ASSUME pcache \in [PolNames -> AllTexts], NEW n \in PolNames, NEW text \in AllTexts,
           NEW said, CacheInsert(n, text, said)
    PROVE  /\ pcache' \in [PolNames -> AllTexts]
           /\ \A k \in PolNames : k # n => pcache'[k] = pcache[k]
           /\ pcache'[n] = text \/ pcache'[n] = "none"
BY DEF CacheInsert

\* A step of one call leaves what is known of the other names, when there is no
\* other call.
LEMMA OneMoves ==
    ASSUME PolInv, OneAtATime, OneAtATime', NEW c \in PolClients, NEW new,
           new \in PolCalls,
           pcalls' = [pcalls EXCEPT ![c] = new],
           pdisk' \in [StoredNames -> AllTexts], pcache' \in [PolNames -> AllTexts],
           ploads' = ploads, ploads = <<>>,
           CallFits(new, pdisk', pcache', ptypes'),
           pcalls[c].pc # "idle" \/ new.pc # "idle",
           pcalls[c].pc # "idle" /\ new.pc # "idle" => new.name = pcalls[c].name,
           pcalls[c].pc # "idle" /\ new.pc = "idle" =>
              Follows(pcalls[c].name, pdisk', pcache', ptypes'),
           \A n \in StoredNames : (pcalls[c].pc = "idle" \/ n # pcalls[c].name) =>
              pdisk'[n] = pdisk[n] /\ pcache'[n] = pcache[n] /\ (n \in ptypes' <=> n \in ptypes)
    PROVE  PolInv'
<1>1. /\ \A d \in PolClients : pcalls'[d] = IF d = c THEN new ELSE pcalls[d]
      /\ pcalls' \in [PolClients -> PolCalls]
  BY DEF PolInv, PolTyped
<1>2. PolTyped'
  BY <1>1 DEF PolInv, PolTyped
<1>3. \A d \in PolClients : d # c => pcalls[d].pc = "idle" /\ pcalls'[d].pc = "idle"
  BY <1>1 DEF OneAtATime
<1>4. ASSUME NEW d \in PolClients PROVE CallFits(pcalls'[d], pdisk', pcache', ptypes')
  <2>1. CASE d = c
    BY <1>1, <2>1
  <2>2. CASE d # c
    BY <1>3, <2>2 DEF CallFits
  <2> QED BY <2>1, <2>2
<1>5. ASSUME NEW n \in StoredNames, ~Busy(n)' PROVE Follows(n, pdisk', pcache', ptypes')
  <2>1. CASE pcalls[c].pc # "idle" /\ pcalls[c].name = n
    <3>1. new.pc = "idle"
      BY <1>1, <1>5, <2>1 DEF Busy
    <3> QED BY <2>1, <3>1
  <2>2. CASE ~(pcalls[c].pc # "idle" /\ pcalls[c].name = n)
    <3>1. ~Busy(n)
      BY <1>3, <2>2 DEF Busy
    <3>2. Follows(n, pdisk, pcache, ptypes)
      BY <3>1 DEF PolInv
    <3>3. pdisk'[n] = pdisk[n] /\ pcache'[n] = pcache[n] /\ (n \in ptypes' <=> n \in ptypes)
      BY <2>2
    <3> QED BY <3>2, <3>3 DEF Follows
  <2> QED BY <2>1, <2>2
<1> QED BY <1>2, <1>4, <1>5 DEF PolInv

LEMMA FinishFacts ==
    ASSUME NEW res \in PolResults
    PROVE  [NoCall EXCEPT !.res = res] \in PolCalls /\ [NoCall EXCEPT !.res = res].pc = "idle"
BY PolConstants, PolWords DEF NoCall, PolCalls, PolPcs

\* A request that ends as it begins leaves everything, but for the policy root
\* in the cache.
LEMMA IdleStays ==
    ASSUME PolInv, NEW c \in PolClients, NEW res \in PolResults, pcalls[c].pc = "idle",
           Finish(c, res), pdisk' = pdisk, ptypes' = ptypes, ploads' = ploads,
           pcache' \in [PolNames -> AllTexts], \A n \in StoredNames : pcache'[n] = pcache[n]
    PROVE  PolInv'
<1> DEFINE new == [NoCall EXCEPT !.res = res]
<1>1. new \in PolCalls /\ new.pc = "idle" /\ pcalls' = [pcalls EXCEPT ![c] = new]
  BY FinishFacts DEF Finish
<1> HIDE DEF new
<1>2. /\ \A d \in PolClients : pcalls'[d] = IF d = c THEN new ELSE pcalls[d]
      /\ pcalls' \in [PolClients -> PolCalls]
  BY <1>1 DEF PolInv, PolTyped, PolCalls
<1>3. PolTyped' /\ (ploads' # <<>> => Quiet')
  BY <1>1, <1>2 DEF PolInv, PolTyped, PolCalls, Quiet
<1>4. ASSUME NEW d \in PolClients PROVE CallFits(pcalls'[d], pdisk', pcache', ptypes')
  <2>1. CASE d = c
    BY <1>1, <1>2, <2>1 DEF CallFits
  <2>2. CASE d # c
    <3>1. pcalls'[d] = pcalls[d] /\ CallFits(pcalls[d], pdisk, pcache, ptypes)
      BY <1>2, <2>2 DEF PolInv
    <3> QED BY <3>1 DEF CallFits, Follows
  <2> QED BY <2>1, <2>2
<1>5. ASSUME NEW n \in StoredNames, ~Busy(n)' PROVE Follows(n, pdisk', pcache', ptypes')
  <2>1. ~Busy(n)
    BY <1>1, <1>2, <1>5 DEF Busy
  <2>2. Follows(n, pdisk, pcache, ptypes)
    BY <2>1 DEF PolInv
  <2> QED BY <2>2 DEF Follows
<1> QED BY <1>3, <1>4, <1>5 DEF PolInv

\* A call starts with a name that is stored or not: nothing else changes.
LEMMA CallStarts ==
    ASSUME PolInv, OneAtATime, OneAtATime', NEW c \in PolClients, pcalls[c].pc = "idle",
           NEW pc \in {"put", "unput", "get"}, NEW op \in PolOps, NEW n \in StoredNames,
           NEW text \in AllTexts, ploads = <<>>,
           pcalls' = [pcalls EXCEPT ![c] = [pc |-> pc, op |-> op, name |-> n, text |-> text, res |-> ""]],
           pdisk' = pdisk, pcache' = pcache, ptypes' = ptypes, ploads' = ploads
    PROVE  PolInv'
<1> DEFINE new == [pc |-> pc, op |-> op, name |-> n, text |-> text, res |-> ""]
<1>1. new \in PolCalls /\ new.pc = pc /\ new.name = n
  BY PolConstants, PolWords DEF PolCalls, PolPcs
<1>2. pcalls' = [pcalls EXCEPT ![c] = new]
  OBVIOUS
<1> HIDE DEF new
<1>3. ~Busy(n)
  <2>1. pcalls'[c] = new
    BY <1>2 DEF PolInv, PolTyped
  <2>2. \A d \in PolClients : d # c => pcalls'[d] = pcalls[d]
    BY <1>2 DEF PolInv, PolTyped
  <2>3. \A d \in PolClients : pcalls[d].pc = "idle"
    BY <1>1, <2>1, <2>2 DEF OneAtATime
  <2> QED BY <2>3 DEF Busy
<1>4. Follows(n, pdisk, pcache, ptypes)
  BY <1>3 DEF PolInv
<1>5. CallFits(new, pdisk', pcache', ptypes')
  BY <1>1, <1>4 DEF CallFits
<1>6. pdisk' \in [StoredNames -> AllTexts] /\ pcache' \in [PolNames -> AllTexts]
  BY DEF PolInv, PolTyped
<1>7. new.pc # "idle"
  BY <1>1
<1> QED BY <1>1, <1>2, <1>5, <1>6, <1>7, OneMoves DEF PolCalls

\* A call ends, its name being as it should be.
LEMMA CallEnds ==
    ASSUME PolInv, OneAtATime, OneAtATime', NEW c \in PolClients, pcalls[c].pc # "idle",
           NEW res \in PolResults, Finish(c, res), ploads' = ploads,
           pdisk' \in [StoredNames -> AllTexts], pcache' \in [PolNames -> AllTexts],
           Follows(pcalls[c].name, pdisk', pcache', ptypes'),
           \A n \in StoredNames : n # pcalls[c].name =>
              pdisk'[n] = pdisk[n] /\ pcache'[n] = pcache[n] /\ (n \in ptypes' <=> n \in ptypes)
    PROVE  PolInv'
<1> DEFINE new == [NoCall EXCEPT !.res = res]
<1>1. new \in PolCalls /\ new.pc = "idle" /\ pcalls' = [pcalls EXCEPT ![c] = new]
  BY FinishFacts DEF Finish
<1> HIDE DEF new
<1>2. CallFits(new, pdisk', pcache', ptypes')
  BY <1>1 DEF CallFits
<1>3. ploads = <<>>
  BY DEF PolInv, Quiet
<1> QED BY <1>1, <1>2, <1>3, OneMoves DEF PolCalls

\* A call goes on to pc.
LEMMA CallGoesOn ==
    ASSUME PolInv, OneAtATime, OneAtATime', NEW c \in PolClients, pcalls[c].pc # "idle",
           NEW pc \in PolPcs, NEW text \in AllTexts, pc # "idle", ploads' = ploads,
           pcalls' = [pcalls EXCEPT ![c] = [pcalls[c] EXCEPT !.pc = pc, !.text = text]],
           pdisk' \in [StoredNames -> AllTexts], pcache' \in [PolNames -> AllTexts],
           pc \in {"gettype", "getcache"} => Follows(pcalls[c].name, pdisk', pcache', ptypes'),
           pc \notin {"put", "unput", "get"},
           pc \in {"type", "cache", "gettype", "getcache"} => pdisk'[pcalls[c].name] = text,
           pc \in {"cache", "getcache"} => pcalls[c].name \in ptypes',
           pc \in {"uncache", "untype"} => pdisk'[pcalls[c].name] = "none",
           pc = "untype" => pcache'[pcalls[c].name] = "none",
           \A n \in StoredNames : n # pcalls[c].name =>
              pdisk'[n] = pdisk[n] /\ pcache'[n] = pcache[n] /\ (n \in ptypes' <=> n \in ptypes)
    PROVE  PolInv'
<1> DEFINE new == [pcalls[c] EXCEPT !.pc = pc, !.text = text]
<1>1. pcalls[c] \in PolCalls /\ CallFits(pcalls[c], pdisk, pcache, ptypes)
  BY DEF PolInv, PolTyped, PolCalls
<1>2. new \in PolCalls /\ new.pc = pc /\ new.name = pcalls[c].name /\ new.text = text
  BY <1>1 DEF PolCalls
<1>3. pcalls' = [pcalls EXCEPT ![c] = new]
  OBVIOUS
<1> HIDE DEF new
<1>4. CallFits(new, pdisk', pcache', ptypes')
  BY <1>1, <1>2 DEF CallFits
<1>5. ploads = <<>>
  BY DEF PolInv, Quiet
<1>6. new.pc # "idle"
  BY <1>2
<1> QED BY <1>2, <1>3, <1>4, <1>5, <1>6, OneMoves DEF PolCalls

LEMMA PolicySteps ==
    PolInv /\ OneAtATime /\ OneAtATime' /\ [PolicyNext]_pvars => PolInv'
<1> SUFFICES ASSUME PolInv, OneAtATime, OneAtATime', [PolicyNext]_pvars PROVE PolInv'
  OBVIOUS
<1>0. /\ pdisk \in [StoredNames -> AllTexts] /\ pcache \in [PolNames -> AllTexts]
      /\ \A c \in PolClients : pcalls[c] \in PolCalls /\ CallFits(pcalls[c], pdisk, pcache, ptypes)
      /\ ploads \in {<<"default", "response-wrapping">>, <<"response-wrapping">>, <<>>}
      /\ pcalls \in [PolClients -> PolCalls]
  BY DEF PolInv, PolTyped, PolCalls
<1>c. \A c \in PolClients : /\ pcalls[c].name \in PolNames /\ pcalls[c].text \in AllTexts
                            /\ pcalls[c].pc # "idle" => pcalls[c].name \in StoredNames
  BY <1>0 DEF PolCalls, CallFits
<1>1. CASE Unseal
  <2>1. /\ pdisk' = pdisk /\ pcache' = [n \in PolNames |-> "none"]
        /\ ploads' = <<"default", "response-wrapping">> /\ pcalls' = [c \in PolClients |-> NoCall]
        /\ ptypes' = {"root"} \cup {n \in StoredNames : pdisk[n] # "none"}
    BY <1>1 DEF Unseal, NewStore
  <2>2. NoCall \in PolCalls /\ NoCall.pc = "idle"
    BY PolConstants, PolWords DEF NoCall, PolCalls, PolPcs
  <2>3. /\ \A c \in PolClients : pcalls'[c] = NoCall
        /\ \A n \in PolNames : pcache'[n] = "none"
        /\ pcache' \in [PolNames -> AllTexts] /\ pcalls' \in [PolClients -> PolCalls]
    BY <2>1, <2>2, PolConstants
  <2>4. PolTyped' /\ Quiet'
    BY <1>0, <2>1, <2>2, <2>3 DEF PolTyped, PolCalls, Quiet
  <2>5. \A c \in PolClients : CallFits(pcalls'[c], pdisk', pcache', ptypes')
    BY <2>2, <2>3 DEF CallFits
  <2>6. \A n \in StoredNames : Follows(n, pdisk', pcache', ptypes')
    BY <2>1, <2>3, PolConstants DEF Follows
  <2> QED BY <2>4, <2>5, <2>6 DEF PolInv
<1>2. CASE LoadDefault
  <2> DEFINE n == Head(ploads)
             text == IF NeedsLoad(n) THEN "shipped" ELSE pdisk[n]
  <2>1. ploads # <<>> /\ ploads' = Tail(ploads) /\ ptypes' = ptypes \cup {n} /\ pcalls' = pcalls
    BY <1>2 DEF LoadDefault
  <2>2. n \in StoredNames /\ ploads' \in {<<"response-wrapping">>, <<>>}
    <3>1. CASE ploads = <<"default", "response-wrapping">>
      <4>1. Head(ploads) = "default" /\ Tail(ploads) = <<"response-wrapping">>
        BY <3>1
      <4> QED BY <2>1, <4>1, PolConstants
    <3>2. CASE ploads = <<"response-wrapping">>
      <4>1. Head(ploads) = "response-wrapping" /\ Tail(ploads) = <<>>
        BY <3>2
      <4> QED BY <2>1, <4>1, PolConstants
    <3> QED BY <1>0, <2>1, <3>1, <3>2
  <2> HIDE DEF n
  <2>3. /\ pdisk' = [pdisk EXCEPT ![n] = text]
        /\ CacheInsert(n, text, TRUE)
    <3>1. CASE NeedsLoad(n)
      BY <1>2, <3>1 DEF LoadDefault, n
    <3>2. CASE ~NeedsLoad(n)
      BY <1>0, <1>2, <2>2, <3>2 DEF LoadDefault, n
    <3> QED BY <3>1, <3>2
  <2>4. text \in AllTexts
    BY <1>0, <2>2, PolConstants
  <2> HIDE DEF text
  <2>5. /\ pcache' \in [PolNames -> AllTexts]
        /\ \A k \in PolNames : k # n => pcache'[k] = pcache[k]
        /\ pcache'[n] = text \/ pcache'[n] = "none"
    BY <1>0, <2>2, <2>3, <2>4, PolConstants, InsertFacts
  <2>6. /\ pdisk' \in [StoredNames -> AllTexts] /\ pdisk'[n] = text
        /\ \A k \in StoredNames : k # n => pdisk'[k] = pdisk[k]
    BY <1>0, <2>2, <2>3, <2>4
  <2>7. \A c \in PolClients : pcalls[c].pc = "idle" /\ pcalls'[c].pc = "idle"
    BY <2>1 DEF PolInv, Quiet
  <2>8. \A k \in StoredNames : Follows(k, pdisk', pcache', ptypes')
    <3>1. \A k \in StoredNames : Follows(k, pdisk, pcache, ptypes)
      BY <2>7 DEF PolInv, Busy
    <3> QED BY <2>1, <2>5, <2>6, <3>1, PolConstants DEF Follows
  <2>9. PolTyped' /\ Quiet'
    BY <1>0, <2>1, <2>2, <2>5, <2>6, <2>7 DEF PolTyped, PolCalls, Quiet
  <2>10. \A c \in PolClients : CallFits(pcalls'[c], pdisk', pcache', ptypes')
    BY <2>7 DEF CallFits
  <2> QED BY <2>8, <2>9, <2>10 DEF PolInv
<1>3. CASE LoadFails
  BY <1>1, <1>3 DEF LoadFails
<1>4. CASE Evict
  <2>1. PICK n \in PolNames : pcache' = [pcache EXCEPT ![n] = "none"]
    BY <1>4 DEF Evict
  <2>2. pdisk' = pdisk /\ ptypes' = ptypes /\ ploads' = ploads /\ pcalls' = pcalls
    BY <1>4 DEF Evict
  <2>3. /\ pcache' \in [PolNames -> AllTexts]
        /\ \A k \in PolNames : pcache'[k] = pcache[k] \/ pcache'[k] = "none"
    BY <1>0, <2>1, PolConstants
  <2>4. PolTyped' /\ (ploads' # <<>> => Quiet')
    BY <2>2, <2>3 DEF PolInv, PolTyped, Quiet
  <2>5. \A k \in StoredNames : Follows(k, pdisk, pcache, ptypes) => Follows(k, pdisk', pcache', ptypes')
    BY <2>2, <2>3, PolConstants DEF Follows
  <2>6. ASSUME NEW c \in PolClients PROVE CallFits(pcalls'[c], pdisk', pcache', ptypes')
    BY <1>0, <1>c, <2>2, <2>3, <2>5, PolConstants DEF CallFits
  <2>7. \A k \in StoredNames : ~Busy(k)' => Follows(k, pdisk', pcache', ptypes')
    BY <2>2, <2>5 DEF PolInv, Busy
  <2> QED BY <2>4, <2>6, <2>7 DEF PolInv
<1>5. ASSUME NEW c \in PolClients, NEW s \in Spellings, NEW text \in PolTexts, WriteStart(c, s, text)
      PROVE  PolInv'
  <2>1. s.name \in PolNames
    BY DEF Spellings
  <2>2. /\ ploads = <<>> /\ pcalls[c].pc = "idle"
        /\ pdisk' = pdisk /\ pcache' = pcache /\ ptypes' = ptypes /\ ploads' = ploads
    BY <1>5 DEF WriteStart, Ready
  <2>3. CASE s.name \in Immutable
    <3>1. Finish(c, "refused")
      BY <1>5, <2>3 DEF WriteStart, sanitize_name
    <3> QED BY <1>0, <2>2, <3>1, IdleStays, PolWords
  <2>4. CASE s.name \notin Immutable
    <3>1. pcalls' = [pcalls EXCEPT ![c] = [pc |-> "put", op |-> "write", name |-> s.name,
                                           text |-> text, res |-> ""]]
      BY <1>5, <2>4 DEF WriteStart, sanitize_name
    <3>2. s.name \in StoredNames /\ text \in AllTexts
      BY <2>1, <2>4, PolConstants DEF Immutable
    <3> QED BY <2>2, <3>1, <3>2, CallStarts, PolWords
  <2> QED BY <2>3, <2>4
<1>6. ASSUME NEW c \in PolClients, NEW s \in Spellings, DeleteStart(c, s)
      PROVE  PolInv'
  <2>1. s.name \in PolNames
    BY DEF Spellings
  <2>2. /\ ploads = <<>> /\ pcalls[c].pc = "idle"
        /\ pdisk' = pdisk /\ pcache' = pcache /\ ptypes' = ptypes /\ ploads' = ploads
    BY <1>6 DEF DeleteStart, Ready
  <2>3. CASE s.name \in Immutable \cup {"default"}
    <3>1. Finish(c, "refused")
      BY <1>6, <2>3 DEF DeleteStart, sanitize_name
    <3> QED BY <1>0, <2>2, <3>1, IdleStays, PolWords
  <2>4. CASE s.name \notin Immutable \cup {"default"}
    <3>1. pcalls' = [pcalls EXCEPT ![c] = [pc |-> "unput", op |-> "delete", name |-> s.name,
                                           text |-> "none", res |-> ""]]
      BY <1>6, <2>4 DEF DeleteStart, sanitize_name
    <3>2. s.name \in StoredNames /\ "none" \in AllTexts
      BY <2>1, <2>4, PolConstants DEF Immutable
    <3> QED BY <2>2, <3>1, <3>2, CallStarts, PolWords
  <2> QED BY <2>3, <2>4
<1>7. ASSUME NEW c \in PolClients, NEW s \in Spellings, NEW kind \in {"acl", "token"}, GetStart(c, s, kind)
      PROVE  PolInv'
  <2>1. s.name \in PolNames
    BY DEF Spellings
  <2>2. /\ ploads = <<>> /\ pcalls[c].pc = "idle"
        /\ pdisk' = pdisk /\ ptypes' = ptypes /\ ploads' = ploads
    BY <1>7 DEF GetStart, Ready
  <2>3. ASSUME NEW res \in PolResults, Finish(c, res), pcache' = pcache
        PROVE  PolInv'
    BY <1>0, <2>2, <2>3, IdleStays, PolWords
  <2>4. CASE CacheInsert("root", "shipped", TRUE) /\ Finish(c, "found")
    <3>1. /\ pcache' \in [PolNames -> AllTexts]
          /\ \A k \in PolNames : k # "root" => pcache'[k] = pcache[k]
      BY <1>0, <2>4, PolConstants, InsertFacts
    <3>2. \A k \in StoredNames : pcache'[k] = pcache[k]
      BY <3>1, PolConstants
    <3> QED BY <2>2, <2>4, <3>1, <3>2, IdleStays, PolWords
  <2>5. CASE /\ s.name # "root" /\ pcache' = pcache
             /\ pcalls' = [pcalls EXCEPT ![c] = [pc |-> "get", op |-> kind, name |-> s.name,
                                                 text |-> "none", res |-> ""]]
    <3>1. s.name \in StoredNames /\ "none" \in AllTexts /\ kind \in PolOps
      BY <2>1, <2>5, PolConstants, PolWords
    <3> QED BY <2>2, <2>5, <3>1, CallStarts, PolWords
  <2> QED BY <1>7, <2>3, <2>4, <2>5, PolWords DEF GetStart, sanitize_name
<1>8. ASSUME NEW c \in PolClients, WritePut(c)
      PROVE  PolInv'
  <2> DEFINE n == pcalls[c].name
             text == pcalls[c].text
  <2>1. pcalls[c].pc = "put" /\ pcache' = pcache /\ ptypes' = ptypes /\ ploads' = ploads
    BY <1>8 DEF WritePut
  <2>2. n \in StoredNames /\ text \in AllTexts /\ Follows(n, pdisk, pcache, ptypes)
    BY <1>0, <1>c, <2>1 DEF CallFits
  <2>3. CASE pdisk' = [pdisk EXCEPT ![n] = text] /\ Goto(c, "type")
    <3>1. pcalls' = [pcalls EXCEPT ![c] = [pcalls[c] EXCEPT !.pc = "type", !.text = text]]
      BY <1>0, <2>3 DEF Goto, PolCalls
    <3>2. /\ pdisk' \in [StoredNames -> AllTexts] /\ pdisk'[n] = text
          /\ \A k \in StoredNames : k # n => pdisk'[k] = pdisk[k]
      BY <1>0, <2>2, <2>3
    <3>3. "type" \in PolPcs
      BY DEF PolPcs
    <3> QED BY <1>0, <2>1, <2>2, <3>1, <3>2, <3>3, CallGoesOn
  <2>4. CASE pdisk' = pdisk /\ Finish(c, "error")
    BY <1>0, <2>1, <2>2, <2>4, CallEnds, PolWords
  <2> QED BY <1>8, <2>3, <2>4 DEF WritePut
<1>9. ASSUME NEW c \in PolClients, WriteType(c)
      PROVE  PolInv'
  <2> DEFINE n == pcalls[c].name
             text == pcalls[c].text
  <2>1. /\ pcalls[c].pc = "type" /\ pdisk' = pdisk /\ pcache' = pcache /\ ploads' = ploads
        /\ ptypes' = ptypes \cup {n} /\ Goto(c, "cache")
    BY <1>9 DEF WriteType
  <2>2. n \in StoredNames /\ text \in AllTexts /\ pdisk[n] = text
    BY <1>0, <1>c, <2>1 DEF CallFits
  <2>3. pcalls' = [pcalls EXCEPT ![c] = [pcalls[c] EXCEPT !.pc = "cache", !.text = text]]
    BY <1>0, <2>1 DEF Goto, PolCalls
  <2>4. "cache" \in PolPcs
    BY DEF PolPcs
  <2> QED BY <1>0, <2>1, <2>2, <2>3, <2>4, CallGoesOn
<1>10. ASSUME NEW c \in PolClients, WriteCache(c)
       PROVE  PolInv'
  <2> DEFINE n == pcalls[c].name
             text == pcalls[c].text
  <2>1. pcalls[c].pc = "cache" /\ pdisk' = pdisk /\ ptypes' = ptypes /\ ploads' = ploads
    BY <1>10 DEF WriteCache
  <2>2. PICK said \in BOOLEAN : CacheInsert(n, text, said) /\ Finish(c, IF said THEN "ok" ELSE "error")
    BY <1>10 DEF WriteCache, SaveCache
  <2>3. n \in StoredNames /\ n \in PolNames /\ text \in AllTexts /\ pdisk[n] = text /\ n \in ptypes
    BY <1>0, <1>c, <2>1 DEF CallFits
  <2>4. /\ pcache' \in [PolNames -> AllTexts]
        /\ \A k \in PolNames : k # n => pcache'[k] = pcache[k]
        /\ pcache'[n] = text \/ pcache'[n] = "none"
    BY <1>0, <2>2, <2>3, InsertFacts
  <2>5. \A k \in StoredNames : k # n => pcache'[k] = pcache[k]
    BY <2>4, PolConstants
  <2>6. Follows(n, pdisk', pcache', ptypes')
    BY <2>1, <2>3, <2>4 DEF Follows
  <2>7. PICK res \in PolResults : Finish(c, res)
    BY <2>2, PolWords
  <2> QED BY <1>0, <2>1, <2>4, <2>5, <2>6, <2>7, CallEnds, PolWords
<1>11. ASSUME NEW c \in PolClients, DeleteStored(c)
       PROVE  PolInv'
  <2> DEFINE n == pcalls[c].name
             text == pcalls[c].text
  <2>1. pcalls[c].pc = "unput" /\ pcache' = pcache /\ ptypes' = ptypes /\ ploads' = ploads
    BY <1>11 DEF DeleteStored
  <2>2. n \in StoredNames /\ text \in AllTexts /\ Follows(n, pdisk, pcache, ptypes)
    BY <1>0, <1>c, <2>1 DEF CallFits
  <2>3. CASE pdisk' = [pdisk EXCEPT ![n] = "none"] /\ Goto(c, "uncache")
    <3>1. pcalls' = [pcalls EXCEPT ![c] = [pcalls[c] EXCEPT !.pc = "uncache", !.text = text]]
      BY <1>0, <2>3 DEF Goto, PolCalls
    <3>2. /\ pdisk' \in [StoredNames -> AllTexts] /\ pdisk'[n] = "none"
          /\ \A k \in StoredNames : k # n => pdisk'[k] = pdisk[k]
      BY <1>0, <2>2, <2>3, PolConstants
    <3>3. "uncache" \in PolPcs
      BY DEF PolPcs
    <3> QED BY <1>0, <2>1, <2>2, <3>1, <3>2, <3>3, CallGoesOn
  <2>4. CASE pdisk' = pdisk /\ Finish(c, "error")
    BY <1>0, <2>1, <2>2, <2>4, CallEnds, PolWords
  <2> QED BY <1>11, <2>3, <2>4 DEF DeleteStored
<1>12. ASSUME NEW c \in PolClients, DeleteCache(c)
       PROVE  PolInv'
  <2> DEFINE n == pcalls[c].name
             text == pcalls[c].text
  <2>1. /\ pcalls[c].pc = "uncache" /\ pdisk' = pdisk /\ ptypes' = ptypes /\ ploads' = ploads
        /\ pcache' = [pcache EXCEPT ![n] = "none"] /\ Goto(c, "untype")
    BY <1>12 DEF DeleteCache
  <2>2. n \in StoredNames /\ n \in PolNames /\ text \in AllTexts /\ pdisk[n] = "none"
    BY <1>0, <1>c, <2>1 DEF CallFits
  <2>3. pcalls' = [pcalls EXCEPT ![c] = [pcalls[c] EXCEPT !.pc = "untype", !.text = text]]
    BY <1>0, <2>1 DEF Goto, PolCalls
  <2>4. /\ pcache' \in [PolNames -> AllTexts] /\ pcache'[n] = "none"
        /\ \A k \in StoredNames : k # n => pcache'[k] = pcache[k]
    BY <1>0, <2>1, <2>2, PolConstants
  <2>5. "untype" \in PolPcs
    BY DEF PolPcs
  <2> QED BY <1>0, <2>1, <2>2, <2>3, <2>4, <2>5, CallGoesOn
<1>13. ASSUME NEW c \in PolClients, DeleteType(c)
       PROVE  PolInv'
  <2> DEFINE n == pcalls[c].name
  <2>1. /\ pcalls[c].pc = "untype" /\ pdisk' = pdisk /\ pcache' = pcache /\ ploads' = ploads
        /\ ptypes' = ptypes \ {n} /\ Finish(c, "ok")
    BY <1>13 DEF DeleteType
  <2>2. pdisk[n] = "none" /\ pcache[n] = "none"
    BY <1>0, <2>1 DEF CallFits
  <2>3. Follows(n, pdisk', pcache', ptypes')
    BY <2>1, <2>2 DEF Follows
  <2> QED BY <1>0, <2>1, <2>3, CallEnds, PolWords
<1>14. ASSUME NEW c \in PolClients, GetStored(c)
       PROVE  PolInv'
  <2> DEFINE n == pcalls[c].name
  <2>1. /\ pcalls[c].pc = "get" /\ pdisk' = pdisk /\ pcache' = pcache /\ ptypes' = ptypes
        /\ ploads' = ploads
    BY <1>14 DEF GetStored
  <2>2. n \in StoredNames /\ Follows(n, pdisk, pcache, ptypes)
    BY <1>0, <1>c, <2>1 DEF CallFits
  <2>3. ASSUME NEW res \in PolResults, Finish(c, res) PROVE PolInv'
    BY <1>0, <2>1, <2>2, <2>3, CallEnds, PolWords
  <2>4. CASE pcalls' = [pcalls EXCEPT ![c].pc = "gettype", ![c].text = pdisk[n]]
    <3>1. pcalls' = [pcalls EXCEPT ![c] = [pcalls[c] EXCEPT !.pc = "gettype", !.text = pdisk[n]]]
      BY <1>0, <2>4 DEF PolCalls
    <3>2. pdisk[n] \in AllTexts /\ "gettype" \in PolPcs
      BY <1>0, <2>2 DEF PolPcs
    <3> QED BY <1>0, <2>1, <2>2, <3>1, <3>2, CallGoesOn
  <2> QED BY <1>14, <2>3, <2>4, PolWords DEF GetStored
<1>15. ASSUME NEW c \in PolClients, GetType(c)
       PROVE  PolInv'
  <2> DEFINE n == pcalls[c].name
             text == pcalls[c].text
  <2>1. /\ pcalls[c].pc = "gettype" /\ pdisk' = pdisk /\ pcache' = pcache /\ ploads' = ploads
        /\ ptypes' = ptypes \cup {n} /\ Goto(c, "getcache")
    BY <1>15 DEF GetType
  <2>2. n \in StoredNames /\ text \in AllTexts /\ pdisk[n] = text /\ Follows(n, pdisk, pcache, ptypes)
    BY <1>0, <1>c, <2>1 DEF CallFits
  <2>3. pcalls' = [pcalls EXCEPT ![c] = [pcalls[c] EXCEPT !.pc = "getcache", !.text = text]]
    BY <1>0, <2>1 DEF Goto, PolCalls
  <2>4. "getcache" \in PolPcs /\ Follows(n, pdisk', pcache', ptypes')
    BY <2>1, <2>2 DEF PolPcs, Follows
  <2> QED BY <1>0, <2>1, <2>2, <2>3, <2>4, CallGoesOn
<1>16. ASSUME NEW c \in PolClients, GetCache(c)
       PROVE  PolInv'
  <2> DEFINE n == pcalls[c].name
             text == pcalls[c].text
  <2>1. /\ pcalls[c].pc = "getcache" /\ pdisk' = pdisk /\ ptypes' = ptypes /\ ploads' = ploads
        /\ CacheInsert(n, text, TRUE) /\ Finish(c, "found")
    BY <1>16 DEF GetCache
  <2>2. n \in StoredNames /\ n \in PolNames /\ text \in AllTexts /\ pdisk[n] = text /\ n \in ptypes
    BY <1>0, <1>c, <2>1 DEF CallFits
  <2>3. /\ pcache' \in [PolNames -> AllTexts]
        /\ \A k \in PolNames : k # n => pcache'[k] = pcache[k]
        /\ pcache'[n] = text \/ pcache'[n] = "none"
    BY <1>0, <2>1, <2>2, InsertFacts
  <2>4. \A k \in StoredNames : k # n => pcache'[k] = pcache[k]
    BY <2>3, PolConstants
  <2>5. Follows(n, pdisk', pcache', ptypes')
    BY <2>1, <2>2, <2>3 DEF Follows
  <2> QED BY <1>0, <2>1, <2>3, <2>4, <2>5, CallEnds, PolWords
<1>17. CASE UNCHANGED pvars
  BY <1>17 DEF pvars, PolInv, PolTyped, Quiet, Busy
<1> QED BY <1>1, <1>2, <1>3, <1>4, <1>5, <1>6, <1>7, <1>8, <1>9, <1>10, <1>11, <1>12, <1>13,
           <1>14, <1>15, <1>16, <1>17 DEF PolicyNext

\* While requests do not overlap, whatever fails on the way, whenever the vault
\* is unsealed again and whatever the cache drops: between requests the cache
\* agrees with the store and every stored policy is found by its type
\* (policy_store.rs).  The run policy_race shows what overlapping requests do.
THEOREM PolicyCacheFollows == PolicySpec /\ []OneAtATime => []CacheFollowsStore
<1>1. PolicyInit => PolInv
  <2> SUFFICES ASSUME PolicyInit PROVE PolInv
    OBVIOUS
  <2>1. /\ pcache = [n \in PolNames |-> "none"] /\ pcalls = [c \in PolClients |-> NoCall]
        /\ ploads = <<"default", "response-wrapping">>
        /\ ptypes = {"root"} \cup {n \in StoredNames : pdisk[n] # "none"}
    BY DEF PolicyInit
  <2>2. pdisk \in [StoredNames -> AllTexts]
    BY PolConstants DEF PolicyInit
  <2>3. NoCall \in PolCalls /\ NoCall.pc = "idle"
    BY PolConstants, PolWords DEF NoCall, PolCalls, PolPcs
  <2>4. PolTyped /\ Quiet
    BY <2>1, <2>2, <2>3, PolConstants DEF PolTyped, PolCalls, Quiet
  <2>5. \A c \in PolClients : CallFits(pcalls[c], pdisk, pcache, ptypes)
    BY <2>1, <2>3 DEF CallFits
  <2>6. \A n \in StoredNames : Follows(n, pdisk, pcache, ptypes)
    BY <2>1, PolConstants DEF Follows
  <2> QED BY <2>4, <2>5, <2>6 DEF PolInv
<1>2. PolInv => CacheFollowsStore
  BY DEF PolInv, CacheFollowsStore, Quiet, Busy, Follows
<1> QED BY <1>1, <1>2, PolicySteps, PTL DEF PolicySpec


-----------------------------------------------------------------------------
(* Login with a certificate *)

CrlPcs == {"list", "load", "keep", "clear", "act", "delete", "cache"}
CrlLists == CrlSerials \cup {{}}
CrlMaps == UNION {[S -> CrlLists] : S \in SUBSET CrlNames}
CrlCalls == [pc : CrlPcs, mount : CertMounts, op : {"set", "delete", "read"}, name : CrlNames,
             serials : CrlLists, todo : SUBSET CrlNames, key : CrlNames, got : CrlLists]

CrlTyped ==
    /\ ccrl \in [CertMounts -> CrlMaps]
    /\ ccrls \in CrlMaps
    /\ ccalls \in [CrlClients -> CrlCalls \cup {CrlIdle}]
    /\ cuse \in CertMounts \cup {"none", "mixed"}

Same(f, g) == DOMAIN f = DOMAIN g /\ \A n \in DOMAIN g : f[n] = g[n]

\* What the map is to the stored lists while a request is under way that no
\* other request overlaps.
CrlFits(call, crls, stored) ==
    /\ call.pc = "list" => crls = NoCrls
    /\ call.pc \in {"load", "keep"} =>
          /\ call.todo \subseteq DOMAIN stored
          /\ DOMAIN crls = DOMAIN stored \ call.todo
          /\ \A n \in DOMAIN crls : crls[n] = stored[n]
    /\ call.pc = "keep" => call.key \in call.todo /\ call.got = stored[call.key]
    /\ call.pc \in {"act", "delete"} => Same(crls, stored)
    /\ call.pc = "delete" => call.op = "delete"
    /\ call.pc = "cache" /\ call.op = "set" => Same(Revoke(crls, call.name, call.serials), stored)
    /\ call.pc = "cache" /\ call.op # "set" => Same(Without(crls, call.name), stored)

CrlAlone ==
    /\ cuse = "none" => ccrls = NoCrls /\ \A c \in CrlClients : ccalls[c] = CrlIdle
    /\ cuse \in CertMounts =>
          /\ (\A c \in CrlClients : ccalls[c] = CrlIdle) => ccrls = NoCrls \/ Same(ccrls, ccrl[cuse])
          /\ \A c \in CrlClients : ccalls[c] # CrlIdle =>
                /\ ccalls[c].mount = cuse
                /\ CrlFits(ccalls[c], ccrls, ccrl[cuse])
                /\ \A d \in CrlClients \ {c} : ccalls[d] = CrlIdle

CrlInv == CrlTyped /\ CrlAlone

LEMMA CrlMapFacts ==
    /\ NoCrls \in CrlMaps /\ DOMAIN NoCrls = {}
    /\ \A f \in CrlMaps : /\ DOMAIN f \subseteq CrlNames
                          /\ f \in [DOMAIN f -> CrlLists]
                          /\ \A n \in DOMAIN f : f[n] \in CrlLists
    /\ \A f \in CrlMaps, g \in CrlMaps : Same(f, g) => f = g
<1>1. \A f \in CrlMaps : DOMAIN f \subseteq CrlNames /\ f \in [DOMAIN f -> CrlLists]
  BY DEF CrlMaps
<1>2. NoCrls \in [{} -> CrlLists] /\ DOMAIN NoCrls = {}
  BY DEF NoCrls
<1>3. NoCrls \in CrlMaps
  <2>1. {} \in SUBSET CrlNames
    OBVIOUS
  <2> QED BY <1>2, <2>1 DEF CrlMaps
<1>4. \A f \in CrlMaps, g \in CrlMaps : Same(f, g) => f = g
  <2> SUFFICES ASSUME NEW f \in CrlMaps, NEW g \in CrlMaps, Same(f, g) PROVE f = g
    OBVIOUS
  <2>1. f \in [DOMAIN g -> CrlLists] /\ g \in [DOMAIN g -> CrlLists]
    BY <1>1 DEF Same
  <2> QED BY <2>1 DEF Same
<1>5. \A f \in CrlMaps : \A n \in DOMAIN f : f[n] \in CrlLists
  BY <1>1
<1> QED BY <1>1, <1>2, <1>3, <1>4, <1>5

LEMMA CrlMapUpdates ==
    ASSUME NEW f \in CrlMaps, NEW n \in CrlNames, NEW s \in CrlLists
    PROVE  Revoke(f, n, s) \in CrlMaps /\ Without(f, n) \in CrlMaps
<1>1. Revoke(f, n, s) \in [DOMAIN f \cup {n} -> CrlLists] /\ Without(f, n) \in [DOMAIN f \ {n} -> CrlLists]
  BY CrlMapFacts DEF Revoke, Without
<1>2. DOMAIN f \cup {n} \in SUBSET CrlNames /\ DOMAIN f \ {n} \in SUBSET CrlNames
  BY CrlMapFacts
<1> QED BY <1>1, <1>2 DEF CrlMaps

\* A request is under way exactly when it is not idle.
LEMMA CrlBusy ==
    ASSUME CrlTyped, NEW c \in CrlClients
    PROVE  /\ At(c, "idle") <=> ccalls[c] = CrlIdle
           /\ ccalls[c] # CrlIdle => ccalls[c] \in CrlCalls
<1>1. CrlIdle.pc = "idle"
  BY DEF CrlIdle
<1>2. \A k \in CrlCalls : k.pc \in CrlPcs /\ k.pc # "idle"
  BY DEF CrlCalls, CrlPcs
<1>3. ccalls[c] \in CrlCalls \cup {CrlIdle}
  BY DEF CrlTyped
<1> QED BY <1>1, <1>2, <1>3 DEF At

\* One request goes on from where it is.
LEMMA CrlMoves ==
    ASSUME CrlInv, NEW c \in CrlClients, ccalls[c] # CrlIdle, NEW call \in CrlCalls \cup {CrlIdle},
           CrlGoto(c, call), cuse' = cuse, ccrl' \in [CertMounts -> CrlMaps], ccrls' \in CrlMaps,
           cuse \in CertMounts =>
              IF call = CrlIdle THEN ccrls' = NoCrls \/ Same(ccrls', ccrl'[cuse])
              ELSE call.mount = cuse /\ CrlFits(call, ccrls', ccrl'[cuse])
    PROVE  CrlInv'
<1>1. CrlTyped'
  BY DEF CrlInv, CrlTyped, CrlGoto
<1>2. cuse # "none"
  BY DEF CrlInv, CrlAlone
<1>3. ccalls'[c] = call /\ \A d \in CrlClients \ {c} : ccalls'[d] = ccalls[d]
  BY DEF CrlInv, CrlTyped, CrlGoto
<1>4. ASSUME cuse \in CertMounts PROVE \A d \in CrlClients \ {c} : ccalls'[d] = CrlIdle
  BY <1>3, <1>4 DEF CrlInv, CrlAlone
<1>5. CrlAlone'
  <2>1. ASSUME cuse \in CertMounts, \A d \in CrlClients : ccalls'[d] = CrlIdle
        PROVE  ccrls' = NoCrls \/ Same(ccrls', ccrl'[cuse])
    BY <2>1, <1>3
  <2>2. ASSUME cuse \in CertMounts, NEW d \in CrlClients, ccalls'[d] # CrlIdle
        PROVE  /\ ccalls'[d].mount = cuse
               /\ CrlFits(ccalls'[d], ccrls', ccrl'[cuse])
               /\ \A e \in CrlClients \ {d} : ccalls'[e] = CrlIdle
    <3>1. d = c
      BY <2>2, <1>4
    <3> QED BY <3>1, <2>2, <1>3, <1>4
  <2> QED BY <2>1, <2>2, <1>2 DEF CrlAlone
<1> QED BY <1>1, <1>5 DEF CrlInv

\* The steps of a request that is under way.
LEMMA CrlSteps ==
    ASSUME CrlInv, NEW c \in CrlClients, ccalls[c] # CrlIdle,
           \/ ListCrls(c) \/ ReadCrl(c) \/ KeepCrl(c) \/ ClearCrls(c)
           \/ read_crl(c) \/ set_crl(c) \/ delete_crl(c) \/ DeleteStoredCrl(c) \/ UpdateMap(c)
    PROVE  CrlInv'
<1> DEFINE k == ccalls[c]
           m == k.mount
<1>1. k \in CrlCalls /\ CrlTyped
  BY CrlBusy DEF CrlInv
<1>2. /\ m \in CertMounts /\ k.op \in {"set", "delete", "read"} /\ k.name \in CrlNames
      /\ k.serials \in CrlLists /\ k.todo \in SUBSET CrlNames /\ k.key \in CrlNames
      /\ k.got \in CrlLists /\ Stored(c) = ccrl[m] /\ ccrl[m] \in CrlMaps
      /\ ccrl \in [CertMounts -> CrlMaps] /\ ccrls \in CrlMaps
  BY <1>1 DEF CrlCalls, CrlTyped, Stored
<1>3. cuse \in CertMounts => m = cuse /\ CrlFits(k, ccrls, ccrl[m])
  BY DEF CrlInv, CrlAlone
<1>4. CrlIdle \in CrlCalls \cup {CrlIdle}
  OBVIOUS
<1>5. CASE ListCrls(c)
  <2> DEFINE e == [k EXCEPT !.pc = IF DOMAIN Stored(c) = {} THEN "act" ELSE "load",
                            !.todo = DOMAIN Stored(c)]
  <2>1. e \in CrlCalls /\ e.mount = m /\ e.todo = DOMAIN ccrl[m] /\ e # CrlIdle
        /\ e.pc = IF DOMAIN ccrl[m] = {} THEN "act" ELSE "load"
    BY <1>1, <1>2, CrlMapFacts DEF CrlCalls, CrlPcs, CrlIdle
  <2>2. k.pc = "list" /\ UNCHANGED <<ccrl, ccrls, cuse>> /\ (CrlGoto(c, CrlIdle) \/ CrlGoto(c, e))
    BY <1>5 DEF ListCrls, At
  <2> HIDE DEF e, k
  <2>3. cuse \in CertMounts => ccrls = NoCrls
    BY <1>3, <2>2 DEF CrlFits
  <2>4. cuse \in CertMounts => CrlFits(e, ccrls, ccrl[m])
    BY <2>1, <2>3, CrlMapFacts DEF CrlFits, Same
  <2>5. CASE CrlGoto(c, CrlIdle)
    BY <2>2, <2>3, <2>5, <1>2, <1>4, CrlMoves
  <2>6. CASE CrlGoto(c, e)
    BY <2>1, <2>2, <2>4, <2>6, <1>2, <1>3, CrlMoves
  <2> QED BY <2>2, <2>5, <2>6
<1>6. ASSUME NEW n \in k.todo
      PROVE  /\ Done(c, n) \in CrlCalls /\ Done(c, n).mount = m /\ Done(c, n) # CrlIdle
             /\ Done(c, n).todo = k.todo \ {n}
             /\ Done(c, n).pc = IF k.todo = {n} THEN "act" ELSE "load"
  BY <1>1, <1>2 DEF Done, CrlCalls, CrlPcs, CrlIdle
<1>7. CASE ReadCrl(c)
  <2>1. k.pc = "load" /\ UNCHANGED <<ccrl, ccrls, cuse>>
    BY <1>7 DEF ReadCrl, At
  <2>2. CASE CrlGoto(c, [k EXCEPT !.pc = "clear"])
    <3> DEFINE e == [k EXCEPT !.pc = "clear"]
    <3>1. e \in CrlCalls /\ e.mount = m /\ e.pc = "clear" /\ e # CrlIdle
      BY <1>1, <1>2 DEF CrlCalls, CrlPcs, CrlIdle
    <3>2. CrlGoto(c, e)
      BY <2>2
    <3> HIDE DEF e, k
    <3>3. CrlFits(e, ccrls, ccrl[m])
      BY <3>1 DEF CrlFits
    <3> QED BY <2>1, <3>1, <3>2, <3>3, <1>2, <1>3, CrlMoves
  <2>3. ASSUME NEW n \in k.todo,
               CrlGoto(c, IF n \notin DOMAIN Stored(c) THEN Done(c, n)
                       ELSE [k EXCEPT !.pc = "keep", !.key = n, !.got = Stored(c)[n]])
        PROVE  CrlInv'
    <3>1. cuse \in CertMounts => k.todo \subseteq DOMAIN ccrl[m]
      BY <1>3, <2>1 DEF CrlFits
    <3>2. CASE n \notin DOMAIN ccrl[m]
      <4>1. CrlGoto(c, Done(c, n))
        BY <2>3, <3>2, <1>2
      <4>2. cuse \notin CertMounts
        BY <3>1, <3>2
      <4> QED BY <4>1, <4>2, <2>1, <1>2, <1>6, CrlMoves
    <3>3. CASE n \in DOMAIN ccrl[m]
      <4> DEFINE e == [k EXCEPT !.pc = "keep", !.key = n, !.got = Stored(c)[n]]
      <4>1. e \in CrlCalls /\ e.mount = m /\ e.pc = "keep" /\ e # CrlIdle
            /\ e.key = n /\ e.got = ccrl[m][n] /\ e.todo = k.todo
        BY <1>1, <1>2, <3>3, CrlMapFacts DEF CrlCalls, CrlPcs, CrlIdle
      <4>2. CrlGoto(c, e)
        BY <2>3, <3>3, <1>2
      <4> HIDE DEF e
      <4>3. cuse \in CertMounts => CrlFits(e, ccrls, ccrl[m])
        <5> HIDE DEF k
        <5> QED BY <4>1, <1>3, <2>1, <2>3 DEF CrlFits
      <4> QED BY <2>1, <4>1, <4>2, <4>3, <1>2, <1>3, CrlMoves
    <3> QED BY <3>2, <3>3
  <2> QED BY <1>7, <2>2, <2>3 DEF ReadCrl
<1>8. CASE KeepCrl(c)
  <2>1. k.pc = "keep" /\ UNCHANGED <<ccrl, cuse>> /\ ccrls' = Revoke(ccrls, k.key, k.got)
        /\ CrlGoto(c, Done(c, k.key))
    BY <1>8 DEF KeepCrl, At
  <2>2. ccrls' \in CrlMaps
    BY <2>1, <1>2, CrlMapUpdates
  <2>3. Done(c, k.key) \in CrlCalls /\ Done(c, k.key).mount = m /\ Done(c, k.key) # CrlIdle
        /\ Done(c, k.key).todo = k.todo \ {k.key}
        /\ Done(c, k.key).pc = IF k.todo = {k.key} THEN "act" ELSE "load"
    BY <1>1, <1>2 DEF Done, CrlCalls, CrlPcs, CrlIdle
  <2>4. cuse \in CertMounts => CrlFits(Done(c, k.key), ccrls', ccrl[m])
    <3> SUFFICES ASSUME cuse \in CertMounts PROVE CrlFits(Done(c, k.key), ccrls', ccrl[m])
      OBVIOUS
    <3>1. /\ k.todo \subseteq DOMAIN ccrl[m] /\ k.key \in k.todo /\ k.got = ccrl[m][k.key]
          /\ DOMAIN ccrls = DOMAIN ccrl[m] \ k.todo
          /\ \A n \in DOMAIN ccrls : ccrls[n] = ccrl[m][n]
      BY <1>3, <2>1 DEF CrlFits
    <3>2. /\ DOMAIN ccrls' = DOMAIN ccrl[m] \ (k.todo \ {k.key})
          /\ \A n \in DOMAIN ccrls' : ccrls'[n] = ccrl[m][n]
      BY <2>1, <3>1 DEF Revoke
    <3>3. k.todo = {k.key} => Same(ccrls', ccrl[m])
      BY <3>2 DEF Same
    <3> HIDE DEF k
    <3> QED BY <2>3, <3>1, <3>2, <3>3 DEF CrlFits
  <2> QED BY <2>1, <2>2, <2>3, <2>4, <1>2, <1>3, CrlMoves
<1>9. CASE ClearCrls(c)
  BY <1>9, <1>2, <1>4, CrlMapFacts, CrlMoves DEF ClearCrls
<1>10. ASSUME k.pc \in {"act", "delete"}, CrlGoto(c, CrlIdle), UNCHANGED <<ccrl, ccrls, cuse>>
       PROVE  CrlInv'
  <2>1. cuse \in CertMounts => Same(ccrls, ccrl[m])
    BY <1>3, <1>10 DEF CrlFits
  <2> QED BY <1>2, <1>3, <1>4, <1>10, <2>1, CrlMoves
<1>11. CASE read_crl(c)
  BY <1>10, <1>11 DEF read_crl, At
<1>12. ASSUME NEW pc \in {"cache", "delete"}
       PROVE  /\ [k EXCEPT !.pc = pc] \in CrlCalls
              /\ [k EXCEPT !.pc = pc].mount = m
              /\ [k EXCEPT !.pc = pc] # CrlIdle
              /\ [k EXCEPT !.pc = pc].pc = pc
              /\ [k EXCEPT !.pc = pc].op = k.op
              /\ [k EXCEPT !.pc = pc].name = k.name
              /\ [k EXCEPT !.pc = pc].serials = k.serials
  BY <1>1, <1>2 DEF CrlCalls, CrlPcs, CrlIdle
<1>13. CASE set_crl(c)
  <2> DEFINE e == [k EXCEPT !.pc = "cache"]
             r == Revoke(ccrl[m], k.name, k.serials)
  <2>1. k.pc = "act" /\ k.op = "set" /\ UNCHANGED <<ccrls, cuse>>
    BY <1>13 DEF set_crl, At
  <2>2. CASE CrlGoto(c, CrlIdle) /\ UNCHANGED ccrl
    BY <2>1, <2>2, <1>10
  <2>3. CASE CrlGoto(c, e) /\ ccrl' = [ccrl EXCEPT ![m] = r]
    <3>1. r \in CrlMaps
      BY <1>2, CrlMapUpdates
    <3>2. ccrl' \in [CertMounts -> CrlMaps] /\ ccrl'[m] = r
      BY <2>3, <3>1, <1>2
    <3>3. e \in CrlCalls /\ e.mount = m /\ e # CrlIdle /\ e.pc = "cache" /\ e.op = "set"
          /\ e.name = k.name /\ e.serials = k.serials
      BY <1>12, <2>1
    <3>4. cuse \in CertMounts => Same(ccrls, ccrl[m])
      BY <1>3, <2>1 DEF CrlFits
    <3>5. cuse \in CertMounts => Same(Revoke(ccrls, k.name, k.serials), r)
      BY <3>4 DEF Same, Revoke
    <3>6. CrlGoto(c, e)
      BY <2>3
    <3> HIDE DEF e, r, k
    <3>7. cuse \in CertMounts => CrlFits(e, ccrls, r)
      BY <3>3, <3>5 DEF CrlFits
    <3> QED BY <2>1, <3>2, <3>3, <3>6, <3>7, <1>2, <1>3, CrlMoves
  <2> QED BY <1>13, <2>2, <2>3 DEF set_crl
<1>14. CASE delete_crl(c)
  <2> DEFINE e == [k EXCEPT !.pc = "delete"]
  <2>1. k.pc = "act" /\ UNCHANGED <<ccrl, ccrls, cuse>> /\ (CrlGoto(c, CrlIdle) \/ CrlGoto(c, e))
    BY <1>14 DEF delete_crl, At
  <2>2. CASE CrlGoto(c, CrlIdle)
    BY <2>1, <2>2, <1>10
  <2>3. CASE CrlGoto(c, e)
    <3>1. e \in CrlCalls /\ e.mount = m /\ e # CrlIdle /\ e.pc = "delete" /\ e.op = "delete"
      BY <1>12, <1>14 DEF delete_crl
    <3>2. cuse \in CertMounts => Same(ccrls, ccrl[m])
      BY <1>3, <2>1 DEF CrlFits
    <3> HIDE DEF e, k
    <3>3. cuse \in CertMounts => CrlFits(e, ccrls, ccrl[m])
      BY <3>1, <3>2 DEF CrlFits
    <3> QED BY <2>1, <2>3, <3>1, <3>3, <1>2, <1>3, CrlMoves
  <2> QED BY <2>1, <2>2, <2>3
<1>15. CASE DeleteStoredCrl(c)
  <2> DEFINE e == [k EXCEPT !.pc = "cache"]
             r == Without(ccrl[m], k.name)
  <2>1. k.pc = "delete" /\ UNCHANGED <<ccrls, cuse>>
    BY <1>15 DEF DeleteStoredCrl, At
  <2>2. CASE CrlGoto(c, CrlIdle) /\ UNCHANGED ccrl
    BY <2>1, <2>2, <1>10
  <2>3. CASE CrlGoto(c, e) /\ ccrl' = [ccrl EXCEPT ![m] = r]
    <3>1. r \in CrlMaps
      BY <1>2, CrlMapUpdates
    <3>2. ccrl' \in [CertMounts -> CrlMaps] /\ ccrl'[m] = r
      BY <2>3, <3>1, <1>2
    <3>3. e \in CrlCalls /\ e.mount = m /\ e # CrlIdle /\ e.pc = "cache" /\ e.op = k.op
          /\ e.name = k.name /\ e.serials = k.serials
      BY <1>12
    <3>4. cuse \in CertMounts => Same(ccrls, ccrl[m]) /\ k.op # "set"
      BY <1>3, <2>1 DEF CrlFits
    <3>5. cuse \in CertMounts => Same(Without(ccrls, k.name), r)
      BY <3>4 DEF Same, Without
    <3>6. CrlGoto(c, e)
      BY <2>3
    <3> HIDE DEF e, r, k
    <3>7. cuse \in CertMounts => CrlFits(e, ccrls, r)
      BY <3>3, <3>4, <3>5 DEF CrlFits
    <3> QED BY <2>1, <3>2, <3>3, <3>6, <3>7, <1>2, <1>3, CrlMoves
  <2> QED BY <1>15, <2>2, <2>3 DEF DeleteStoredCrl
<1>16. CASE UpdateMap(c)
  <2>1. k.pc = "cache" /\ UNCHANGED <<ccrl, cuse>> /\ CrlGoto(c, CrlIdle)
        /\ ccrls' = IF k.op = "set" THEN Revoke(ccrls, k.name, k.serials) ELSE Without(ccrls, k.name)
    BY <1>16 DEF UpdateMap, At
  <2>2. ccrls' \in CrlMaps
    BY <2>1, <1>2, CrlMapUpdates
  <2>3. cuse \in CertMounts => Same(ccrls', ccrl[m])
    BY <2>1, <1>3 DEF CrlFits
  <2> QED BY <2>1, <2>2, <2>3, <1>2, <1>3, <1>4, CrlMoves
<1> QED BY <1>5, <1>7, <1>8, <1>9, <1>11, <1>13, <1>14, <1>15, <1>16

\* A request begins.
LEMMA CrlBegins ==
    ASSUME CrlInv, NEW c \in CrlClients, NEW m \in CertMounts, NEW n \in CrlNames,
           NEW op \in {"set", "delete", "read"}, NEW s \in CrlLists, CrlRequest(c, m, op, n, s)
    PROVE  CrlInv'
<1> DEFINE e == [pc |-> IF ccrls = NoCrls THEN "list" ELSE "act", mount |-> m, op |-> op,
                 name |-> n, serials |-> s, todo |-> {}, key |-> n, got |-> {}]
           alone == cuse \in {"none", m} /\ \A d \in CrlClients : At(d, "idle")
<1>1. /\ e \in CrlCalls /\ e # CrlIdle /\ e.mount = m
      /\ e.pc = IF ccrls = NoCrls THEN "list" ELSE "act"
  BY DEF CrlCalls, CrlPcs, CrlLists, CrlIdle
<1>2. CrlGoto(c, e) /\ cuse' = (IF alone THEN m ELSE "mixed") /\ UNCHANGED <<ccrl, ccrls>>
  BY DEF CrlRequest
<1> HIDE DEF e
<1>3. CrlTyped' /\ ccalls'[c] = e /\ \A d \in CrlClients \ {c} : ccalls'[d] = ccalls[d]
  BY <1>1, <1>2 DEF CrlInv, CrlTyped, CrlGoto
<1>4. "mixed" \notin CertMounts /\ "none" \notin CertMounts
  BY CrlAssumption
<1>5. CASE ~alone
  BY <1>2, <1>3, <1>4, <1>5 DEF CrlInv, CrlAlone
<1>6. CASE alone
  <2>1. \A d \in CrlClients : ccalls[d] = CrlIdle
    BY <1>6, CrlBusy DEF CrlInv
  <2>2. ccrls = NoCrls \/ Same(ccrls, ccrl[m])
    BY <1>4, <1>6, <2>1 DEF CrlInv, CrlAlone
  <2>3. CrlFits(e, ccrls, ccrl[m])
    BY <1>1, <2>2 DEF CrlFits
  <2>4. cuse' = m /\ m # "none"
    BY <1>2, <1>4, <1>6
  <2>5. ASSUME NEW d \in CrlClients, ccalls'[d] # CrlIdle PROVE d = c
    BY <2>5, <1>3, <2>1
  <2>6. \A d \in CrlClients \ {c} : ccalls'[d] = CrlIdle
    BY <2>1, <1>3
  <2> HIDE DEF alone
  <2>7. CrlAlone'
    BY <1>1, <1>2, <1>3, <2>3, <2>4, <2>5, <2>6 DEF CrlAlone
  <2> QED BY <1>3, <2>7 DEF CrlInv
<1> QED BY <1>5, <1>6

LEMMA CrlStays == CrlInv /\ CrlNext => CrlInv'
<1> SUFFICES ASSUME CrlInv, CrlNext PROVE CrlInv'
  OBVIOUS
<1>1. ASSUME NEW c \in CrlClients, NEW m \in CertMounts, NEW n \in CrlNames, NEW s \in CrlSerials,
             CrlRequest(c, m, "set", n, s)
      PROVE  CrlInv'
  BY <1>1, CrlBegins DEF CrlLists
<1>2. ASSUME NEW c \in CrlClients, NEW m \in CertMounts, NEW n \in CrlNames,
             NEW op \in {"delete", "read"}, CrlRequest(c, m, op, n, {})
      PROVE  CrlInv'
  BY <1>2, CrlBegins DEF CrlLists
<1>3. ASSUME NEW c \in CrlClients,
             \/ ListCrls(c) \/ ReadCrl(c) \/ KeepCrl(c) \/ ClearCrls(c)
             \/ read_crl(c) \/ set_crl(c) \/ delete_crl(c) \/ DeleteStoredCrl(c) \/ UpdateMap(c)
      PROVE  CrlInv'
  <2>1. ~At(c, "idle")
    BY <1>3 DEF ListCrls, ReadCrl, KeepCrl, ClearCrls, read_crl, set_crl, delete_crl, DeleteStoredCrl,
                UpdateMap, At
  <2> QED BY <1>3, <2>1, CrlBusy, CrlSteps DEF CrlInv
<1>4. CASE CrlRestart
  <2>1. /\ ccrls' = NoCrls /\ ccalls' = [c \in CrlClients |-> CrlIdle] /\ cuse' = "none" /\ ccrl' = ccrl
    BY <1>4 DEF CrlRestart
  <2>2. CrlTyped'
    BY <2>1, CrlMapFacts DEF CrlInv, CrlTyped
  <2>3. CrlAlone'
    BY <2>1, CrlAssumption DEF CrlAlone
  <2> QED BY <2>2, <2>3 DEF CrlInv
<1> QED BY <1>1, <1>2, <1>3, <1>4 DEF CrlNext, CrlStep

\* The map of revocation lists is never a part of the stored lists, for all
\* mounts, clients, names and lists, while requests come one at a time and to
\* one mount.
THEOREM CertCrlWhole == CertSpec => []CrlCacheWhole
<1>1. CertInit => CrlInv
  <2> SUFFICES ASSUME CertInit PROVE CrlInv
    OBVIOUS
  <2>1. /\ ccrl = [m \in CertMounts |-> NoCrls] /\ ccrls = NoCrls
        /\ ccalls = [c \in CrlClients |-> CrlIdle] /\ cuse = "none"
    BY DEF CertInit, CrlInit
  <2>2. CrlTyped
    BY <2>1, CrlMapFacts DEF CrlTyped
  <2>3. CrlAlone
    BY <2>1, CrlAssumption DEF CrlAlone
  <2> QED BY <2>2, <2>3 DEF CrlInv
<1>2. CrlInv /\ [CertNext]_certVars => CrlInv'
  <2> SUFFICES ASSUME CrlInv, [CertNext]_certVars PROVE CrlInv'
    OBVIOUS
  <2>1. CASE CrlNext
    BY <2>1, CrlStays
  <2>2. CASE UNCHANGED crlVars
    BY <2>2 DEF crlVars, CrlInv, CrlTyped, CrlAlone
  <2>3. EntryNext => UNCHANGED crlVars
    BY DEF EntryNext, write_entry, delete_entry, write_config, cert_login, cert_login_renew, certVars
  <2> QED BY <2>1, <2>2, <2>3 DEF CertNext, certVars
<1>3. CrlInv => CrlCacheWhole
  <2> SUFFICES ASSUME CrlInv, cuse # "mixed", \A c \in CrlClients : At(c, "idle")
               PROVE  ccrls = NoCrls \/ (cuse \in CertMounts /\ ccrls = ccrl[cuse])
    BY DEF CrlCacheWhole
  <2>1. \A c \in CrlClients : ccalls[c] = CrlIdle
    BY CrlBusy DEF CrlInv
  <2>2. CASE cuse = "none"
    BY <2>2 DEF CrlInv, CrlAlone
  <2>3. CASE cuse \in CertMounts
    BY <2>1, <2>3, CrlMapFacts DEF CrlInv, CrlAlone, CrlTyped
  <2> QED BY <2>2, <2>3 DEF CrlInv, CrlTyped
<1> QED BY <1>1, <1>2, <1>3, PTL DEF CertSpec

\* Every entry that is stored was written by write_cert.
EntriesWritten == centry \in [EntryNames -> TrustedEntries \cup {NoEntry}]

LEMMA EntriesStay == CertSpec => []EntriesWritten
<1>1. CertInit => EntriesWritten
  BY DEF CertInit, EntriesWritten
<1>2. EntriesWritten /\ [CertNext]_certVars => EntriesWritten'
  BY DEF EntriesWritten, CertNext, EntryNext, certVars, entryVars, write_entry, delete_entry,
         write_config, cert_login, cert_login_renew
<1> QED BY <1>1, <1>2, PTL DEF CertSpec

\* A chain starts with the certificate of the client, and everything on it
\* leads up from there.
LEMMA ChainFacts ==
    ASSUME NEW roots, NEW peer, ChainOf(roots, peer) # <<>>
    PROVE  /\ peer[1] \in Members(ChainOf(roots, peer))
           /\ Members(ChainOf(roots, peer)) \subseteq Signers(peer[1], roots \cup Members(peer))
<1> DEFINE known == roots \cup Members(peer)
           up(c) == {d \in known : d.id = c.signer /\ d # c}
           leaf == peer[1]
           two == {<<leaf, d>> : d \in up(leaf)}
           three == {<<leaf, d, e>> : d \in up(leaf), e \in UNION {up(x) : x \in up(leaf)}}
           chains == {c \in {<<leaf>>} \cup two \cup three : c[Len(c)] \in roots
                         /\ \A i \in 1 .. Len(c) - 1 : c[i + 1] \in up(c[i]) /\ c[i] \notin roots}
           S1 == {leaf} \cup {d \in known : \E e \in {leaf} : d.id = e.signer}
           S2 == S1 \cup {d \in known : \E e \in S1 : d.id = e.signer}
<1>1. ChainOf(roots, peer) = IF chains = {} THEN <<>> ELSE CHOOSE c \in chains : TRUE
  BY DEF ChainOf
<1>2. ChainOf(roots, peer) \in chains
  <2> HIDE DEF chains
  <2> QED BY <1>1
<1>3. Signers(leaf, known) = S2 \cup {d \in known : \E e \in S2 : d.id = e.signer}
  BY DEF Signers
<1>4. leaf \in Signers(leaf, known)
  BY <1>3
<1>5. \A d \in up(leaf) : d \in S1 /\ d \in Signers(leaf, known)
  BY <1>3
<1>6. \A d \in up(leaf) : \A e \in up(d) : e \in Signers(leaf, known)
  BY <1>3
<1>7. CASE ChainOf(roots, peer) = <<leaf>>
  BY <1>7, <1>4 DEF Members
<1>8. CASE ChainOf(roots, peer) \in two
  <2>1. PICK d \in up(leaf) : ChainOf(roots, peer) = <<leaf, d>>
    BY <1>8
  <2>2. Members(<<leaf, d>>) = {leaf, d}
    BY DEF Members
  <2>3. d \in Signers(leaf, known)
    BY <1>5
  <2>4. Members(ChainOf(roots, peer)) = {leaf, d}
    BY <2>1, <2>2, Zenon
  <2> QED BY <2>3, <2>4, <1>4
<1>9. CASE ChainOf(roots, peer) \in three
  <2>1. PICK d \in up(leaf), e \in UNION {up(x) : x \in up(leaf)} :
            ChainOf(roots, peer) = <<leaf, d, e>>
    BY <1>9
  <2>2. Members(<<leaf, d, e>>) = {leaf, d, e}
    BY DEF Members
  <2>3. e \in Signers(leaf, known)
    BY <1>6
  <2>4. d \in Signers(leaf, known)
    BY <1>5
  <2>5. Members(ChainOf(roots, peer)) = {leaf, d, e}
    BY <2>1, <2>2, Zenon
  <2> QED BY <2>3, <2>4, <2>5, <1>4
<1>10. ChainOf(roots, peer) \in {<<leaf>>} \cup two \cup three
  BY <1>2
<1> HIDE DEF two, three
<1> QED BY <1>7, <1>8, <1>9, <1>10


\* What an accepted login tells about the entry n that accepts it.
Grounded(n, name, peer) ==
    LET leaf == peer[1]
        certs == Members(CertsOf(centry[n]))
        chain == Members(ChainOf(Roots(name), peer))
    IN  /\ name \in {"", n}
        /\ ~leaf.expired
        /\ MeetsEntry(leaf, centry[n])
        /\ \A c \in IF n \in Authorities(name) THEN {d \in chain : ForClients(d)}
                     ELSE certs \cup {leaf} :
              find_serial_in_crls(c.serial) = {}
        /\ \/ \E c \in certs : c.serial = leaf.serial /\ c.signer = leaf.signer
           \/ certs \cap Signers(leaf, Members(peer) \cup Roots(name)) # {}

\* A list of patterns that lets a name pass has a pattern that allows it.
LEMMA ListMatched ==
    ASSUME NEW patterns, NEW names, AnyMatches(patterns, names)
    PROVE  Allows(patterns, names)
<1>1. CASE patterns = <<>>
  BY <1>1 DEF Allows
<1>2. ASSUME NEW i \in DOMAIN patterns, patterns[i] # Malformed, patterns[i] \cap names # {}
      PROVE  Allows(patterns, names)
  <2>1. patterns[i] \in Members(patterns)
    BY DEF Members
  <2> QED BY <1>2, <2>1 DEF Allows
<1> QED BY <1>1, <1>2 DEF AnyMatches

\* matches_constraints asks everything that the entry asks.
LEMMA NamesMatched ==
    ASSUME NEW cert, NEW chain, NEW entry, matches_constraints(cert, chain, entry)
    PROVE  ~check_for_chain_in_crls(chain) /\ MeetsEntry(cert, entry)
<1>1. /\ ~check_for_chain_in_crls(chain)
      /\ matches_names(cert, entry) /\ matches_common_name(cert, entry)
      /\ matches_dns_sans(cert, entry) /\ matches_email_sans(cert, entry)
      /\ matches_uri_sans(cert, entry) /\ matches_organizational_units(cert, entry)
      /\ matches_certificate_extensions(cert, entry)
  BY DEF matches_constraints
<1>2. Allows(entry.allowed_names, cert.cn \cup cert.dns \cup cert.email)
  BY <1>1, ListMatched DEF matches_names, Allows
<1>3. /\ Allows(entry.allowed_common_names, cert.cn)
      /\ Allows(entry.allowed_dns_sans, cert.dns)
      /\ Allows(entry.allowed_email_sans, cert.email)
      /\ Allows(entry.allowed_uri_sans, cert.uri)
      /\ Allows(entry.allowed_organizational_units, cert.ou)
  BY <1>1, ListMatched DEF matches_common_name, matches_dns_sans, matches_email_sans,
                           matches_uri_sans, matches_organizational_units
<1>4. ASSUME NEW r \in Members(entry.required_extensions)
      PROVE  r # Malformed /\ r.oid \in DOMAIN cert.ext /\ r.pattern # Malformed
               /\ {cert.ext[r.oid].hex, cert.ext[r.oid].text} \cap r.pattern # {}
  <2>1. PICK i \in DOMAIN entry.required_extensions : r = entry.required_extensions[i]
    BY DEF Members
  <2>2. /\ r # Malformed /\ r.oid \in DOMAIN cert.ext /\ r.pattern # Malformed
        /\ (IF r.hex THEN cert.ext[r.oid].hex ELSE cert.ext[r.oid].text) \in r.pattern
    BY <1>1, <2>1 DEF matches_certificate_extensions
  <2> QED BY <2>2
<1> QED BY <1>1, <1>2, <1>3, <1>4 DEF MeetsEntry

\* A certificate that is accepted has not expired, whether a chain was found
\* for it or not.
LEMMA AcceptedInTime ==
    ASSUME NEW roots, NEW peer, validate_cert(roots, peer).ok
    PROVE  ~peer[1].expired
<1> DEFINE chain == ChainOf(roots, peer)
           self_signed == \E c \in Signers(peer[1], Members(peer)) : c.signer = c.id
<1>1. IF chain = <<>> THEN ~peer[1].expired /\ ~self_signed
      ELSE \A c \in Members(chain) : ~c.expired
  BY DEF validate_cert
<1>2. chain # <<>> => peer[1] \in Members(chain)
  BY ChainFacts
<1> QED BY <1>1, <1>2

\* The chain of validate_cert: what is on it leads up from the certificate of
\* the client, which is on it itself when it is for clients.
LEMMA AcceptedChain ==
    ASSUME NEW roots, NEW peer, validate_cert(roots, peer).chain # {}
    PROVE  /\ ForClients(peer[1]) => peer[1] \in validate_cert(roots, peer).chain
           /\ validate_cert(roots, peer).chain \subseteq Signers(peer[1], roots \cup Members(peer))
<1> DEFINE chain == ChainOf(roots, peer)
<1>1. validate_cert(roots, peer).chain = {c \in Members(chain) : ForClients(c)}
  BY DEF validate_cert
<1>2. Members(<<>>) = {}
  BY DEF Members
<1>3. chain # <<>>
  BY <1>1, <1>2
<1>4. /\ peer[1] \in Members(chain)
      /\ Members(chain) \subseteq Signers(peer[1], roots \cup Members(peer))
  BY <1>3, ChainFacts
<1> HIDE DEF chain
<1> QED BY <1>1, <1>4

\* An entry that was written has its own certificate first.
LEMMA FirstOfEntry ==
    ASSUME EntriesWritten, NEW n \in EntryNames, centry[n].certificate # <<>>
    PROVE  CertsOf(centry[n])[1] \in Members(CertsOf(centry[n]))
<1>1. centry[n] \in TrustedEntries
  <2>1. NoEntry.certificate = <<>>
    BY DEF NoEntry
  <2> QED BY <2>1 DEF EntriesWritten
<1> DEFINE a == centry[n].certificate
           b == centry[n].ocsp_ca_certificates
<1>2. /\ a \in Seq(Members(a)) /\ a # <<>>
      /\ b \in Seq(Members(b))
  BY <1>1, CertAssumption
<1>3. CertsOf(centry[n]) = a \o b
  BY DEF CertsOf
<1> HIDE DEF a, b
<1>4. a \in Seq(Members(a) \cup Members(b)) /\ b \in Seq(Members(a) \cup Members(b))
  BY <1>2
<1>5. 1 \in DOMAIN (a \o b)
  BY <1>2, <1>4
<1> QED BY <1>3, <1>5 DEF Members

\* verify_credentials, by the two ways it accepts.
LEMMA AcceptedGrounded ==
    ASSUME EntriesWritten, NEW n \in EntryNames, NEW name, NEW peer \in Peers,
           n \in verify_credentials(name, peer)
    PROVE  Grounded(n, name, peer)
<1> DEFINE v == validate_cert(Roots(name), peer)
<1>1. /\ v.ok
      /\ \/ n \in SingleMatches(name, peer)
         \/ v.chain # {} /\ n \in ChainMatches(name, peer, v.chain)
  BY DEF verify_credentials
<1>2. ~peer[1].expired
  BY <1>1, AcceptedInTime
<1>3. CASE n \in SingleMatches(name, peer)
  <2> DEFINE certs == Members(CertsOf(centry[n]))
             crt == CertsOf(centry[n])[1]
  <2>1. /\ n \in Loaded(name) /\ n \notin Authorities(name)
        /\ crt.serial = peer[1].serial /\ crt.signer = peer[1].signer
        /\ matches_constraints(peer[1], certs, centry[n])
    BY <1>3 DEF SingleMatches
  <2>2. name \in {"", n} /\ centry[n].certificate # <<>>
    BY <2>1 DEF Loaded
  <2>3. crt \in certs
    BY <2>2, FirstOfEntry
  <2>4. ~check_for_chain_in_crls(certs) /\ MeetsEntry(peer[1], centry[n])
    BY <2>1, NamesMatched
  <2>5. \A c \in certs \cup {peer[1]} : find_serial_in_crls(c.serial) = {}
    <3>1. \A c \in certs : find_serial_in_crls(c.serial) = {}
      BY <2>4 DEF check_for_chain_in_crls
    <3>2. find_serial_in_crls(peer[1].serial) = {}
      BY <2>1, <2>3, <3>1
    <3> QED BY <3>1, <3>2
  <2> QED BY <1>2, <2>1, <2>2, <2>3, <2>4, <2>5 DEF Grounded
<1>4. CASE v.chain # {} /\ n \in ChainMatches(name, peer, v.chain)
  <2>1. /\ n \in Authorities(name)
        /\ Members(CertsOf(centry[n])) \cap v.chain # {}
        /\ matches_constraints(peer[1], v.chain, centry[n])
    BY <1>4 DEF ChainMatches
  <2>2. name \in {"", n}
    BY <2>1 DEF Authorities, Loaded
  <2>3. v.chain \subseteq Signers(peer[1], Roots(name) \cup Members(peer))
    BY <1>4, AcceptedChain
  <2>4. ~check_for_chain_in_crls(v.chain) /\ MeetsEntry(peer[1], centry[n])
    BY <2>1, NamesMatched
  <2>5. v.chain = {d \in Members(ChainOf(Roots(name), peer)) : ForClients(d)}
    BY DEF validate_cert
  <2>6. Members(peer) \cup Roots(name) = Roots(name) \cup Members(peer)
    OBVIOUS
  <2> HIDE DEF v
  <2>7. Members(CertsOf(centry[n])) \cap Signers(peer[1], Members(peer) \cup Roots(name)) # {}
    BY <2>1, <2>3, <2>6
  <2>8. \A c \in {d \in Members(ChainOf(Roots(name), peer)) : ForClients(d)} :
            find_serial_in_crls(c.serial) = {}
    BY <2>4, <2>5 DEF check_for_chain_in_crls
  <2> QED BY <1>2, <2>1, <2>2, <2>4, <2>7, <2>8 DEF Grounded
<1> QED BY <1>1, <1>3, <1>4

\* Every login that is accepted is grounded, for all entries, certificates and
\* lists; what is assumed of these is only that a client presents at least one
\* certificate and that the lists of an entry are sequences.
THEOREM CertLoginGrounded == CertSpec => []LoginGrounded
<1>1. EntriesWritten => LoginGrounded
  <2> SUFFICES ASSUME EntriesWritten PROVE LoginGrounded
    OBVIOUS
  <2>1. \A n \in EntryNames, name \in EntryNames \cup {""}, peer \in Peers :
            n \in verify_credentials(name, peer) => Grounded(n, name, peer)
    BY AcceptedGrounded
  <2> QED BY <2>1, Zenon DEF LoginGrounded, Grounded
<1> QED BY <1>1, EntriesStay, PTL

-----------------------------------------------------------------------------
(* Accounts *)

\* An entry of the kind k: the fields it has, and its settings agree with the
\* older fields beside them.
SoundEntry(e, k) ==
    /\ DOMAIN e = {"kind", "token", "own", "plain"}
    /\ DOMAIN e.token = DOMAIN TokenParams
    /\ DOMAIN e.plain = Paired[k]
    /\ \A f \in Paired[k] : e.plain[f] = e.token[f]

\* What a login left: a key, and an auth with its fields.
SessionShape(s) ==
    /\ DOMAIN s = {"key", "auth"}
    /\ DOMAIN s.auth = {"ttl", "max_ttl", "period", "policies", "no_default_policy", "renewable"}

AccountInv ==
    /\ akind \in {"role", "user", "cert"}
    /\ DOMAIN acct = Names[akind]
    /\ \A n \in Names[akind] : acct[n] # NoAccount => SoundEntry(acct[n], akind)
    /\ asess # NoSession => asess.key \in Names[akind] /\ SessionShape(asess)

LEMMA PairFacts ==
    ASSUME NEW k \in {"role", "user", "cert"}
    PROVE  "policies" \in Paired[k] /\ Paired[k] \subseteq DOMAIN TokenParams
BY DEF Paired, TokenParams

LEMMA FreshSound ==
    ASSUME NEW k \in {"role", "user", "cert"}, NEW own PROVE SoundEntry(Fresh(k, own), k)
BY PairFacts DEF SoundEntry, Fresh

\* get_role, get_user and get_cert return what is stored.
LEMMA GetEntrySame ==
    ASSUME NEW k \in {"role", "user", "cert"}, NEW e, SoundEntry(e, k)
    PROVE  SoundEntry(GetEntry(e), k) /\ \A f \in DOMAIN TokenParams : GetEntry(e).token[f] = e.token[f]
<1> DEFINE t == [f \in DOMAIN e.token |->
                   IF f \in DOMAIN e.plain /\ e.token[f] = TokenParams[f] THEN e.plain[f] ELSE e.token[f]]
<1>1. \A f \in DOMAIN TokenParams : t[f] = e.token[f]
  BY DEF SoundEntry
<1>2. DOMAIN t = DOMAIN TokenParams
  BY DEF SoundEntry
<1> HIDE DEF t
<1>3. GetEntry(e) = [e EXCEPT !.token = t]
  BY DEF GetEntry, t
<1>4. /\ DOMAIN GetEntry(e) = {"kind", "token", "own", "plain"}
      /\ GetEntry(e).token = t /\ GetEntry(e).plain = e.plain
  BY <1>3 DEF SoundEntry
<1> QED BY <1>1, <1>2, <1>4, PairFacts DEF SoundEntry

\* A whole write: a setting that changes takes the older field with it, else
\* the older field takes the setting.
LEMMA SettlePairsSound ==
    ASSUME NEW k \in {"role", "user", "cert"}, NEW e, SoundEntry(e, k), NEW body
    PROVE  SoundEntry(SettlePairs(e, body), k)
<1> DEFINE parsed == parse_token_fields(e.token, body.token)
           changed(f) == parsed[f] # e.token[f]
           older(f) == f \in DOMAIN e.plain /\ ~changed(f) /\ f \in DOMAIN body.plain
           t == [f \in DOMAIN parsed |-> IF older(f) THEN body.plain[f] ELSE parsed[f]]
           p == [f \in DOMAIN e.plain |->
                   IF changed(f) THEN parsed[f] ELSE IF older(f) THEN body.plain[f] ELSE e.plain[f]]
<1>1. DOMAIN parsed = DOMAIN TokenParams
  BY DEF parse_token_fields, Updated, SoundEntry
<1> HIDE DEF parsed
<1>2. DOMAIN t = DOMAIN TokenParams /\ DOMAIN p = Paired[k]
  BY <1>1 DEF SoundEntry
<1>3. ASSUME NEW f \in Paired[k] PROVE p[f] = t[f]
  <2>1. f \in DOMAIN parsed /\ f \in DOMAIN e.plain /\ e.plain[f] = e.token[f]
    BY <1>1, PairFacts DEF SoundEntry
  <2> QED BY <2>1
<1>4. SettlePairs(e, body) = [e EXCEPT !.token = t, !.plain = p]
  BY DEF SettlePairs, parsed
<1> HIDE DEF t, p
<1>5. /\ DOMAIN SettlePairs(e, body) = {"kind", "token", "own", "plain"}
      /\ SettlePairs(e, body).token = t /\ SettlePairs(e, body).plain = p
  BY <1>4 DEF SoundEntry
<1> QED BY <1>2, <1>3, <1>5 DEF SoundEntry

\* What an entry has besides is no part of the pairs.
LEMMA OwnSound ==
    ASSUME NEW k, NEW e, SoundEntry(e, k), NEW own PROVE SoundEntry([e EXCEPT !.own = own], k)
<1> DEFINE x == [e EXCEPT !.own = own]
<1>1. DOMAIN x = {"kind", "token", "own", "plain"} /\ x.token = e.token /\ x.plain = e.plain
  BY DEF SoundEntry
<1> HIDE DEF x
<1>2. SoundEntry(x, k)
  BY <1>1 DEF SoundEntry
<1> QED BY <1>2 DEF x

LEMMA EntryOrSound ==
    ASSUME AccountInv, NEW n \in Names[akind], NEW own
    PROVE  SoundEntry(EntryOr(n, Fresh(akind, own)), akind)
BY FreshSound, GetEntrySame DEF AccountInv, EntryOr, Exists

\* A write of an entry that is sound.
LEMMA PutSound ==
    ASSUME AccountInv, NEW n \in Names[akind], NEW e, SoundEntry(e, akind), Put(n, e)
    PROVE  AccountInv'
<1>1. acct' = [acct EXCEPT ![n] = e] /\ akind' = akind /\ asess' = asess
  BY DEF Put
<1>2. \A m \in Names[akind] : acct'[m] = IF m = n THEN e ELSE acct[m]
  BY <1>1 DEF AccountInv
<1>3. DOMAIN acct' = DOMAIN acct
  BY <1>1
<1>4. ASSUME NEW m \in Names[akind], acct'[m] # NoAccount
      PROVE  SoundEntry(acct'[m], akind)
  BY <1>2, <1>4 DEF AccountInv
<1> QED BY <1>1, <1>3, <1>4 DEF AccountInv

LEMMA SetRoleSound ==
    ASSUME AccountInv, akind = "role", NEW e, SoundEntry(e, "role"), set_role(e)
    PROVE  AccountInv'
<1>1. Put("app", e) /\ "app" \in Names[akind]
  BY DEF set_role, Names
<1> QED BY <1>1, PutSound

\* The stored role, as the requests for one field read it.
LEMMA StoredSound ==
    ASSUME AccountInv, NEW n \in Names[akind], Exists(n)
    PROVE  SoundEntry(GetEntry(acct[n]), akind)
BY GetEntrySame DEF AccountInv, Exists

\* A setting without an older field beside it, or both.
LEMMA TokenFieldSound ==
    ASSUME NEW k, NEW e, SoundEntry(e, k), NEW f, f \notin Paired[k], NEW v
    PROVE  SoundEntry([e EXCEPT !.token[f] = v], k)
<1> DEFINE t == [e.token EXCEPT ![f] = v]
           x == [e EXCEPT !.token[f] = v]
<1>1. DOMAIN x = {"kind", "token", "own", "plain"} /\ x.token = t /\ x.plain = e.plain
  BY DEF SoundEntry
<1>2. DOMAIN t = DOMAIN TokenParams /\ \A g \in DOMAIN TokenParams : g # f => t[g] = e.token[g]
  BY DEF SoundEntry
<1>3. \A g \in Paired[k] : g # f => t[g] = e.token[g]
  OBVIOUS
<1> HIDE DEF x, t
<1>4. SoundEntry(x, k)
  BY <1>1, <1>2, <1>3 DEF SoundEntry
<1> QED BY <1>4 DEF x

LEMMA PairSound ==
    ASSUME NEW k \in {"role", "user", "cert"}, NEW e, SoundEntry(e, k), NEW f \in Paired[k], NEW v,
           NEW x, DOMAIN x = {"kind", "token", "own", "plain"},
           x.token = [e.token EXCEPT ![f] = v], x.plain = [e.plain EXCEPT ![f] = v]
    PROVE  SoundEntry(x, k)
<1>1. f \in DOMAIN e.token /\ f \in DOMAIN e.plain
  BY PairFacts DEF SoundEntry
<1>2. \A g \in Paired[k] : x.plain[g] = x.token[g]
  BY <1>1, PairFacts DEF SoundEntry
<1> QED BY <1>2 DEF SoundEntry

LEMMA RoleRequestSound ==
    ASSUME AccountInv, RoleRequest PROVE AccountInv'
<1>0. akind = "role" /\ "app" \in Names[akind]
  BY DEF RoleRequest, Names
<1>1. ASSUME NEW body, write_role(body) PROVE AccountInv'
  <2> DEFINE d == EntryOr("app", Fresh("role", RoleOwn))
             e == SettlePairs(d, body)
             own == RoleOwnFields(e.own, body.own, ~Exists("app"))
  <2>1. SoundEntry(d, "role")
    BY <1>0, EntryOrSound
  <2> HIDE DEF d
  <2>2. SoundEntry(e, "role")
    BY <2>1, SettlePairsSound
  <2>3. set_role([e EXCEPT !.own = own])
    BY <1>1 DEF write_role, d
  <2> HIDE DEF e, own
  <2>4. SoundEntry([e EXCEPT !.own = own], "role")
    BY <2>2, OwnSound
  <2> QED BY <1>0, <2>3, <2>4, SetRoleSound
<1> DEFINE g == GetEntry(acct["app"])
<1>2. Exists("app") => SoundEntry(g, "role")
  BY <1>0, StoredSound
<1> HIDE DEF g
<1>3. ASSUME NEW p, Exists("app"), set_role([g EXCEPT !.token.policies = p, !.plain.policies = p])
      PROVE  AccountInv'
  <2> DEFINE x == [g EXCEPT !.token.policies = p, !.plain.policies = p]
  <2>1. /\ DOMAIN x = {"kind", "token", "own", "plain"}
        /\ x.token = [g.token EXCEPT !["policies"] = p] /\ x.plain = [g.plain EXCEPT !["policies"] = p]
    BY <1>2, <1>3 DEF SoundEntry
  <2>2. set_role(x)
    BY <1>3
  <2> HIDE DEF x
  <2>3. SoundEntry(x, "role")
    BY <1>2, <1>3, <2>1, PairSound, PairFacts
  <2> QED BY <1>0, <2>2, <2>3, SetRoleSound
<1>4. ASSUME NEW p, Exists("app"), set_role([g EXCEPT !.token.period = p, !.plain.period = p])
      PROVE  AccountInv'
  <2> DEFINE x == [g EXCEPT !.token.period = p, !.plain.period = p]
  <2>1. /\ DOMAIN x = {"kind", "token", "own", "plain"}
        /\ x.token = [g.token EXCEPT !["period"] = p] /\ x.plain = [g.plain EXCEPT !["period"] = p]
    BY <1>2, <1>4 DEF SoundEntry
  <2>2. set_role(x) /\ "period" \in Paired["role"]
    BY <1>4 DEF Paired
  <2> HIDE DEF x
  <2>3. SoundEntry(x, "role")
    BY <1>2, <1>4, <2>1, <2>2, PairSound
  <2> QED BY <1>0, <2>2, <2>3, SetRoleSound
<1>5. ASSUME NEW f, NEW v, Exists("app"), set_role([g EXCEPT !.own[f] = v]) PROVE AccountInv'
  <2>1. [g EXCEPT !.own[f] = v] = [g EXCEPT !.own = [g.own EXCEPT ![f] = v]]
    BY <1>2, <1>5 DEF SoundEntry
  <2> DEFINE o == [g.own EXCEPT ![f] = v]
  <2>2. set_role([g EXCEPT !.own = o])
    BY <1>5, <2>1
  <2> HIDE DEF o
  <2> QED BY <1>0, <1>2, <1>5, <2>2, OwnSound, SetRoleSound
<1>6. ASSUME NEW f \in TokenFieldPaths \ {"period"}, NEW v, Exists("app"),
             set_role([g EXCEPT !.token[f] = v])
      PROVE  AccountInv'
  <2>1. f \notin Paired["role"]
    BY DEF TokenFieldPaths, Paired
  <2> QED BY <1>0, <1>2, <1>6, <2>1, TokenFieldSound, SetRoleSound
<1>7. CASE \E body \in AccountBodies["role"] : write_role(body)
  BY <1>1, <1>7
<1>8. CASE \E body \in AccountBodies["role"] : write_role_policies(body.token.policies)
  BY <1>3, <1>8 DEF write_role_policies, g
<1>9. CASE delete_role_policies
  BY <1>3, <1>9 DEF delete_role_policies, g
<1>10. ASSUME NEW f \in OwnFieldPaths \cup TokenFieldPaths, NEW v, update_role_field(f, v)
       PROVE  AccountInv'
  <2>1. Exists("app") /\ set_role(UpdatedField(g, f, v))
    BY <1>10 DEF update_role_field, g
  <2>2. CASE f = "period"
    <3>1. UpdatedField(g, f, v) = [g EXCEPT !.token.period = v, !.plain.period = v]
      BY <2>2 DEF UpdatedField, OwnFieldPaths, TokenFieldPaths
    <3> QED BY <1>4, <2>1, <3>1
  <2>3. CASE f = "bound_cidr_list"
    <3>1. UpdatedField(g, f, v) = [g EXCEPT !.own["secret_id_bound_cidrs"] = v]
      BY <2>3 DEF UpdatedField, OwnFieldPaths, TokenFieldPaths
    <3> QED BY <1>5, <2>1, <3>1
  <2>4. CASE f \in OwnFieldPaths \ {"bound_cidr_list"}
    <3>1. UpdatedField(g, f, v) = [g EXCEPT !.own[f] = v]
      BY <2>4 DEF UpdatedField, OwnFieldPaths, TokenFieldPaths
    <3> QED BY <1>5, <2>1, <3>1
  <2>5. CASE f \in TokenFieldPaths \ {"period"}
    <3>1. UpdatedField(g, f, v) = [g EXCEPT !.token[f] = v]
      BY <2>5 DEF UpdatedField, OwnFieldPaths, TokenFieldPaths
    <3> QED BY <1>6, <2>1, <2>5, <3>1
  <2> QED BY <2>2, <2>3, <2>4, <2>5
<1>11. ASSUME NEW f \in OwnFieldPaths \cup TokenFieldPaths, delete_role_field(f)
       PROVE  AccountInv'
  <2>1. Exists("app") /\
        set_role(CASE f = "bind_secret_id" -> [g EXCEPT !.own[f] = TRUE]
                  [] f \in OwnFieldPaths \ {"bind_secret_id"} -> [g EXCEPT !.own[f] = RoleOwn[f]]
                  [] f = "period" -> [g EXCEPT !.token.period = 0, !.plain.period = 0]
                  [] f \in TokenFieldPaths \ {"period"} -> [g EXCEPT !.token[f] = TokenParams[f]])
    BY <1>11 DEF delete_role_field, g
  <2>2. CASE f = "bind_secret_id"
    <3>1. set_role([g EXCEPT !.own[f] = TRUE])
      BY <2>1, <2>2 DEF OwnFieldPaths, TokenFieldPaths
    <3> QED BY <1>5, <2>1, <3>1
  <2>3. CASE f \in OwnFieldPaths \ {"bind_secret_id"}
    <3>1. set_role([g EXCEPT !.own[f] = RoleOwn[f]])
      BY <2>1, <2>3 DEF OwnFieldPaths, TokenFieldPaths
    <3> QED BY <1>5, <2>1, <3>1
  <2>4. CASE f = "period"
    <3>1. set_role([g EXCEPT !.token.period = 0, !.plain.period = 0])
      BY <2>1, <2>4 DEF OwnFieldPaths, TokenFieldPaths
    <3> QED BY <1>4, <2>1, <3>1
  <2>5. CASE f \in TokenFieldPaths \ {"period"}
    <3>1. set_role([g EXCEPT !.token[f] = TokenParams[f]])
      BY <2>1, <2>5 DEF OwnFieldPaths, TokenFieldPaths
    <3> QED BY <1>6, <2>1, <2>5, <3>1
  <2> QED BY <2>2, <2>3, <2>4, <2>5
<1> QED BY <1>7, <1>8, <1>9, <1>10, <1>11 DEF RoleRequest

\* A login or a renewal leaves the accounts alone.
LEMMA SessionSound ==
    ASSUME AccountInv, akind' = akind, acct' = acct, asess'.key \in Names[akind], SessionShape(asess')
    PROVE  AccountInv'
BY DEF AccountInv, SessionShape

LEMMA GrantAuthSound ==
    ASSUME AccountInv, NEW n \in Names[akind], NEW e, GrantAuth(n, e) PROVE AccountInv'
<1>1. akind' = akind /\ acct' = acct /\ asess' = [key |-> n, auth |-> populate_token_auth(e.token)]
  BY DEF GrantAuth
<1>2. asess'.key = n /\ SessionShape(asess')
  BY <1>1 DEF SessionShape, populate_token_auth
<1> QED BY <1>1, <1>2, SessionSound

\* A renewal changes three fields of the auth.
Renewed(s, p, t, m) == [s EXCEPT !.auth.period = p, !.auth.ttl = t, !.auth.max_ttl = m]

LEMMA RenewedSession ==
    ASSUME NEW s, SessionShape(s), NEW p, NEW t, NEW m
    PROVE  /\ SessionShape(Renewed(s, p, t, m)) /\ Renewed(s, p, t, m).key = s.key
           /\ Renewed(s, p, t, m).auth.policies = s.auth.policies
<1> DEFINE s2 == Renewed(s, p, t, m)
           a == [s.auth EXCEPT !.period = p, !.ttl = t, !.max_ttl = m]
<1>1. DOMAIN a = DOMAIN s.auth /\ a.policies = s.auth.policies
  BY DEF SessionShape
<1>2. s2 = [s EXCEPT !.auth = a]
  BY DEF SessionShape, Renewed
<1> HIDE DEF a, s2
<1>3. DOMAIN s2 = DOMAIN s /\ s2.auth = a /\ s2.key = s.key
  BY <1>2 DEF SessionShape
<1>4. SessionShape(s2) /\ s2.key = s.key /\ s2.auth.policies = s.auth.policies
  BY <1>1, <1>3 DEF SessionShape
<1> QED BY <1>4 DEF s2

LEMMA UserRequestSound ==
    ASSUME AccountInv, UserRequest PROVE AccountInv'
<1>0. akind = "user" /\ \A n \in Names["user"] : Lower(n) \in Names["user"]
  BY DEF UserRequest, Names, Lower
<1>1. ASSUME NEW n \in Names["user"], NEW body, write_user(n, body) PROVE AccountInv'
  <2> DEFINE e == EntryOr(Lower(n), Fresh("user", UserOwn))
             h == [e EXCEPT !.own.password_hash = body.own.password]
  <2>1. SoundEntry(e, "user")
    BY <1>0, EntryOrSound
  <2> HIDE DEF e
  <2>2. SoundEntry(h, "user")
    <3> DEFINE o == [e.own EXCEPT !.password_hash = body.own.password]
    <3>1. h = [e EXCEPT !.own = o]
      BY <2>1 DEF SoundEntry
    <3> HIDE DEF h, o
    <3> QED BY <2>1, <3>1, OwnSound
  <2>3. \/ Put(Lower(n), SettlePairs(e, body))
        \/ Put(Lower(n), SettlePairs(h, body))
    BY <1>1 DEF write_user, e
  <2> HIDE DEF h
  <2>4. SoundEntry(SettlePairs(e, body), "user") /\ SoundEntry(SettlePairs(h, body), "user")
    BY <2>1, <2>2, SettlePairsSound
  <2> QED BY <1>0, <2>3, <2>4, PutSound
<1>2. ASSUME NEW n \in Names["user"], NEW p, write_user_password(n, p) PROVE AccountInv'
  <2> DEFINE e == EntryOr(Lower(n), Fresh("user", UserOwn))
             h == [e EXCEPT !.own.password_hash = p]
  <2>1. SoundEntry(e, "user")
    BY <1>0, EntryOrSound
  <2>2. Put(n, h)
    BY <1>2 DEF write_user_password
  <2> HIDE DEF e
  <2>3. SoundEntry(h, "user")
    <3> DEFINE o == [e.own EXCEPT !.password_hash = p]
    <3>1. h = [e EXCEPT !.own = o]
      BY <2>1 DEF SoundEntry
    <3> HIDE DEF h, o
    <3> QED BY <2>1, <3>1, OwnSound
  <2> HIDE DEF h
  <2> QED BY <1>0, <2>2, <2>3, PutSound
<1>3. ASSUME NEW n \in Names["user"], NEW p, user_login(n, p) PROVE AccountInv'
  BY <1>0, <1>3, GrantAuthSound DEF user_login
<1> QED BY <1>1, <1>2, <1>3 DEF UserRequest

LEMMA CertRequestSound ==
    ASSUME AccountInv, akind = "cert", NEW body, write_cert(body) PROVE AccountInv'
<1>0. "web" \in Names[akind]
  BY DEF Names
<1> DEFINE e == EntryOr("web", Fresh("cert", CertOwn))
<1>1. SoundEntry(e, "cert")
  BY <1>0, EntryOrSound
<1> HIDE DEF e
<1>2. \E b, own : Put("web", [SettlePairs(e, b) EXCEPT !.own = own])
  BY DEF write_cert, e
<1>3. ASSUME NEW b, NEW own, Put("web", [SettlePairs(e, b) EXCEPT !.own = own]) PROVE AccountInv'
  <2>1. SoundEntry(SettlePairs(e, b), "cert")
    BY <1>1, SettlePairsSound
  <2>2. SoundEntry([SettlePairs(e, b) EXCEPT !.own = own], "cert")
    BY <2>1, OwnSound
  <2> QED BY <1>0, <1>3, <2>2, PutSound
<1> QED BY <1>2, <1>3

LEMMA DeleteSound ==
    ASSUME AccountInv, NEW n \in Names[akind], DeleteAccount(n) PROVE AccountInv'
<1>1. /\ acct' = [acct EXCEPT ![Lower(n)] = NoAccount] /\ akind' = akind /\ asess' = asess
  BY DEF DeleteAccount
<1>2. \A m \in Names[akind] : acct'[m] = NoAccount \/ acct'[m] = acct[m]
  BY <1>1 DEF AccountInv
<1>3. DOMAIN acct' = DOMAIN acct
  BY <1>1
<1> QED BY <1>1, <1>2, <1>3 DEF AccountInv

LEMMA AccountNextSound == AccountInv /\ [AccountNext]_accountVars => AccountInv'
<1> SUFFICES ASSUME AccountInv, [AccountNext]_accountVars PROVE AccountInv'
  OBVIOUS
<1>1. CASE \E n \in Names[akind] : AcceptedLogin(n)
  BY <1>1, GrantAuthSound DEF AcceptedLogin
<1>2. CASE RenewLogin
  <2>1. /\ asess.key \in Names[akind] /\ SessionShape(asess)
        /\ akind' = akind /\ acct' = acct
    BY <1>2 DEF RenewLogin, AccountInv
  <2>2. PICK p, t, m : asess' = Renewed(asess, p, t, m)
    BY <1>2 DEF RenewLogin, Renewed
  <2>3. asess'.key = asess.key /\ SessionShape(asess')
    BY <2>1, <2>2, RenewedSession DEF SessionShape
  <2> QED BY <2>1, <2>3, SessionSound
<1>3. CASE UNCHANGED accountVars
  BY <1>3 DEF AccountInv, accountVars, SessionShape
<1> QED BY <1>1, <1>2, <1>3, RoleRequestSound, UserRequestSound, CertRequestSound, DeleteSound
        DEF AccountNext

LEMMA AccountInitSound == AccountInit => AccountInv
BY DEF AccountInit, AccountInv, Paired

LEMMA AccountInvCoherent == AccountInv => AccountsCoherent
BY DEF AccountsCoherent, AccountInv, SoundEntry, Exists

\* After any sequence of writes with any bodies, writes and deletes of one field,
\* logins and renewals: the two names of a setting say the same in storage
\* (path_role.rs, path_users.rs, path_certs.rs).
THEOREM AccountsStayCoherent == AccountSpec => []AccountsCoherent
BY AccountInitSound, AccountNextSound, AccountInvCoherent, PTL DEF AccountSpec

\* What a step gives a client are policies of the account as it is.
GrantHolds ==
    equivalent_policies(GetEntry(acct[asess'.key]).token.policies, asess'.auth.policies)

LEMMA EquivalentSelf == \A a : equivalent_policies(a, a)
BY DEF equivalent_policies

LEMMA GrantAuthHolds ==
    ASSUME NEW n, GrantAuth(n, GetEntry(acct[n])) PROVE GrantHolds
<1> DEFINE t == GetEntry(acct[n]).token
<1>1. asess' = [key |-> n, auth |-> populate_token_auth(t)]
  BY DEF GrantAuth
<1> HIDE DEF t
<1>2. asess'.key = n /\ asess'.auth.policies = t.policies
  BY <1>1 DEF populate_token_auth
<1> QED BY <1>2, EquivalentSelf DEF GrantHolds, t

LEMMA RenewLoginHolds == ASSUME AccountInv, RenewLogin PROVE GrantHolds
<1>1. /\ asess # NoSession /\ asess.key \in Names[akind] /\ Exists(asess.key)
      /\ SessionShape(asess)
  BY DEF RenewLogin, Renewable, AccountInv
<1> DEFINE g == GetEntry(acct[asess.key])
<1>2. SoundEntry(g, akind) /\ akind \in {"role", "user", "cert"}
  BY <1>1, StoredSound DEF AccountInv
<1>3. g.plain.policies = g.token.policies
  BY <1>2, PairFacts DEF SoundEntry
<1>4. equivalent_policies(g.plain.policies, asess.auth.policies)
  BY DEF RenewLogin, Renewable
<1>5. asess'.key = asess.key /\ asess'.auth.policies = asess.auth.policies
  <2>1. PICK p, t, m : asess' = Renewed(asess, p, t, m)
    BY DEF RenewLogin, Renewed
  <2> QED BY <1>1, <2>1, RenewedSession
<1> QED BY <1>3, <1>4, <1>5 DEF GrantHolds

LEMMA AccountStepGrants ==
    ASSUME AccountInv, AccountNext, asess' # asess PROVE GrantHolds
<1>1. CASE RenewLogin
  BY <1>1, RenewLoginHolds
<1>2. ASSUME NEW n, AcceptedLogin(n) PROVE GrantHolds
  BY <1>2, GrantAuthHolds DEF AcceptedLogin
<1>3. ASSUME NEW n, NEW p, user_login(n, p) PROVE GrantHolds
  BY <1>3, GrantAuthHolds DEF user_login
<1>4. CASE UserRequest
  BY <1>3, <1>4 DEF UserRequest, write_user, write_user_password, Put
<1>5. CASE RoleRequest
  <2>1. ASSUME NEW e, set_role(e) PROVE asess' = asess
    BY <2>1 DEF set_role, Put
  <2> QED BY <1>5, <2>1 DEF RoleRequest, write_role, write_role_policies, delete_role_policies,
                            update_role_field, delete_role_field
<1>6. ASSUME NEW body, write_cert(body) PROVE asess' = asess
  BY <1>6 DEF write_cert, Put
<1>7. ASSUME NEW n, DeleteAccount(n) PROVE asess' = asess
  BY <1>7 DEF DeleteAccount
<1> QED BY <1>1, <1>2, <1>4, <1>5, <1>6, <1>7 DEF AccountNext

\* Whatever bodies are written in between: who logs in or renews has, after it,
\* the policies of the account as it is then, but for "default" (login and
\* login_renew of userpass and cert, login of AppRole).
THEOREM GrantsAreTheAccounts == AccountSpec => GrantsFollowAccount
<1>1. AccountInv /\ [AccountNext]_accountVars
        => [asess' # asess => GrantHolds]_accountVars
  BY AccountStepGrants DEF accountVars
<1>2. AccountSpec => []AccountInv
  BY AccountInitSound, AccountNextSound, PTL DEF AccountSpec
<1>3. AccountSpec => [][asess' # asess => GrantHolds]_accountVars
  BY <1>1, <1>2, PTL DEF AccountSpec
<1> QED BY <1>3 DEF GrantsFollowAccount, GrantHolds

-----------------------------------------------------------------------------
(* The ACL made of a token's policies *)

\* A map: a function, whatever its domain.
IsMap(f) == f = [k \in DOMAIN f |-> f[k]]

\* What a set of maps of parameters says together.
Together(maps) ==
    [k \in UNION {DOMAIN f : f \in maps} |->
        LET lists == {f[k] : f \in {f \in maps : k \in DOMAIN f}}
        IN  IF {} \in lists THEN {} ELSE UNION lists]

PermsShape(p) ==
    /\ p = [caps |-> p.caps, min |-> p.min, max |-> p.max, allowed |-> p.allowed,
            denied |-> p.denied, required |-> p.required]
    /\ IsMap(p.allowed) /\ IsMap(p.denied)

AllowedOf(rp) == {p.allowed : p \in RulesAt(rp)}
DeniedOf(rp)  == {p.denied : p \in RulesAt(rp)}

\* What AclOrderFree says of one path.
Merged(rp) ==
    /\ acl[rp].caps = MeaningCaps(rp)
    /\ "deny" \notin acl[rp].caps =>
          /\ acl[rp].allowed = Together(AllowedOf(rp))
          /\ acl[rp].denied = Together(DeniedOf(rp))
          /\ acl[rp].required = UNION {p.required : p \in RulesAt(rp)}

AclInv ==
    /\ acl = [q \in DOMAIN acl |-> acl[q]]
    /\ \A rp : rp \in DOMAIN acl <=> RulesAt(rp) # {}
    /\ \A r \in added : r = [path |-> r.path, perms |-> r.perms] /\ PermsShape(r.perms)
    /\ \A rp \in DOMAIN acl : PermsShape(acl[rp]) /\ Merged(rp)

\* One map is what it says.
LEMMA TogetherOne ==
    ASSUME NEW g, IsMap(g) PROVE Together({g}) = g
<1>1. DOMAIN Together({g}) = DOMAIN g
  BY DEF Together
<1>2. ASSUME NEW k \in DOMAIN g PROVE Together({g})[k] = g[k]
  <2>1. {f[k] : f \in {f \in {g} : k \in DOMAIN f}} = {g[k]}
    OBVIOUS
  <2>2. Together({g})[k] = IF {} \in {g[k]} THEN {} ELSE UNION {g[k]}
    BY <2>1, <1>1 DEF Together
  <2>3. UNION {g[k]} = g[k]
    OBVIOUS
  <2> QED BY <2>2, <2>3
<1>3. Together({g}) = [k \in DOMAIN g |-> Together({g})[k]]
  BY <1>1 DEF Together
<1> QED BY <1>1, <1>2, <1>3 DEF IsMap

LEMMA UnionOneMore ==
    ASSUME NEW A, NEW x PROVE UNION (A \cup {x}) = (UNION A) \cup x
OBVIOUS

\* merge_parameters adds one map to what the others say together.
LEMMA TogetherMerge ==
    ASSUME NEW maps, NEW g, IsMap(g)
    PROVE  merge_parameters(Together(maps), g) = Together(maps \cup {g})
<1> DEFINE T == Together(maps)
           U == Together(maps \cup {g})
           M == merge_parameters(T, g)
           Lists(S, k) == {f[k] : f \in {f \in S : k \in DOMAIN f}}
<1>1. /\ DOMAIN T = UNION {DOMAIN f : f \in maps}
      /\ DOMAIN U = UNION {DOMAIN f : f \in maps \cup {g}}
      /\ DOMAIN M = DOMAIN T \cup DOMAIN g
  BY DEF Together, merge_parameters
<1>2. DOMAIN M = DOMAIN U
  BY <1>1
<1>3. ASSUME NEW k \in DOMAIN M PROVE M[k] = U[k]
  <2>1. /\ k \in DOMAIN T => T[k] = IF {} \in Lists(maps, k) THEN {} ELSE UNION Lists(maps, k)
        /\ U[k] = IF {} \in Lists(maps \cup {g}, k) THEN {} ELSE UNION Lists(maps \cup {g}, k)
    BY <1>1, <1>2 DEF Together
  <2>2. M[k] = CASE k \notin DOMAIN T -> g[k]
                 [] k \notin DOMAIN g -> T[k]
                 [] OTHER -> IF T[k] = {} \/ g[k] = {} THEN {} ELSE T[k] \cup g[k]
    BY DEF merge_parameters
  <2>3. CASE k \notin DOMAIN T
    <3>1. Lists(maps \cup {g}, k) = {g[k]}
      BY <2>3, <1>1
    <3>2. UNION {g[k]} = g[k]
      OBVIOUS
    <3>3. M[k] = g[k]
      <4> HIDE DEF T, M
      <4> QED BY <2>2, <2>3, <1>1
    <3>4. U[k] = g[k]
      <4> HIDE DEF Lists, U
      <4> QED BY <3>1, <3>2, <2>1
    <3> QED BY <3>3, <3>4
  <2>4. CASE k \in DOMAIN T /\ k \notin DOMAIN g
    <3>1. Lists(maps \cup {g}, k) = Lists(maps, k)
      BY <2>4
    <3> QED BY <3>1, <2>1, <2>2, <2>4
  <2>5. CASE k \in DOMAIN T /\ k \in DOMAIN g
    <3>1. Lists(maps \cup {g}, k) = Lists(maps, k) \cup {g[k]}
      BY <2>5
    <3>2. M[k] = IF T[k] = {} \/ g[k] = {} THEN {} ELSE T[k] \cup g[k]
      BY <2>2, <2>5
    <3>3. PICK f \in maps : k \in DOMAIN f
      BY <2>5, <1>1
    <3>4. f[k] \in Lists(maps, k)
      BY <3>3
    <3> HIDE DEF Lists, T, U, M
    <3>5. CASE {} \in Lists(maps, k)
      BY <3>5, <3>1, <3>2, <2>1, <2>5
    <3>6. CASE {} \notin Lists(maps, k)
      <4>1. T[k] = UNION Lists(maps, k)
        BY <3>6, <2>1, <2>5
      <4>2. T[k] # {}
        <5>1. f[k] # {}
          BY <3>4, <3>6
        <5>2. f[k] \subseteq T[k]
          BY <3>4, <4>1
        <5> QED BY <5>1, <5>2
      <4>3. CASE g[k] = {}
        BY <4>3, <3>1, <3>2, <2>1
      <4>4. CASE g[k] # {}
        <5>1. UNION (Lists(maps, k) \cup {g[k]}) = (UNION Lists(maps, k)) \cup g[k]
          BY UnionOneMore
        <5>2. {} \notin Lists(maps \cup {g}, k)
          BY <4>4, <3>1, <3>6
        <5>3. M[k] = T[k] \cup g[k]
          BY <4>2, <4>4, <3>2
        <5>4. U[k] = UNION Lists(maps \cup {g}, k)
          BY <5>2, <2>1
        <5> QED BY <5>1, <5>3, <5>4, <4>1, <3>1
      <4> QED BY <4>3, <4>4
    <3> QED BY <3>5, <3>6
  <2> QED BY <2>3, <2>4, <2>5, <1>1
<1>4. M = [k \in DOMAIN M |-> M[k]] /\ U = [k \in DOMAIN U |-> U[k]]
  BY DEF merge_parameters, Together
<1>5. M = U
  <2> HIDE DEF M, U
  <2> QED BY <1>2, <1>3, <1>4
<1> QED BY <1>5

LEMMA TogetherMap ==
    ASSUME NEW maps PROVE IsMap(Together(maps))
BY DEF Together, IsMap

LEMMA MergeMap ==
    ASSUME NEW f, NEW g PROVE IsMap(merge_parameters(f, g))
BY DEF merge_parameters, IsMap

\* The meaning AclOrderFree speaks of, over the maps of the rules.
LEMMA MeaningTogether ==
    ASSUME NEW rp
    PROVE  /\ MeaningParams(rp, LAMBDA p : p.allowed) = Together(AllowedOf(rp))
           /\ MeaningParams(rp, LAMBDA p : p.denied) = Together(DeniedOf(rp))
<1>1. /\ UNION {DOMAIN p.allowed : p \in RulesAt(rp)} = UNION {DOMAIN f : f \in AllowedOf(rp)}
      /\ UNION {DOMAIN p.denied : p \in RulesAt(rp)} = UNION {DOMAIN f : f \in DeniedOf(rp)}
  BY DEF AllowedOf, DeniedOf
<1>2. ASSUME NEW k
      PROVE  /\ {p.allowed[k] : p \in {p \in RulesAt(rp) : k \in DOMAIN p.allowed}}
                  = {f[k] : f \in {f \in AllowedOf(rp) : k \in DOMAIN f}}
             /\ {p.denied[k] : p \in {p \in RulesAt(rp) : k \in DOMAIN p.denied}}
                  = {f[k] : f \in {f \in DeniedOf(rp) : k \in DOMAIN f}}
  BY DEF AllowedOf, DeniedOf
<1> HIDE DEF AllowedOf, DeniedOf
<1>3. MeaningParams(rp, LAMBDA p : p.allowed) = Together(AllowedOf(rp))
  BY <1>1, <1>2 DEF MeaningParams, Together
<1>4. MeaningParams(rp, LAMBDA p : p.denied) = Together(DeniedOf(rp))
  BY <1>1, <1>2 DEF MeaningParams, Together
<1> QED BY <1>3, <1>4

LEMMA AclInitInv == AclInit => AclInv
<1> SUFFICES ASSUME AclInit PROVE AclInv
  OBVIOUS
<1>1. acl = <<>> /\ added = {} /\ DOMAIN acl = {}
  BY DEF AclInit
<1>2. acl = [q \in DOMAIN acl |-> acl[q]]
  BY <1>1
<1>3. ASSUME NEW rp PROVE RulesAt(rp) = {}
  BY <1>1 DEF RulesAt
<1> QED BY <1>1, <1>2, <1>3 DEF AclInv

\* What parsing makes of a body is a set of permissions.
LEMMA RuleShape ==
    ASSUME NEW body, IsMap(body.allowed), IsMap(body.denied)
    PROVE  PermsShape(rule_permissions(body))
<1> DEFINE p == rule_permissions(body)
<1>1. p.allowed = body.allowed /\ p.denied = body.denied
  BY DEF rule_permissions
<1>2. p = [caps |-> p.caps, min |-> p.min, max |-> p.max, allowed |-> p.allowed,
           denied |-> p.denied, required |-> p.required]
  BY DEF rule_permissions
<1> QED BY <1>1, <1>2 DEF PermsShape

\* Permissions::merge in words: a deny of either side stays alone.
LEMMA MergeSays ==
    ASSUME NEW mine, NEW other, PermsShape(mine), PermsShape(other)
    PROVE  /\ PermsShape(merge(mine, other))
           /\ "deny" \in mine.caps => merge(mine, other).caps = mine.caps
           /\ "deny" \notin mine.caps /\ "deny" \in other.caps =>
                 merge(mine, other).caps = {"deny"}
           /\ "deny" \notin mine.caps /\ "deny" \notin other.caps =>
                 /\ merge(mine, other).caps = mine.caps \cup other.caps
                 /\ merge(mine, other).allowed = merge_parameters(mine.allowed, other.allowed)
                 /\ merge(mine, other).denied = merge_parameters(mine.denied, other.denied)
                 /\ merge(mine, other).required = mine.required \cup other.required
<1> DEFINE m == merge(mine, other)
<1>1. CASE "deny" \in mine.caps
  <2>1. m = mine
    BY <1>1 DEF merge
  <2> QED BY <2>1, <1>1
<1>2. CASE "deny" \notin mine.caps /\ "deny" \in other.caps
  <2>1. m = [mine EXCEPT !.caps = {"deny"}, !.allowed = <<>>, !.denied = <<>>]
    BY <1>2 DEF merge
  <2>2. m = [caps |-> {"deny"}, min |-> mine.min, max |-> mine.max, allowed |-> <<>>,
             denied |-> <<>>, required |-> mine.required]
    BY <2>1 DEF PermsShape
  <2>3. m.caps = {"deny"} /\ m.allowed = <<>> /\ m.denied = <<>>
    BY <2>2
  <2>4. m = [caps |-> m.caps, min |-> m.min, max |-> m.max, allowed |-> m.allowed,
             denied |-> m.denied, required |-> m.required]
    BY <2>2
  <2>5. IsMap(<<>>)
    BY DEF IsMap
  <2>6. PermsShape(m)
    <3> HIDE DEF m
    <3> QED BY <2>3, <2>4, <2>5 DEF PermsShape
  <2> QED BY <2>3, <2>6, <1>2
<1>3. CASE "deny" \notin mine.caps /\ "deny" \notin other.caps
  <2>1. m = [caps |-> mine.caps \cup other.caps, min |-> Larger(mine.min, other.min),
             max |-> Larger(mine.max, other.max),
             allowed |-> merge_parameters(mine.allowed, other.allowed),
             denied |-> merge_parameters(mine.denied, other.denied),
             required |-> mine.required \cup other.required]
    BY <1>3 DEF merge
  <2>2. /\ m.caps = mine.caps \cup other.caps /\ m.required = mine.required \cup other.required
        /\ m.allowed = merge_parameters(mine.allowed, other.allowed)
        /\ m.denied = merge_parameters(mine.denied, other.denied)
    BY <2>1
  <2>3. m = [caps |-> m.caps, min |-> m.min, max |-> m.max, allowed |-> m.allowed,
             denied |-> m.denied, required |-> m.required]
    BY <2>1
  <2>4. IsMap(m.allowed) /\ IsMap(m.denied)
    BY <2>2, MergeMap
  <2>5. PermsShape(m)
    <3> HIDE DEF m
    <3> QED BY <2>3, <2>4 DEF PermsShape
  <2> QED BY <2>2, <2>5, <1>3
<1> QED BY <1>1, <1>2, <1>3

\* The rules of a path once one more rule is among those added.
LEMMA RulesAdded ==
    ASSUME NEW rp, NEW perms, added' = added \cup {[path |-> rp, perms |-> perms]}
    PROVE  /\ RulesAt(rp)' = RulesAt(rp) \cup {perms}
           /\ \A q : q # rp => RulesAt(q)' = RulesAt(q)
<1> DEFINE r == [path |-> rp, perms |-> perms]
           Under(S, q) == {x \in S : x.path = q}
<1>1. r.path = rp /\ r.perms = perms
  OBVIOUS
<1>2. \A q : RulesAt(q)' = {x.perms : x \in Under(added', q)} /\ RulesAt(q) = {x.perms : x \in Under(added, q)}
  BY DEF RulesAt
<1>3. added' = added \cup {r}
  OBVIOUS
<1> HIDE DEF r
<1>4. Under(added', rp) = Under(added, rp) \cup {r}
  BY <1>1, <1>3
<1>5. ASSUME NEW q, q # rp PROVE Under(added', q) = Under(added, q)
  BY <1>1, <1>3, <1>5
<1> HIDE DEF Under
<1>6. {x.perms : x \in Under(added, rp) \cup {r}} = {x.perms : x \in Under(added, rp)} \cup {r.perms}
  OBVIOUS
<1> QED BY <1>1, <1>2, <1>4, <1>5, <1>6

\* A path whose rules stay the same keeps its meaning.
LEMMA MergedKept ==
    ASSUME NEW q, RulesAt(q)' = RulesAt(q), acl'[q] = acl[q], Merged(q)
    PROVE  Merged(q)'
<1>1. MeaningCaps(q)' = MeaningCaps(q) /\ AllowedOf(q)' = AllowedOf(q) /\ DeniedOf(q)' = DeniedOf(q)
  BY DEF MeaningCaps, AllowedOf, DeniedOf
<1> QED BY <1>1 DEF Merged

\* The meaning of a path with one rule more.
LEMMA MeaningAdded ==
    ASSUME NEW rp, NEW perms, RulesAt(rp)' = RulesAt(rp) \cup {perms}
    PROVE  /\ AllowedOf(rp)' = AllowedOf(rp) \cup {perms.allowed}
           /\ DeniedOf(rp)' = DeniedOf(rp) \cup {perms.denied}
           /\ (UNION {p.required : p \in RulesAt(rp)})' =
                 (UNION {p.required : p \in RulesAt(rp)}) \cup perms.required
           /\ (UNION {p.caps : p \in RulesAt(rp)})' = (UNION {p.caps : p \in RulesAt(rp)}) \cup perms.caps
<1>1. AllowedOf(rp)' = AllowedOf(rp) \cup {perms.allowed} /\ DeniedOf(rp)' = DeniedOf(rp) \cup {perms.denied}
  BY DEF AllowedOf, DeniedOf
<1>2. (UNION {p.required : p \in RulesAt(rp)})' = (UNION {p.required : p \in RulesAt(rp)}) \cup perms.required
  OBVIOUS
<1>3. (UNION {p.caps : p \in RulesAt(rp)})' = (UNION {p.caps : p \in RulesAt(rp)}) \cup perms.caps
  OBVIOUS
<1> QED BY <1>1, <1>2, <1>3

\* A first rule at a path is what the path means.
LEMMA MergedFirst ==
    ASSUME NEW rp, NEW perms, PermsShape(perms), RulesAt(rp) = {},
           RulesAt(rp)' = RulesAt(rp) \cup {perms}, acl'[rp] = perms,
           "deny" \in perms.caps => perms.caps = {"deny"}
    PROVE  Merged(rp)'
<1>1. /\ AllowedOf(rp)' = {perms.allowed} /\ DeniedOf(rp)' = {perms.denied}
      /\ (UNION {p.required : p \in RulesAt(rp)})' = perms.required
      /\ (UNION {p.caps : p \in RulesAt(rp)})' = perms.caps
  <2>1. AllowedOf(rp) = {} /\ DeniedOf(rp) = {}
    BY DEF AllowedOf, DeniedOf
  <2> QED BY <2>1, MeaningAdded
<1>2. MeaningCaps(rp)' = perms.caps
  BY <1>1 DEF MeaningCaps
<1>3. Together({perms.allowed}) = perms.allowed /\ Together({perms.denied}) = perms.denied
  BY TogetherOne DEF PermsShape
<1> QED BY <1>1, <1>2, <1>3 DEF Merged

\* A rule merged with what is there.
LEMMA MergedMore ==
    ASSUME NEW rp, NEW perms, PermsShape(perms), PermsShape(acl[rp]), Merged(rp),
           RulesAt(rp)' = RulesAt(rp) \cup {perms}, acl'[rp] = merge(acl[rp], perms),
           "deny" \in perms.caps => perms.caps = {"deny"}
    PROVE  Merged(rp)'
<1> DEFINE U == UNION {p.caps : p \in RulesAt(rp)}
           V == (UNION {p.caps : p \in RulesAt(rp)})'
<1>1. V = U \cup perms.caps
  BY MeaningAdded
<1>2. /\ acl[rp].caps = IF "deny" \in U THEN {"deny"} ELSE U
      /\ MeaningCaps(rp)' = IF "deny" \in V THEN {"deny"} ELSE V
  BY DEF Merged, MeaningCaps
<1> HIDE DEF U, V
<1>3. CASE "deny" \in acl[rp].caps
  <2>1. acl'[rp].caps = acl[rp].caps
    BY <1>3, MergeSays
  <2>2. "deny" \in U
    BY <1>2, <1>3
  <2> QED BY <2>1, <2>2, <1>1, <1>2 DEF Merged
<1>4. CASE "deny" \notin acl[rp].caps /\ "deny" \in perms.caps
  <2>1. acl'[rp].caps = {"deny"}
    BY <1>4, MergeSays
  <2> QED BY <2>1, <1>1, <1>2, <1>4 DEF Merged
<1>5. CASE "deny" \notin acl[rp].caps /\ "deny" \notin perms.caps
  <2>1. /\ acl'[rp].caps = acl[rp].caps \cup perms.caps
        /\ acl'[rp].allowed = merge_parameters(acl[rp].allowed, perms.allowed)
        /\ acl'[rp].denied = merge_parameters(acl[rp].denied, perms.denied)
        /\ acl'[rp].required = acl[rp].required \cup perms.required
    BY <1>5, MergeSays
  <2>2. "deny" \notin U
    BY <1>2, <1>5
  <2>3. acl'[rp].caps = MeaningCaps(rp)'
    BY <2>1, <2>2, <1>1, <1>2, <1>5
  <2>4. /\ acl[rp].allowed = Together(AllowedOf(rp)) /\ acl[rp].denied = Together(DeniedOf(rp))
        /\ acl[rp].required = UNION {p.required : p \in RulesAt(rp)}
    BY <1>5 DEF Merged
  <2>5. /\ acl'[rp].allowed = Together(AllowedOf(rp)')
        /\ acl'[rp].denied = Together(DeniedOf(rp)')
        /\ acl'[rp].required = (UNION {p.required : p \in RulesAt(rp)})'
    BY <2>1, <2>4, TogetherMerge, MeaningAdded DEF PermsShape
  <2> QED BY <2>3, <2>5 DEF Merged
<1> QED BY <1>3, <1>4, <1>5

\* Policy::init leaves nothing beside a deny.
LEMMA DenyAlone ==
    ASSUME NEW body, "deny" \in rule_permissions(body).caps
    PROVE  rule_permissions(body).caps = {"deny"}
BY DEF rule_permissions, rule_capabilities

\* One more rule at a path, whichever way it was made.
LEMMA RuleAdded ==
    ASSUME AclInv, NEW rp, NEW perms, PermsShape(perms),
           "deny" \in perms.caps => perms.caps = {"deny"},
           added' = added \cup {[path |-> rp, perms |-> perms]},
           acl' = [q \in DOMAIN acl \cup {rp} |-> acl'[q]],
           \A q \in DOMAIN acl : q # rp => acl'[q] = acl[q],
           acl'[rp] = IF rp \in DOMAIN acl THEN merge(acl[rp], perms) ELSE perms
    PROVE  AclInv'
<1>1. /\ RulesAt(rp)' = RulesAt(rp) \cup {perms}
      /\ \A q : q # rp => RulesAt(q)' = RulesAt(q)
  BY RulesAdded
<1>2. DOMAIN acl' = DOMAIN acl \cup {rp}
  OBVIOUS
<1>3. acl' = [q \in DOMAIN acl' |-> acl'[q]]
  BY <1>2
<1>4. ASSUME NEW q PROVE q \in DOMAIN acl' <=> RulesAt(q)' # {}
  <2>1. q \in DOMAIN acl <=> RulesAt(q) # {}
    BY DEF AclInv
  <2> QED BY <2>1, <1>1, <1>2
<1>5. ASSUME NEW r \in added' PROVE r = [path |-> r.path, perms |-> r.perms] /\ PermsShape(r.perms)
  <2>1. CASE r \in added
    BY <2>1 DEF AclInv
  <2>2. CASE r = [path |-> rp, perms |-> perms]
    <3>1. r.path = rp /\ r.perms = perms
      BY <2>2
    <3> QED BY <3>1, <2>2
  <2> QED BY <2>1, <2>2
<1>6. ASSUME NEW q \in DOMAIN acl' PROVE PermsShape(acl'[q]) /\ Merged(q)'
  <2>1. CASE q # rp
    <3>1. q \in DOMAIN acl /\ acl'[q] = acl[q] /\ RulesAt(q)' = RulesAt(q)
      BY <2>1, <1>1, <1>2
    <3>2. PermsShape(acl[q]) /\ Merged(q)
      BY <3>1 DEF AclInv
    <3> QED BY <3>1, <3>2, MergedKept
  <2>2. CASE q = rp /\ rp \in DOMAIN acl
    <3>1. PermsShape(acl[rp]) /\ Merged(rp)
      BY <2>2 DEF AclInv
    <3>2. acl'[rp] = merge(acl[rp], perms)
      BY <2>2
    <3>3. PermsShape(acl'[rp])
      BY <3>1, <3>2, MergeSays
    <3>4. Merged(rp)'
      BY <3>1, <3>2, <1>1, MergedMore
    <3> QED BY <3>3, <3>4, <2>2
  <2>3. CASE q = rp /\ rp \notin DOMAIN acl
    <3>1. RulesAt(rp) = {} /\ acl'[rp] = perms
      BY <2>3 DEF AclInv
    <3>2. Merged(rp)'
      BY <3>1, <1>1, MergedFirst
    <3> QED BY <3>1, <3>2, <2>3
  <2> QED BY <2>1, <2>2, <2>3
<1> QED BY <1>3, <1>4, <1>5, <1>6 DEF AclInv

LEMMA AddRuleStep ==
    ASSUME AclInv, NEW rp \in RulePaths, NEW body \in RulePerms, AddRule(rp, body)
    PROVE  AclInv'
<1> DEFINE perms == rule_permissions(body)
<1>1. PermsShape(perms)
  BY RuleShape, BodiesHoldMaps DEF IsMap
<1>2. "deny" \in perms.caps => perms.caps = {"deny"}
  BY DenyAlone
<1>3. /\ added' = added \cup {[path |-> rp, perms |-> perms]}
      /\ acl' = [q \in DOMAIN acl \cup {rp} |->
                  CASE q # rp            -> acl[q]
                    [] q \notin DOMAIN acl -> perms
                    [] OTHER             -> merge(acl[q], perms)]
  BY DEF AddRule
<1> HIDE DEF perms
<1>4. acl' = [q \in DOMAIN acl \cup {rp} |-> acl'[q]]
  BY <1>3
<1>5. ASSUME NEW q \in DOMAIN acl, q # rp PROVE acl'[q] = acl[q]
  BY <1>3, <1>5
<1>6. acl'[rp] = IF rp \in DOMAIN acl THEN merge(acl[rp], perms) ELSE perms
  BY <1>3
<1> QED BY <1>1, <1>2, <1>3, <1>4, <1>5, <1>6, RuleAdded

LEMMA AddTwoBlocksStep ==
    ASSUME AclInv, NEW rp \in RulePaths, NEW body \in RulePerms, NEW body2 \in RulePerms,
           AddTwoBlocks(rp, body, body2)
    PROVE  AclInv'
<1> DEFINE both == parse_again(body, body2)
           perms == rule_permissions(both)
<1>1. PermsShape(perms)
  <2>1. IsMap(both.allowed) /\ IsMap(both.denied)
    <3>1. both.allowed \in {body.allowed, merge_parameters(body.allowed, body2.allowed)}
      BY DEF parse_again
    <3>2. both.denied \in {body.denied, merge_parameters(body.denied, body2.denied)}
      BY DEF parse_again
    <3>3. IsMap(body.allowed) /\ IsMap(body.denied)
      BY BodiesHoldMaps DEF IsMap
    <3> QED BY <3>1, <3>2, <3>3, MergeMap
  <2> HIDE DEF both
  <2> QED BY <2>1, RuleShape
<1>2. "deny" \in perms.caps => perms.caps = {"deny"}
  BY DenyAlone
<1>3. /\ added' = added \cup {[path |-> rp, perms |-> perms]} /\ rp \notin DOMAIN acl
      /\ acl' = [q \in DOMAIN acl \cup {rp} |-> IF q = rp THEN perms ELSE acl[q]]
  BY DEF AddTwoBlocks
<1> HIDE DEF perms
<1>4. acl' = [q \in DOMAIN acl \cup {rp} |-> acl'[q]]
  BY <1>3
<1>5. ASSUME NEW q \in DOMAIN acl, q # rp PROVE acl'[q] = acl[q]
  BY <1>3, <1>5
<1>6. acl'[rp] = IF rp \in DOMAIN acl THEN merge(acl[rp], perms) ELSE perms
  BY <1>3
<1> QED BY <1>1, <1>2, <1>3, <1>4, <1>5, <1>6, RuleAdded

LEMMA AclStep == AclInv /\ [AclNext]_aclVars => AclInv'
<1> SUFFICES ASSUME AclInv, [AclNext]_aclVars PROVE AclInv'
  OBVIOUS
<1>1. CASE UNCHANGED aclVars
  <2>1. acl' = acl /\ added' = added
    BY <1>1 DEF aclVars
  <2>2. \A rp : RulesAt(rp)' = RulesAt(rp)
    BY <2>1 DEF RulesAt
  <2>3. \A rp \in DOMAIN acl : Merged(rp)'
    BY <2>1, <2>2, MergedKept DEF AclInv
  <2> QED BY <2>1, <2>2, <2>3 DEF AclInv
<1>2. CASE AclNext
  <2>1. PICK rp \in RulePaths, body \in RulePerms :
          \/ AddRule(rp, body)
          \/ added = {} /\ \E body2 \in RulePerms : AddTwoBlocks(rp, body, body2)
    BY <1>2 DEF AclNext
  <2> QED BY <2>1, AddRuleStep, AddTwoBlocksStep
<1> QED BY <1>1, <1>2

\* What merging keeps is what AclOrderFree says.
LEMMA InvOrderFree == AclInv => AclOrderFree
BY MeaningTogether DEF AclInv, Merged, AclOrderFree

(***************************************************************************)
(* Whatever rules a token's policies hold and in whatever order they are   *)
(* read, the ACL at every path is what its rules mean together: a deny     *)
(* alone, else all capabilities, all required parameters, and for a        *)
(* parameter every value listed (acl.rs ACL::new, policy.rs merge).        *)
(***************************************************************************)
THEOREM AclOrderFreeHolds == AclSpec => []AclOrderFree
<1>1. AclSpec => []AclInv
  BY AclInitInv, AclStep, PTL DEF AclSpec
<1> QED BY <1>1, InvOrderFree, PTL

-----------------------------------------------------------------------------
\* The rule that decides is one of the ACL's and the path comes under it.
LEMMA DecidingMatches ==
    ASSUME NEW a, NEW req, NEW rp \in deciding_rule(a, req)
    PROVE  rp \in DOMAIN a /\ PathOf(rp, req.path)
<1> DEFINE exact == Exact(req.path)
           short == Exact(NoTrailingSlash(req.path))
<1>1. CASE exact \in DOMAIN a
  <2>1. rp = exact
    BY <1>1 DEF deciding_rule
  <2> QED BY <2>1, <1>1 DEF PathOf
<1>2. CASE exact \notin DOMAIN a /\ req.op = "List" /\ short \in DOMAIN a
  <2>1. rp = short
    BY <1>2 DEF deciding_rule
  <2> QED BY <2>1, <1>2 DEF PathOf
<1>3. CASE exact \notin DOMAIN a /\ ~(req.op = "List" /\ short \in DOMAIN a)
  <2>1. rp \in get_none_exact_paths_permissions(a, req.path)
    BY <1>3 DEF deciding_rule
  <2>2. \/ rp \in PrefixRules(a) /\ TextPrefix(rp.segs, req.path)
        \/ rp \in WildcardRules(a) /\ segment_match(rp, req.path)
    BY <2>1 DEF get_none_exact_paths_permissions
  <2> QED BY <2>2 DEF PrefixRules, WildcardRules, PathOf
<1> QED BY <1>1, <1>2, <1>3

\* No rule of a path denies once the merged permissions do not, and each
\* capability is a rule's.
LEMMA CapsOfRules ==
    ASSUME NEW rp, Merged(rp), NEW cap \in acl[rp].caps, cap # "deny"
    PROVE  /\ \A p \in RulesAt(rp) : "deny" \notin p.caps
           /\ \E p \in RulesAt(rp) : cap \in p.caps
<1> DEFINE U == UNION {p.caps : p \in RulesAt(rp)}
<1>1. acl[rp].caps = IF "deny" \in U THEN {"deny"} ELSE U
  BY DEF Merged, MeaningCaps
<1>2. "deny" \notin U /\ cap \in U
  <2> HIDE DEF U
  <2> QED BY <1>1
<1> QED BY <1>2

LEMMA InvGranted == AclInv => AllowedIsGranted
<1> SUFFICES ASSUME AclInv, NEW req \in Requests, NEW root \in BOOLEAN, req.op # "Help",
                    post_auth_ok(TRUE, acl, req, root)
             PROVE  /\ \E rp \in {r.path : r \in added} :
                          /\ PathOf(rp, req.path)
                          /\ \A p \in RulesAt(rp) : "deny" \notin p.caps
                          /\ \E p \in RulesAt(rp) : p.caps \cap GrantingCaps(req.op) # {}
                          /\ root => \E p \in RulesAt(rp) : "sudo" \in p.caps
                    /\ \A p \in RulesAt(Exact(req.path)) : "deny" \notin p.caps
  BY DEF AllowedIsGranted
<1>1. PICK rp \in deciding_rule(acl, req) :
             check(acl[rp], req) /\ (root => "sudo" \in acl[rp].caps)
  <2>1. PICK result \in {[allowed |-> check(acl[rp], req), root_privs |-> "sudo" \in acl[rp].caps] :
                            rp \in deciding_rule(acl, req)} :
               result.allowed /\ (root => result.root_privs)
    BY DEF post_auth_ok, allow_operation
  <2>2. PICK rp \in deciding_rule(acl, req) :
               result = [allowed |-> check(acl[rp], req), root_privs |-> "sudo" \in acl[rp].caps]
    BY <2>1
  <2>3. result.allowed = check(acl[rp], req) /\ result.root_privs = ("sudo" \in acl[rp].caps)
    BY <2>2
  <2> QED BY <2>1, <2>3
<1>2. rp \in DOMAIN acl /\ PathOf(rp, req.path)
  BY <1>1, DecidingMatches
<1>3. RulesAt(rp) # {} /\ Merged(rp)
  BY <1>2 DEF AclInv
<1>4. rp \in {r.path : r \in added}
  BY <1>3 DEF RulesAt
<1>5. "deny" \notin GrantingCaps(req.op)
  BY RequestsAsk DEF Operations, NeededCap, GrantingCaps
<1>6. PICK cap \in acl[rp].caps : cap \in GrantingCaps(req.op)
  <2>1. \/ NeededCap(req.op) \in acl[rp].caps
        \/ req.op = "Write" /\ "create" \in acl[rp].caps
    BY <1>1 DEF check
  <2> QED BY <2>1 DEF GrantingCaps
<1>7. /\ \A p \in RulesAt(rp) : "deny" \notin p.caps
      /\ \E p \in RulesAt(rp) : cap \in p.caps
  BY <1>3, <1>5, <1>6, CapsOfRules
<1>8. \E p \in RulesAt(rp) : p.caps \cap GrantingCaps(req.op) # {}
  BY <1>6, <1>7
<1>9. root => \E p \in RulesAt(rp) : "sudo" \in p.caps
  <2>1. "sudo" \in acl[rp].caps => \E p \in RulesAt(rp) : "sudo" \in p.caps
    BY <1>3, CapsOfRules
  <2> QED BY <1>1, <2>1
<1>10. ASSUME NEW p \in RulesAt(Exact(req.path)) PROVE "deny" \notin p.caps
  <2>1. Exact(req.path) \in DOMAIN acl
    BY DEF AclInv
  <2>2. rp = Exact(req.path)
    BY <2>1, <1>1 DEF deciding_rule
  <2> QED BY <2>2, <1>7
<1> QED BY <1>2, <1>4, <1>7, <1>8, <1>9, <1>10

(***************************************************************************)
(* For every set of rules and every request: what post_auth lets through   *)
(* for a token that names policies is granted at one path that matches, by *)
(* a rule with the operation's capability ("create" for a write only) and, *)
(* for a root path, one with "sudo"; no rule at that path denies, and none *)
(* for exactly the request's path (acl.rs allow_operation, policy.rs       *)
(* check, policy_store.rs post_auth).                                      *)
(***************************************************************************)
THEOREM AllowedIsGrantedHolds == AclSpec => []AllowedIsGranted
<1>1. AclSpec => []AclInv
  BY AclInitInv, AclStep, PTL DEF AclSpec
<1> QED BY <1>1, InvGranted, PTL

-----------------------------------------------------------------------------
(* The tables of routes *)

\* What may follow the n segments of a pattern.
Ends(path, n)     == Len(path) = n
MaySlash(path, n) == Len(path) = n \/ (Len(path) = n + 1 /\ path[n + 1] = Blank)
MayPem(path, n)   == Len(path) = n \/ (Len(path) = n + 1 /\ path[n + 1] = "pem")
GoesOn(path, n)   == Len(path) # n /\ ~(Len(path) = n + 1 /\ path[n + 1] = Blank)

TailFits(path, n, kind) ==
    /\ kind = "end" => Ends(path, n)
    /\ kind = "slash" => MaySlash(path, n)
    /\ kind = "pem" => MayPem(path, n)
    /\ kind = "rest" => GoesOn(path, n)

Tails == {"end", "slash", "pem", "rest", "any"}

LEMMA RestShape ==
    ASSUME NEW S, NEW path \in Seq(S), NEW n \in Nat, Len(path) >= n
    PROVE  /\ SubSeq(path, n + 1, Len(path)) = <<>> <=> Len(path) = n
           /\ \A v : SubSeq(path, n + 1, Len(path)) = <<v>> <=> Len(path) = n + 1 /\ path[n + 1] = v
<1> DEFINE rest == SubSeq(path, n + 1, Len(path))
<1>1. /\ rest \in Seq(S) /\ Len(rest) = Len(path) - n
      /\ \A i \in 1 .. Len(path) - n : rest[i] = path[n + i]
  <2>1. \A i \in n + 1 .. Len(path) : path[i] \in S
    OBVIOUS
  <2> QED BY <2>1, SubSeqProperties
<1> HIDE DEF rest
<1>2. rest = <<>> <=> Len(rest) = 0
  BY <1>1, EmptySeq
<1>3. ASSUME NEW v PROVE rest = <<v>> <=> Len(rest) = 1 /\ rest[1] = v
  <2>1. ASSUME Len(rest) = 1, rest[1] = v PROVE rest = <<v>>
    <3>1. v \in S
      BY <1>1, <2>1
    <3>2. <<v>> \in Seq(S) /\ Len(<<v>>) = 1 /\ <<v>>[1] = v
      BY <3>1
    <3>3. \A i \in 1 .. Len(rest) : rest[i] = <<v>>[i]
      BY <2>1, <3>2
    <3> QED BY <1>1, <2>1, <3>2, <3>3, SeqEqual
  <2> QED BY <2>1
<1>4. Len(path) = n + 1 => rest[1] = path[n + 1]
  BY <1>1
<1>5. rest = <<>> <=> Len(path) = n
  BY <1>1, <1>2
<1>6. ASSUME NEW v PROVE rest = <<v>> <=> Len(path) = n + 1 /\ path[n + 1] = v
  <2>1. rest = <<v>> <=> Len(rest) = 1 /\ rest[1] = v
    BY <1>3
  <2>2. Len(rest) = 1 <=> Len(path) = n + 1
    BY <1>1
  <2> QED BY <2>1, <2>2, <1>4
<1> QED BY <1>5, <1>6, Zenon DEF rest

\* A match in terms of single segments.
LEMMA MatchFits ==
    ASSUME NEW S, NEW path \in Seq(S), NEW route, Len(route.pattern) \in Nat, route.tail.kind \in Tails
    PROVE  Anchored(path, route) <=>
              /\ Len(path) >= Len(route.pattern)
              /\ \A i \in 1 .. Len(route.pattern) : path[i] \in route.pattern[i].is
              /\ TailFits(path, Len(route.pattern), route.tail.kind)
<1> DEFINE n == Len(route.pattern)
           rest == SubSeq(path, n + 1, Len(path))
<1>1. Len(path) >= n =>
        /\ rest = <<>> <=> Len(path) = n
        /\ rest = <<Blank>> <=> Len(path) = n + 1 /\ path[n + 1] = Blank
        /\ rest = <<"pem">> <=> Len(path) = n + 1 /\ path[n + 1] = "pem"
  BY RestShape
<1>2. Anchored(path, route) <=>
        /\ Len(path) >= n
        /\ \A i \in 1..n : path[i] \in route.pattern[i].is
        /\ CASE route.tail.kind = "end"   -> rest = <<>>
             [] route.tail.kind = "slash" -> rest \in {<<>>, <<Blank>>}
             [] route.tail.kind = "pem"   -> rest \in {<<>>, <<"pem">>}
             [] route.tail.kind = "rest"  -> rest \notin {<<>>, <<Blank>>}
             [] route.tail.kind = "any"   -> TRUE
  BY DEF Anchored, Matches
<1> HIDE DEF rest
<1> QED BY <1>1, <1>2 DEF TailFits, Ends, MaySlash, MayPem, GoesOn, Tails

\* Patterns of up to four segments.
Has0(r, kind) == Len(r.pattern) = 0 /\ r.tail.kind = kind
Has1(r, a, kind) ==
    /\ Len(r.pattern) = 1 /\ r.pattern[1].is = a
    /\ r.tail.kind = kind
Has2(r, a, b, kind) ==
    /\ Len(r.pattern) = 2 /\ r.pattern[1].is = a /\ r.pattern[2].is = b
    /\ r.tail.kind = kind
Has3(r, a, b, c, kind) ==
    /\ Len(r.pattern) = 3 /\ r.pattern[1].is = a /\ r.pattern[2].is = b /\ r.pattern[3].is = c
    /\ r.tail.kind = kind
Has4(r, a, b, c, d, kind) ==
    /\ Len(r.pattern) = 4 /\ r.pattern[1].is = a /\ r.pattern[2].is = b /\ r.pattern[3].is = c /\ r.pattern[4].is = d
    /\ r.tail.kind = kind

LEMMA Match0 ==
    ASSUME NEW S, NEW path \in Seq(S), NEW r, NEW kind \in Tails, Has0(r, kind)
    PROVE  Anchored(path, r) <=> TailFits(path, 0, kind)
<1>1. Len(r.pattern) = 0 /\ r.tail.kind = kind
  BY DEF Has0
<1>2. Len(r.pattern) \in Nat /\ r.tail.kind \in Tails
  BY <1>1
<1>3. Anchored(path, r) <=> /\ Len(path) >= Len(r.pattern)
                            /\ \A i \in 1 .. Len(r.pattern) : path[i] \in r.pattern[i].is
                            /\ TailFits(path, Len(r.pattern), r.tail.kind)
  BY <1>2, MatchFits
<1> QED BY <1>1, <1>3

LEMMA Match1 ==
    ASSUME NEW S, NEW path \in Seq(S), NEW r, NEW a, NEW kind \in Tails,
           Has1(r, a, kind)
    PROVE  Anchored(path, r) <=> Len(path) >= 1 /\ path[1] \in a /\ TailFits(path, 1, kind)
<1>1. Len(r.pattern) = 1 /\ r.tail.kind = kind /\ r.pattern[1].is = a
  BY DEF Has1
<1>2. Len(r.pattern) \in Nat /\ r.tail.kind \in Tails
  BY <1>1
<1>3. Anchored(path, r) <=> /\ Len(path) >= Len(r.pattern)
                            /\ \A i \in 1 .. Len(r.pattern) : path[i] \in r.pattern[i].is
                            /\ TailFits(path, Len(r.pattern), r.tail.kind)
  BY <1>2, MatchFits
<1>4. (\A i \in 1 .. Len(r.pattern) : path[i] \in r.pattern[i].is) <=> path[1] \in a
  BY <1>1
<1> QED BY <1>1, <1>3, <1>4

LEMMA Match2 ==
    ASSUME NEW S, NEW path \in Seq(S), NEW r, NEW a, NEW b, NEW kind \in Tails,
           Has2(r, a, b, kind)
    PROVE  Anchored(path, r) <=> Len(path) >= 2 /\ path[1] \in a /\ path[2] \in b /\ TailFits(path, 2, kind)
<1>1. Len(r.pattern) = 2 /\ r.tail.kind = kind /\ r.pattern[1].is = a /\ r.pattern[2].is = b
  BY DEF Has2
<1>2. Len(r.pattern) \in Nat /\ r.tail.kind \in Tails
  BY <1>1
<1>3. Anchored(path, r) <=> /\ Len(path) >= Len(r.pattern)
                            /\ \A i \in 1 .. Len(r.pattern) : path[i] \in r.pattern[i].is
                            /\ TailFits(path, Len(r.pattern), r.tail.kind)
  BY <1>2, MatchFits
<1>4. (\A i \in 1 .. Len(r.pattern) : path[i] \in r.pattern[i].is) <=> path[1] \in a /\ path[2] \in b
  BY <1>1
<1> QED BY <1>1, <1>3, <1>4

LEMMA Match3 ==
    ASSUME NEW S, NEW path \in Seq(S), NEW r, NEW a, NEW b, NEW c, NEW kind \in Tails,
           Has3(r, a, b, c, kind)
    PROVE  Anchored(path, r) <=> Len(path) >= 3 /\ path[1] \in a /\ path[2] \in b /\ path[3] \in c /\ TailFits(path, 3, kind)
<1>1. Len(r.pattern) = 3 /\ r.tail.kind = kind /\ r.pattern[1].is = a /\ r.pattern[2].is = b /\ r.pattern[3].is = c
  BY DEF Has3
<1>2. Len(r.pattern) \in Nat /\ r.tail.kind \in Tails
  BY <1>1
<1>3. Anchored(path, r) <=> /\ Len(path) >= Len(r.pattern)
                            /\ \A i \in 1 .. Len(r.pattern) : path[i] \in r.pattern[i].is
                            /\ TailFits(path, Len(r.pattern), r.tail.kind)
  BY <1>2, MatchFits
<1>4. (\A i \in 1 .. Len(r.pattern) : path[i] \in r.pattern[i].is) <=> path[1] \in a /\ path[2] \in b /\ path[3] \in c
  BY <1>1
<1> QED BY <1>1, <1>3, <1>4

LEMMA Match4 ==
    ASSUME NEW S, NEW path \in Seq(S), NEW r, NEW a, NEW b, NEW c, NEW d, NEW kind \in Tails,
           Has4(r, a, b, c, d, kind)
    PROVE  Anchored(path, r) <=> Len(path) >= 4 /\ path[1] \in a /\ path[2] \in b /\ path[3] \in c /\ path[4] \in d /\ TailFits(path, 4, kind)
<1>1. Len(r.pattern) = 4 /\ r.tail.kind = kind /\ r.pattern[1].is = a /\ r.pattern[2].is = b /\ r.pattern[3].is = c /\ r.pattern[4].is = d
  BY DEF Has4
<1>2. Len(r.pattern) \in Nat /\ r.tail.kind \in Tails
  BY <1>1
<1>3. Anchored(path, r) <=> /\ Len(path) >= Len(r.pattern)
                            /\ \A i \in 1 .. Len(r.pattern) : path[i] \in r.pattern[i].is
                            /\ TailFits(path, Len(r.pattern), r.tail.kind)
  BY <1>2, MatchFits
<1>4. (\A i \in 1 .. Len(r.pattern) : path[i] \in r.pattern[i].is) <=> path[1] \in a /\ path[2] \in b /\ path[3] \in c /\ path[4] \in d
  BY <1>1
<1> QED BY <1>1, <1>3, <1>4

LEMMA TailKinds ==
    "end" \in Tails /\ "slash" \in Tails /\ "pem" \in Tails /\ "rest" \in Tails /\ "any" \in Tails
BY DEF Tails

LEMMA TailSays ==
    ASSUME NEW path, NEW n
    PROVE  /\ TailFits(path, n, "end") <=> Ends(path, n)
           /\ TailFits(path, n, "slash") <=> MaySlash(path, n)
           /\ TailFits(path, n, "pem") <=> MayPem(path, n)
           /\ TailFits(path, n, "rest") <=> GoesOn(path, n)
           /\ TailFits(path, n, "any")
BY DEF TailFits

SysShape(path) ==
    /\ Anchored(path, sys_mounts_path) <=> Ends(path, 1) /\ Len(path) >= 1 /\ path[1] = "mounts"
    /\ Anchored(path, sys_mounts_at_path) <=>
          GoesOn(path, 1) /\ Len(path) >= 1 /\ path[1] = "mounts"
    /\ Anchored(path, sys_remount_path) <=> Ends(path, 1) /\ Len(path) >= 1 /\ path[1] = "remount"
    /\ Anchored(path, sys_renew_path) <=> GoesOn(path, 1) /\ Len(path) >= 1 /\ path[1] = "renew"
    /\ Anchored(path, sys_revoke_path) <=> GoesOn(path, 1) /\ Len(path) >= 1 /\ path[1] = "revoke"
    /\ Anchored(path, sys_revoke_prefix_path) <=>
          GoesOn(path, 1) /\ Len(path) >= 1 /\ path[1] = "revoke-prefix"
    /\ Anchored(path, sys_auth_path) <=> Ends(path, 1) /\ Len(path) >= 1 /\ path[1] = "auth"
    /\ Anchored(path, sys_auth_at_path) <=> GoesOn(path, 1) /\ Len(path) >= 1 /\ path[1] = "auth"
    /\ Anchored(path, sys_policy_list_path) <=>
          MaySlash(path, 1) /\ Len(path) >= 1 /\ path[1] = "policy"
    /\ Anchored(path, sys_policy_path) <=> GoesOn(path, 1) /\ Len(path) >= 1 /\ path[1] = "policy"
    /\ Anchored(path, sys_acl_policy_list_path) <=>
          MaySlash(path, 2) /\ Len(path) >= 2 /\ path[1] = "policies" /\ path[2] = "acl"
    /\ Anchored(path, sys_acl_policy_path) <=>
          GoesOn(path, 2) /\ Len(path) >= 2 /\ path[1] = "policies" /\ path[2] = "acl"
    /\ Anchored(path, sys_audit_path) <=> Ends(path, 1) /\ Len(path) >= 1 /\ path[1] = "audit"
    /\ Anchored(path, sys_audit_at_path) <=>
          GoesOn(path, 1) /\ Len(path) >= 1 /\ path[1] = "audit"
    /\ Anchored(path, sys_raw_path) <=> GoesOn(path, 1) /\ Len(path) >= 1 /\ path[1] = "raw"

LEMMA SysShapes ==
    ASSUME NEW S, NEW path \in Seq(S) PROVE SysShape(path)
<1>1. /\ Has1(sys_mounts_path, {"mounts"}, "end")
      /\ Has1(sys_mounts_at_path, {"mounts"}, "rest")
      /\ Has1(sys_remount_path, {"remount"}, "end")
      /\ Has1(sys_renew_path, {"renew"}, "rest")
      /\ Has1(sys_revoke_path, {"revoke"}, "rest")
      /\ Has1(sys_revoke_prefix_path, {"revoke-prefix"}, "rest")
      /\ Has1(sys_auth_path, {"auth"}, "end")
      /\ Has1(sys_auth_at_path, {"auth"}, "rest")
      /\ Has1(sys_policy_list_path, {"policy"}, "slash")
      /\ Has1(sys_policy_path, {"policy"}, "rest")
      /\ Has2(sys_acl_policy_list_path, {"policies"}, {"acl"}, "slash")
      /\ Has2(sys_acl_policy_path, {"policies"}, {"acl"}, "rest")
      /\ Has1(sys_audit_path, {"audit"}, "end")
      /\ Has1(sys_audit_at_path, {"audit"}, "rest")
      /\ Has1(sys_raw_path, {"raw"}, "rest")
  BY DEF Has1, Has2, Route, Lit, End, Rest, Slash, sys_mounts_path, sys_mounts_at_path,
         sys_remount_path, sys_renew_path, sys_revoke_path, sys_revoke_prefix_path,
         sys_auth_path, sys_auth_at_path, sys_policy_list_path, sys_policy_path,
         sys_acl_policy_list_path, sys_acl_policy_path, sys_audit_path, sys_audit_at_path,
         sys_raw_path
<1> QED BY <1>1, Match1, Match2, TailKinds, TailSays DEF SysShape

TokenShape(path) ==
    /\ Anchored(path, token_create_path) <=>
          Ends(path, 1) /\ Len(path) >= 1 /\ path[1] \in {"creat", "create", "createe"}
    /\ Anchored(path, token_lookup_path) <=>
          GoesOn(path, 1) /\ Len(path) >= 1 /\ path[1] = "lookup"
    /\ Anchored(path, token_lookup_self_path) <=>
          Ends(path, 1) /\ Len(path) >= 1 /\ path[1] = "lookup-self"
    /\ Anchored(path, token_revoke_path) <=>
          GoesOn(path, 1) /\ Len(path) >= 1 /\ path[1] = "revoke"
    /\ Anchored(path, token_revoke_orphan_path) <=>
          GoesOn(path, 1) /\ Len(path) >= 1 /\ path[1] = "revoke-orphan"
    /\ Anchored(path, token_renew_path) <=> GoesOn(path, 1) /\ Len(path) >= 1 /\ path[1] = "renew"

LEMMA TokenShapes ==
    ASSUME NEW S, NEW path \in Seq(S) PROVE TokenShape(path)
<1>1. /\ Has1(token_create_path, {"creat", "create", "createe"}, "end")
      /\ Has1(token_lookup_path, {"lookup"}, "rest")
      /\ Has1(token_lookup_self_path, {"lookup-self"}, "end")
      /\ Has1(token_revoke_path, {"revoke"}, "rest")
      /\ Has1(token_revoke_orphan_path, {"revoke-orphan"}, "rest")
      /\ Has1(token_renew_path, {"renew"}, "rest")
  BY DEF Has1, Route, Lit, OneOf, End, Rest, token_create_path, token_lookup_path,
         token_lookup_self_path, token_revoke_path, token_revoke_orphan_path, token_renew_path
<1> QED BY <1>1, Match1, TailKinds, TailSays DEF TokenShape

RoleShape(path) ==
    /\ Anchored(path, role_path) <=> MaySlash(path, 1) /\ Len(path) >= 1 /\ path[1] = "role"
    /\ Anchored(path, role_name_path) <=>
          Ends(path, 2) /\ Len(path) >= 2 /\ path[1] = "role" /\ path[2] \in Words
    /\ Anchored(path, role_policies_path) <=>
          Ends(path, 3) /\ Len(path) >= 3 /\ path[1] = "role" /\ path[2] \in Words /\ path[3] = "policies"
    /\ Anchored(path, role_local_secret_ids_path) <=>
          Ends(path, 3) /\ Len(path) >= 3 /\ path[1] = "role" /\ path[2] \in Words /\ path[3] = "local-secret-ids"
    /\ Anchored(path, role_bound_cidr_list_path) <=>
          Ends(path, 3) /\ Len(path) >= 3 /\ path[1] = "role" /\ path[2] \in Words /\ path[3] = "bound-cidr-list"
    /\ Anchored(path, role_secret_id_bound_cidrs_path) <=>
          Ends(path, 3) /\ Len(path) >= 3 /\ path[1] = "role" /\ path[2] \in Words /\ path[3] = "secret-id-bound-cidrs"
    /\ Anchored(path, role_token_bound_cidrs_path) <=>
          Ends(path, 3) /\ Len(path) >= 3 /\ path[1] = "role" /\ path[2] \in Words /\ path[3] = "token-bound-cidrs"
    /\ Anchored(path, role_bind_secret_id_path) <=>
          Ends(path, 3) /\ Len(path) >= 3 /\ path[1] = "role" /\ path[2] \in Words /\ path[3] = "bind-secret-id"
    /\ Anchored(path, role_secret_id_num_uses_path) <=>
          Ends(path, 3) /\ Len(path) >= 3 /\ path[1] = "role" /\ path[2] \in Words /\ path[3] = "secret-id-num-uses"
    /\ Anchored(path, role_secret_id_ttl_path) <=>
          Ends(path, 3) /\ Len(path) >= 3 /\ path[1] = "role" /\ path[2] \in Words /\ path[3] = "secret-id-ttl"
    /\ Anchored(path, role_period_path) <=>
          Ends(path, 3) /\ Len(path) >= 3 /\ path[1] = "role" /\ path[2] \in Words /\ path[3] = "period"
    /\ Anchored(path, role_token_num_uses_path) <=>
          Ends(path, 3) /\ Len(path) >= 3 /\ path[1] = "role" /\ path[2] \in Words /\ path[3] = "token-num-uses"
    /\ Anchored(path, role_token_ttl_path) <=>
          Ends(path, 3) /\ Len(path) >= 3 /\ path[1] = "role" /\ path[2] \in Words /\ path[3] = "token-ttl"
    /\ Anchored(path, role_token_max_ttl_path) <=>
          Ends(path, 3) /\ Len(path) >= 3 /\ path[1] = "role" /\ path[2] \in Words /\ path[3] = "token-max-ttl"
    /\ Anchored(path, role_role_id_path) <=>
          Ends(path, 3) /\ Len(path) >= 3 /\ path[1] = "role" /\ path[2] \in Words /\ path[3] = "role-id"
    /\ Anchored(path, role_secret_id_path) <=>
          MaySlash(path, 3) /\ Len(path) >= 3 /\ path[1] = "role" /\ path[2] \in Words /\ path[3] = "secret-id"
    /\ Anchored(path, role_secret_id_lookup_path) <=>
          MaySlash(path, 4) /\ Len(path) >= 4 /\ path[1] = "role" /\ path[2] \in Words /\ path[3] = "secret-id" /\ path[4] = "lookup"
    /\ Anchored(path, role_secret_id_destroy_path) <=>
          MaySlash(path, 4) /\ Len(path) >= 4 /\ path[1] = "role" /\ path[2] \in Words /\ path[3] = "secret-id" /\ path[4] = "destroy"
    /\ Anchored(path, role_secret_id_accessor_lookup_path) <=>
          MaySlash(path, 4) /\ Len(path) >= 4 /\ path[1] = "role" /\ path[2] \in Words /\ path[3] = "secret-id-accessor" /\ path[4] = "lookup"
    /\ Anchored(path, role_secret_id_accessor_destroy_path) <=>
          MaySlash(path, 4) /\ Len(path) >= 4 /\ path[1] = "role" /\ path[2] \in Words /\ path[3] = "secret-id-accessor" /\ path[4] = "destroy"
    /\ Anchored(path, role_custom_secret_id_path) <=>
          Ends(path, 3) /\ Len(path) >= 3 /\ path[1] = "role" /\ path[2] \in Words /\ path[3] = "custom-secret-id"
    /\ Anchored(path, approle_login_path) <=> Ends(path, 1) /\ Len(path) >= 1 /\ path[1] = "login"
    /\ Anchored(path, tidy_secret_id_path) <=>
          Ends(path, 2) /\ Len(path) >= 2 /\ path[1] = "tidy" /\ path[2] = "secret-id"

LEMMA RoleShapes ==
    ASSUME NEW S, NEW path \in Seq(S) PROVE RoleShape(path)
<1>1. /\ Has1(role_path, {"role"}, "slash")
      /\ Has2(role_name_path, {"role"}, Words, "end")
      /\ Has3(role_policies_path, {"role"}, Words, {"policies"}, "end")
      /\ Has3(role_local_secret_ids_path, {"role"}, Words, {"local-secret-ids"}, "end")
      /\ Has3(role_bound_cidr_list_path, {"role"}, Words, {"bound-cidr-list"}, "end")
      /\ Has3(role_secret_id_bound_cidrs_path, {"role"}, Words, {"secret-id-bound-cidrs"}, "end")
      /\ Has3(role_token_bound_cidrs_path, {"role"}, Words, {"token-bound-cidrs"}, "end")
      /\ Has3(role_bind_secret_id_path, {"role"}, Words, {"bind-secret-id"}, "end")
      /\ Has3(role_secret_id_num_uses_path, {"role"}, Words, {"secret-id-num-uses"}, "end")
      /\ Has3(role_secret_id_ttl_path, {"role"}, Words, {"secret-id-ttl"}, "end")
      /\ Has3(role_period_path, {"role"}, Words, {"period"}, "end")
      /\ Has3(role_token_num_uses_path, {"role"}, Words, {"token-num-uses"}, "end")
      /\ Has3(role_token_ttl_path, {"role"}, Words, {"token-ttl"}, "end")
      /\ Has3(role_token_max_ttl_path, {"role"}, Words, {"token-max-ttl"}, "end")
      /\ Has3(role_role_id_path, {"role"}, Words, {"role-id"}, "end")
      /\ Has3(role_secret_id_path, {"role"}, Words, {"secret-id"}, "slash")
      /\ Has4(role_secret_id_lookup_path, {"role"}, Words, {"secret-id"}, {"lookup"}, "slash")
      /\ Has4(role_secret_id_destroy_path, {"role"}, Words, {"secret-id"}, {"destroy"}, "slash")
      /\ Has4(role_secret_id_accessor_lookup_path, {"role"}, Words, {"secret-id-accessor"}, {"lookup"}, "slash")
      /\ Has4(role_secret_id_accessor_destroy_path, {"role"}, Words, {"secret-id-accessor"}, {"destroy"}, "slash")
      /\ Has3(role_custom_secret_id_path, {"role"}, Words, {"custom-secret-id"}, "end")
      /\ Has1(approle_login_path, {"login"}, "end")
      /\ Has2(tidy_secret_id_path, {"tidy"}, {"secret-id"}, "end")
  BY DEF Has1, Has2, Has3, Has4, Route, Lit, Word, End, Slash, role_path, role_name_path,
         role_policies_path, role_local_secret_ids_path, role_bound_cidr_list_path,
         role_secret_id_bound_cidrs_path, role_token_bound_cidrs_path, role_bind_secret_id_path,
         role_secret_id_num_uses_path, role_secret_id_ttl_path, role_period_path,
         role_token_num_uses_path, role_token_ttl_path, role_token_max_ttl_path,
         role_role_id_path, role_secret_id_path, role_secret_id_lookup_path,
         role_secret_id_destroy_path, role_secret_id_accessor_lookup_path,
         role_secret_id_accessor_destroy_path, role_custom_secret_id_path, approle_login_path,
         tidy_secret_id_path
<1> QED BY <1>1, Match1, Match2, Match3, Match4, TailKinds, TailSays DEF RoleShape

CertShape(path) ==
    /\ Anchored(path, config_path) <=> Ends(path, 1) /\ Len(path) >= 1 /\ path[1] = "config"
    /\ Anchored(path, certs_path) <=>
          Ends(path, 2) /\ Len(path) >= 2 /\ path[1] = "certs" /\ path[2] \in Words
    /\ Anchored(path, certs_list_path) <=>
          MaySlash(path, 1) /\ Len(path) >= 1 /\ path[1] = "certs"
    /\ Anchored(path, crl_path) <=>
          Ends(path, 2) /\ Len(path) >= 2 /\ path[1] = "crls" /\ path[2] \in Words
    /\ Anchored(path, crl_list_path) <=> MaySlash(path, 1) /\ Len(path) >= 1 /\ path[1] = "crls"
    /\ Anchored(path, cert_login_path) <=> Ends(path, 1) /\ Len(path) >= 1 /\ path[1] = "login"

LEMMA CertShapes ==
    ASSUME NEW S, NEW path \in Seq(S) PROVE CertShape(path)
<1>1. /\ Has1(config_path, {"config"}, "end")
      /\ Has2(certs_path, {"certs"}, Words, "end")
      /\ Has1(certs_list_path, {"certs"}, "slash")
      /\ Has2(crl_path, {"crls"}, Words, "end")
      /\ Has1(crl_list_path, {"crls"}, "slash")
      /\ Has1(cert_login_path, {"login"}, "end")
  BY DEF Has1, Has2, Route, Lit, Word, End, Slash, config_path, certs_path, certs_list_path,
         crl_path, crl_list_path, cert_login_path
<1> QED BY <1>1, Match1, Match2, TailKinds, TailSays DEF CertShape

UserShape(path) ==
    /\ Anchored(path, users_path) <=>
          Ends(path, 2) /\ Len(path) >= 2 /\ path[1] = "users" /\ path[2] \in Words
    /\ Anchored(path, user_list_path) <=> MaySlash(path, 1) /\ Len(path) >= 1 /\ path[1] = "users"
    /\ Anchored(path, user_password_path) <=>
          Ends(path, 3) /\ Len(path) >= 3 /\ path[1] = "users" /\ path[2] \in Words /\ path[3] = "password"
    /\ Anchored(path, userpass_login_path) <=>
          Ends(path, 2) /\ Len(path) >= 2 /\ path[1] = "login" /\ path[2] \in Words

LEMMA UserShapes ==
    ASSUME NEW S, NEW path \in Seq(S) PROVE UserShape(path)
<1>1. /\ Has2(users_path, {"users"}, Words, "end")
      /\ Has1(user_list_path, {"users"}, "slash")
      /\ Has3(user_password_path, {"users"}, Words, {"password"}, "end")
      /\ Has2(userpass_login_path, {"login"}, Words, "end")
  BY DEF Has1, Has2, Has3, Route, Lit, Word, End, Slash, users_path, user_list_path,
         user_password_path, userpass_login_path
<1> QED BY <1>1, Match1, Match2, Match3, TailKinds, TailSays DEF UserShape

KvShape(path) ==
    /\ Anchored(path, kv_any_path) <=> TRUE

LEMMA KvShapes ==
    ASSUME NEW S, NEW path \in Seq(S) PROVE KvShape(path)
<1>1. /\ Has0(kv_any_path, "any")
  BY DEF Has0, Route, Whole, kv_any_path
<1> QED BY <1>1, Match0, TailKinds, TailSays DEF KvShape

PkiShape(path) ==
    /\ Anchored(path, roles_path) <=>
          Ends(path, 2) /\ Len(path) >= 2 /\ path[1] = "roles" /\ path[2] \in Words
    /\ Anchored(path, config_ca_path) <=>
          Ends(path, 2) /\ Len(path) >= 2 /\ path[1] = "config" /\ path[2] = "ca"
    /\ Anchored(path, root_generate_path) <=>
          GoesOn(path, 2) /\ Len(path) >= 2 /\ path[1] = "root" /\ path[2] = "generate"
    /\ Anchored(path, root_delete_path) <=> Ends(path, 1) /\ Len(path) >= 1 /\ path[1] = "root"
    /\ Anchored(path, fetch_ca_path) <=> MayPem(path, 1) /\ Len(path) >= 1 /\ path[1] = "ca"
    /\ Anchored(path, fetch_crl_path) <=> MayPem(path, 1) /\ Len(path) >= 1 /\ path[1] = "crl"
    /\ Anchored(path, fetch_cert_path) <=>
          Ends(path, 2) /\ Len(path) >= 2 /\ path[1] = "cert" /\ path[2] \in Serials
    /\ Anchored(path, fetch_cert_crl_path) <=>
          Ends(path, 2) /\ Len(path) >= 2 /\ path[1] = "cert" /\ path[2] = "crl"
    /\ Anchored(path, issue_path) <=>
          Ends(path, 2) /\ Len(path) >= 2 /\ path[1] = "issue" /\ path[2] \in Words
    /\ Anchored(path, revoke_path) <=> Ends(path, 1) /\ Len(path) >= 1 /\ path[1] = "revoke"
    /\ Anchored(path, crl_rotate_path) <=>
          Ends(path, 2) /\ Len(path) >= 2 /\ path[1] = "crl" /\ path[2] = "rotate"
    /\ Anchored(path, keys_generate_path) <=>
          Ends(path, 3) /\ Len(path) >= 3 /\ path[1] = "keys" /\ path[2] = "generate" /\ path[3] \in {"exported", "internal"}
    /\ Anchored(path, keys_import_path) <=>
          Ends(path, 2) /\ Len(path) >= 2 /\ path[1] = "keys" /\ path[2] = "import"
    /\ Anchored(path, keys_sign_path) <=>
          Ends(path, 2) /\ Len(path) >= 2 /\ path[1] = "keys" /\ path[2] = "sign"
    /\ Anchored(path, keys_verify_path) <=>
          Ends(path, 2) /\ Len(path) >= 2 /\ path[1] = "keys" /\ path[2] = "verify"
    /\ Anchored(path, keys_encrypt_path) <=>
          Ends(path, 2) /\ Len(path) >= 2 /\ path[1] = "keys" /\ path[2] = "encrypt"
    /\ Anchored(path, keys_decrypt_path) <=>
          Ends(path, 2) /\ Len(path) >= 2 /\ path[1] = "keys" /\ path[2] = "decrypt"

LEMMA PkiShapes ==
    ASSUME NEW S, NEW path \in Seq(S) PROVE PkiShape(path)
<1>1. /\ Has2(roles_path, {"roles"}, Words, "end")
      /\ Has2(config_ca_path, {"config"}, {"ca"}, "end")
      /\ Has2(root_generate_path, {"root"}, {"generate"}, "rest")
      /\ Has1(root_delete_path, {"root"}, "end")
      /\ Has1(fetch_ca_path, {"ca"}, "pem")
      /\ Has1(fetch_crl_path, {"crl"}, "pem")
      /\ Has2(fetch_cert_path, {"cert"}, Serials, "end")
      /\ Has2(fetch_cert_crl_path, {"cert"}, {"crl"}, "end")
      /\ Has2(issue_path, {"issue"}, Words, "end")
      /\ Has1(revoke_path, {"revoke"}, "end")
      /\ Has2(crl_rotate_path, {"crl"}, {"rotate"}, "end")
      /\ Has3(keys_generate_path, {"keys"}, {"generate"}, {"exported", "internal"}, "end")
      /\ Has2(keys_import_path, {"keys"}, {"import"}, "end")
      /\ Has2(keys_sign_path, {"keys"}, {"sign"}, "end")
      /\ Has2(keys_verify_path, {"keys"}, {"verify"}, "end")
      /\ Has2(keys_encrypt_path, {"keys"}, {"encrypt"}, "end")
      /\ Has2(keys_decrypt_path, {"keys"}, {"decrypt"}, "end")
  BY DEF Has1, Has2, Has3, Route, Lit, OneOf, Serial, Word, End, Pem, Rest, roles_path,
         config_ca_path, root_generate_path, root_delete_path, fetch_ca_path, fetch_crl_path,
         fetch_cert_path, fetch_cert_crl_path, issue_path, revoke_path, crl_rotate_path,
         keys_generate_path, keys_import_path, keys_sign_path, keys_verify_path,
         keys_encrypt_path, keys_decrypt_path
<1> QED BY <1>1, Match1, Match2, Match3, TailKinds, TailSays DEF PkiShape

LEMMA RangeOfBoth ==
    ASSUME NEW S, NEW s \in Seq(S), NEW t \in Seq(S)
    PROVE  Range(s \o t) = Range(s) \cup Range(t)
<1>1. /\ s \o t \in Seq(S) /\ Len(s \o t) = Len(s) + Len(t)
      /\ \A i \in 1 .. Len(s) : (s \o t)[i] = s[i]
      /\ \A i \in 1 .. Len(t) : (s \o t)[Len(s) + i] = t[i]
  OBVIOUS
<1>2. ASSUME NEW i \in 1 .. Len(s) + Len(t) PROVE (s \o t)[i] \in Range(s) \cup Range(t)
  <2>1. CASE i <= Len(s)
    BY <1>1, <2>1 DEF Range
  <2>2. CASE i > Len(s)
    <3>1. i - Len(s) \in 1 .. Len(t) /\ i = Len(s) + (i - Len(s))
      BY <2>2
    <3>2. (s \o t)[i] = t[i - Len(s)]
      BY <1>1, <3>1
    <3> QED BY <3>1, <3>2 DEF Range
  <2> QED BY <2>1, <2>2
<1>3. ASSUME NEW i \in 1 .. Len(s) PROVE s[i] \in Range(s \o t)
  <2>1. i \in DOMAIN (s \o t)
    BY <1>1
  <2> QED BY <1>1, <2>1 DEF Range
<1>4. ASSUME NEW i \in 1 .. Len(t) PROVE t[i] \in Range(s \o t)
  <2>1. Len(s) + i \in DOMAIN (s \o t)
    BY <1>1
  <2> QED BY <1>1, <2>1 DEF Range
<1>5. /\ \A v \in Range(s \o t) : \E i \in 1 .. Len(s) + Len(t) : v = (s \o t)[i]
      /\ \A v \in Range(s) : \E i \in 1 .. Len(s) : v = s[i]
      /\ \A v \in Range(t) : \E i \in 1 .. Len(t) : v = t[i]
  BY <1>1 DEF Range
<1>6. Range(s \o t) \subseteq Range(s) \cup Range(t)
  BY <1>2, <1>5
<1>7. Range(s) \subseteq Range(s \o t) /\ Range(t) \subseteq Range(s \o t)
  BY <1>3, <1>4, <1>5
<1> QED BY <1>6, <1>7

SysPaths ==
    {sys_mounts_path, sys_mounts_at_path, sys_remount_path, sys_renew_path, sys_revoke_path,
     sys_revoke_prefix_path, sys_auth_path, sys_auth_at_path, sys_policy_list_path,
     sys_policy_path, sys_acl_policy_list_path, sys_acl_policy_path, sys_audit_path,
     sys_audit_at_path, sys_raw_path}

LEMMA SysRoutes == Range(sys_backend.routes) = SysPaths
BY DEF Range, sys_backend, SysPaths

LEMMA SysApart ==
    ASSUME NEW S, NEW path \in Seq(S), SysShape(path), NEW r \in SysPaths, NEW q \in SysPaths,
           Anchored(path, r), Anchored(path, q)
    PROVE  r = q
<1>1. Blank \notin Words /\ "crl" \notin Serials
  BY SegmentClasses
<1> QED BY <1>1 DEF SysPaths, SysShape, Ends, MaySlash, MayPem, GoesOn

TokenPaths ==
    {token_create_path, token_lookup_path, token_lookup_self_path, token_revoke_path,
     token_revoke_orphan_path, token_renew_path}

LEMMA TokenRoutes == Range(token_backend.routes) = TokenPaths
BY DEF Range, token_backend, TokenPaths

LEMMA TokenApart ==
    ASSUME NEW S, NEW path \in Seq(S), TokenShape(path), NEW r \in TokenPaths, NEW q \in TokenPaths,
           Anchored(path, r), Anchored(path, q)
    PROVE  r = q
<1>1. Blank \notin Words /\ "crl" \notin Serials
  BY SegmentClasses
<1> QED BY <1>1 DEF TokenPaths, TokenShape, Ends, MaySlash, MayPem, GoesOn

RolePaths ==
    {role_path, role_name_path, role_policies_path, role_local_secret_ids_path,
     role_bound_cidr_list_path, role_secret_id_bound_cidrs_path, role_token_bound_cidrs_path,
     role_bind_secret_id_path, role_secret_id_num_uses_path, role_secret_id_ttl_path,
     role_period_path, role_token_num_uses_path, role_token_ttl_path, role_token_max_ttl_path,
     role_role_id_path, role_secret_id_path, role_secret_id_lookup_path,
     role_secret_id_destroy_path, role_secret_id_accessor_lookup_path,
     role_secret_id_accessor_destroy_path, role_custom_secret_id_path, approle_login_path,
     tidy_secret_id_path}

LEMMA RoleRoutes == Range(approle_backend.routes) = RolePaths
<1>1. /\ Len(role_paths) = 21
      /\ Range(role_paths) = {role_path, role_name_path, role_policies_path, role_local_secret_ids_path,
          role_bound_cidr_list_path, role_secret_id_bound_cidrs_path,
          role_token_bound_cidrs_path, role_bind_secret_id_path, role_secret_id_num_uses_path,
          role_secret_id_ttl_path, role_period_path, role_token_num_uses_path,
          role_token_ttl_path, role_token_max_ttl_path, role_role_id_path, role_secret_id_path,
          role_secret_id_lookup_path, role_secret_id_destroy_path,
          role_secret_id_accessor_lookup_path, role_secret_id_accessor_destroy_path,
          role_custom_secret_id_path}
  BY DEF Range, role_paths
<1> DEFINE more == <<approle_login_path, role_path, tidy_secret_id_path>>
<1>2. Len(more) = 3 /\ Range(more) = {approle_login_path, role_path, tidy_secret_id_path}
  BY DEF Range
<1>3. approle_backend.routes = role_paths \o more
  BY DEF approle_backend
<1> DEFINE R == Range(role_paths) \cup Range(more)
<1>5. role_paths \in Seq(R) /\ more \in Seq(R)
  BY DEF Range, role_paths
<1> HIDE DEF more, R
<1>4. Range(role_paths \o more) = Range(role_paths) \cup Range(more)
  BY <1>5, RangeOfBoth
<1> QED BY <1>1, <1>2, <1>3, <1>4 DEF RolePaths

LEMMA RoleApart ==
    ASSUME NEW S, NEW path \in Seq(S), RoleShape(path), NEW r \in RolePaths, NEW q \in RolePaths,
           Anchored(path, r), Anchored(path, q)
    PROVE  r = q
<1>1. Blank \notin Words /\ "crl" \notin Serials
  BY SegmentClasses
<1>2. Blank # "lookup" /\ Blank # "destroy"
  BY DEF Blank
<1> QED BY <1>1, <1>2 DEF RolePaths, RoleShape, Ends, MaySlash, MayPem, GoesOn

CertPaths ==
    {config_path, certs_path, certs_list_path, crl_path, crl_list_path, cert_login_path}

LEMMA CertRoutes == Range(cert_backend.routes) = CertPaths
BY DEF Range, cert_backend, CertPaths

LEMMA CertApart ==
    ASSUME NEW S, NEW path \in Seq(S), CertShape(path), NEW r \in CertPaths, NEW q \in CertPaths,
           Anchored(path, r), Anchored(path, q)
    PROVE  r = q
<1>1. Blank \notin Words /\ "crl" \notin Serials
  BY SegmentClasses
<1> QED BY <1>1 DEF CertPaths, CertShape, Ends, MaySlash, MayPem, GoesOn

UserPaths ==
    {users_path, user_list_path, user_password_path, userpass_login_path}

LEMMA UserRoutes == Range(userpass_backend.routes) = UserPaths
BY DEF Range, userpass_backend, UserPaths

LEMMA UserApart ==
    ASSUME NEW S, NEW path \in Seq(S), UserShape(path), NEW r \in UserPaths, NEW q \in UserPaths,
           Anchored(path, r), Anchored(path, q)
    PROVE  r = q
<1>1. Blank \notin Words /\ "crl" \notin Serials
  BY SegmentClasses
<1> QED BY <1>1 DEF UserPaths, UserShape, Ends, MaySlash, MayPem, GoesOn

KvPaths ==
    {kv_any_path}

LEMMA KvRoutes == Range(kv_backend.routes) = KvPaths
BY DEF Range, kv_backend, KvPaths

LEMMA KvApart ==
    ASSUME NEW S, NEW path \in Seq(S), KvShape(path), NEW r \in KvPaths, NEW q \in KvPaths,
           Anchored(path, r), Anchored(path, q)
    PROVE  r = q
<1>1. Blank \notin Words /\ "crl" \notin Serials
  BY SegmentClasses
<1> QED BY <1>1 DEF KvPaths, KvShape, Ends, MaySlash, MayPem, GoesOn

PkiPaths ==
    {roles_path, config_ca_path, root_generate_path, root_delete_path, fetch_ca_path,
     fetch_crl_path, fetch_cert_path, fetch_cert_crl_path, issue_path, revoke_path,
     crl_rotate_path, keys_generate_path, keys_import_path, keys_sign_path, keys_verify_path,
     keys_encrypt_path, keys_decrypt_path}

LEMMA PkiRoutes == Range(pki_backend.routes) = PkiPaths
BY DEF Range, pki_backend, PkiPaths

LEMMA PkiApart ==
    ASSUME NEW S, NEW path \in Seq(S), PkiShape(path), NEW r \in PkiPaths, NEW q \in PkiPaths,
           Anchored(path, r), Anchored(path, q)
    PROVE  r = q
<1>1. Blank \notin Words /\ "crl" \notin Serials
  BY SegmentClasses
<1> QED BY <1>1 DEF PkiPaths, PkiShape, Ends, MaySlash, MayPem, GoesOn

\* At most one route of a backend takes a path.
LEMMA OneMatch ==
    ASSUME NEW be \in DOMAIN Backends, NEW S, NEW path \in Seq(S),
           NEW r \in Range(Backends[be].routes), NEW q \in Range(Backends[be].routes),
           Anchored(path, r), Anchored(path, q)
    PROVE  r = q
<1>1. CASE be = "sys"
  <2>1. r \in SysPaths /\ q \in SysPaths
    BY <1>1, SysRoutes DEF Backends
  <2> QED BY <2>1, SysShapes, SysApart
<1>2. CASE be = "token"
  <2>1. r \in TokenPaths /\ q \in TokenPaths
    BY <1>2, TokenRoutes DEF Backends
  <2> QED BY <2>1, TokenShapes, TokenApart
<1>3. CASE be = "approle"
  <2>1. r \in RolePaths /\ q \in RolePaths
    BY <1>3, RoleRoutes DEF Backends
  <2> QED BY <2>1, RoleShapes, RoleApart
<1>4. CASE be = "cert"
  <2>1. r \in CertPaths /\ q \in CertPaths
    BY <1>4, CertRoutes DEF Backends
  <2> QED BY <2>1, CertShapes, CertApart
<1>5. CASE be = "userpass"
  <2>1. r \in UserPaths /\ q \in UserPaths
    BY <1>5, UserRoutes DEF Backends
  <2> QED BY <2>1, UserShapes, UserApart
<1>6. CASE be = "kv"
  <2>1. r \in KvPaths /\ q \in KvPaths
    BY <1>6, KvRoutes DEF Backends
  <2> QED BY <2>1, KvShapes, KvApart
<1>7. CASE be = "pki"
  <2>1. r \in PkiPaths /\ q \in PkiPaths
    BY <1>7, PkiRoutes DEF Backends
  <2> QED BY <2>1, PkiShapes, PkiApart
<1> QED BY <1>1, <1>2, <1>3, <1>4, <1>5, <1>6, <1>7 DEF Backends

FieldTypes == {Str, SecretStr, Integer, Bool, Array, Map, Duration, Slice}

Typed(fields) == \A k \in DOMAIN fields : fields[k].type \in FieldTypes

LEMMA TypedOnes ==
    ASSUME NEW type \in FieldTypes, NEW kind, NEW names
    PROVE  Typed(Field(type, names)) /\ Typed(Default(type, kind, names)) /\ Typed(Required(type, names))
BY DEF Typed, Field, Default, Required

LEMMA TypedBoth ==
    ASSUME NEW f, NEW g, Typed(f), Typed(g) PROVE Typed(f ++ g)
BY DEF Typed, ++

LEMMA TypesKnown ==
    /\ Str \in FieldTypes /\ SecretStr \in FieldTypes /\ Integer \in FieldTypes
    /\ Bool \in FieldTypes /\ Array \in FieldTypes /\ Map \in FieldTypes
    /\ Duration \in FieldTypes /\ Slice \in FieldTypes
BY DEF FieldTypes

LEMMA TypedShared ==
    /\ Typed(NoFields) /\ Typed(token_fields) /\ Typed(cert_rule_fields) /\ Typed(cert_token_fields)
    /\ Typed(ca_common_fields) /\ Typed(ca_key_generation_fields) /\ Typed(ca_issue_fields)
    /\ Typed(role_allow_fields) /\ Typed(role_key_fields) /\ Typed(role_subject_fields)
<1>1. Typed(NoFields) /\ Typed(token_fields)
  BY TypedOnes, TypedBoth, TypesKnown DEF NoFields, token_fields
<1>2. Typed(cert_rule_fields) /\ Typed(cert_token_fields)
  BY <1>1, TypedOnes, TypedBoth, TypesKnown DEF cert_rule_fields, cert_token_fields
<1>3. Typed(ca_common_fields) /\ Typed(ca_key_generation_fields) /\ Typed(ca_issue_fields)
  BY TypedOnes, TypedBoth, TypesKnown DEF ca_common_fields, ca_key_generation_fields, ca_issue_fields
<1>4. Typed(role_allow_fields) /\ Typed(role_key_fields) /\ Typed(role_subject_fields)
  BY TypedOnes, TypedBoth, TypesKnown DEF role_allow_fields, role_key_fields, role_subject_fields
<1> QED BY <1>1, <1>2, <1>3, <1>4

\* The names paths are captured under: none of them is one a handler falls
\* back from or to.
Captured ==
    {"path", "lease_id", "prefix", "name", "token", "role_name", "username", "exported", "serial",
     "role"}

CaptureOk(e) == e.as \in Captured \cup {Blank}

KnownRoute(r) ==
    Len(r.pattern) \in Nat /\ Typed(r.fields) /\ captures(r) \subseteq Captured

LEMMA CapturesOk ==
    /\ \A s : CaptureOk(Lit(s)) /\ CaptureOk(OneOf(s))
    /\ \A n \in Captured : CaptureOk(Word(n)) /\ CaptureOk(Serial(n)) /\ CaptureOk(Rest(n))
    /\ CaptureOk(End) /\ CaptureOk(Slash) /\ CaptureOk(Pem) /\ CaptureOk(Whole)
BY DEF CaptureOk, Lit, OneOf, Word, Serial, Rest, End, Slash, Pem, Whole

LEMMA CapturedNames ==
    /\ "path" \in Captured /\ "lease_id" \in Captured /\ "prefix" \in Captured
    /\ "name" \in Captured /\ "token" \in Captured /\ "role_name" \in Captured
    /\ "username" \in Captured /\ "exported" \in Captured /\ "serial" \in Captured
    /\ "role" \in Captured
BY DEF Captured

LEMMA Known0 ==
    ASSUME NEW t, NEW f, NEW ops, CaptureOk(t), Typed(f)
    PROVE  KnownRoute(Route(<<>>, t, f, ops))
<1> DEFINE r == Route(<<>>, t, f, ops)
<1>1. r.pattern = <<>> /\ r.tail = t /\ r.fields = f
  BY DEF Route
<1>2. Len(<<>>) = 0 /\ Range(<<>>) = {}
  BY DEF Range
<1> HIDE DEF r
<1>3. \A e \in Range(r.pattern) : e.as \in Captured \cup {Blank}
  BY <1>1, <1>2 DEF CaptureOk
<1>4. r.tail.as \in Captured \cup {Blank}
  BY <1>1 DEF CaptureOk
<1>5. Len(r.pattern) \in Nat
  BY <1>1, <1>2
<1>6. captures(r) \subseteq Captured
  BY <1>3, <1>4 DEF captures
<1>7. KnownRoute(r)
  BY <1>1, <1>5, <1>6 DEF KnownRoute
<1> QED BY <1>7 DEF r

LEMMA Known1 ==
    ASSUME NEW a, NEW t, NEW f, NEW ops, CaptureOk(a), CaptureOk(t), Typed(f)
    PROVE  KnownRoute(Route(<<a>>, t, f, ops))
<1> DEFINE r == Route(<<a>>, t, f, ops)
<1>1. r.pattern = <<a>> /\ r.tail = t /\ r.fields = f
  BY DEF Route
<1>2. Len(<<a>>) = 1 /\ Range(<<a>>) = {a}
  BY DEF Range
<1> HIDE DEF r
<1>3. \A e \in Range(r.pattern) : e.as \in Captured \cup {Blank}
  BY <1>1, <1>2 DEF CaptureOk
<1>4. r.tail.as \in Captured \cup {Blank}
  BY <1>1 DEF CaptureOk
<1>5. Len(r.pattern) \in Nat
  BY <1>1, <1>2
<1>6. captures(r) \subseteq Captured
  BY <1>3, <1>4 DEF captures
<1>7. KnownRoute(r)
  BY <1>1, <1>5, <1>6 DEF KnownRoute
<1> QED BY <1>7 DEF r

LEMMA Known2 ==
    ASSUME NEW a, NEW b, NEW t, NEW f, NEW ops, CaptureOk(a), CaptureOk(b), CaptureOk(t), Typed(f)
    PROVE  KnownRoute(Route(<<a, b>>, t, f, ops))
<1> DEFINE r == Route(<<a, b>>, t, f, ops)
<1>1. r.pattern = <<a, b>> /\ r.tail = t /\ r.fields = f
  BY DEF Route
<1>2. Len(<<a, b>>) = 2 /\ Range(<<a, b>>) = {a, b}
  BY DEF Range
<1> HIDE DEF r
<1>3. \A e \in Range(r.pattern) : e.as \in Captured \cup {Blank}
  BY <1>1, <1>2 DEF CaptureOk
<1>4. r.tail.as \in Captured \cup {Blank}
  BY <1>1 DEF CaptureOk
<1>5. Len(r.pattern) \in Nat
  BY <1>1, <1>2
<1>6. captures(r) \subseteq Captured
  BY <1>3, <1>4 DEF captures
<1>7. KnownRoute(r)
  BY <1>1, <1>5, <1>6 DEF KnownRoute
<1> QED BY <1>7 DEF r

LEMMA Known3 ==
    ASSUME NEW a, NEW b, NEW c, NEW t, NEW f, NEW ops, CaptureOk(a), CaptureOk(b), CaptureOk(c), CaptureOk(t), Typed(f)
    PROVE  KnownRoute(Route(<<a, b, c>>, t, f, ops))
<1> DEFINE r == Route(<<a, b, c>>, t, f, ops)
<1>1. r.pattern = <<a, b, c>> /\ r.tail = t /\ r.fields = f
  BY DEF Route
<1>2. Len(<<a, b, c>>) = 3 /\ Range(<<a, b, c>>) = {a, b, c}
  BY DEF Range
<1> HIDE DEF r
<1>3. \A e \in Range(r.pattern) : e.as \in Captured \cup {Blank}
  BY <1>1, <1>2 DEF CaptureOk
<1>4. r.tail.as \in Captured \cup {Blank}
  BY <1>1 DEF CaptureOk
<1>5. Len(r.pattern) \in Nat
  BY <1>1, <1>2
<1>6. captures(r) \subseteq Captured
  BY <1>3, <1>4 DEF captures
<1>7. KnownRoute(r)
  BY <1>1, <1>5, <1>6 DEF KnownRoute
<1> QED BY <1>7 DEF r

LEMMA Known4 ==
    ASSUME NEW a, NEW b, NEW c, NEW d, NEW t, NEW f, NEW ops, CaptureOk(a), CaptureOk(b), CaptureOk(c), CaptureOk(d), CaptureOk(t), Typed(f)
    PROVE  KnownRoute(Route(<<a, b, c, d>>, t, f, ops))
<1> DEFINE r == Route(<<a, b, c, d>>, t, f, ops)
<1>1. r.pattern = <<a, b, c, d>> /\ r.tail = t /\ r.fields = f
  BY DEF Route
<1>2. Len(<<a, b, c, d>>) = 4 /\ Range(<<a, b, c, d>>) = {a, b, c, d}
  BY DEF Range
<1> HIDE DEF r
<1>3. \A e \in Range(r.pattern) : e.as \in Captured \cup {Blank}
  BY <1>1, <1>2 DEF CaptureOk
<1>4. r.tail.as \in Captured \cup {Blank}
  BY <1>1 DEF CaptureOk
<1>5. Len(r.pattern) \in Nat
  BY <1>1, <1>2
<1>6. captures(r) \subseteq Captured
  BY <1>3, <1>4 DEF captures
<1>7. KnownRoute(r)
  BY <1>1, <1>5, <1>6 DEF KnownRoute
<1> QED BY <1>7 DEF r

LEMMA SysKnown == \A r \in SysPaths : KnownRoute(r)
<1>1. KnownRoute(sys_mounts_path)
  BY Known1, CapturesOk, CapturedNames, TypedOnes, TypedBoth, TypesKnown, TypedShared DEF sys_mounts_path
<1>2. KnownRoute(sys_mounts_at_path)
  BY Known1, CapturesOk, CapturedNames, TypedOnes, TypedBoth, TypesKnown, TypedShared DEF sys_mounts_at_path
<1>3. KnownRoute(sys_remount_path)
  BY Known1, CapturesOk, CapturedNames, TypedOnes, TypedBoth, TypesKnown, TypedShared DEF sys_remount_path
<1>4. KnownRoute(sys_renew_path)
  BY Known1, CapturesOk, CapturedNames, TypedOnes, TypedBoth, TypesKnown, TypedShared DEF sys_renew_path
<1>5. KnownRoute(sys_revoke_path)
  BY Known1, CapturesOk, CapturedNames, TypedOnes, TypedBoth, TypesKnown, TypedShared DEF sys_revoke_path
<1>6. KnownRoute(sys_revoke_prefix_path)
  BY Known1, CapturesOk, CapturedNames, TypedOnes, TypedBoth, TypesKnown, TypedShared DEF sys_revoke_prefix_path
<1>7. KnownRoute(sys_auth_path)
  BY Known1, CapturesOk, CapturedNames, TypedOnes, TypedBoth, TypesKnown, TypedShared DEF sys_auth_path
<1>8. KnownRoute(sys_auth_at_path)
  BY Known1, CapturesOk, CapturedNames, TypedOnes, TypedBoth, TypesKnown, TypedShared DEF sys_auth_at_path
<1>9. KnownRoute(sys_policy_list_path)
  BY Known1, CapturesOk, CapturedNames, TypedOnes, TypedBoth, TypesKnown, TypedShared DEF sys_policy_list_path
<1>10. KnownRoute(sys_policy_path)
  BY Known1, CapturesOk, CapturedNames, TypedOnes, TypedBoth, TypesKnown, TypedShared DEF sys_policy_path
<1>11. KnownRoute(sys_acl_policy_list_path)
  BY Known2, CapturesOk, CapturedNames, TypedOnes, TypedBoth, TypesKnown, TypedShared DEF sys_acl_policy_list_path
<1>12. KnownRoute(sys_acl_policy_path)
  BY Known2, CapturesOk, CapturedNames, TypedOnes, TypedBoth, TypesKnown, TypedShared DEF sys_acl_policy_path
<1>13. KnownRoute(sys_audit_path)
  BY Known1, CapturesOk, CapturedNames, TypedOnes, TypedBoth, TypesKnown, TypedShared DEF sys_audit_path
<1>14. KnownRoute(sys_audit_at_path)
  BY Known1, CapturesOk, CapturedNames, TypedOnes, TypedBoth, TypesKnown, TypedShared DEF sys_audit_at_path
<1>15. KnownRoute(sys_raw_path)
  BY Known1, CapturesOk, CapturedNames, TypedOnes, TypedBoth, TypesKnown, TypedShared DEF sys_raw_path
<1> QED BY <1>1, <1>2, <1>3, <1>4, <1>5, <1>6, <1>7, <1>8, <1>9, <1>10, <1>11, <1>12, <1>13, <1>14, <1>15 DEF SysPaths

LEMMA TokenKnown == \A r \in TokenPaths : KnownRoute(r)
<1>1. KnownRoute(token_create_path)
  BY Known1, CapturesOk, CapturedNames, TypedOnes, TypedBoth, TypesKnown, TypedShared DEF token_create_path
<1>2. KnownRoute(token_lookup_path)
  BY Known1, CapturesOk, CapturedNames, TypedOnes, TypedBoth, TypesKnown, TypedShared DEF token_lookup_path
<1>3. KnownRoute(token_lookup_self_path)
  BY Known1, CapturesOk, CapturedNames, TypedOnes, TypedBoth, TypesKnown, TypedShared DEF token_lookup_self_path
<1>4. KnownRoute(token_revoke_path)
  BY Known1, CapturesOk, CapturedNames, TypedOnes, TypedBoth, TypesKnown, TypedShared DEF token_revoke_path
<1>5. KnownRoute(token_revoke_orphan_path)
  BY Known1, CapturesOk, CapturedNames, TypedOnes, TypedBoth, TypesKnown, TypedShared DEF token_revoke_orphan_path
<1>6. KnownRoute(token_renew_path)
  BY Known1, CapturesOk, CapturedNames, TypedOnes, TypedBoth, TypesKnown, TypedShared DEF token_renew_path
<1> QED BY <1>1, <1>2, <1>3, <1>4, <1>5, <1>6 DEF TokenPaths

LEMMA RoleKnown == \A r \in RolePaths : KnownRoute(r)
<1>1. KnownRoute(role_path)
  BY Known1, CapturesOk, CapturedNames, TypedOnes, TypedBoth, TypesKnown, TypedShared DEF role_path
<1>2. KnownRoute(role_name_path)
  BY Known2, CapturesOk, CapturedNames, TypedOnes, TypedBoth, TypesKnown, TypedShared DEF role_name_path
<1>3. KnownRoute(role_policies_path)
  BY Known3, CapturesOk, CapturedNames, TypedOnes, TypedBoth, TypesKnown, TypedShared DEF role_policies_path
<1>4. KnownRoute(role_local_secret_ids_path)
  BY Known3, CapturesOk, CapturedNames, TypedOnes, TypedBoth, TypesKnown, TypedShared DEF role_local_secret_ids_path
<1>5. KnownRoute(role_bound_cidr_list_path)
  BY Known3, CapturesOk, CapturedNames, TypedOnes, TypedBoth, TypesKnown, TypedShared DEF role_bound_cidr_list_path
<1>6. KnownRoute(role_secret_id_bound_cidrs_path)
  BY Known3, CapturesOk, CapturedNames, TypedOnes, TypedBoth, TypesKnown, TypedShared DEF role_secret_id_bound_cidrs_path
<1>7. KnownRoute(role_token_bound_cidrs_path)
  BY Known3, CapturesOk, CapturedNames, TypedOnes, TypedBoth, TypesKnown, TypedShared DEF role_token_bound_cidrs_path
<1>8. KnownRoute(role_bind_secret_id_path)
  BY Known3, CapturesOk, CapturedNames, TypedOnes, TypedBoth, TypesKnown, TypedShared DEF role_bind_secret_id_path
<1>9. KnownRoute(role_secret_id_num_uses_path)
  BY Known3, CapturesOk, CapturedNames, TypedOnes, TypedBoth, TypesKnown, TypedShared DEF role_secret_id_num_uses_path
<1>10. KnownRoute(role_secret_id_ttl_path)
  BY Known3, CapturesOk, CapturedNames, TypedOnes, TypedBoth, TypesKnown, TypedShared DEF role_secret_id_ttl_path
<1>11. KnownRoute(role_period_path)
  BY Known3, CapturesOk, CapturedNames, TypedOnes, TypedBoth, TypesKnown, TypedShared DEF role_period_path
<1>12. KnownRoute(role_token_num_uses_path)
  BY Known3, CapturesOk, CapturedNames, TypedOnes, TypedBoth, TypesKnown, TypedShared DEF role_token_num_uses_path
<1>13. KnownRoute(role_token_ttl_path)
  BY Known3, CapturesOk, CapturedNames, TypedOnes, TypedBoth, TypesKnown, TypedShared DEF role_token_ttl_path
<1>14. KnownRoute(role_token_max_ttl_path)
  BY Known3, CapturesOk, CapturedNames, TypedOnes, TypedBoth, TypesKnown, TypedShared DEF role_token_max_ttl_path
<1>15. KnownRoute(role_role_id_path)
  BY Known3, CapturesOk, CapturedNames, TypedOnes, TypedBoth, TypesKnown, TypedShared DEF role_role_id_path
<1>16. KnownRoute(role_secret_id_path)
  BY Known3, CapturesOk, CapturedNames, TypedOnes, TypedBoth, TypesKnown, TypedShared DEF role_secret_id_path
<1>17. KnownRoute(role_secret_id_lookup_path)
  BY Known4, CapturesOk, CapturedNames, TypedOnes, TypedBoth, TypesKnown, TypedShared DEF role_secret_id_lookup_path
<1>18. KnownRoute(role_secret_id_destroy_path)
  BY Known4, CapturesOk, CapturedNames, TypedOnes, TypedBoth, TypesKnown, TypedShared DEF role_secret_id_destroy_path
<1>19. KnownRoute(role_secret_id_accessor_lookup_path)
  BY Known4, CapturesOk, CapturedNames, TypedOnes, TypedBoth, TypesKnown, TypedShared DEF role_secret_id_accessor_lookup_path
<1>20. KnownRoute(role_secret_id_accessor_destroy_path)
  BY Known4, CapturesOk, CapturedNames, TypedOnes, TypedBoth, TypesKnown, TypedShared DEF role_secret_id_accessor_destroy_path
<1>21. KnownRoute(role_custom_secret_id_path)
  BY Known3, CapturesOk, CapturedNames, TypedOnes, TypedBoth, TypesKnown, TypedShared DEF role_custom_secret_id_path
<1>22. KnownRoute(approle_login_path)
  BY Known1, CapturesOk, CapturedNames, TypedOnes, TypedBoth, TypesKnown, TypedShared DEF approle_login_path
<1>23. KnownRoute(tidy_secret_id_path)
  BY Known2, CapturesOk, CapturedNames, TypedOnes, TypedBoth, TypesKnown, TypedShared DEF tidy_secret_id_path
<1> QED BY <1>1, <1>2, <1>3, <1>4, <1>5, <1>6, <1>7, <1>8, <1>9, <1>10, <1>11, <1>12, <1>13, <1>14, <1>15, <1>16, <1>17, <1>18, <1>19, <1>20, <1>21, <1>22, <1>23 DEF RolePaths

LEMMA CertKnown == \A r \in CertPaths : KnownRoute(r)
<1>1. KnownRoute(config_path)
  BY Known1, CapturesOk, CapturedNames, TypedOnes, TypedBoth, TypesKnown, TypedShared DEF config_path
<1>2. KnownRoute(certs_path)
  BY Known2, CapturesOk, CapturedNames, TypedOnes, TypedBoth, TypesKnown, TypedShared DEF certs_path
<1>3. KnownRoute(certs_list_path)
  BY Known1, CapturesOk, CapturedNames, TypedOnes, TypedBoth, TypesKnown, TypedShared DEF certs_list_path
<1>4. KnownRoute(crl_path)
  BY Known2, CapturesOk, CapturedNames, TypedOnes, TypedBoth, TypesKnown, TypedShared DEF crl_path
<1>5. KnownRoute(crl_list_path)
  BY Known1, CapturesOk, CapturedNames, TypedOnes, TypedBoth, TypesKnown, TypedShared DEF crl_list_path
<1>6. KnownRoute(cert_login_path)
  BY Known1, CapturesOk, CapturedNames, TypedOnes, TypedBoth, TypesKnown, TypedShared DEF cert_login_path
<1> QED BY <1>1, <1>2, <1>3, <1>4, <1>5, <1>6 DEF CertPaths

LEMMA UserKnown == \A r \in UserPaths : KnownRoute(r)
<1>1. KnownRoute(users_path)
  BY Known2, CapturesOk, CapturedNames, TypedOnes, TypedBoth, TypesKnown, TypedShared DEF users_path
<1>2. KnownRoute(user_list_path)
  BY Known1, CapturesOk, CapturedNames, TypedOnes, TypedBoth, TypesKnown, TypedShared DEF user_list_path
<1>3. KnownRoute(user_password_path)
  BY Known3, CapturesOk, CapturedNames, TypedOnes, TypedBoth, TypesKnown, TypedShared DEF user_password_path
<1>4. KnownRoute(userpass_login_path)
  BY Known2, CapturesOk, CapturedNames, TypedOnes, TypedBoth, TypesKnown, TypedShared DEF userpass_login_path
<1> QED BY <1>1, <1>2, <1>3, <1>4 DEF UserPaths

LEMMA KvKnown == \A r \in KvPaths : KnownRoute(r)
<1>1. KnownRoute(kv_any_path)
  BY Known0, CapturesOk, CapturedNames, TypedOnes, TypedBoth, TypesKnown, TypedShared DEF kv_any_path
<1> QED BY <1>1 DEF KvPaths

LEMMA PkiKnown == \A r \in PkiPaths : KnownRoute(r)
<1>1. KnownRoute(roles_path)
  BY Known2, CapturesOk, CapturedNames, TypedOnes, TypedBoth, TypesKnown, TypedShared DEF roles_path
<1>2. KnownRoute(config_ca_path)
  BY Known2, CapturesOk, CapturedNames, TypedOnes, TypedBoth, TypesKnown, TypedShared DEF config_ca_path
<1>3. KnownRoute(root_generate_path)
  BY Known2, CapturesOk, CapturedNames, TypedOnes, TypedBoth, TypesKnown, TypedShared DEF root_generate_path
<1>4. KnownRoute(root_delete_path)
  BY Known1, CapturesOk, CapturedNames, TypedOnes, TypedBoth, TypesKnown, TypedShared DEF root_delete_path
<1>5. KnownRoute(fetch_ca_path)
  BY Known1, CapturesOk, CapturedNames, TypedOnes, TypedBoth, TypesKnown, TypedShared DEF fetch_ca_path
<1>6. KnownRoute(fetch_crl_path)
  BY Known1, CapturesOk, CapturedNames, TypedOnes, TypedBoth, TypesKnown, TypedShared DEF fetch_crl_path
<1>7. KnownRoute(fetch_cert_path)
  BY Known2, CapturesOk, CapturedNames, TypedOnes, TypedBoth, TypesKnown, TypedShared DEF fetch_cert_path
<1>8. KnownRoute(fetch_cert_crl_path)
  BY Known2, CapturesOk, CapturedNames, TypedOnes, TypedBoth, TypesKnown, TypedShared DEF fetch_cert_crl_path
<1>9. KnownRoute(issue_path)
  BY Known2, CapturesOk, CapturedNames, TypedOnes, TypedBoth, TypesKnown, TypedShared DEF issue_path
<1>10. KnownRoute(revoke_path)
  BY Known1, CapturesOk, CapturedNames, TypedOnes, TypedBoth, TypesKnown, TypedShared DEF revoke_path
<1>11. KnownRoute(crl_rotate_path)
  BY Known2, CapturesOk, CapturedNames, TypedOnes, TypedBoth, TypesKnown, TypedShared DEF crl_rotate_path
<1>12. KnownRoute(keys_generate_path)
  BY Known3, CapturesOk, CapturedNames, TypedOnes, TypedBoth, TypesKnown, TypedShared DEF keys_generate_path
<1>13. KnownRoute(keys_import_path)
  BY Known2, CapturesOk, CapturedNames, TypedOnes, TypedBoth, TypesKnown, TypedShared DEF keys_import_path
<1>14. KnownRoute(keys_sign_path)
  BY Known2, CapturesOk, CapturedNames, TypedOnes, TypedBoth, TypesKnown, TypedShared DEF keys_sign_path
<1>15. KnownRoute(keys_verify_path)
  BY Known2, CapturesOk, CapturedNames, TypedOnes, TypedBoth, TypesKnown, TypedShared DEF keys_verify_path
<1>16. KnownRoute(keys_encrypt_path)
  BY Known2, CapturesOk, CapturedNames, TypedOnes, TypedBoth, TypesKnown, TypedShared DEF keys_encrypt_path
<1>17. KnownRoute(keys_decrypt_path)
  BY Known2, CapturesOk, CapturedNames, TypedOnes, TypedBoth, TypesKnown, TypedShared DEF keys_decrypt_path
<1> QED BY <1>1, <1>2, <1>3, <1>4, <1>5, <1>6, <1>7, <1>8, <1>9, <1>10, <1>11, <1>12, <1>13, <1>14, <1>15, <1>16, <1>17 DEF PkiPaths

LEMMA ListsOfRoutes ==
    ASSUME NEW be \in DOMAIN Backends
    PROVE  \E S : Backends[be].routes \in Seq(S)
<1> DEFINE more == <<approle_login_path, role_path, tidy_secret_id_path>>
           R == Range(role_paths) \cup Range(more)
<1>1. role_paths \in Seq(R) /\ more \in Seq(R)
  BY DEF Range, role_paths
<1>2. approle_backend.routes = role_paths \o more
  BY DEF approle_backend
<1> HIDE DEF more, R
<1>3. approle_backend.routes \in Seq(R)
  BY <1>1, <1>2
<1>4. /\ sys_backend.routes \in Seq(SysPaths)
      /\ token_backend.routes \in Seq(TokenPaths)
      /\ cert_backend.routes \in Seq(CertPaths)
      /\ userpass_backend.routes \in Seq(UserPaths)
      /\ kv_backend.routes \in Seq(KvPaths)
      /\ pki_backend.routes \in Seq(PkiPaths)
  BY DEF sys_backend, token_backend, cert_backend, userpass_backend, kv_backend, pki_backend,
         SysPaths, TokenPaths, CertPaths, UserPaths, KvPaths, PkiPaths
<1> QED BY <1>3, <1>4 DEF Backends

LEMMA BackendKnown ==
    ASSUME NEW be \in DOMAIN Backends, NEW r \in Range(Backends[be].routes)
    PROVE  KnownRoute(r)
BY SysRoutes, TokenRoutes, RoleRoutes, CertRoutes, UserRoutes, KvRoutes, PkiRoutes, SysKnown,
   TokenKnown, RoleKnown, CertKnown, UserKnown, KvKnown, PkiKnown DEF Backends

\* What match_path finds.
LEMMA MatchFirst ==
    ASSUME NEW be \in DOMAIN Backends, NEW path
    PROVE  LET b == Backends[be]
               i == match_path(b, path)
           IN  /\ i # 0 => b.routes[i] \in Range(b.routes) /\ Anchored(path, b.routes[i])
               /\ i = 0 => \A r \in Range(b.routes) : ~Anchored(path, r)
<1> DEFINE b == Backends[be]
           hits == {i \in 1..Len(b.routes) : Anchored(path, b.routes[i])}
<1>1. PICK S : b.routes \in Seq(S)
  BY ListsOfRoutes
<1>2. Len(b.routes) \in Nat /\ DOMAIN b.routes = 1 .. Len(b.routes)
  BY <1>1
<1>3. match_path(b, path) = IF hits = {} THEN 0 ELSE CHOOSE i \in hits : \A j \in hits : i <= j
  BY DEF match_path
<1> HIDE DEF b
<1>4. CASE hits = {}
  BY <1>2, <1>3, <1>4 DEF Range, b
<1>5. CASE hits # {}
  <2>1. hits \in SUBSET Nat
    BY <1>2
  <2>2. PICK i \in hits : \A j \in hits : i <= j
    <3>1. PICK x \in hits : \A y \in hits : ~ (<<y, x>> \in OpToRel(<, Nat))
      BY <1>5, <2>1, NatLessThanWellFounded, WFMin
    <3>2. \A y \in hits : ~ (y < x)
      BY <2>1, <3>1 DEF OpToRel
    <3> QED BY <2>1, <3>2
  <2> DEFINE m == match_path(b, path)
  <2>3. m \in hits
    BY <1>3, <1>5, <2>2
  <2> HIDE DEF m
  <2>4. m \in 1 .. Len(b.routes) /\ Anchored(path, b.routes[m])
    BY <2>3
  <2>5. m # 0 /\ b.routes[m] \in Range(b.routes)
    BY <1>2, <2>4 DEF Range
  <2> QED BY <2>4, <2>5 DEF m, b
<1> QED BY <1>4, <1>5

(***************************************************************************)
(* For every backend, path and operation: match_path picks the only route  *)
(* that serves them, and picks none only when none does.                   *)
(***************************************************************************)
THEOREM OnlyServer ==
    ASSUME NEW be \in DOMAIN Backends, NEW S, NEW path \in Seq(S), NEW op
    PROVE  LET b == Backends[be]
               i == match_path(b, path)
           IN  /\ i # 0 /\ op \in DOMAIN b.routes[i].ops => Servers(b, path, op) = {b.routes[i]}
               /\ i = 0 \/ op \notin DOMAIN b.routes[i].ops => Servers(b, path, op) = {}
<1> DEFINE b == Backends[be]
           i == match_path(b, path)
<1>1. i # 0 => b.routes[i] \in Range(b.routes) /\ Anchored(path, b.routes[i])
  BY MatchFirst
<1>2. i = 0 => \A r \in Range(b.routes) : ~Anchored(path, r)
  BY MatchFirst
<1>3. \A r, q \in Range(b.routes) : Anchored(path, r) /\ Anchored(path, q) => r = q
  BY OneMatch
<1> HIDE DEF b, i
<1>4. /\ i # 0 /\ op \in DOMAIN b.routes[i].ops => Servers(b, path, op) = {b.routes[i]}
      /\ i = 0 \/ op \notin DOMAIN b.routes[i].ops => Servers(b, path, op) = {}
  BY <1>1, <1>2, <1>3 DEF Servers
<1> QED BY <1>4 DEF b, i

\* The handlers of a route are all private, or all public.
Private(r) == \A op \in DOMAIN r.ops : r.ops[op] \notin {"none"} \cup PublicHandlers
Public(r)  == \A op \in DOMAIN r.ops : r.ops[op] \in PublicHandlers

LEMMA SysAccess ==
    \A r \in SysPaths : Private(r)
<1>1. Private(sys_mounts_path)
  BY DEF Private, PublicHandlers, Route, sys_mounts_path
<1>2. Private(sys_mounts_at_path)
  BY DEF Private, PublicHandlers, Route, sys_mounts_at_path
<1>3. Private(sys_remount_path)
  BY DEF Private, PublicHandlers, Route, sys_remount_path
<1>4. Private(sys_renew_path)
  BY DEF Private, PublicHandlers, Route, sys_renew_path
<1>5. Private(sys_revoke_path)
  BY DEF Private, PublicHandlers, Route, sys_revoke_path
<1>6. Private(sys_revoke_prefix_path)
  BY DEF Private, PublicHandlers, Route, sys_revoke_prefix_path
<1>7. Private(sys_auth_path)
  BY DEF Private, PublicHandlers, Route, sys_auth_path
<1>8. Private(sys_auth_at_path)
  BY DEF Private, PublicHandlers, Route, sys_auth_at_path
<1>9. Private(sys_policy_list_path)
  BY DEF Private, PublicHandlers, Route, sys_policy_list_path
<1>10. Private(sys_policy_path)
  BY DEF Private, PublicHandlers, Route, sys_policy_path
<1>11. Private(sys_acl_policy_list_path)
  BY DEF Private, PublicHandlers, Route, sys_acl_policy_list_path
<1>12. Private(sys_acl_policy_path)
  BY DEF Private, PublicHandlers, Route, sys_acl_policy_path
<1>13. Private(sys_audit_path)
  BY DEF Private, PublicHandlers, Route, sys_audit_path
<1>14. Private(sys_audit_at_path)
  BY DEF Private, PublicHandlers, Route, sys_audit_at_path
<1>15. Private(sys_raw_path)
  BY DEF Private, PublicHandlers, Route, sys_raw_path
<1> QED BY <1>1, <1>2, <1>3, <1>4, <1>5, <1>6, <1>7, <1>8, <1>9, <1>10, <1>11, <1>12, <1>13, <1>14, <1>15 DEF SysPaths

LEMMA TokenAccess ==
    \A r \in TokenPaths : Private(r)
<1>1. Private(token_create_path)
  BY DEF Private, PublicHandlers, Route, token_create_path
<1>2. Private(token_lookup_path)
  BY DEF Private, PublicHandlers, Route, token_lookup_path
<1>3. Private(token_lookup_self_path)
  BY DEF Private, PublicHandlers, Route, token_lookup_self_path
<1>4. Private(token_revoke_path)
  BY DEF Private, PublicHandlers, Route, token_revoke_path
<1>5. Private(token_revoke_orphan_path)
  BY DEF Private, PublicHandlers, Route, token_revoke_orphan_path
<1>6. Private(token_renew_path)
  BY DEF Private, PublicHandlers, Route, token_renew_path
<1> QED BY <1>1, <1>2, <1>3, <1>4, <1>5, <1>6 DEF TokenPaths

LEMMA RoleAccess ==
    /\ \A r \in RolePaths : Private(r) \/ r \in {approle_login_path}
    /\ Public(approle_login_path)
<1>1. Private(role_path)
  BY DEF Private, PublicHandlers, Route, role_path
<1>2. Private(role_name_path)
  BY DEF Private, PublicHandlers, Route, role_name_path
<1>3. Private(role_policies_path)
  BY DEF Private, PublicHandlers, Route, role_policies_path
<1>4. Private(role_local_secret_ids_path)
  BY DEF Private, PublicHandlers, Route, role_local_secret_ids_path
<1>5. Private(role_bound_cidr_list_path)
  BY DEF Private, PublicHandlers, Route, role_bound_cidr_list_path
<1>6. Private(role_secret_id_bound_cidrs_path)
  BY DEF Private, PublicHandlers, Route, role_secret_id_bound_cidrs_path
<1>7. Private(role_token_bound_cidrs_path)
  BY DEF Private, PublicHandlers, Route, role_token_bound_cidrs_path
<1>8. Private(role_bind_secret_id_path)
  BY DEF Private, PublicHandlers, Route, role_bind_secret_id_path
<1>9. Private(role_secret_id_num_uses_path)
  BY DEF Private, PublicHandlers, Route, role_secret_id_num_uses_path
<1>10. Private(role_secret_id_ttl_path)
  BY DEF Private, PublicHandlers, Route, role_secret_id_ttl_path
<1>11. Private(role_period_path)
  BY DEF Private, PublicHandlers, Route, role_period_path
<1>12. Private(role_token_num_uses_path)
  BY DEF Private, PublicHandlers, Route, role_token_num_uses_path
<1>13. Private(role_token_ttl_path)
  BY DEF Private, PublicHandlers, Route, role_token_ttl_path
<1>14. Private(role_token_max_ttl_path)
  BY DEF Private, PublicHandlers, Route, role_token_max_ttl_path
<1>15. Private(role_role_id_path)
  BY DEF Private, PublicHandlers, Route, role_role_id_path
<1>16. Private(role_secret_id_path)
  BY DEF Private, PublicHandlers, Route, role_secret_id_path
<1>17. Private(role_secret_id_lookup_path)
  BY DEF Private, PublicHandlers, Route, role_secret_id_lookup_path
<1>18. Private(role_secret_id_destroy_path)
  BY DEF Private, PublicHandlers, Route, role_secret_id_destroy_path
<1>19. Private(role_secret_id_accessor_lookup_path)
  BY DEF Private, PublicHandlers, Route, role_secret_id_accessor_lookup_path
<1>20. Private(role_secret_id_accessor_destroy_path)
  BY DEF Private, PublicHandlers, Route, role_secret_id_accessor_destroy_path
<1>21. Private(role_custom_secret_id_path)
  BY DEF Private, PublicHandlers, Route, role_custom_secret_id_path
<1>22. Public(approle_login_path)
  BY DEF Public, PublicHandlers, Route, approle_login_path
<1>23. Private(tidy_secret_id_path)
  BY DEF Private, PublicHandlers, Route, tidy_secret_id_path
<1> QED BY <1>1, <1>2, <1>3, <1>4, <1>5, <1>6, <1>7, <1>8, <1>9, <1>10, <1>11, <1>12, <1>13, <1>14, <1>15, <1>16, <1>17, <1>18, <1>19, <1>20, <1>21, <1>22, <1>23 DEF RolePaths

LEMMA CertAccess ==
    /\ \A r \in CertPaths : Private(r) \/ r \in {cert_login_path}
    /\ Public(cert_login_path)
<1>1. Private(config_path)
  BY DEF Private, PublicHandlers, Route, config_path
<1>2. Private(certs_path)
  BY DEF Private, PublicHandlers, Route, certs_path
<1>3. Private(certs_list_path)
  BY DEF Private, PublicHandlers, Route, certs_list_path
<1>4. Private(crl_path)
  BY DEF Private, PublicHandlers, Route, crl_path
<1>5. Private(crl_list_path)
  BY DEF Private, PublicHandlers, Route, crl_list_path
<1>6. Public(cert_login_path)
  BY DEF Public, PublicHandlers, Route, cert_login_path
<1> QED BY <1>1, <1>2, <1>3, <1>4, <1>5, <1>6 DEF CertPaths

LEMMA UserAccess ==
    /\ \A r \in UserPaths : Private(r) \/ r \in {userpass_login_path}
    /\ Public(userpass_login_path)
<1>1. Private(users_path)
  BY DEF Private, PublicHandlers, Route, users_path
<1>2. Private(user_list_path)
  BY DEF Private, PublicHandlers, Route, user_list_path
<1>3. Private(user_password_path)
  BY DEF Private, PublicHandlers, Route, user_password_path
<1>4. Public(userpass_login_path)
  BY DEF Public, PublicHandlers, Route, userpass_login_path
<1> QED BY <1>1, <1>2, <1>3, <1>4 DEF UserPaths

LEMMA KvAccess ==
    \A r \in KvPaths : Private(r)
<1>1. Private(kv_any_path)
  BY DEF Private, PublicHandlers, Route, kv_any_path
<1> QED BY <1>1 DEF KvPaths

LEMMA PkiAccess ==
    /\ \A r \in PkiPaths : Private(r) \/ r \in {fetch_ca_path, fetch_crl_path, fetch_cert_path, fetch_cert_crl_path}
    /\ Public(fetch_ca_path) /\ Public(fetch_crl_path) /\ Public(fetch_cert_path) /\ Public(fetch_cert_crl_path)
<1>1. Private(roles_path)
  BY DEF Private, PublicHandlers, Route, roles_path
<1>2. Private(config_ca_path)
  BY DEF Private, PublicHandlers, Route, config_ca_path
<1>3. Private(root_generate_path)
  BY DEF Private, PublicHandlers, Route, root_generate_path
<1>4. Private(root_delete_path)
  BY DEF Private, PublicHandlers, Route, root_delete_path
<1>5. Public(fetch_ca_path)
  BY DEF Public, PublicHandlers, Route, fetch_ca_path
<1>6. Public(fetch_crl_path)
  BY DEF Public, PublicHandlers, Route, fetch_crl_path
<1>7. Public(fetch_cert_path)
  BY DEF Public, PublicHandlers, Route, fetch_cert_path
<1>8. Public(fetch_cert_crl_path)
  BY DEF Public, PublicHandlers, Route, fetch_cert_crl_path
<1>9. Private(issue_path)
  BY DEF Private, PublicHandlers, Route, issue_path
<1>10. Private(revoke_path)
  BY DEF Private, PublicHandlers, Route, revoke_path
<1>11. Private(crl_rotate_path)
  BY DEF Private, PublicHandlers, Route, crl_rotate_path
<1>12. Private(keys_generate_path)
  BY DEF Private, PublicHandlers, Route, keys_generate_path
<1>13. Private(keys_import_path)
  BY DEF Private, PublicHandlers, Route, keys_import_path
<1>14. Private(keys_sign_path)
  BY DEF Private, PublicHandlers, Route, keys_sign_path
<1>15. Private(keys_verify_path)
  BY DEF Private, PublicHandlers, Route, keys_verify_path
<1>16. Private(keys_encrypt_path)
  BY DEF Private, PublicHandlers, Route, keys_encrypt_path
<1>17. Private(keys_decrypt_path)
  BY DEF Private, PublicHandlers, Route, keys_decrypt_path
<1> QED BY <1>1, <1>2, <1>3, <1>4, <1>5, <1>6, <1>7, <1>8, <1>9, <1>10, <1>11, <1>12, <1>13, <1>14, <1>15, <1>16, <1>17 DEF PkiPaths

LEMMA CoveredShape ==
    ASSUME NEW S, NEW path \in Seq(S), NEW a, NEW b
    PROVE  /\ IsPrefix(<<a>>, path) <=> Len(path) >= 1 /\ path[1] = a
           /\ IsPrefix(<<a, b>>, path) <=> Len(path) >= 2 /\ path[1] = a /\ path[2] = b
           /\ path = <<a>> <=> Len(path) = 1 /\ path[1] = a
           /\ path = <<a, b>> <=> Len(path) = 2 /\ path[1] = a /\ path[2] = b
<1>1. IsPrefix(<<a>>, path) <=> Len(path) >= 1 /\ path[1] = a
  BY DEF IsPrefix
<1>2. IsPrefix(<<a, b>>, path) <=> Len(path) >= 2 /\ path[1] = a /\ path[2] = b
  BY DEF IsPrefix
<1>3. path = <<a>> <=> Len(path) = 1 /\ path[1] = a
  <2>1. ASSUME Len(path) = 1, path[1] = a PROVE path = <<a>>
    <3>1. a \in S
      BY <2>1
    <3>2. <<a>> \in Seq(S) /\ Len(<<a>>) = 1 /\ <<a>>[1] = a
      BY <3>1
    <3>3. \A i \in 1 .. Len(path) : path[i] = <<a>>[i]
      BY <2>1, <3>2
    <3> QED BY <2>1, <3>2, <3>3, SeqEqual
  <2> QED BY <2>1
<1>4. path = <<a, b>> <=> Len(path) = 2 /\ path[1] = a /\ path[2] = b
  <2>1. ASSUME Len(path) = 2, path[1] = a, path[2] = b PROVE path = <<a, b>>
    <3>1. a \in S /\ b \in S
      <4>1. \A i \in 1 .. Len(path) : path[i] \in S
        OBVIOUS
      <4>2. 1 \in 1 .. Len(path) /\ 2 \in 1 .. Len(path)
        BY <2>1
      <4> QED BY <2>1, <4>1, <4>2
    <3>2. <<a, b>> \in Seq(S) /\ Len(<<a, b>>) = 2 /\ <<a, b>>[1] = a /\ <<a, b>>[2] = b
      BY <3>1
    <3>3. \A i \in 1 .. Len(path) : path[i] = <<a, b>>[i]
      BY <2>1, <3>2
    <3> QED BY <2>1, <3>2, <3>3, SeqEqual
  <2> QED BY <2>1
<1> QED BY <1>1, <1>2, <1>3, <1>4

LEMMA OneKey ==
    ASSUME NEW k, NEW path, Len(k.path) \in Nat
    PROVE  is_special_path({k}, path) <=> Covered(k, path) /\ (k.prefix \/ k.path = path)
BY DEF is_special_path, best_key

LEMMA KeySays ==
    ASSUME NEW p, NEW path
    PROVE  /\ Key(p).path = p /\ Key(p).prefix = FALSE /\ Prefix(p).path = p /\ Prefix(p).prefix = TRUE
           /\ Covered(Key(p), path) <=> IsPrefix(p, path)
           /\ Covered(Prefix(p), path) <=> IsPrefix(p, path) /\ Len(path) > Len(p)
BY DEF Key, Prefix, Covered

LEMMA UnauthShape ==
    ASSUME NEW S, NEW path \in Seq(S)
    PROVE  /\ ~is_unauth_path(sys_backend, path) /\ ~is_unauth_path(token_backend, path)
           /\ ~is_unauth_path(kv_backend, path)
           /\ is_unauth_path(approle_backend, path) <=> Len(path) = 1 /\ path[1] = "login"
           /\ is_unauth_path(cert_backend, path) <=> Len(path) = 1 /\ path[1] = "login"
           /\ is_unauth_path(userpass_backend, path) <=> Len(path) > 1 /\ path[1] = "login"
<1>1. /\ ~is_unauth_path(sys_backend, path) /\ ~is_unauth_path(token_backend, path)
      /\ ~is_unauth_path(kv_backend, path)
  BY DEF is_unauth_path, is_special_path, best_key, sys_backend, token_backend, kv_backend
<1> DEFINE login == <<"login">>
<1>2. /\ Len(login) = 1
      /\ IsPrefix(login, path) <=> Len(path) >= 1 /\ path[1] = "login"
      /\ path = login <=> Len(path) = 1 /\ path[1] = "login"
  <2>1. IsPrefix(login, path) <=> Len(path) >= 1 /\ path[1] = "login"
    BY CoveredShape
  <2>2. path = login <=> Len(path) = 1 /\ path[1] = "login"
    BY CoveredShape
  <2> QED BY <2>1, <2>2
<1>3. /\ approle_backend.unauth = {Key(login)} /\ cert_backend.unauth = {Key(login)}
      /\ userpass_backend.unauth = {Prefix(login)}
  BY DEF approle_backend, cert_backend, userpass_backend
<1> HIDE DEF login
<1>4. is_special_path({Key(login)}, path) <=> Covered(Key(login), path) /\ login = path
  <2>1. Key(login).path = login /\ Key(login).prefix = FALSE
    BY KeySays
  <2>2. Len(Key(login).path) \in Nat
    BY <1>2, <2>1
  <2> QED BY <2>1, <2>2, OneKey
<1>5. is_special_path({Prefix(login)}, path) <=> Covered(Prefix(login), path)
  <2>1. Prefix(login).path = login /\ Prefix(login).prefix = TRUE
    BY KeySays
  <2>2. Len(Prefix(login).path) \in Nat
    BY <1>2, <2>1
  <2> QED BY <2>1, <2>2, OneKey
<1>6. /\ Covered(Key(login), path) <=> IsPrefix(login, path)
      /\ Covered(Prefix(login), path) <=> IsPrefix(login, path) /\ Len(path) > Len(login)
  BY KeySays
<1> QED BY <1>1, <1>2, <1>3, <1>4, <1>5, <1>6 DEF is_unauth_path

\* The longest key of PKI decides.
LEMMA PkiUnauth ==
    ASSUME NEW S, NEW path \in Seq(S)
    PROVE  is_unauth_path(pki_backend, path) <=>
              \/ Len(path) > 1 /\ path[1] = "cert"
              \/ Len(path) = 1 /\ path[1] \in {"ca", "crl"}
              \/ Len(path) = 2 /\ path[1] \in {"ca", "crl"} /\ path[2] = "pem"
<1> DEFINE cert == <<"cert">>
           capem == <<"ca", "pem">>
           ca == <<"ca">>
           crl == <<"crl">>
           crlpem == <<"crl", "pem">>
           keys == {Prefix(cert), Key(capem), Key(ca), Key(crl), Key(crlpem)}
<1>1. pki_backend.unauth = keys
  BY DEF pki_backend
<1>2. Len(cert) = 1 /\ Len(ca) = 1 /\ Len(crl) = 1 /\ Len(capem) = 2 /\ Len(crlpem) = 2
  OBVIOUS
<1>3. /\ IsPrefix(cert, path) <=> Len(path) >= 1 /\ path[1] = "cert"
      /\ IsPrefix(ca, path) <=> Len(path) >= 1 /\ path[1] = "ca"
      /\ IsPrefix(crl, path) <=> Len(path) >= 1 /\ path[1] = "crl"
      /\ IsPrefix(capem, path) <=> Len(path) >= 2 /\ path[1] = "ca" /\ path[2] = "pem"
      /\ IsPrefix(crlpem, path) <=> Len(path) >= 2 /\ path[1] = "crl" /\ path[2] = "pem"
      /\ path = ca <=> Len(path) = 1 /\ path[1] = "ca"
      /\ path = crl <=> Len(path) = 1 /\ path[1] = "crl"
      /\ path = capem <=> Len(path) = 2 /\ path[1] = "ca" /\ path[2] = "pem"
      /\ path = crlpem <=> Len(path) = 2 /\ path[1] = "crl" /\ path[2] = "pem"
  <2>1. IsPrefix(cert, path) <=> Len(path) >= 1 /\ path[1] = "cert"
    BY CoveredShape
  <2>2. IsPrefix(ca, path) <=> Len(path) >= 1 /\ path[1] = "ca"
    BY CoveredShape
  <2>3. IsPrefix(crl, path) <=> Len(path) >= 1 /\ path[1] = "crl"
    BY CoveredShape
  <2>4. IsPrefix(capem, path) <=> Len(path) >= 2 /\ path[1] = "ca" /\ path[2] = "pem"
    BY CoveredShape
  <2>5. IsPrefix(crlpem, path) <=> Len(path) >= 2 /\ path[1] = "crl" /\ path[2] = "pem"
    BY CoveredShape
  <2>6. path = ca <=> Len(path) = 1 /\ path[1] = "ca"
    BY CoveredShape
  <2>7. path = crl <=> Len(path) = 1 /\ path[1] = "crl"
    BY CoveredShape
  <2>8. path = capem <=> Len(path) = 2 /\ path[1] = "ca" /\ path[2] = "pem"
    BY CoveredShape
  <2>9. path = crlpem <=> Len(path) = 2 /\ path[1] = "crl" /\ path[2] = "pem"
    BY CoveredShape
  <2> QED BY <2>1, <2>2, <2>3, <2>4, <2>5, <2>6, <2>7, <2>8, <2>9
<1> HIDE DEF cert, ca, crl, capem, crlpem
<1>4. /\ Covered(Prefix(cert), path) <=> Len(path) > 1 /\ path[1] = "cert"
      /\ Covered(Key(ca), path) <=> Len(path) >= 1 /\ path[1] = "ca"
      /\ Covered(Key(crl), path) <=> Len(path) >= 1 /\ path[1] = "crl"
      /\ Covered(Key(capem), path) <=> Len(path) >= 2 /\ path[1] = "ca" /\ path[2] = "pem"
      /\ Covered(Key(crlpem), path) <=> Len(path) >= 2 /\ path[1] = "crl" /\ path[2] = "pem"
  <2>1. Covered(Prefix(cert), path) <=> IsPrefix(cert, path) /\ Len(path) > Len(cert)
    BY KeySays
  <2>2. Covered(Key(ca), path) <=> IsPrefix(ca, path)
    BY KeySays
  <2>3. Covered(Key(crl), path) <=> IsPrefix(crl, path)
    BY KeySays
  <2>4. Covered(Key(capem), path) <=> IsPrefix(capem, path)
    BY KeySays
  <2>5. Covered(Key(crlpem), path) <=> IsPrefix(crlpem, path)
    BY KeySays
  <2> QED BY <1>2, <1>3, <2>1, <2>2, <2>3, <2>4, <2>5
<1>5. /\ Prefix(cert).path = cert /\ Prefix(cert).prefix = TRUE
      /\ Key(ca).path = ca /\ Key(ca).prefix = FALSE
      /\ Key(crl).path = crl /\ Key(crl).prefix = FALSE
      /\ Key(capem).path = capem /\ Key(capem).prefix = FALSE
      /\ Key(crlpem).path = crlpem /\ Key(crlpem).prefix = FALSE
  BY KeySays
<1>14. /\ Len(Prefix(cert).path) = 1 /\ Len(Key(ca).path) = 1 /\ Len(Key(crl).path) = 1
       /\ Len(Key(capem).path) = 2 /\ Len(Key(crlpem).path) = 2
  BY <1>2, <1>5
<1>6. is_unauth_path(pki_backend, path) <=> \E k \in best_key(keys, path) : k.prefix \/ k.path = path
  BY <1>1 DEF is_unauth_path, is_special_path
<1>7. ASSUME NEW k \in best_key(keys, path), k.prefix \/ k.path = path
      PROVE  \/ Len(path) > 1 /\ path[1] = "cert"
             \/ Len(path) = 1 /\ path[1] \in {"ca", "crl"}
             \/ Len(path) = 2 /\ path[1] \in {"ca", "crl"} /\ path[2] = "pem"
  <2>1. k \in keys /\ Covered(k, path)
    BY <1>7 DEF best_key
  <2> QED BY <1>7, <2>1, <1>3, <1>4, <1>5
<1>8. ASSUME Len(path) > 1, path[1] = "cert" PROVE Prefix(cert) \in best_key(keys, path)
  <2>1. Prefix(cert) \in keys /\ Covered(Prefix(cert), path)
    BY <1>4, <1>8
  <2>2. \A j \in keys : Covered(j, path) =>
            Len(j.path) < Len(Prefix(cert).path) \/ (Len(j.path) = Len(Prefix(cert).path) /\ (j.prefix => Prefix(cert).prefix))
    BY <1>2, <1>4, <1>5, <1>8
  <2> QED BY <2>1, <2>2 DEF best_key
<1>9. ASSUME Len(path) = 1, path[1] = "ca" PROVE Key(ca) \in best_key(keys, path)
  <2>1. Key(ca) \in keys /\ Covered(Key(ca), path)
    BY <1>4, <1>9
  <2>2. \A j \in keys : Covered(j, path) =>
            Len(j.path) < Len(Key(ca).path) \/ (Len(j.path) = Len(Key(ca).path) /\ (j.prefix => Key(ca).prefix))
    <3> SUFFICES ASSUME NEW j \in keys, Covered(j, path)
                 PROVE  Len(j.path) < Len(Key(ca).path) \/ (Len(j.path) = Len(Key(ca).path) /\ (j.prefix => Key(ca).prefix))
      OBVIOUS
    <3>1. j \in {Key(ca)}
      BY <1>4, <1>9
    <3> QED BY <3>1, <1>5, <1>14
  <2> QED BY <2>1, <2>2 DEF best_key
<1>10. ASSUME Len(path) = 1, path[1] = "crl" PROVE Key(crl) \in best_key(keys, path)
  <2>1. Key(crl) \in keys /\ Covered(Key(crl), path)
    BY <1>4, <1>10
  <2>2. \A j \in keys : Covered(j, path) =>
            Len(j.path) < Len(Key(crl).path) \/ (Len(j.path) = Len(Key(crl).path) /\ (j.prefix => Key(crl).prefix))
    <3> SUFFICES ASSUME NEW j \in keys, Covered(j, path)
                 PROVE  Len(j.path) < Len(Key(crl).path) \/ (Len(j.path) = Len(Key(crl).path) /\ (j.prefix => Key(crl).prefix))
      OBVIOUS
    <3>1. j \in {Key(crl)}
      BY <1>4, <1>10
    <3> QED BY <3>1, <1>5, <1>14
  <2> QED BY <2>1, <2>2 DEF best_key
<1>11. ASSUME Len(path) = 2, path[1] = "ca", path[2] = "pem" PROVE Key(capem) \in best_key(keys, path)
  <2>1. Key(capem) \in keys /\ Covered(Key(capem), path)
    BY <1>4, <1>11
  <2>2. \A j \in keys : Covered(j, path) =>
            Len(j.path) < Len(Key(capem).path) \/ (Len(j.path) = Len(Key(capem).path) /\ (j.prefix => Key(capem).prefix))
    <3> SUFFICES ASSUME NEW j \in keys, Covered(j, path)
                 PROVE  Len(j.path) < Len(Key(capem).path) \/ (Len(j.path) = Len(Key(capem).path) /\ (j.prefix => Key(capem).prefix))
      OBVIOUS
    <3>1. j \in {Key(capem), Key(ca)}
      BY <1>4, <1>11
    <3>2. CASE j = Key(capem)
      BY <3>2, <1>5, <1>14
    <3>3. CASE j = Key(ca)
      BY <3>3, <1>5, <1>14
    <3> QED BY <3>1, <3>2, <3>3
  <2> QED BY <2>1, <2>2 DEF best_key
<1>12. ASSUME Len(path) = 2, path[1] = "crl", path[2] = "pem" PROVE Key(crlpem) \in best_key(keys, path)
  <2>1. Key(crlpem) \in keys /\ Covered(Key(crlpem), path)
    BY <1>4, <1>12
  <2>2. \A j \in keys : Covered(j, path) =>
            Len(j.path) < Len(Key(crlpem).path) \/ (Len(j.path) = Len(Key(crlpem).path) /\ (j.prefix => Key(crlpem).prefix))
    <3> SUFFICES ASSUME NEW j \in keys, Covered(j, path)
                 PROVE  Len(j.path) < Len(Key(crlpem).path) \/ (Len(j.path) = Len(Key(crlpem).path) /\ (j.prefix => Key(crlpem).prefix))
      OBVIOUS
    <3>1. j \in {Key(crl), Key(crlpem)}
      BY <1>4, <1>12
    <3>2. CASE j = Key(crl)
      BY <3>2, <1>5, <1>14
    <3>3. CASE j = Key(crlpem)
      BY <3>3, <1>5, <1>14
    <3> QED BY <3>1, <3>2, <3>3
  <2> QED BY <2>1, <2>2 DEF best_key
<1> HIDE DEF keys
<1>13. ASSUME \/ Len(path) > 1 /\ path[1] = "cert"
              \/ Len(path) = 1 /\ path[1] \in {"ca", "crl"}
              \/ Len(path) = 2 /\ path[1] \in {"ca", "crl"} /\ path[2] = "pem"
       PROVE  \E k \in best_key(keys, path) : k.prefix \/ k.path = path
  BY <1>3, <1>5, <1>8, <1>9, <1>10, <1>11, <1>12, <1>13
<1> QED BY <1>6, <1>7, <1>13

(***************************************************************************)
(* For every backend and path: the route that takes the path has public    *)
(* handlers exactly when is_unauth_path lets a request without a token     *)
(* through.                                                                *)
(***************************************************************************)
THEOREM PublicMatch ==
    ASSUME NEW be \in DOMAIN Backends, NEW S, NEW path \in Seq(S),
           NEW r \in Range(Backends[be].routes), Anchored(path, r), NEW op \in DOMAIN r.ops
    PROVE  is_unauth_path(Backends[be], path) <=> r.ops[op] \in PublicHandlers
<1>0. (Private(r) => r.ops[op] \notin PublicHandlers) /\ (Public(r) => r.ops[op] \in PublicHandlers)
  BY DEF Private, Public
<1>1. CASE be = "sys"
  <2>1. r \in SysPaths /\ Backends[be] = sys_backend
    BY <1>1, SysRoutes DEF Backends
  <2> QED BY <1>0, <2>1, SysAccess, UnauthShape
<1>2. CASE be = "token"
  <2>1. r \in TokenPaths /\ Backends[be] = token_backend
    BY <1>2, TokenRoutes DEF Backends
  <2> QED BY <1>0, <2>1, TokenAccess, UnauthShape
<1>3. CASE be = "kv"
  <2>1. r \in KvPaths /\ Backends[be] = kv_backend
    BY <1>3, KvRoutes DEF Backends
  <2> QED BY <1>0, <2>1, KvAccess, UnauthShape
<1>4. CASE be = "approle"
  <2>1. r \in RolePaths /\ Backends[be] = approle_backend
    BY <1>4, RoleRoutes DEF Backends
  <2>2. RoleShape(path)
    BY RoleShapes
  <2>3. Anchored(path, approle_login_path) <=> Len(path) = 1 /\ path[1] = "login"
    BY <2>2 DEF RoleShape, Ends
  <2>4. approle_login_path \in RolePaths
    BY DEF RolePaths
  <2>5. r = approle_login_path <=> Len(path) = 1 /\ path[1] = "login"
    BY <2>1, <2>2, <2>3, <2>4, RoleApart
  <2>6. (Private(r) \/ r = approle_login_path) /\ Public(approle_login_path)
    BY <2>1, RoleAccess
  <2> QED BY <1>0, <2>1, <2>5, <2>6, UnauthShape
<1>5. CASE be = "cert"
  <2>1. r \in CertPaths /\ Backends[be] = cert_backend
    BY <1>5, CertRoutes DEF Backends
  <2>2. CertShape(path)
    BY CertShapes
  <2>3. Anchored(path, cert_login_path) <=> Len(path) = 1 /\ path[1] = "login"
    BY <2>2 DEF CertShape, Ends
  <2>4. cert_login_path \in CertPaths
    BY DEF CertPaths
  <2>5. r = cert_login_path <=> Len(path) = 1 /\ path[1] = "login"
    BY <2>1, <2>2, <2>3, <2>4, CertApart
  <2>6. (Private(r) \/ r = cert_login_path) /\ Public(cert_login_path)
    BY <2>1, CertAccess
  <2> QED BY <1>0, <2>1, <2>5, <2>6, UnauthShape
<1>6. CASE be = "userpass"
  <2>1. r \in UserPaths /\ Backends[be] = userpass_backend
    BY <1>6, UserRoutes DEF Backends
  <2>2. UserShape(path)
    BY UserShapes
  <2>3. r = userpass_login_path <=> Len(path) > 1 /\ path[1] = "login"
    BY <2>1, <2>2 DEF UserShape, UserPaths, Ends, MaySlash
  <2>4. (Private(r) \/ r = userpass_login_path) /\ Public(userpass_login_path)
    BY <2>1, UserAccess
  <2> QED BY <1>0, <2>1, <2>3, <2>4, UnauthShape
<1>7. CASE be = "pki"
  <2>1. r \in PkiPaths /\ Backends[be] = pki_backend
    BY <1>7, PkiRoutes DEF Backends
  <2>2. PkiShape(path)
    BY PkiShapes
  <2>3. r \in {fetch_ca_path, fetch_crl_path, fetch_cert_path, fetch_cert_crl_path} <=>
          \/ Len(path) > 1 /\ path[1] = "cert"
          \/ Len(path) = 1 /\ path[1] \in {"ca", "crl"}
          \/ Len(path) = 2 /\ path[1] \in {"ca", "crl"} /\ path[2] = "pem"
    <3>1. ASSUME r \in {fetch_ca_path, fetch_crl_path, fetch_cert_path, fetch_cert_crl_path}
          PROVE  \/ Len(path) > 1 /\ path[1] = "cert"
                 \/ Len(path) = 1 /\ path[1] \in {"ca", "crl"}
                 \/ Len(path) = 2 /\ path[1] \in {"ca", "crl"} /\ path[2] = "pem"
      BY <2>2, <3>1 DEF PkiShape, Ends, MayPem
    <3>2. ASSUME r \notin {fetch_ca_path, fetch_crl_path, fetch_cert_path, fetch_cert_crl_path}
          PROVE  ~ \/ Len(path) > 1 /\ path[1] = "cert"
                   \/ Len(path) = 1 /\ path[1] \in {"ca", "crl"}
                   \/ Len(path) = 2 /\ path[1] \in {"ca", "crl"} /\ path[2] = "pem"
      BY <2>1, <2>2, <3>2 DEF PkiShape, PkiPaths, Ends, GoesOn
    <3> QED BY <3>1, <3>2
  <2>4. /\ Private(r) \/ r \in {fetch_ca_path, fetch_crl_path, fetch_cert_path, fetch_cert_crl_path}
        /\ r \in {fetch_ca_path, fetch_crl_path, fetch_cert_path, fetch_cert_crl_path} => Public(r)
    BY <2>1, PkiAccess
  <2>5. is_unauth_path(pki_backend, path) <=>
          \/ Len(path) > 1 /\ path[1] = "cert"
          \/ Len(path) = 1 /\ path[1] \in {"ca", "crl"}
          \/ Len(path) = 2 /\ path[1] \in {"ca", "crl"} /\ path[2] = "pem"
    BY PkiUnauth
  <2> QED BY <1>0, <2>1, <2>3, <2>4, <2>5
<1> QED BY <1>1, <1>2, <1>3, <1>4, <1>5, <1>6, <1>7 DEF Backends

-----------------------------------------------------------------------------
(* The dispatch of a request *)

IsPath(p) == \E S : p \in Seq(S)

LEMMA SampledPath ==
    ASSUME NEW be \in DOMAIN Backends, NEW path \in SamplePaths(Backends[be]) PROVE IsPath(path)
<1>1. PICK r \in Range(Backends[be].routes) :
        \E p \in Instances(r), n \in 0..Len(r.pattern), t \in SampleTails : path = SubSeq(p, 1, n) \o t
  <2>1. PICK r \in Range(Backends[be].routes) : path \in PathsLike(r)
    BY DEF SamplePaths
  <2> QED BY <2>1 DEF PathsLike
<1>2. PICK p \in Instances(r), n \in 0..Len(r.pattern), t \in SampleTails : path = SubSeq(p, 1, n) \o t
  BY <1>1
<1>3. Len(r.pattern) \in Nat
  BY BackendKnown DEF KnownRoute
<1>4. PICK X : p \in [1 .. Len(r.pattern) -> X]
  BY DEF Instances
<1> DEFINE Y == X \cup {Blank, "pem"} \cup SampleNames
<1>5. p \in Seq(Y) /\ Len(p) = Len(r.pattern)
  <2>1. p \in [1 .. Len(r.pattern) -> Y]
    BY <1>4
  <2> QED BY <1>3, <2>1, SeqDef
<1>6. t \in Seq(Y)
  <2>1. t \in {<<>>, <<Blank>>, <<"pem">>} \/ \E s \in SampleNames : t = <<s>>
    BY DEF SampleTails
  <2>2. Blank \in Y /\ "pem" \in Y /\ SampleNames \subseteq Y
    OBVIOUS
  <2> HIDE DEF Y
  <2>3. CASE t = <<>>
    BY <2>3
  <2>4. CASE t = <<Blank>>
    BY <2>2, <2>4
  <2>5. CASE t = <<"pem">>
    BY <2>2, <2>5
  <2>6. ASSUME NEW s \in SampleNames, t = <<s>> PROVE t \in Seq(Y)
    BY <2>2, <2>6
  <2> QED BY <2>1, <2>3, <2>4, <2>5, <2>6
<1> HIDE DEF Y
<1>7. SubSeq(p, 1, n) \in Seq(Y)
  BY <1>3, <1>5, SubSeqProperties
<1>8. path \in Seq(Y)
  BY <1>2, <1>6, <1>7
<1> QED BY <1>8 DEF IsPath

\* A value of this kind can be used as a field of this type, or is a number
\* that is refused.
Usable(key, type, kind) ==
    \/ converts(key, type, kind)
    \/ type = Integer /\ kind \in {"negint", "signed", "decimal"}
    \/ type = Duration /\ kind = "negint"

LEMMA TypeFits ==
    ASSUME NEW key, NEW type \in FieldTypes, NEW v, check_data_type(type, v)
    PROVE  Usable(key, type, v)
<1>1. CASE type = Integer
  <2>1. v \in {"int", "negint", "decimal", "signed"}
    BY <1>1 DEF check_data_type, FieldTypes, Str, SecretStr, Integer, Bool, Array,
       Map, Duration, Slice, Texts, is_int, is_duration, is_comma_string_slice, as_int, as_duration,
       as_comma_string_slice
  <2>2. v = "int" => converts_int(key, v)
    BY DEF converts_int, as_u64, as_i64, as_duration, as_int, is_int
  <2>3. converts(key, type, v) <=> converts_int(key, v)
    BY <1>1 DEF converts, FieldTypes, Str, SecretStr, Integer, Bool, Array,
       Map, Duration, Slice, Texts, is_int, is_duration, is_comma_string_slice, as_int, as_duration,
       as_comma_string_slice
  <2> QED BY <1>1, <2>1, <2>2, <2>3 DEF Usable
<1>2. CASE type # Integer
  BY <1>2 DEF Usable, check_data_type, converts, FieldTypes, Str, SecretStr, Integer, Bool, Array,
       Map, Duration, Slice, Texts, is_int, is_duration, is_comma_string_slice, as_int, as_duration,
       as_comma_string_slice
<1> QED BY <1>1, <1>2

LEMMA DefaultFits ==
    ASSUME NEW key, NEW field, field.type \in FieldTypes, get_default(field) # "error"
    PROVE  Usable(key, field.type, get_default(field))
<1>1. CASE field.default = "null"
  BY <1>1 DEF get_default, Usable, converts, FieldTypes, Str, SecretStr, Integer, Bool, Array, Map,
       Duration, Slice, Texts, is_int, is_duration, is_comma_string_slice, as_int, as_duration,
       converts_int, as_u64, as_i64,
       as_comma_string_slice
<1>2. CASE field.default # "null"
  BY <1>2 DEF get_default, Usable, converts, FieldTypes, Str, SecretStr, Integer, Bool, Array, Map,
       Duration, Slice, Texts, is_int, is_duration, is_comma_string_slice, as_int, as_duration,
       converts_int, as_u64, as_i64,
       as_comma_string_slice
<1> QED BY <1>1, <1>2

\* What a read of a field may return.
Fits(v, route, data, key) ==
    v.ok => /\ key \in DOMAIN route.fields
            /\ key \in data => v.src = "path"
            /\ Usable(key, route.fields[key].type, v.kind)

LEMMA ErrorSays ==
    ASSUME NEW e PROVE Error(e).ok = FALSE /\ Error(e).src = e
BY DEF Error

LEMMA RawFits ==
    ASSUME NEW req, NEW route, Typed(route.fields), NEW key, NEW default \in BOOLEAN
    PROVE  /\ Fits(get_data_raw(req, route, key, default), route, req.data, key)
           /\ ~default /\ key \notin req.data \cup DOMAIN req.body =>
                 ~get_data_raw(req, route, key, default).ok
<1> DEFINE v == get_data_raw(req, route, key, default)
<1>1. CASE key \notin DOMAIN route.fields
  BY <1>1, ErrorSays DEF get_data_raw, Fits
<1>2. CASE key \in DOMAIN route.fields /\ key \in req.data
  <2>1. route.fields[key].type \in FieldTypes
    BY <1>2 DEF Typed
  <2>2. v = IF check_data_type(route.fields[key].type, "str")
            THEN [ok |-> TRUE, src |-> "path", kind |-> "str"] ELSE Error("FieldInvalid")
    BY <1>2 DEF get_data_raw
  <2> HIDE DEF v
  <2>3. v.ok => v.src = "path" /\ v.kind = "str" /\ check_data_type(route.fields[key].type, "str")
    BY <2>2, ErrorSays
  <2>4. v.ok => Usable(key, route.fields[key].type, v.kind)
    BY <2>1, <2>3, TypeFits
  <2> QED BY <1>2, <2>3, <2>4 DEF Fits, v
<1>3. CASE key \in DOMAIN route.fields /\ key \notin req.data /\ key \in DOMAIN req.body
  <2>1. route.fields[key].type \in FieldTypes
    BY <1>3 DEF Typed
  <2>2. v = IF check_data_type(route.fields[key].type, req.body[key])
            THEN [ok |-> TRUE, src |-> "body", kind |-> req.body[key]] ELSE Error("FieldInvalid")
    BY <1>3 DEF get_data_raw
  <2> HIDE DEF v
  <2>3. v.ok => v.kind = req.body[key] /\ check_data_type(route.fields[key].type, req.body[key])
    BY <2>2, ErrorSays
  <2>4. v.ok => Usable(key, route.fields[key].type, v.kind)
    BY <2>1, <2>3, TypeFits
  <2> QED BY <1>3, <2>4 DEF Fits, v
<1>4. CASE key \in DOMAIN route.fields /\ key \notin req.data /\ key \notin DOMAIN req.body
  <2>1. route.fields[key].type \in FieldTypes
    BY <1>4 DEF Typed
  <2> DEFINE d == get_default(route.fields[key])
  <2>2. v = IF ~default \/ route.fields[key].required THEN Error("FieldNotFound")
            ELSE IF d = "error" THEN Error("DowncastFailed")
            ELSE [ok |-> TRUE, src |-> "default", kind |-> d]
    BY <1>4 DEF get_data_raw
  <2>3. d # "error" => Usable(key, route.fields[key].type, d)
    BY <2>1, DefaultFits
  <2> HIDE DEF d, v
  <2>4. v.ok => default /\ v.kind = d /\ d # "error"
    BY <2>2, ErrorSays
  <2>5. v.ok => Usable(key, route.fields[key].type, v.kind)
    BY <2>3, <2>4
  <2> QED BY <1>4, <2>4, <2>5 DEF Fits, v
<1> QED BY <1>1, <1>2, <1>3, <1>4

LEMMA GetFits ==
    ASSUME NEW req, NEW route, Typed(route.fields), NEW key
    PROVE  /\ Fits(get_data(req, route, key), route, req.data, key)
           /\ Fits(get_data_or_default(req, route, key), route, req.data, key)
           /\ Fits(get_data_as_str(req, route, key), route, req.data, key)
           /\ key \notin req.data \cup DOMAIN req.body => ~get_data(req, route, key).ok
<1>1. Fits(get_data(req, route, key), route, req.data, key)
  BY RawFits, ErrorSays DEF get_data, Fits
<1>2. Fits(get_data_or_default(req, route, key), route, req.data, key)
  BY RawFits, ErrorSays DEF get_data_or_default, Fits
<1>3. key \notin req.data \cup DOMAIN req.body => ~get_data(req, route, key).ok
  BY RawFits, ErrorSays DEF get_data
<1>4. Fits(get_data_as_str(req, route, key), route, req.data, key)
  <2>1. ASSUME get_data_as_str(req, route, key).ok
        PROVE  get_data_as_str(req, route, key) = get_data(req, route, key)
    BY <2>1, ErrorSays DEF get_data_as_str, Texts
  <2> QED BY <1>1, <2>1 DEF Fits
<1> QED BY <1>1, <1>2, <1>3, <1>4

LEMMA NextFits ==
    ASSUME NEW req, NEW route, KnownRoute(route), req.data = captures(route),
           req.body \in SampleBodies(route), NEW key \in req.data \cup DOMAIN req.body,
           NEW newer \in DOMAIN OlderName, OlderName[newer] = key
    PROVE  Fits(get_data_or_next(req, route, newer, key), route, req.data, key)
<1>1. newer \notin Captured /\ key \notin Captured /\ newer # key
  BY DEF OlderName, Captured
<1>2. newer \notin req.data /\ key \in DOMAIN req.body
  BY <1>1 DEF KnownRoute
<1>3. newer \notin DOMAIN req.body
  <2>1. CASE req.body = <<>>
    BY <2>1
  <2>2. CASE req.body # <<>>
    <3>1. PICK k \in DOMAIN route.fields \cup {"other", "password"} : req.body \in [{k} -> Kinds]
      BY <2>2 DEF SampleBodies
    <3>2. DOMAIN req.body = {k}
      BY <3>1
    <3> QED BY <1>1, <1>2, <3>2
  <2> QED BY <2>1, <2>2
<1>4. Typed(route.fields)
  BY DEF KnownRoute
<1>5. ~get_data(req, route, newer).ok
  BY <1>2, <1>3, <1>4, GetFits
<1>6. Fits(get_data(req, route, key), route, req.data, key)
  BY <1>4, GetFits
<1> QED BY <1>5, <1>6 DEF get_data_or_next, Fits

RequestFields == {"at", "be", "path", "op", "data", "body", "route", "key", "got"}

\* A request that reached a handler is at the route match_path picks, with the
\* names captured there.
AtRoute ==
    /\ hreq.be \in DOMAIN Backends
    /\ IsPath(hreq.path)
    /\ hreq.route = match_path(Backends[hreq.be], hreq.path)
    /\ hreq.route # 0
    /\ hreq.op \in DOMAIN ARoute.ops
    /\ hreq.data = captures(ARoute)

\* A request was refused because nothing serves it.
Refused ==
    LET b == Backends[hreq.be]
        i == match_path(b, hreq.path)
    IN  /\ hreq.be \in DOMAIN Backends
        /\ IsPath(hreq.path)
        /\ i = 0 \/ hreq.op \notin DOMAIN b.routes[i].ops

(***************************************************************************)
(* The inductive invariant of the dispatch.                                *)
(***************************************************************************)
RouteInv ==
    /\ DOMAIN hreq = RequestFields
    /\ hreq.at \in {"handler", "read"} => AtRoute
    /\ hreq.at \in {"PathUnsupported", "OperationUnsupported"} /\ hreq.op \in OpNames => Refused
    /\ hreq.at = "read" => Fits(hreq.got, ARoute, hreq.data, hreq.key)

LEMMA IdleSays ==
    /\ DOMAIN Idle = RequestFields
    /\ Idle.at = "idle"
BY DEF Idle, RequestFields

LEMMA RouteInitially == RouteInit => RouteInv
BY IdleSays DEF RouteInit, RouteInv

LEMMA DispatchKeeps ==
    ASSUME NEW be \in DOMAIN Backends, NEW path \in SamplePaths(Backends[be]), NEW op,
           Dispatch(be, path, op)
    PROVE  RouteInv'
<1> DEFINE b == Backends[be]
           i == match_path(b, path)
           help == op = "Help" /\ path = <<Blank>>
<1>1. IsPath(path)
  BY SampledPath
<1> HIDE DEF b, i
<1>2. CASE help
  <2>1. hreq' = [Idle EXCEPT !.at = "help", !.be = be]
    BY <1>2 DEF Dispatch
  <2> QED BY <2>1 DEF RouteInv, Idle, RequestFields
<1>3. CASE ~help /\ i = 0
  <2>1. hreq' = [Idle EXCEPT !.at = "PathUnsupported", !.be = be, !.path = path, !.op = op]
    BY <1>3 DEF Dispatch, b, i
  <2>2. DOMAIN hreq' = RequestFields /\ hreq'.at = "PathUnsupported" /\ hreq'.be = be /\ hreq'.path = path
    BY <2>1 DEF Idle, RequestFields
  <2>3. Refused'
    BY <1>1, <1>3, <2>2 DEF Refused, b, i
  <2> QED BY <2>2, <2>3 DEF RouteInv
<1>4. CASE ~help /\ i # 0 /\ op \notin DOMAIN b.routes[i].ops
  <2>1. hreq' = [Idle EXCEPT !.at = "OperationUnsupported", !.be = be, !.path = path, !.op = op]
    BY <1>4 DEF Dispatch, b, i
  <2>2. /\ DOMAIN hreq' = RequestFields /\ hreq'.at = "OperationUnsupported" /\ hreq'.be = be
        /\ hreq'.path = path /\ hreq'.op = op
    BY <2>1 DEF Idle, RequestFields
  <2>3. Refused'
    BY <1>1, <1>4, <2>2 DEF Refused, b, i
  <2> QED BY <2>2, <2>3 DEF RouteInv
<1>5. CASE ~help /\ i # 0 /\ op \in DOMAIN b.routes[i].ops
  <2>1. hreq' = [Idle EXCEPT !.at = "handler", !.be = be, !.path = path, !.op = op,
                             !.data = captures(b.routes[i]), !.route = i]
    BY <1>5 DEF Dispatch, b, i
  <2>2. /\ DOMAIN hreq' = RequestFields /\ hreq'.at = "handler" /\ hreq'.be = be
        /\ hreq'.path = path /\ hreq'.op = op /\ hreq'.data = captures(b.routes[i]) /\ hreq'.route = i
    BY <2>1 DEF Idle, RequestFields
  <2>3. ARoute' = b.routes[i]
    BY <2>2 DEF ARoute, b
  <2>4. AtRoute'
    BY <1>1, <1>5, <2>2, <2>3 DEF AtRoute, b, i
  <2> QED BY <2>2, <2>4 DEF RouteInv
<1> QED BY <1>2, <1>3, <1>4, <1>5

LEMMA ReadKeeps ==
    ASSUME RouteInv, hreq.at = "handler", NEW body \in SampleBodies(ARoute),
           NEW key \in hreq.data \cup DOMAIN body, ReadField(key, body)
    PROVE  RouteInv'
<1> DEFINE req == [hreq EXCEPT !.body = body]
<1>1. DOMAIN hreq = RequestFields /\ AtRoute
  BY DEF RouteInv
<1>2. KnownRoute(ARoute)
  BY <1>1, MatchFirst, BackendKnown DEF AtRoute, ARoute
<1>3. req.data = hreq.data /\ req.body = body
  BY <1>1 DEF RequestFields
<1> HIDE DEF req
<1>4. PICK v : /\ hreq' = [req EXCEPT !.at = "read", !.key = key, !.got = v]
               /\ Fits(v, ARoute, hreq.data, key)
  <2>1. Fits(get_data(req, ARoute, key), ARoute, hreq.data, key)
    BY <1>2, <1>3, GetFits DEF KnownRoute
  <2>2. Fits(get_data_or_default(req, ARoute, key), ARoute, hreq.data, key)
    BY <1>2, <1>3, GetFits DEF KnownRoute
  <2>3. Fits(get_data_as_str(req, ARoute, key), ARoute, hreq.data, key)
    BY <1>2, <1>3, GetFits DEF KnownRoute
  <2>4. ASSUME NEW newer \in DOMAIN OlderName, OlderName[newer] = key
        PROVE  Fits(get_data_or_next(req, ARoute, newer, key), ARoute, hreq.data, key)
    BY <1>1, <1>2, <1>3, <2>4, NextFits DEF AtRoute
  <2> QED BY <2>1, <2>2, <2>3, <2>4 DEF ReadField, req
<1>5. /\ DOMAIN hreq' = RequestFields /\ hreq'.at = "read" /\ hreq'.key = key /\ hreq'.got = v
      /\ hreq'.be = hreq.be /\ hreq'.path = hreq.path /\ hreq'.op = hreq.op
      /\ hreq'.data = hreq.data /\ hreq'.route = hreq.route
  BY <1>1, <1>4 DEF RequestFields, req
<1>6. ARoute' = ARoute
  BY <1>5 DEF ARoute
<1>7. AtRoute'
  BY <1>1, <1>5, <1>6 DEF AtRoute
<1> QED BY <1>4, <1>5, <1>6, <1>7 DEF RouteInv

LEMMA ReturnKeeps == ASSUME RouteInv, Return PROVE RouteInv'
<1>1. DOMAIN hreq = RequestFields
  BY DEF RouteInv
<1> DEFINE done == [hreq EXCEPT !.at = "done", !.body = clear_secret_field(hreq, Backends[hreq.be])]
           panicked == [hreq EXCEPT !.at = "panicked"]
<1>2. DOMAIN done = RequestFields /\ done.at = "done"
  BY <1>1 DEF RequestFields
<1>3. DOMAIN panicked = RequestFields /\ panicked.at = "panicked"
  BY <1>1 DEF RequestFields
<1>4. hreq' = done \/ hreq' = panicked
  BY DEF Return
<1> HIDE DEF done, panicked
<1> QED BY <1>2, <1>3, <1>4 DEF RouteInv

LEMMA RenewKeeps ==
    ASSUME NEW be, NEW op \in {"Renew", "Revoke"}, NEW auth, NEW secret,
           RevokeRenew(be, op, auth, secret)
    PROVE  RouteInv'
<1> DEFINE at == CASE op = "Renew" /\ auth -> IF Backends[be].renew THEN "auth_renew" ELSE "OperationUnsupported"
                   [] ~(op = "Renew" /\ auth) /\ secret \in Backends[be].secrets -> "secret"
                   [] OTHER -> "none"
<1>1. at \in {"auth_renew", "OperationUnsupported", "secret", "none"}
  OBVIOUS
<1>2. hreq' = [Idle EXCEPT !.be = be, !.op = op, !.at = at]
  BY DEF RevokeRenew
<1> HIDE DEF at
<1>3. DOMAIN hreq' = RequestFields /\ hreq'.at = at /\ hreq'.op = op
  BY <1>2 DEF Idle, RequestFields
<1>4. op \notin OpNames
  BY DEF OpNames
<1> QED BY <1>1, <1>3, <1>4 DEF RouteInv

LEMMA RouteStep == RouteInv /\ [RouteNext]_hreq => RouteInv'
<1> SUFFICES ASSUME RouteInv, [RouteNext]_hreq PROVE RouteInv'
  OBVIOUS
<1>1. ASSUME NEW be \in DOMAIN Backends, NEW path \in SamplePaths(Backends[be]), NEW op \in OpNames,
             Dispatch(be, path, op)
      PROVE  RouteInv'
  BY <1>1, DispatchKeeps
<1>2. ASSUME hreq.at = "handler", NEW body \in SampleBodies(ARoute),
             NEW key \in hreq.data \cup DOMAIN body, ReadField(key, body)
      PROVE  RouteInv'
  BY <1>2, ReadKeeps
<1>3. CASE Return
  BY <1>3, ReturnKeeps
<1>4. ASSUME NEW be \in DOMAIN Backends, NEW op \in {"Renew", "Revoke"}, NEW auth \in BOOLEAN,
             NEW secret \in {"kv", "pki", Blank}, RevokeRenew(be, op, auth, secret)
      PROVE  RouteInv'
  BY <1>4, RenewKeeps
<1>5. CASE UNCHANGED hreq
  BY <1>5 DEF RouteInv, AtRoute, ARoute, Refused
<1> QED BY <1>1, <1>2, <1>3, <1>4, <1>5 DEF RouteNext

LEMMA RouteHolds == RouteSpec => []RouteInv
BY RouteInitially, RouteStep, PTL DEF RouteSpec

(***************************************************************************)
(* The handler match_path picks is the only one that could serve the       *)
(* request, and a refused request has none.  No two routes of a backend    *)
(* take a path, whatever the words and serials are, so the first that      *)
(* matches is the only one.                                                *)
(***************************************************************************)
THEOREM RouteUnambiguousHolds == RouteSpec => []RouteUnambiguous
<1>1. RouteInv => RouteUnambiguous
  <2> SUFFICES ASSUME RouteInv PROVE RouteUnambiguous
    OBVIOUS
  <2>1. ASSUME hreq.at = "handler" PROVE Servers(Backends[hreq.be], hreq.path, hreq.op) = {ARoute}
    <3>1. AtRoute
      BY <2>1 DEF RouteInv
    <3>2. PICK S : hreq.path \in Seq(S)
      BY <3>1 DEF AtRoute, IsPath
    <3> QED BY <3>1, <3>2, OnlyServer DEF AtRoute, ARoute
  <2>2. ASSUME hreq.at \in {"PathUnsupported", "OperationUnsupported"}, hreq.op \in OpNames
        PROVE  Servers(Backends[hreq.be], hreq.path, hreq.op) = {}
    <3>1. Refused
      BY <2>2 DEF RouteInv
    <3>2. PICK S : hreq.path \in Seq(S)
      BY <3>1 DEF Refused, IsPath
    <3> QED BY <3>1, <3>2, OnlyServer DEF Refused
  <2> QED BY <2>1, <2>2 DEF RouteUnambiguous
<1> QED BY <1>1, RouteHolds, PTL

(***************************************************************************)
(* A path needs no token exactly when the handler that serves it is public *)
(* (logins, what PKI publishes): the keys of the radix tree and the        *)
(* patterns of the routes are two tables, and they agree.                  *)
(***************************************************************************)
THEOREM UnauthIsPublicHolds == RouteSpec => []UnauthIsPublic
<1>1. RouteInv => UnauthIsPublic
  <2> SUFFICES ASSUME RouteInv, hreq.at = "handler"
               PROVE  is_unauth_path(Backends[hreq.be], hreq.path) <=> ARoute.ops[hreq.op] \in PublicHandlers
    BY DEF UnauthIsPublic
  <2>1. AtRoute
    BY DEF RouteInv
  <2>2. PICK S : hreq.path \in Seq(S)
    BY <2>1 DEF AtRoute, IsPath
  <2>3. ARoute \in Range(Backends[hreq.be].routes) /\ Anchored(hreq.path, ARoute)
    BY <2>1, MatchFirst DEF AtRoute, ARoute
  <2> QED BY <2>1, <2>2, <2>3, PublicMatch DEF AtRoute
<1> QED BY <1>1, RouteHolds, PTL

(***************************************************************************)
(* A name captured from the path is never replaced by the body, and what   *)
(* passes the type check of its field converts, or is a number that is     *)
(* negative or written as a text.                                          *)
(***************************************************************************)
THEOREM FieldsFitHolds == RouteSpec => []FieldsFit
<1>1. RouteInv => FieldsFit
  BY DEF RouteInv, FieldsFit, Fits, Usable
<1> QED BY <1>1, RouteHolds, PTL

-----------------------------------------------------------------------------
(* From the socket to the answer *)

LEMMA NotBlank == Blank # "nam" /\ Blank # "sys" /\ Blank # "app"
BY Zenon DEF Blank

\* A route of the system backend serves this operation on this path.
SysServes(path, op) ==
    \E q \in SysPaths : Anchored(path, q) /\ op \in DOMAIN q.ops

LEMMA SysOps ==
    /\ "Read" \in DOMAIN sys_mounts_path.ops
    /\ "Write" \in DOMAIN sys_mounts_at_path.ops /\ "Delete" \in DOMAIN sys_mounts_at_path.ops
    /\ "Write" \in DOMAIN sys_remount_path.ops
    /\ "Read" \in DOMAIN sys_auth_path.ops
    /\ "Write" \in DOMAIN sys_auth_at_path.ops /\ "Delete" \in DOMAIN sys_auth_at_path.ops
    /\ "List" \in DOMAIN sys_policy_list_path.ops
    /\ {"Read", "Write", "Delete"} \subseteq DOMAIN sys_policy_path.ops
    /\ "List" \in DOMAIN sys_acl_policy_list_path.ops
    /\ {"Read", "Write", "Delete"} \subseteq DOMAIN sys_acl_policy_path.ops
<1>1. /\ "Read" \in DOMAIN sys_mounts_path.ops
      /\ "Write" \in DOMAIN sys_mounts_at_path.ops /\ "Delete" \in DOMAIN sys_mounts_at_path.ops
      /\ "Write" \in DOMAIN sys_remount_path.ops
  BY DEF Route, sys_mounts_path, sys_mounts_at_path, sys_remount_path
<1>2. /\ "Read" \in DOMAIN sys_auth_path.ops
      /\ "Write" \in DOMAIN sys_auth_at_path.ops /\ "Delete" \in DOMAIN sys_auth_at_path.ops
  BY DEF Route, sys_auth_path, sys_auth_at_path
<1>3. /\ "List" \in DOMAIN sys_policy_list_path.ops
      /\ {"Read", "Write", "Delete"} \subseteq DOMAIN sys_policy_path.ops
  BY DEF Route, sys_policy_list_path, sys_policy_path
<1>4. /\ "List" \in DOMAIN sys_acl_policy_list_path.ops
      /\ {"Read", "Write", "Delete"} \subseteq DOMAIN sys_acl_policy_path.ops
  BY DEF Route, sys_acl_policy_list_path, sys_acl_policy_path
<1> QED BY <1>1, <1>2, <1>3, <1>4

\* Paths the system backend takes.
LEMMA SysTakes ==
    ASSUME NEW S, NEW path \in Seq(S)
    PROVE  /\ Len(path) = 1 /\ path[1] = "remount" => Anchored(path, sys_remount_path)
           /\ Len(path) = 1 /\ path[1] = "mounts" => Anchored(path, sys_mounts_path)
           /\ Len(path) = 1 /\ path[1] = "auth" => Anchored(path, sys_auth_path)
           /\ Len(path) = 1 /\ path[1] = "policy" => Anchored(path, sys_policy_list_path)
           /\ Len(path) = 2 /\ path[1] = "policies" /\ path[2] = "acl" =>
                 Anchored(path, sys_acl_policy_list_path)
           /\ Len(path) = 2 /\ path[1] = "mounts" /\ path[2] # Blank => Anchored(path, sys_mounts_at_path)
           /\ Len(path) = 2 /\ path[1] = "auth" /\ path[2] # Blank => Anchored(path, sys_auth_at_path)
           /\ Len(path) = 2 /\ path[1] = "policy" /\ path[2] # Blank => Anchored(path, sys_policy_path)
           /\ Len(path) = 2 /\ path[1] = "policy" /\ path[2] = Blank => Anchored(path, sys_policy_list_path)
           /\ Len(path) = 3 /\ path[1] = "policies" /\ path[2] = "acl" /\ path[3] # Blank =>
                 Anchored(path, sys_acl_policy_path)
           /\ Len(path) = 3 /\ path[1] = "policies" /\ path[2] = "acl" /\ path[3] = Blank =>
                 Anchored(path, sys_acl_policy_list_path)
<1>1. SysShape(path)
  BY SysShapes
<1> QED BY <1>1 DEF SysShape, Ends, GoesOn, MaySlash

LEMMA AppendShape ==
    ASSUME NEW a, NEW b, NEW c
    PROVE  Append(<<a>>, c) = <<a, c>> /\ Append(<<a, b>>, c) = <<a, b, c>>
<1> DEFINE S == {a, b, c}
<1>1. /\ <<a>> \in Seq(S) /\ Len(<<a>>) = 1 /\ <<a>>[1] = a
      /\ <<a, b>> \in Seq(S) /\ Len(<<a, b>>) = 2 /\ <<a, b>>[1] = a /\ <<a, b>>[2] = b
      /\ <<a, c>> \in Seq(S) /\ Len(<<a, c>>) = 2 /\ <<a, c>>[1] = a /\ <<a, c>>[2] = c
      /\ <<a, b, c>> \in Seq(S) /\ Len(<<a, b, c>>) = 3
      /\ <<a, b, c>>[1] = a /\ <<a, b, c>>[2] = b /\ <<a, b, c>>[3] = c
  OBVIOUS
<1>2. a \in S /\ b \in S /\ c \in S
  OBVIOUS
<1> DEFINE one == <<a>>
           two == <<a, b>>
<1> HIDE DEF S, one, two
<1>3. /\ Append(one, c) \in Seq(S) /\ Len(Append(one, c)) = 2
      /\ Append(one, c)[1] = a /\ Append(one, c)[2] = c
  BY <1>1, <1>2 DEF one
<1>4. /\ Append(two, c) \in Seq(S) /\ Len(Append(two, c)) = 3
      /\ Append(two, c)[1] = a /\ Append(two, c)[2] = b /\ Append(two, c)[3] = c
  BY <1>1, <1>2 DEF two
<1>5. Append(one, c) = <<a, c>>
  <2>1. \A i \in 1 .. Len(Append(one, c)) : Append(one, c)[i] = <<a, c>>[i]
    BY <1>1, <1>3
  <2> QED BY <1>1, <1>3, <2>1, SeqEqual
<1>6. Append(two, c) = <<a, b, c>>
  <2>1. \A i \in 1 .. Len(Append(two, c)) : Append(two, c)[i] = <<a, b, c>>[i]
    BY <1>1, <1>4
  <2> QED BY <1>1, <1>4, <2>1, SeqEqual
<1> QED BY <1>5, <1>6 DEF one, two

\* Whatever the sys service submits is a route of the system backend.
LEMMA ResourcesServed ==
    ASSUME NEW n \in {Blank, "nam"}, NEW r \in SysResources(n),
           ~(n = Blank /\ r.op \in {"Write", "Delete"} /\ r.res # <<"remount">>)
    PROVE  IsPath(r.path) /\ SysServes(r.path, r.op)
<1> DEFINE S == {n, "mounts", "auth", "remount", "policy", "policies", "acl"}
<1>0. ASSUME NEW path \in Seq(S), NEW op, NEW q \in SysPaths, Anchored(path, q), op \in DOMAIN q.ops
      PROVE  IsPath(path) /\ SysServes(path, op)
  BY <1>0 DEF IsPath, SysServes
<1>1. /\ sys_mounts_path \in SysPaths /\ sys_mounts_at_path \in SysPaths /\ sys_remount_path \in SysPaths
      /\ sys_auth_path \in SysPaths /\ sys_auth_at_path \in SysPaths
      /\ sys_policy_list_path \in SysPaths /\ sys_policy_path \in SysPaths
      /\ sys_acl_policy_list_path \in SysPaths /\ sys_acl_policy_path \in SysPaths
  BY DEF SysPaths
<1>2. /\ <<"mounts">> \in Seq(S) /\ <<"auth">> \in Seq(S) /\ <<"remount">> \in Seq(S)
      /\ <<"policy">> \in Seq(S) /\ <<"policies", "acl">> \in Seq(S)
      /\ <<"mounts", n>> \in Seq(S) /\ <<"auth", n>> \in Seq(S)
      /\ <<"policy", n>> \in Seq(S) /\ <<"policies", "acl", n>> \in Seq(S)
  OBVIOUS
<1> HIDE DEF S
<1>4. CASE r = Resource(<<"remount">>, r.method, <<"remount">>, "Write")
  <2>1. r.path = <<"remount">> /\ r.op = "Write"
    BY <1>4 DEF Resource
  <2>2. Anchored(<<"remount">>, sys_remount_path)
    BY <1>2, SysTakes
  <2> QED BY <1>0, <1>1, <1>2, <2>1, <2>2, SysOps
<1>5. ASSUME NEW t \in {"mounts", "auth"}, r.path = <<t>>, r.op = "Read"
      PROVE  IsPath(r.path) /\ SysServes(r.path, r.op)
  <2>1. CASE t = "mounts"
    <3>1. Anchored(<<"mounts">>, sys_mounts_path)
      BY <1>2, SysTakes
    <3> QED BY <1>0, <1>1, <1>2, <1>5, <2>1, <3>1, SysOps
  <2>2. CASE t = "auth"
    <3>1. Anchored(<<"auth">>, sys_auth_path)
      BY <1>2, SysTakes
    <3> QED BY <1>0, <1>1, <1>2, <1>5, <2>2, <3>1, SysOps
  <2> QED BY <2>1, <2>2
<1>6. ASSUME NEW t \in {"mounts", "auth"}, r.path = <<t, n>>, r.op \in {"Write", "Delete"}, n # Blank
      PROVE  IsPath(r.path) /\ SysServes(r.path, r.op)
  <2>1. CASE t = "mounts"
    <3>1. Anchored(<<"mounts", n>>, sys_mounts_at_path)
      BY <1>2, SysTakes, <1>6
    <3> QED BY <1>0, <1>1, <1>2, <1>6, <2>1, <3>1, SysOps
  <2>2. CASE t = "auth"
    <3>1. Anchored(<<"auth", n>>, sys_auth_at_path)
      BY <1>2, SysTakes, <1>6
    <3> QED BY <1>0, <1>1, <1>2, <1>6, <2>2, <3>1, SysOps
  <2> QED BY <2>1, <2>2
<1>7. ASSUME r.path = <<"policy">>, r.op = "List" PROVE IsPath(r.path) /\ SysServes(r.path, r.op)
  <2>1. Anchored(<<"policy">>, sys_policy_list_path)
    BY <1>2, SysTakes
  <2> QED BY <1>0, <1>1, <1>2, <1>7, <2>1, SysOps
<1>8. ASSUME r.path = <<"policies", "acl">>, r.op = "List" PROVE IsPath(r.path) /\ SysServes(r.path, r.op)
  <2>1. Anchored(<<"policies", "acl">>, sys_acl_policy_list_path)
    BY <1>2, SysTakes
  <2> QED BY <1>0, <1>1, <1>2, <1>8, <2>1, SysOps
<1>9. ASSUME r.path = <<"policy", n>>,
             (n = Blank /\ r.op = "List") \/ (n # Blank /\ r.op \in {"Read", "Write", "Delete"})
      PROVE  IsPath(r.path) /\ SysServes(r.path, r.op)
  <2>1. CASE n = Blank
    <3>1. Anchored(<<"policy", n>>, sys_policy_list_path)
      BY <1>2, SysTakes, <2>1
    <3> QED BY <1>0, <1>1, <1>2, <1>9, <2>1, <3>1, SysOps
  <2>2. CASE n # Blank
    <3>1. Anchored(<<"policy", n>>, sys_policy_path)
      BY <1>2, SysTakes, <2>2
    <3> QED BY <1>0, <1>1, <1>2, <1>9, <2>2, <3>1, SysOps
  <2> QED BY <2>1, <2>2
<1>10. ASSUME r.path = <<"policies", "acl", n>>,
              (n = Blank /\ r.op = "List") \/ (n # Blank /\ r.op \in {"Read", "Write", "Delete"})
       PROVE  IsPath(r.path) /\ SysServes(r.path, r.op)
  <2>1. CASE n = Blank
    <3>1. Anchored(<<"policies", "acl", n>>, sys_acl_policy_list_path)
      BY <1>2, SysTakes, <2>1
    <3> QED BY <1>0, <1>1, <1>2, <1>10, <2>1, <3>1, SysOps
  <2>2. CASE n # Blank
    <3>1. Anchored(<<"policies", "acl", n>>, sys_acl_policy_path)
      BY <1>2, SysTakes, <2>2
    <3> QED BY <1>0, <1>1, <1>2, <1>10, <2>2, <3>1, SysOps
  <2> QED BY <2>1, <2>2
<1>11. CASE r \in MountResources(n)
  <2>1. \/ r = Resource(<<"remount">>, r.method, <<"remount">>, "Write")
        \/ \E t \in {"mounts", "auth"} :
              \/ r.path = <<t>> /\ r.op = "Read"
              \/ r.path = <<t, n>> /\ r.op \in {"Write", "Delete"} /\ r.res = <<t, Blank>>
    BY <1>11 DEF MountResources, Resource
  <2>2. \A t : <<t, Blank>> # <<"remount">>
    OBVIOUS
  <2> QED BY <1>4, <1>5, <1>6, <2>1, <2>2
<1>12. CASE r \in PolicyResources(n)
  <2>1. PICK t \in {<<"policy">>, <<"policies", "acl">>} :
          \/ r.path = t /\ r.op = "List"
          \/ /\ r.path = Append(t, n)
             /\ r.op = (IF n = Blank THEN "List" ELSE "Read")
          \/ r.path = Append(t, n) /\ r.op \in {"Write", "Delete"} /\ r.res = Append(t, Blank)
    BY <1>12 DEF PolicyResources, Resource
  <2>2. /\ Append(<<"policy">>, n) = <<"policy", n>>
        /\ Append(<<"policies", "acl">>, n) = <<"policies", "acl", n>>
        /\ Append(<<"policy">>, Blank) = <<"policy", Blank>>
        /\ Append(<<"policies", "acl">>, Blank) = <<"policies", "acl", Blank>>
    BY AppendShape
  <2>3. \A s, u : <<s, Blank>> # <<"remount">> /\ <<s, u, Blank>> # <<"remount">>
    OBVIOUS
  <2>4. CASE t = <<"policy">>
    BY <1>7, <1>9, <2>1, <2>2, <2>3, <2>4
  <2>5. CASE t = <<"policies", "acl">>
    BY <1>8, <1>10, <2>1, <2>2, <2>3, <2>5
  <2> QED BY <2>4, <2>5
<1> QED BY <1>11, <1>12 DEF SysResources

FrontFields == {"at", "status", "be", "path", "op", "token", "ran", "resp"}

Pending == {"pre_route", "route", "post_route"}

\* The backend that the request goes to serves it.
SysServed == freq.be = "sys" => SysServes(freq.path, freq.op)

(***************************************************************************)
(* The inductive invariant of a request's way: a request under way knows   *)
(* its backend and its path; one of the sys service is served; one that    *)
(* passed the check passed it against the mount it will meet, unless that  *)
(* was replaced; and what a handler returned names the handler.            *)
(***************************************************************************)
FrontInv ==
    /\ fapp \in AppBackends \cup {"none"}
    /\ freq # NoRequest => DOMAIN freq = FrontFields
    /\ freq.at \in Pending \cup {"idle", "answered"}
    /\ freq = NoRequest <=> freq.at = "idle"
    /\ freq.at \in Pending =>
          freq.be \in {"sys", "app"} /\ IsPath(freq.path) /\ freq.status = "none" /\ SysServed
    /\ freq.at \in {"pre_route", "route"} => freq.ran = "none" /\ freq.resp = "none"
    /\ freq.at = "route" => Unauth(freq) \/ Authenticated(freq) \/ fchanged
    /\ freq.at = "post_route" =>
          /\ freq.ran # "none"
          /\ freq.resp \in {"none", "data", "login"}
          /\ freq.resp = "login" => freq.ran = "login"
    /\ FrontSound

LEMMA NoRequestSays == NoRequest.at = "idle"
BY DEF NoRequest

LEMMA AnswerSays ==
    ASSUME NEW status
    PROVE  LET a == Answer(status)
           IN  /\ DOMAIN a = FrontFields /\ a.at = "answered" /\ a.status = status /\ a.ran = "none"
               /\ a.be = Blank /\ a.resp = "none"
BY DEF Answer, FrontFields

LEMMA SubmitSays ==
    ASSUME NEW be, NEW path, NEW op, NEW token
    PROVE  LET a == Submit(be, path, op, token)
           IN  /\ DOMAIN a = FrontFields /\ a.at = "pre_route" /\ a.status = "none" /\ a.ran = "none"
               /\ a.be = be /\ a.path = path /\ a.op = op /\ a.token = token /\ a.resp = "none"
BY DEF Submit, Answer, FrontFields

LEMMA FrontInitially == FrontInit => FrontInv
BY NoRequestSays DEF FrontInit, FrontInv, FrontSound, Pending

\* A request that was answered without a handler.
LEMMA AnswerKeeps ==
    ASSUME NEW status \in {"error", "404", "405"}, FrontInv,
           freq' = Answer(status), fapp' = fapp
    PROVE  FrontInv'
<1>1. /\ DOMAIN freq' = FrontFields /\ freq'.at = "answered" /\ freq'.status = status
      /\ freq'.ran = "none"
  BY AnswerSays
<1>2. freq' # NoRequest
  BY <1>1, NoRequestSays
<1>3. FrontSound'
  BY <1>1 DEF FrontSound
<1> QED BY <1>1, <1>2, <1>3 DEF FrontInv, Pending

LEMMA SubmitKeeps ==
    ASSUME FrontInv, NEW be \in {"sys", "app"}, NEW path, NEW op, NEW token, IsPath(path),
           be = "sys" => SysServes(path, op), freq' = Submit(be, path, op, token), fapp' = fapp
    PROVE  FrontInv'
<1>1. /\ DOMAIN freq' = FrontFields /\ freq'.at = "pre_route" /\ freq'.status = "none"
      /\ freq'.ran = "none" /\ freq'.be = be /\ freq'.path = path /\ freq'.op = op
      /\ freq'.resp = "none"
  BY SubmitSays
<1>2. freq' # NoRequest
  BY <1>1, NoRequestSays
<1>3. SysServed'
  BY <1>1 DEF SysServed
<1>4. FrontSound'
  BY <1>1 DEF FrontSound
<1> QED BY <1>1, <1>2, <1>3, <1>4 DEF FrontInv, Pending

LEMMA HttpSysKeeps ==
    ASSUME FrontInv, NEW n \in {Blank, "nam"}, NEW r \in SysResources(n), NEW token, NEW parses \in BOOLEAN,
           HttpSys(n, r, token, parses)
    PROVE  FrontInv'
<1>1. fapp' = fapp
  BY DEF HttpSys
<1>2. CASE r.op = "Write" /\ ~parses
  <2>1. freq' = Answer("error")
    BY <1>2 DEF HttpSys
  <2> QED BY <1>1, <2>1, AnswerKeeps
<1>3. CASE ~(r.op = "Write" /\ ~parses) /\ n = Blank /\ r.op \in {"Write", "Delete"} /\ r.res # <<"remount">>
  <2>1. freq' = Answer("404")
    BY <1>3 DEF HttpSys
  <2> QED BY <1>1, <2>1, AnswerKeeps
<1>4. CASE /\ ~(r.op = "Write" /\ ~parses)
           /\ ~(n = Blank /\ r.op \in {"Write", "Delete"} /\ r.res # <<"remount">>)
  <2>1. freq' = Submit("sys", r.path, r.op, token)
    BY <1>4 DEF HttpSys
  <2>2. IsPath(r.path) /\ SysServes(r.path, r.op)
    BY <1>4, ResourcesServed
  <2> QED BY <1>1, <2>1, <2>2, SubmitKeeps
<1> QED BY <1>2, <1>3, <1>4

LEMMA HttpLogicalKeeps ==
    ASSUME FrontInv, NEW method, NEW path \in AppPaths, NEW token, NEW parses,
           HttpLogical(method, path, token, parses)
    PROVE  FrontInv'
<1>1. fapp' = fapp
  BY DEF HttpLogical
<1>2. IsPath(path)
  BY AppAssumption DEF IsPath
<1>3. \/ freq' = Answer("error") \/ freq' = Answer("405")
      \/ \E op : freq' = Submit("app", path, op, token)
  BY DEF HttpLogical
<1>4. ASSUME NEW op, freq' = Submit("app", path, op, token) PROVE FrontInv'
  BY <1>1, <1>2, <1>4, SubmitKeeps
<1>5. CASE freq' = Answer("error")
  BY <1>1, <1>5, AnswerKeeps
<1>6. CASE freq' = Answer("405")
  BY <1>1, <1>6, AnswerKeeps
<1> QED BY <1>3, <1>4, <1>5, <1>6

LEMMA PreRouteKeeps == ASSUME FrontInv, PreRoute PROVE FrontInv'
<1>1. freq.at = "pre_route" /\ fapp' = fapp /\ fchanged' = fchanged
  BY DEF PreRoute
<1>2. freq # NoRequest /\ DOMAIN freq = FrontFields
  BY <1>1, NoRequestSays DEF FrontInv
<1>3. CASE freq' = Answer("error")
  BY <1>1, <1>3, AnswerKeeps
<1>4. CASE freq' = [freq EXCEPT !.at = "route"] /\ (Unauth(freq) \/ Authenticated(freq))
  <2>1. /\ DOMAIN freq' = FrontFields /\ freq'.at = "route" /\ freq'.status = freq.status
        /\ freq'.ran = freq.ran /\ freq'.be = freq.be /\ freq'.path = freq.path /\ freq'.op = freq.op
        /\ freq'.resp = freq.resp /\ freq'.token = freq.token
    BY <1>2, <1>4 DEF FrontFields
  <2>2. freq' # NoRequest
    BY <2>1, NoRequestSays
  <2>3. Unauth(freq)' \/ Authenticated(freq)'
    BY <1>1, <1>4, <2>1 DEF Unauth, Authenticated, Mounted, check_token, post_auth
  <2>4. SysServed'
    BY <1>1, <2>1 DEF FrontInv, SysServed, Pending
  <2>5. FrontSound'
    BY <2>1 DEF FrontSound
  <2> QED BY <1>1, <2>1, <2>2, <2>3, <2>4, <2>5 DEF FrontInv, Pending
<1> QED BY <1>3, <1>4 DEF PreRoute

\* Every handler has a name.
LEMMA HandlersNamed ==
    ASSUME NEW be \in DOMAIN Backends, NEW r \in Range(Backends[be].routes), NEW op \in DOMAIN r.ops
    PROVE  r.ops[op] # "none"
<1>1. Private(r) \/ Public(r)
  BY SysRoutes, TokenRoutes, RoleRoutes, CertRoutes, UserRoutes, KvRoutes, PkiRoutes, SysAccess,
     TokenAccess, RoleAccess, CertAccess, UserAccess, KvAccess, PkiAccess DEF Backends
<1> QED BY <1>1 DEF Private, Public, PublicHandlers

LEMMA ServedHere ==
    ASSUME NEW path, IsPath(path), NEW op, SysServes(path, op)
    PROVE  LET i == match_path(Backends["sys"], path)
           IN  i # 0 /\ op \in DOMAIN Backends["sys"].routes[i].ops
<1> DEFINE b == Backends["sys"]
           i == match_path(b, path)
<1>1. "sys" \in DOMAIN Backends /\ Range(b.routes) = SysPaths
  BY SysRoutes DEF Backends
<1>2. PICK S : path \in Seq(S)
  BY DEF IsPath
<1>3. PICK q \in SysPaths : Anchored(path, q) /\ op \in DOMAIN q.ops
  BY DEF SysServes
<1>4. i # 0 => b.routes[i] \in Range(b.routes) /\ Anchored(path, b.routes[i])
  BY <1>1, MatchFirst
<1>5. i = 0 => \A r \in Range(b.routes) : ~Anchored(path, r)
  BY <1>1, MatchFirst
<1>6. \A r \in Range(b.routes) : Anchored(path, r) => r = q
  BY <1>1, <1>2, <1>3, OneMatch
<1> HIDE DEF b, i
<1>7. i # 0 /\ op \in DOMAIN b.routes[i].ops
  BY <1>1, <1>3, <1>4, <1>5, <1>6
<1> QED BY <1>7 DEF b, i

LEMMA RouteRequestKeeps == ASSUME FrontInv, RouteRequest PROVE FrontInv'
<1> DEFINE be == Mounted(freq.be)
           i == IF be = "none" THEN 0 ELSE match_path(Backends[be], freq.path)
           served == i # 0 /\ freq.op \in DOMAIN Backends[be].routes[i].ops
           h == Backends[be].routes[i].ops[freq.op]
<1>1. freq.at = "route" /\ fapp' = fapp /\ fchanged' = fchanged
  BY DEF RouteRequest
<1>2. freq # NoRequest /\ DOMAIN freq = FrontFields
  BY <1>1, NoRequestSays DEF FrontInv
<1>3. /\ freq.be \in {"sys", "app"} /\ IsPath(freq.path) /\ freq.status = "none" /\ SysServed
      /\ freq.ran = "none" /\ freq.resp = "none"
      /\ Unauth(freq) \/ Authenticated(freq) \/ fchanged
      /\ fapp \in AppBackends \cup {"none"}
  BY <1>1 DEF FrontInv, Pending
<1>4. be # "none" => be \in DOMAIN Backends
  BY <1>3, AppAssumption DEF Mounted, Backends
<1>5. CASE ~served
  <2>1. freq' = [freq EXCEPT !.at = "answered",
                             !.status = IF be = "none" THEN "not mounted" ELSE "unsupported"]
    BY <1>5 DEF RouteRequest
  <2>2. freq.be # "sys"
    <3> SUFFICES ASSUME freq.be = "sys" PROVE FALSE
      OBVIOUS
    <3>1. be = "sys" /\ SysServes(freq.path, freq.op)
      BY <1>3 DEF Mounted, SysServed
    <3> QED BY <1>3, <1>5, <3>1, ServedHere
  <2>3. /\ DOMAIN freq' = FrontFields /\ freq'.at = "answered" /\ freq'.ran = "none"
        /\ freq'.status \in {"not mounted", "unsupported"} /\ freq'.be = freq.be
    BY <1>2, <1>3, <2>1 DEF FrontFields
  <2>4. freq' # NoRequest
    BY <2>3, NoRequestSays
  <2>5. FrontSound'
    BY <2>2, <2>3 DEF FrontSound
  <2> QED BY <1>1, <1>3, <2>3, <2>4, <2>5 DEF FrontInv, Pending
<1>6. CASE served
  <2>1. be # "none" /\ be \in DOMAIN Backends /\ i = match_path(Backends[be], freq.path)
    BY <1>4, <1>6
  <2> DEFINE r == Backends[be].routes[i]
  <2>2. r \in Range(Backends[be].routes) /\ Anchored(freq.path, r) /\ freq.op \in DOMAIN r.ops
    BY <1>6, <2>1, MatchFirst
  <2>3. h # "none"
    BY <2>1, <2>2, HandlersNamed
  <2>4. PICK S : freq.path \in Seq(S)
    BY <1>3 DEF IsPath
  <2>5. Unauth(freq) => h \in PublicHandlers
    <3>1. Unauth(freq) => is_unauth_path(Backends[be], freq.path)
      BY DEF Unauth
    <3> QED BY <2>1, <2>2, <2>4, <3>1, PublicMatch
  <2>6. \/ freq' = [freq EXCEPT !.at = "answered", !.status = "error", !.ran = h]
        \/ \E resp \in {"none", "data"} \cup (IF h = "login" THEN {"login"} ELSE {}) :
              freq' = [freq EXCEPT !.at = "post_route", !.ran = h, !.resp = resp]
    BY <1>6 DEF RouteRequest
  <2> HIDE DEF h, served, i, be, r
  <2>7. CASE freq' = [freq EXCEPT !.at = "answered", !.status = "error", !.ran = h]
    <3>1. /\ DOMAIN freq' = FrontFields /\ freq'.at = "answered" /\ freq'.ran = h
          /\ freq'.status = "error" /\ freq'.token = freq.token /\ freq'.be = freq.be /\ freq'.op = freq.op
      BY <1>2, <2>7 DEF FrontFields
    <3>2. freq' # NoRequest
      BY <3>1, NoRequestSays
    <3>3. FrontSound'
      BY <1>1, <1>3, <2>5, <3>1 DEF FrontSound, Authenticated, check_token, post_auth
    <3> QED BY <1>1, <1>3, <3>1, <3>2, <3>3 DEF FrontInv, Pending
  <2>8. ASSUME NEW resp \in {"none", "data"} \cup (IF h = "login" THEN {"login"} ELSE {}),
               freq' = [freq EXCEPT !.at = "post_route", !.ran = h, !.resp = resp]
        PROVE  FrontInv'
    <3>1. /\ DOMAIN freq' = FrontFields /\ freq'.at = "post_route" /\ freq'.ran = h
          /\ freq'.status = freq.status /\ freq'.token = freq.token /\ freq'.be = freq.be
          /\ freq'.op = freq.op /\ freq'.path = freq.path /\ freq'.resp = resp
      BY <1>2, <2>8 DEF FrontFields
    <3>2. freq' # NoRequest
      BY <3>1, NoRequestSays
    <3>3. FrontSound'
      BY <1>1, <1>3, <2>5, <3>1 DEF FrontSound, Authenticated, check_token, post_auth
    <3>4. SysServed'
      BY <1>3, <3>1 DEF SysServed
    <3>5. resp \in {"none", "data", "login"} /\ (resp = "login" => h = "login")
      OBVIOUS
    <3> QED BY <1>1, <1>3, <2>3, <3>1, <3>2, <3>3, <3>4, <3>5 DEF FrontInv, Pending
  <2> QED BY <2>6, <2>7, <2>8
<1> QED BY <1>5, <1>6

LEMMA PostRouteKeeps == ASSUME FrontInv, PostRoute PROVE FrontInv'
<1>1. freq.at = "post_route" /\ fapp' = fapp /\ fchanged' = fchanged
  BY DEF PostRoute
<1>2. freq # NoRequest /\ DOMAIN freq = FrontFields
  BY <1>1, NoRequestSays DEF FrontInv
<1>3. /\ freq.ran # "none" /\ (freq.resp = "login" => freq.ran = "login") /\ FrontSound
      /\ fapp \in AppBackends \cup {"none"}
  BY <1>1 DEF FrontInv
<1>4. PICK status : /\ freq' = [freq EXCEPT !.at = "answered", !.status = status]
                    /\ status \in {"error", "token", "200", "404", "204"}
                    /\ status = "token" => freq.resp = "login"
  <2>1. /\ response_logical(freq) \in {"token", "200", "404", "204"}
        /\ response_logical(freq) = "token" => freq.resp = "login"
    BY DEF response_logical
  <2> QED BY <2>1 DEF PostRoute
<1>5. /\ DOMAIN freq' = FrontFields /\ freq'.at = "answered" /\ freq'.ran = freq.ran
      /\ freq'.status = status /\ freq'.token = freq.token /\ freq'.be = freq.be /\ freq'.op = freq.op
  BY <1>2, <1>4 DEF FrontFields
<1>6. freq' # NoRequest
  BY <1>5, NoRequestSays
<1>7. FrontSound'
  BY <1>1, <1>3, <1>4, <1>5 DEF FrontSound, check_token, post_auth
<1> QED BY <1>1, <1>3, <1>5, <1>6, <1>7 DEF FrontInv, Pending

LEMMA ReplaceKeeps ==
    ASSUME FrontInv, NEW be \in AppBackends \cup {"none"}, ReplaceMount(be) PROVE FrontInv'
<1>1. fapp' = be /\ freq' = freq /\ fchanged' = (fchanged \/ freq.at = "route")
  BY DEF ReplaceMount
<1>2. FrontSound'
  BY <1>1 DEF FrontInv, FrontSound, check_token, post_auth
<1>3. SysServed' <=> SysServed
  BY <1>1 DEF SysServed
<1> QED BY <1>1, <1>2, <1>3 DEF FrontInv, Pending

LEMMA FrontStep == FrontInv /\ [FrontNext]_frontVars => FrontInv'
<1> SUFFICES ASSUME FrontInv, [FrontNext]_frontVars PROVE FrontInv'
  OBVIOUS
<1>1. ASSUME NEW token \in ClientTokens, NEW parses \in BOOLEAN, NEW n \in {Blank, "nam"},
             NEW r \in SysResources(n), HttpSys(n, r, token, parses)
      PROVE  FrontInv'
  BY <1>1, HttpSysKeeps
<1>2. ASSUME NEW token \in ClientTokens, NEW parses \in BOOLEAN, NEW m \in Methods,
             NEW path \in AppPaths, HttpLogical(m, path, token, parses)
      PROVE  FrontInv'
  BY <1>2, HttpLogicalKeeps
<1>3. CASE PreRoute
  BY <1>3, PreRouteKeeps
<1>4. CASE RouteRequest
  BY <1>4, RouteRequestKeeps
<1>5. CASE PostRoute
  BY <1>5, PostRouteKeeps
<1>6. CASE NextRequest
  BY <1>6, NoRequestSays DEF NextRequest, FrontInv, FrontSound, Pending
<1>7. ASSUME NEW be \in AppBackends \cup {"none"}, ReplaceMount(be) PROVE FrontInv'
  BY <1>7, ReplaceKeeps
<1>8. CASE UNCHANGED <<fapp, freq, fchanged>>
  BY <1>8 DEF FrontInv, FrontSound, SysServed, Unauth, Authenticated, Mounted, check_token, post_auth
<1> QED BY <1>1, <1>2, <1>3, <1>4, <1>5, <1>6, <1>7, <1>8 DEF FrontNext, SealOrUnseal, frontVars

(***************************************************************************)
(* For every set of mounted backends and paths: a handler that is not      *)
(* public runs only for an admitted token, unless the mount was replaced   *)
(* after the check; a success comes from a handler that ran, a token from  *)
(* a login; and what the sys service lets through, the system backend      *)
(* serves.                                                                 *)
(***************************************************************************)
THEOREM FrontSoundHolds == FrontSpec => []FrontSound
<1>1. FrontInv => FrontSound
  BY DEF FrontInv
<1> QED BY <1>1, FrontInitially, FrontStep, PTL DEF FrontSpec
=============================================================================
