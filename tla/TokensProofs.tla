---------------------------- MODULE TokensProofs ----------------------------
(* Proofs about tokens and their leases, for any number of threads, tokens, *)
(* managers and ticks of the clock.                                         *)
EXTENDS Tokens, FiniteSetTheorems, SequenceTheorems, WellFoundedInduction, TLAPS

-----------------------------------------------------------------------------
(* Tasks and agendas *)

\* What the fields of a task are, by what it does.
LEMMA TaskFields ==
    ASSUME NEW k \in Tasks
    PROVE  /\ k.do \in OnToken => k.id \in Token
           /\ k.do \in OnLease => k.id \in Lease
           /\ k.do \in {"use", "put"} => k.id \in Token /\ k.entry \in TokenEntry
           /\ k.do = "create" => k.id \in Token /\ k.req \in TokenReq
           /\ k.do \in {"index", "unparent"} => k.id \in Token /\ k.parent \in Token
           /\ k.do \in {"tie", "unindex"} => k.id \in SecretLease /\ k.token \in Token
           /\ k.do = "enqueue" => k.id \in Lease /\ k.priority \in Expiry
           /\ k.do = "reply" => /\ k.id \in Token
                                /\ k.op \in {"token", "renew", "revoke"}
                                /\ k.op = "revoke" => k.tree \subseteq Token
                                /\ k.op # "revoke" => k.expire \in Expiry
BY DEF Tasks, OnToken, OnLease

LEMMA TaskMade ==
    /\ \A do \in OnToken, n \in Token : T(do, n) \in Tasks /\ T(do, n).do = do /\ T(do, n).id = n
    /\ \A do \in OnLease, l \in Lease : T(do, l) \in Tasks /\ T(do, l).do = do /\ T(do, l).id = l
    /\ \A n \in Token \cup {None} : T("token", n) \in Tasks /\ T("token", n).do = "token"
    /\ \A do \in {"use", "put"}, n \in Token, e \in TokenEntry :
          [do |-> do, id |-> n, entry |-> e] \in Tasks
    /\ \A n \in Token, req \in TokenReq : [do |-> "create", id |-> n, req |-> req] \in Tasks
    /\ \A do \in {"index", "unparent"}, n \in Token, p \in Token :
          [do |-> do, id |-> n, parent |-> p] \in Tasks
    /\ \A do \in {"tie", "unindex"}, l \in SecretLease, t \in Token :
          [do |-> do, id |-> l, token |-> t] \in Tasks
    /\ \A l \in Lease, p \in Expiry : Enqueue(l, p) \in Tasks
    /\ \A op \in {"token", "renew"}, n \in Token, p \in Expiry : Reply(op, n, p) \in Tasks
    /\ \A n \in Token, S \in SUBSET Token :
          [do |-> "reply", id |-> n, op |-> "revoke", tree |-> S] \in Tasks
<1>1. \A do \in OnToken, n \in Token : T(do, n) \in Tasks /\ T(do, n).do = do /\ T(do, n).id = n
  BY DEF Tasks, T
<1>2. \A do \in OnLease, l \in Lease : T(do, l) \in Tasks /\ T(do, l).do = do /\ T(do, l).id = l
  BY DEF Tasks, T
<1>3. \A n \in Token \cup {None} : T("token", n) \in Tasks /\ T("token", n).do = "token"
  BY DEF Tasks, T
<1>4. \A do \in {"use", "put"}, n \in Token, e \in TokenEntry :
          [do |-> do, id |-> n, entry |-> e] \in Tasks
  BY DEF Tasks
<1>5. \A n \in Token, req \in TokenReq : [do |-> "create", id |-> n, req |-> req] \in Tasks
  BY DEF Tasks
<1>6. \A do \in {"index", "unparent"}, n \in Token, p \in Token :
          [do |-> do, id |-> n, parent |-> p] \in Tasks
  BY DEF Tasks
<1>7. \A do \in {"tie", "unindex"}, l \in SecretLease, t \in Token :
          [do |-> do, id |-> l, token |-> t] \in Tasks
  BY DEF Tasks
<1>8. \A l \in Lease, p \in Expiry : Enqueue(l, p) \in Tasks
  BY DEF Tasks, Enqueue
<1>9. \A op \in {"token", "renew"}, n \in Token, p \in Expiry : Reply(op, n, p) \in Tasks
  BY DEF Tasks, Reply
<1>10. \A n \in Token, S \in SUBSET Token :
          [do |-> "reply", id |-> n, op |-> "revoke", tree |-> S] \in Tasks
  BY DEF Tasks
<1> QED BY <1>1, <1>2, <1>3, <1>4, <1>5, <1>6, <1>7, <1>8, <1>9, <1>10, Zenon

\* A thread puts tasks in the place of the first one.
LEMMA ThenAgenda ==
    ASSUME agenda \in [Thread -> Seq(Tasks)], NEW x \in Thread, agenda[x] # <<>>,
           NEW s \in Seq(Tasks), Then(x, s)
    PROVE  /\ agenda' \in [Thread -> Seq(Tasks)]
           /\ agenda'[x] = s \o Tail(agenda[x])
           /\ \A y \in Thread \ {x} : agenda'[y] = agenda[y]
<1>1. Tail(agenda[x]) \in Seq(Tasks)
  OBVIOUS
<1>2. s \o Tail(agenda[x]) \in Seq(Tasks)
  BY <1>1
<1>3. agenda' = [agenda EXCEPT ![x] = s \o Tail(agenda[x])]
  BY DEF Then
<1> QED BY <1>2, <1>3

LEMMA DropAgenda ==
    ASSUME agenda \in [Thread -> Seq(Tasks)], NEW x \in Thread, Drop(x)
    PROVE  /\ agenda' \in [Thread -> Seq(Tasks)]
           /\ agenda'[x] = <<>>
           /\ \A y \in Thread \ {x} : agenda'[y] = agenda[y]
<1>1. agenda' = [agenda EXCEPT ![x] = <<>>]
  BY DEF Drop
<1>2. <<>> \in Seq(Tasks)
  OBVIOUS
<1> QED BY <1>1, <1>2

\* The first task of a thread that is busy.
LEMMA HeadTask ==
    ASSUME agenda \in [Thread -> Seq(Tasks)], NEW x \in Thread, agenda[x] # <<>>
    PROVE  Task(x) \in Tasks /\ Task(x) = agenda[x][1] /\ 1 \in DOMAIN agenda[x]
BY DEF Task

\* Every order of a finite set of numbers has all of them and no others.
LEMMA SetToSeqsFacts ==
    ASSUME NEW S \in SUBSET Nat, NEW m \in Nat, \A i \in S : i <= m, NEW s \in SetToSeqs(S)
    PROVE  /\ s \in Seq(S)
           /\ \A i \in DOMAIN s : s[i] \in S
           /\ \A e \in S : \E i \in DOMAIN s : s[i] = e
<1>1. IsFiniteSet(S)
  BY FS_BoundedSetOfNaturals
<1> DEFINE n == Cardinality(S)
<1>2. n \in Nat
  BY <1>1, FS_CardinalityType
<1>3. s \in [1 .. n -> S] /\ \A i, j \in 1 .. n : i # j => s[i] # s[j]
  BY DEF SetToSeqs
<1>4. IsFiniteSet(1 .. n) /\ Cardinality(1 .. n) = n
  BY <1>2, FS_Interval
<1>5. s \in Injection(1 .. n, S)
  BY <1>3 DEF Injection, IsInjective
<1>6. s \in Surjection(1 .. n, S)
  BY <1>1, <1>4, <1>5, FS_Injection
<1>7. \A e \in S : \E i \in 1 .. n : s[i] = e
  BY <1>6 DEF Surjection
<1>8. s \in Seq(S) /\ DOMAIN s = 1 .. n
  BY <1>2, <1>3
<1> QED BY <1>3, <1>7, <1>8


-----------------------------------------------------------------------------
(* The types of the variables *)

LEMMA DoingFacts ==
    ASSUME TypeOK, NEW x \in Thread, NEW do, Doing(x, do)
    PROVE  /\ agenda[x] # <<>> /\ agenda[x][1] = Task(x) /\ 1 \in DOMAIN agenda[x]
           /\ Task(x) \in Tasks /\ Task(x).do = do
BY HeadTask DEF Doing, TypeOK

\* A step that changes an agenda and nothing else.
LEMMA AgendaOnly ==
    ASSUME TypeOK, agenda' \in [Thread -> Seq(Tasks)],
           UNCHANGED <<storageVars, status, managers, checkVars, now, boundVars, toldVars>>
    PROVE  TypeOK'
BY DEF TypeOK, storageVars, checkVars, boundVars, toldVars

\* A step that goes on with the tasks s, and one that ends the request.
LEMMA ThenTyped ==
    ASSUME TypeOK, NEW x \in Thread, agenda[x] # <<>>, NEW s \in Seq(Tasks), Then(x, s)
    PROVE  agenda' \in [Thread -> Seq(Tasks)]
BY ThenAgenda DEF TypeOK

LEMMA DropTyped ==
    ASSUME TypeOK, NEW x \in Thread, Drop(x)
    PROVE  agenda' \in [Thread -> Seq(Tasks)]
BY DropAgenda DEF TypeOK

LEMMA TailTyped ==
    ASSUME TypeOK, NEW x \in Thread, agenda[x] # <<>>, Then(x, <<>>)
    PROVE  agenda' \in [Thread -> Seq(Tasks)]
<1>1. <<>> \in Seq(Tasks)
  OBVIOUS
<1> QED BY <1>1, ThenTyped

LEMMA OneTyped ==
    ASSUME TypeOK, NEW x \in Thread, agenda[x] # <<>>, NEW k \in Tasks, Then(x, <<k>>)
    PROVE  agenda' \in [Thread -> Seq(Tasks)]
<1>1. <<k>> \in Seq(Tasks)
  OBVIOUS
<1> QED BY <1>1, ThenTyped

LEMMA TwoTyped ==
    ASSUME TypeOK, NEW x \in Thread, agenda[x] # <<>>, NEW k \in Tasks, NEW m \in Tasks,
           Then(x, <<k, m>>)
    PROVE  agenda' \in [Thread -> Seq(Tasks)]
<1>1. <<k, m>> \in Seq(Tasks)
  OBVIOUS
<1> QED BY <1>1, ThenTyped

LEMMA Numbers ==
    /\ Root \in Token /\ Token \subseteq Lease /\ SecretLease \subseteq Lease
    /\ Token \subseteq Nat /\ Lease \subseteq Nat /\ SecretLease \subseteq Nat
    /\ Token \cap SecretLease = {}
    /\ \A l \in Lease : l <= MaxTokens + MaxSecrets
    /\ Expiry \subseteq Nat /\ 0 \in Expiry /\ Time \subseteq Expiry
    /\ Manager \subseteq Nat /\ Client \cap Manager = {}
    /\ Client \subseteq Thread /\ Manager \subseteq Thread
    /\ None \notin Nat
<1>1. /\ Root \in Token /\ Token \subseteq Nat /\ SecretLease \subseteq Nat
      /\ Token \cap SecretLease = {}
  BY BoundsAssumption DEF Root, Token, SecretLease
<1>2. \A l \in Lease : l <= MaxTokens + MaxSecrets
  BY BoundsAssumption DEF Token, SecretLease, Lease
<1>3. Expiry \subseteq Nat /\ 0 \in Expiry /\ Time \subseteq Expiry
  BY BoundsAssumption DEF Expiry, Time
<1>4. Manager \subseteq Nat /\ Client \cap Manager = {}
  BY BoundsAssumption, ClientAssumption DEF Manager
<1> QED BY <1>1, <1>2, <1>3, <1>4, NoneAssumption DEF Lease, Thread

LEMMA NoneApart == None \notin TokenEntry /\ None \notin LeaseEntry /\ None \notin Token
BY NoneAssumption, Numbers

\* What Check goes on with.
UseTask(t, e) == [do |-> "use", id |-> t, entry |-> [e EXCEPT !.num_uses = @ - 1]]

LEMMA CheckScript ==
    ASSUME TypeOK, NEW x \in Thread, Check(x)
    PROVE  /\ agenda[x] # <<>> /\ Task(x) \in Tasks /\ Task(x).do = "check"
           /\ Task(x).id \in Token
           /\ \/ Drop(x)
              \/ tokens[Task(x).id] # None /\ Then(x, <<>>)
              \/ /\ tokens[Task(x).id] # None /\ tokens[Task(x).id].num_uses = 1
                 /\ Then(x, <<T("revoke", Task(x).id)>>)
              \/ /\ tokens[Task(x).id] # None /\ tokens[Task(x).id].num_uses \in Nat \ {0, 1}
                 /\ Then(x, <<UseTask(Task(x).id, tokens[Task(x).id])>>)
           /\ UNCHANGED <<storageVars, status, managers, checkVars, now, boundVars, toldVars>>
<1>1. Doing(x, "check")
  BY DEF Check, Stored
<1>2. /\ agenda[x] # <<>> /\ Task(x) \in Tasks /\ Task(x).do = "check"
      /\ Task(x).id \in Token
  BY <1>1, DoingFacts, TaskFields DEF OnToken
<1> DEFINE t == Task(x).id
           e == tokens[t]
<1>3. e # None => e \in TokenEntry
  BY <1>2 DEF TypeOK
<1>4. e # None => e.num_uses \in Nat
  BY <1>3 DEF TokenEntry
<1>5. \/ e = None /\ Drop(x)
      \/ /\ e # None
         /\ Then(x, CASE e.num_uses = 0 -> <<>>
                      [] e.num_uses = 1 -> <<T("revoke", t)>>
                      [] OTHER -> <<UseTask(t, e)>>)
  BY DEF Check, UseTask
<1>6. UNCHANGED <<storageVars, status, managers, checkVars, now, boundVars, toldVars>>
  BY DEF Check
<1> HIDE DEF e
<1>7. ASSUME e # None, Then(x, CASE e.num_uses = 0 -> <<>>
                      [] e.num_uses = 1 -> <<T("revoke", t)>>
                      [] OTHER -> <<UseTask(t, e)>>)
      PROVE \/ Then(x, <<>>)
            \/ e.num_uses = 1 /\ Then(x, <<T("revoke", t)>>)
            \/ e.num_uses \in Nat \ {0, 1} /\ Then(x, <<UseTask(t, e)>>)
  <2>1. CASE e.num_uses = 0
    BY <1>7, <2>1
  <2>2. CASE e.num_uses = 1
    BY <1>7, <2>2
  <2>3. CASE e.num_uses \in Nat \ {0, 1}
    BY <1>7, <2>3
  <2> QED BY <1>4, <1>7, <2>1, <2>2, <2>3
<1> QED BY <1>2, <1>5, <1>6, <1>7 DEF e

LEMMA UseTyped ==
    ASSUME NEW t \in Token, NEW e \in TokenEntry, e.num_uses \in Nat \ {0, 1}
    PROVE  /\ UseTask(t, e) \in Tasks
           /\ UseTask(t, e).do = "use" /\ UseTask(t, e).id = t
           /\ UseTask(t, e).entry.num_uses \in Nat \ {0}
           /\ UseTask(t, e).entry.parent = e.parent
           /\ UseTask(t, e).entry.root = e.root
<1>1. [e EXCEPT !.num_uses = @ - 1] \in TokenEntry
  BY DEF TokenEntry
<1>2. e.num_uses - 1 \in Nat \ {0}
  OBVIOUS
<1> QED BY <1>1, <1>2, TaskMade DEF UseTask, TokenEntry

LEMMA CheckTyped == ASSUME TypeOK, NEW x \in Thread, Check(x) PROVE TypeOK'
<1> DEFINE t == Task(x).id
<1>1. agenda[x] # <<>> /\ t \in Token
  BY CheckScript
<1>2. agenda' \in [Thread -> Seq(Tasks)]
  <2>1. CASE Drop(x)
    BY <2>1, DropTyped
  <2>2. CASE Then(x, <<>>)
    BY <1>1, <2>2, TailTyped
  <2>3. CASE Then(x, <<T("revoke", t)>>)
    <3>1. T("revoke", t) \in Tasks
      BY <1>1, TaskMade DEF OnToken
    <3> QED BY <1>1, <2>3, <3>1, OneTyped
  <2>4. CASE /\ tokens[t] # None /\ tokens[t].num_uses \in Nat \ {0, 1}
             /\ Then(x, <<UseTask(t, tokens[t])>>)
    <3>1. tokens[t] \in TokenEntry
      BY <1>1, <2>4 DEF TypeOK
    <3>2. UseTask(t, tokens[t]) \in Tasks
      BY <1>1, <2>4, <3>1, UseTyped
    <3> QED BY <1>1, <2>4, <3>2, OneTyped
  <2> QED BY <2>1, <2>2, <2>3, <2>4, CheckScript
<1> QED BY <1>2, CheckScript, AgendaOnly


LEMMA PutScript ==
    ASSUME TypeOK, NEW x \in Thread, Put(x)
    PROVE  /\ agenda[x] # <<>> /\ Task(x).do \in {"use", "put"}
           /\ Task(x).id \in Token /\ Task(x).entry \in TokenEntry
           /\ Then(x, <<>>)
BY DoingFacts, TaskFields DEF Put, Stored

LEMMA PutTyped == ASSUME TypeOK, NEW x \in Thread, Put(x) PROVE TypeOK'
<1>1. agenda' \in [Thread -> Seq(Tasks)]
  BY PutScript, TailTyped
<1>2. tokens' \in [Token -> TokenEntry \cup {None}]
  BY PutScript DEF Put, TypeOK
<1> QED BY <1>1, <1>2 DEF Put, TypeOK, checkVars, boundVars, toldVars

\* The entry of a new token.
NewEntry(p, req) == [parent |-> p, num_uses |-> req.num_uses, root |-> req.root]
PutTask(n, e) == [do |-> "put", id |-> n, entry |-> e]
LinkTask(n, p) == [do |-> "index", id |-> n, parent |-> p]

LEMMA NewTyped ==
    ASSUME NEW p \in Token \cup {None}, NEW req \in TokenReq, NEW n \in Token
    PROVE  /\ NewEntry(p, req) \in TokenEntry
           /\ PutTask(n, NewEntry(p, req)) \in Tasks
           /\ p # None => LinkTask(n, p) \in Tasks
<1>1. NewEntry(p, req) \in TokenEntry
  BY TokenReqAssumption DEF NewEntry, TokenEntry
<1> QED BY <1>1, TaskMade DEF PutTask, LinkTask

\* The parent of the token that req asks for, and what creates it.
ParentFor(t, req) == IF req.no_parent THEN None ELSE t

LEMMA CreateScript ==
    ASSUME TypeOK, NEW x \in Thread, HandleCreate(x)
    PROVE  /\ agenda[x] # <<>> /\ Task(x).do = "create"
           /\ Task(x).id \in Token /\ Task(x).req \in TokenReq
           /\ \/ Drop(x) /\ UNCHANGED <<issued, held>>
              \/ LET t == Task(x).id
                     req == Task(x).req
                     n == issued + 1
                     p == ParentFor(t, req)
                     e == NewEntry(p, req)
                 IN  /\ Allowed(tokens[t], req)
                     /\ issued < MaxTokens /\ issued' = n
                     /\ held' = IF req.id THEN held \cup {n} ELSE held
                     /\ \/ p = None /\ Then(x, <<PutTask(n, e)>>)
                        \/ p # None /\ Then(x, <<T("parent", p), LinkTask(n, p), PutTask(n, e)>>)
<1>1. Doing(x, "create")
  BY DEF HandleCreate, Stored
<1>2. agenda[x] # <<>> /\ Task(x).do = "create" /\ Task(x).id \in Token /\ Task(x).req \in TokenReq
  BY <1>1, DoingFacts, TaskFields
<1> QED BY <1>2 DEF HandleCreate, CreateSteps, ParentFor, NewEntry, PutTask, LinkTask

LEMMA CreateTyped == ASSUME TypeOK, NEW x \in Thread, HandleCreate(x) PROVE TypeOK'
<1> DEFINE t == Task(x).id
           req == Task(x).req
           n == issued + 1
           p == ParentFor(t, req)
           e == NewEntry(p, req)
<1>1. agenda[x] # <<>> /\ t \in Token /\ req \in TokenReq
  BY CreateScript
<1>2. UNCHANGED <<storageVars, status, managers, checkVars, now, secrets, acked, revoked>>
  BY DEF HandleCreate
<1>3. CASE Drop(x) /\ UNCHANGED <<issued, held>>
  BY <1>2, <1>3, DropTyped, AgendaOnly DEF boundVars, toldVars
<1>4. CASE /\ issued < MaxTokens /\ issued' = n
           /\ held' = IF req.id THEN held \cup {n} ELSE held
           /\ \/ p = None /\ Then(x, <<PutTask(n, e)>>)
              \/ p # None /\ Then(x, <<T("parent", p), LinkTask(n, p), PutTask(n, e)>>)
  <2>1. n \in Token /\ issued' \in 1 .. MaxTokens /\ held' \subseteq Token
    BY <1>4, BoundsAssumption DEF TypeOK, Token
  <2>2. p \in Token \cup {None}
    BY <1>1 DEF ParentFor
  <2>3. PutTask(n, e) \in Tasks /\ (p # None => LinkTask(n, p) \in Tasks)
    BY <1>1, <2>1, <2>2, NewTyped
  <2>4. CASE p = None /\ Then(x, <<PutTask(n, e)>>)
    <3>1. agenda' \in [Thread -> Seq(Tasks)]
      BY <1>1, <2>3, <2>4, OneTyped
    <3> QED BY <1>2, <2>1, <3>1 DEF TypeOK, storageVars, checkVars
  <2>5. CASE p # None /\ Then(x, <<T("parent", p), LinkTask(n, p), PutTask(n, e)>>)
    <3>1. T("parent", p) \in Tasks
      BY <2>2, <2>5, TaskMade DEF OnToken
    <3> HIDE DEF n, p, e
    <3>2. <<T("parent", p), LinkTask(n, p), PutTask(n, e)>> \in Seq(Tasks)
      BY <2>3, <2>5, <3>1
    <3>3. agenda' \in [Thread -> Seq(Tasks)]
      BY <1>1, <2>5, <3>2, ThenTyped
    <3> QED BY <1>2, <2>1, <3>3 DEF TypeOK, storageVars, checkVars
  <2> QED BY <1>4, <2>4, <2>5
<1> QED BY <1>3, <1>4, CreateScript

LEMMA ParentScript ==
    ASSUME TypeOK, NEW x \in Thread, CreateParent(x)
    PROVE  agenda[x] # <<>> /\ Task(x).do = "parent" /\ (Drop(x) \/ Then(x, <<>>))
BY DoingFacts DEF CreateParent, Stored

LEMMA ParentTyped == ASSUME TypeOK, NEW x \in Thread, CreateParent(x) PROVE TypeOK'
<1>1. agenda' \in [Thread -> Seq(Tasks)]
  BY ParentScript, DropTyped, TailTyped
<1> QED BY <1>1, AgendaOnly DEF CreateParent

LEMMA LinkScript ==
    ASSUME TypeOK, NEW x \in Thread, CreateIndex(x)
    PROVE  /\ agenda[x] # <<>> /\ Task(x).do = "index"
           /\ Task(x).id \in Token /\ Task(x).parent \in Token
           /\ Then(x, <<>>)
BY DoingFacts, TaskFields DEF CreateIndex, Stored

LEMMA LinkTyped == ASSUME TypeOK, NEW x \in Thread, CreateIndex(x) PROVE TypeOK'
<1>1. agenda' \in [Thread -> Seq(Tasks)]
  BY LinkScript, TailTyped
<1>2. parents' \subseteq Token \X Token
  BY LinkScript DEF CreateIndex, TypeOK
<1> QED BY <1>1, <1>2 DEF CreateIndex, TypeOK, checkVars, boundVars, toldVars

PlainEntry == [parent |-> None, num_uses |-> 0, root |-> FALSE]

LEMMA PostRouteScript ==
    ASSUME TypeOK, NEW x \in Thread, PostRoute(x)
    PROVE  /\ agenda[x] # <<>> /\ Task(x).do = "token"
           /\ issued < MaxTokens /\ issued + 1 \in Token /\ issued' = issued + 1
           /\ tokens' = [tokens EXCEPT ![issued + 1] = PlainEntry]
           /\ Then(x, <<T("lease", issued + 1)>>)
<1>1. agenda[x] # <<>> /\ Task(x).do = "token"
  BY DoingFacts DEF PostRoute, Stored
<1>2. issued < MaxTokens /\ issued + 1 \in Token
  BY BoundsAssumption DEF PostRoute, TypeOK, Token
<1> QED BY <1>1, <1>2 DEF PostRoute, PlainEntry

LEMMA PostRouteTyped == ASSUME TypeOK, NEW x \in Thread, PostRoute(x) PROVE TypeOK'
<1>1. T("lease", issued + 1) \in Tasks
  BY PostRouteScript, TaskMade DEF OnToken
<1>2. agenda' \in [Thread -> Seq(Tasks)]
  BY <1>1, PostRouteScript, OneTyped
<1>3. PlainEntry \in TokenEntry
  BY DEF PlainEntry, TokenEntry
<1>4. tokens' \in [Token -> TokenEntry \cup {None}]
  BY <1>3, PostRouteScript DEF TypeOK
<1>5. issued' \in 1 .. MaxTokens
  BY PostRouteScript, BoundsAssumption DEF TypeOK
<1> QED BY <1>2, <1>4, <1>5 DEF PostRoute, TypeOK, checkVars


\* now + Ttl and now + SecretTtl are times at which a lease may end.
LEMMA ExpiryOK ==
    ASSUME TypeOK
    PROVE  now + Ttl \in Expiry /\ now + SecretTtl \in Expiry /\ now \in Nat
BY BoundsAssumption DEF TypeOK, Time, Expiry

TokenLease(n) == [token |-> n, expire |-> now + Ttl]

LEMMA RegisterScript ==
    ASSUME TypeOK, NEW x \in Thread, RegisterAuth(x)
    PROVE  /\ agenda[x] # <<>> /\ Task(x).do = "lease" /\ Task(x).id \in Token
           /\ leases' = [leases EXCEPT ![Task(x).id] = TokenLease(Task(x).id)]
           /\ Then(x, <<Enqueue(Task(x).id, now + Ttl), Reply("token", Task(x).id, now + Ttl)>>)
BY DoingFacts, TaskFields DEF RegisterAuth, Stored, OnToken, TokenLease

LEMMA TokenLeaseTyped == ASSUME TypeOK, NEW n \in Token PROVE TokenLease(n) \in LeaseEntry
BY ExpiryOK DEF TokenLease, LeaseEntry

LEMMA RegisterTyped == ASSUME TypeOK, NEW x \in Thread, RegisterAuth(x) PROVE TypeOK'
<1> DEFINE n == Task(x).id
<1>1. n \in Token /\ n \in Lease
  BY RegisterScript, Numbers
<1>2. Enqueue(n, now + Ttl) \in Tasks /\ Reply("token", n, now + Ttl) \in Tasks
  BY <1>1, ExpiryOK, TaskMade
<1>3. agenda' \in [Thread -> Seq(Tasks)]
  BY <1>2, RegisterScript, TwoTyped
<1>4. leases' \in [Lease -> LeaseEntry \cup {None}]
  BY <1>1, RegisterScript, TokenLeaseTyped DEF TypeOK
<1> QED BY <1>3, <1>4 DEF RegisterAuth, TypeOK, checkVars, boundVars, toldVars

LEMMA QueueScript ==
    ASSUME TypeOK, NEW x \in Thread, RegisterLeaseEntry(x)
    PROVE  /\ agenda[x] # <<>> /\ Task(x).do = "enqueue"
           /\ Task(x).id \in Lease /\ Task(x).priority \in Expiry
           /\ QueueOf(x) \notin looping
           /\ queue' = [queue EXCEPT ![QueueOf(x)] = [@ EXCEPT ![Task(x).id] = Task(x).priority]]
           /\ Then(x, <<>>)
BY DoingFacts, TaskFields DEF RegisterLeaseEntry

LEMMA QueueTyped == ASSUME TypeOK, NEW x \in Thread, RegisterLeaseEntry(x) PROVE TypeOK'
<1>1. agenda' \in [Thread -> Seq(Tasks)]
  BY QueueScript, TailTyped
<1>2. queue' \in [Manager -> [Lease -> Expiry \cup {None}]]
  <2> DEFINE q == queue[QueueOf(x)]
  <2>1. queue \in [Manager -> [Lease -> Expiry \cup {None}]]
    BY DEF TypeOK
  <2>2. /\ Task(x).id \in Lease /\ Task(x).priority \in Expiry
        /\ queue' = [queue EXCEPT ![QueueOf(x)] = [q EXCEPT ![Task(x).id] = Task(x).priority]]
    BY QueueScript
  <2>3. QueueOf(x) \in Manager =>
            [q EXCEPT ![Task(x).id] = Task(x).priority] \in [Lease -> Expiry \cup {None}]
    BY <2>1, <2>2
  <2> HIDE DEF q
  <2> QED BY <2>1, <2>2, <2>3
<1> QED BY <1>1, <1>2 DEF RegisterLeaseEntry, TypeOK, storageVars, boundVars, toldVars

LEMMA RenewScript ==
    ASSUME TypeOK, NEW x \in Thread, RenewToken(x)
    PROVE  /\ agenda[x] # <<>> /\ Task(x).do = "renew" /\ Task(x).id \in Token
           /\ \/ Drop(x)
              \/ /\ leases[Task(x).id] # None
                 /\ Then(x, <<T("renewal", Task(x).id)>>)
BY DoingFacts, TaskFields DEF RenewToken, Stored, OnToken

LEMMA RenewTyped == ASSUME TypeOK, NEW x \in Thread, RenewToken(x) PROVE TypeOK'
<1>1. T("renewal", Task(x).id) \in Tasks
  BY RenewScript, TaskMade DEF OnToken
<1>2. agenda' \in [Thread -> Seq(Tasks)]
  BY <1>1, RenewScript, OneTyped, DropTyped
<1> QED BY <1>2, AgendaOnly DEF RenewToken

LEMMA PersistScript ==
    ASSUME TypeOK, NEW x \in Thread, RenewPersist(x)
    PROVE  /\ agenda[x] # <<>> /\ Task(x).do = "renewal" /\ Task(x).id \in Token
           /\ leases' = [leases EXCEPT ![Task(x).id] = TokenLease(Task(x).id)]
           /\ Enqueue(Task(x).id, now + Ttl) \in Tasks
           /\ Reply("renew", Task(x).id, now + Ttl) \in Tasks
           /\ agenda'[x] = <<Enqueue(Task(x).id, now + Ttl)>> \o Tail(agenda[x])
                              \o <<Reply("renew", Task(x).id, now + Ttl)>>
           /\ \A y \in Thread \ {x} : agenda'[y] = agenda[y]
           /\ agenda' \in [Thread -> Seq(Tasks)]
<1> DEFINE u == Task(x).id
           q == Enqueue(u, now + Ttl)
           r == Reply("renew", u, now + Ttl)
<1>1. agenda[x] # <<>> /\ Task(x).do = "renewal" /\ u \in Token
  BY DoingFacts, TaskFields DEF RenewPersist, Stored, OnToken
<1>2. q \in Tasks /\ r \in Tasks
  BY <1>1, ExpiryOK, TaskMade, Numbers
<1>3. agenda' = [agenda EXCEPT ![x] = <<q>> \o Tail(agenda[x]) \o <<r>>]
  BY DEF RenewPersist
<1>4. leases' = [leases EXCEPT ![u] = TokenLease(u)]
  BY DEF RenewPersist, TokenLease
<1>5. agenda \in [Thread -> Seq(Tasks)]
  BY DEF TypeOK
<1> HIDE DEF q, r
<1>6. <<q>> \o Tail(agenda[x]) \o <<r>> \in Seq(Tasks)
  BY <1>1, <1>2, <1>5
<1>7. /\ agenda'[x] = <<q>> \o Tail(agenda[x]) \o <<r>>
      /\ \A y \in Thread \ {x} : agenda'[y] = agenda[y]
      /\ agenda' \in [Thread -> Seq(Tasks)]
  BY <1>3, <1>5, <1>6
<1> QED BY <1>1, <1>2, <1>4, <1>7 DEF q, r

LEMMA PersistTyped == ASSUME TypeOK, NEW x \in Thread, RenewPersist(x) PROVE TypeOK'
<1>1. Task(x).id \in Token /\ Task(x).id \in Lease
  BY PersistScript, Numbers
<1>2. leases' \in [Lease -> LeaseEntry \cup {None}]
  BY <1>1, PersistScript, TokenLeaseTyped DEF TypeOK
<1> QED BY <1>2, PersistScript DEF RenewPersist, TypeOK, checkVars, boundVars, toldVars

TieTask(l, t) == [do |-> "tie", id |-> l, token |-> t]
SecretLeaseOf(t) == [token |-> t, expire |-> now + SecretTtl]
NextSecret == MaxTokens + secrets + 1

LEMMA SecretScript ==
    ASSUME TypeOK, NEW x \in Thread, RegisterSecret(x)
    PROVE  /\ agenda[x] # <<>> /\ Task(x).do = "secret" /\ Task(x).id \in Token
           /\ NextSecret \in SecretLease /\ secrets < MaxSecrets /\ secrets' = secrets + 1
           /\ leases' = [leases EXCEPT ![NextSecret] = SecretLeaseOf(Task(x).id)]
           /\ Then(x, <<TieTask(NextSecret, Task(x).id), Enqueue(NextSecret, now + SecretTtl)>>)
<1>1. agenda[x] # <<>> /\ Task(x).do = "secret" /\ Task(x).id \in Token
  BY DoingFacts, TaskFields DEF RegisterSecret, Stored, OnToken
<1>2. NextSecret \in SecretLease /\ secrets < MaxSecrets
  BY BoundsAssumption DEF RegisterSecret, NextSecret, SecretLease, TypeOK
<1> QED BY <1>1, <1>2 DEF RegisterSecret, NextSecret, SecretLeaseOf, TieTask

LEMMA SecretTyped == ASSUME TypeOK, NEW x \in Thread, RegisterSecret(x) PROVE TypeOK'
<1> DEFINE t == Task(x).id
<1>1. t \in Token /\ NextSecret \in SecretLease /\ NextSecret \in Lease
  BY SecretScript, Numbers
<1>2. TieTask(NextSecret, t) \in Tasks /\ Enqueue(NextSecret, now + SecretTtl) \in Tasks
  BY <1>1, ExpiryOK, TaskMade DEF TieTask
<1>3. agenda' \in [Thread -> Seq(Tasks)]
  BY <1>2, SecretScript, TwoTyped
<1>4. SecretLeaseOf(t) \in LeaseEntry
  BY <1>1, ExpiryOK DEF SecretLeaseOf, LeaseEntry
<1>5. leases' \in [Lease -> LeaseEntry \cup {None}]
  BY <1>1, <1>4, SecretScript DEF TypeOK
<1>6. secrets' \in 0 .. MaxSecrets
  <2>1. secrets \in 0 .. MaxSecrets
    BY DEF TypeOK
  <2>2. secrets < MaxSecrets /\ secrets' = secrets + 1
    BY SecretScript
  <2> QED BY <2>1, <2>2, BoundsAssumption
<1> QED BY <1>3, <1>5, <1>6 DEF RegisterSecret, TypeOK, checkVars, toldVars

LEMMA TieScript ==
    ASSUME TypeOK, NEW x \in Thread, CreateIndexByToken(x)
    PROVE  /\ agenda[x] # <<>> /\ Task(x).do = "tie"
           /\ Task(x).id \in SecretLease /\ Task(x).token \in Token
           /\ Then(x, <<>>)
BY DoingFacts, TaskFields DEF CreateIndexByToken, Stored

LEMMA TieTyped == ASSUME TypeOK, NEW x \in Thread, CreateIndexByToken(x) PROVE TypeOK'
<1>1. agenda' \in [Thread -> Seq(Tasks)]
  BY TieScript, TailTyped
<1>2. index' \subseteq Token \X SecretLease
  BY TieScript DEF CreateIndexByToken, TypeOK
<1> QED BY <1>1, <1>2 DEF CreateIndexByToken, TypeOK, checkVars, boundVars, toldVars


\* The children linked to t, and what is revoked before t.
ChildrenOf(t) == {n \in Token : <<t, n>> \in parents}

LEMMA TreeScript ==
    ASSUME TypeOK, NEW x \in Thread, RevokeTree(x)
    PROVE  /\ agenda[x] # <<>> /\ Task(x).do = "tree" /\ Task(x).id \in Token
           /\ \E s \in Seq(Tasks) :
                /\ Then(x, s)
                /\ \A i \in DOMAIN s : \/ s[i] = T("revoke", Task(x).id)
                                       \/ \E n \in ChildrenOf(Task(x).id) : s[i] = T("tree", n)
                /\ \A n \in ChildrenOf(Task(x).id) : \E i \in DOMAIN s : s[i] = T("tree", n)
                /\ \E i \in DOMAIN s : s[i] = T("revoke", Task(x).id)
                /\ \A i \in DOMAIN s : s[i] = T("revoke", Task(x).id) => i = Len(s)
<1> DEFINE t == Task(x).id
           C == ChildrenOf(t)
<1>1. agenda[x] # <<>> /\ Task(x).do = "tree" /\ t \in Token
  BY DoingFacts, TaskFields DEF RevokeTree, Stored, OnToken
<1>2. \E q \in SetToSeqs(C) : Then(x, Append([i \in DOMAIN q |-> T("tree", q[i])], T("revoke", t)))
  BY DEF RevokeTree, TaskSeqs, ChildrenOf
<1>3. C \in SUBSET Nat /\ MaxTokens \in Nat /\ \A n \in C : n <= MaxTokens
  BY BoundsAssumption DEF ChildrenOf, Token
<1>4. \A n \in C : n \in Token
  BY DEF ChildrenOf
<1> HIDE DEF C
<1>5. PICK q \in SetToSeqs(C) :
            Then(x, Append([i \in DOMAIN q |-> T("tree", q[i])], T("revoke", t)))
  BY <1>2
<1>6. /\ q \in Seq(C) /\ \A i \in DOMAIN q : q[i] \in C
      /\ \A e \in C : \E i \in DOMAIN q : q[i] = e
  BY <1>3, SetToSeqsFacts
<1> DEFINE r == [i \in DOMAIN q |-> T("tree", q[i])]
           s == Append(r, T("revoke", t))
<1>7. \A n \in Token : T("tree", n) \in Tasks /\ T("revoke", n) \in Tasks
  BY TaskMade DEF OnToken
<1>8. /\ r \in Seq(Tasks) /\ Len(r) = Len(q)
      /\ \A i \in 1 .. Len(q) : r[i] = T("tree", q[i])
  BY <1>4, <1>6, <1>7
<1> HIDE DEF r
<1>9. /\ s \in Seq(Tasks) /\ Len(s) = Len(q) + 1 /\ s[Len(q) + 1] = T("revoke", t)
      /\ \A i \in 1 .. Len(q) : s[i] = T("tree", q[i])
  BY <1>1, <1>7, <1>8, <1>6
<1>10. Then(x, s)
  BY <1>5 DEF r
<1> HIDE DEF s
<1>11. DOMAIN s = 1 .. Len(q) + 1 /\ DOMAIN q = 1 .. Len(q) /\ Len(q) \in Nat
  BY <1>6, <1>9
<1>12. \A i \in DOMAIN s : s[i] = T("revoke", t) \/ \E n \in C : s[i] = T("tree", n)
  BY <1>6, <1>9, <1>11
<1>13. \A n \in C : \E i \in DOMAIN s : s[i] = T("tree", n)
  BY <1>6, <1>9, <1>11
<1>14. \E i \in DOMAIN s : s[i] = T("revoke", t)
  BY <1>9, <1>11
<1>15. \A i \in DOMAIN s : s[i] = T("revoke", t) => i = Len(s)
  <2>1. \A n : T("tree", n) # T("revoke", t)
    BY DEF T
  <2> QED BY <1>9, <1>11, <2>1
<1> QED BY <1>1, <1>9, <1>10, <1>12, <1>13, <1>14, <1>15 DEF C

LEMMA TreeTyped == ASSUME TypeOK, NEW x \in Thread, RevokeTree(x) PROVE TypeOK'
<1>1. agenda' \in [Thread -> Seq(Tasks)]
  BY TreeScript, ThenTyped
<1> QED BY <1>1, AgendaOnly DEF RevokeTree

UnlinkTask(n, p) == [do |-> "unparent", id |-> n, parent |-> p]

LEMMA RevokeScript ==
    ASSUME TypeOK, NEW x \in Thread, Revoke(x)
    PROVE  /\ agenda[x] # <<>> /\ Task(x).do = "revoke" /\ Task(x).id \in Token
           /\ tokens' = [tokens EXCEPT ![Task(x).id] = None]
           /\ LET t == Task(x).id
                  e == tokens[t]
              IN  \/ e = None /\ Then(x, <<>>)
                  \/ e # None /\ e.parent = None /\ Then(x, <<T("secrets", t)>>)
                  \/ /\ e # None /\ e.parent \in Token
                     /\ UnlinkTask(t, e.parent) \in Tasks
                     /\ Then(x, <<UnlinkTask(t, e.parent), T("secrets", t)>>)
           /\ T("secrets", Task(x).id) \in Tasks
<1> DEFINE t == Task(x).id
           e == tokens[t]
<1>1. agenda[x] # <<>> /\ Task(x).do = "revoke" /\ t \in Token
  BY DoingFacts, TaskFields DEF Revoke, Stored, OnToken
<1>2. /\ tokens' = [tokens EXCEPT ![t] = None]
      /\ Then(x, CASE e = None -> <<>>
                   [] e # None /\ e.parent = None -> <<T("secrets", t)>>
                   [] OTHER -> <<UnlinkTask(t, e.parent), T("secrets", t)>>)
  BY DEF Revoke, UnlinkTask
<1>3. e # None => e \in TokenEntry
  BY <1>1 DEF TypeOK
<1>4. e # None /\ e.parent # None => e.parent \in Token
  BY <1>3 DEF TokenEntry
<1>5. T("secrets", t) \in Tasks /\ \A p \in Token : UnlinkTask(t, p) \in Tasks
  BY <1>1, TaskMade DEF OnToken, UnlinkTask
<1> HIDE DEF e
<1>6. CASE e = None
  BY <1>1, <1>2, <1>5, <1>6 DEF e
<1>7. CASE e # None /\ e.parent = None
  <2>1. Then(x, <<T("secrets", t)>>)
    BY <1>2, <1>7
  <2> QED BY <1>1, <1>2, <1>5, <1>7, <2>1 DEF e
<1>8. CASE e # None /\ e.parent # None
  <2>1. Then(x, <<UnlinkTask(t, e.parent), T("secrets", t)>>)
    BY <1>2, <1>8
  <2> QED BY <1>1, <1>2, <1>4, <1>5, <1>8, <2>1 DEF e
<1> QED BY <1>6, <1>7, <1>8

LEMMA RevokeTyped == ASSUME TypeOK, NEW x \in Thread, Revoke(x) PROVE TypeOK'
<1>1. agenda' \in [Thread -> Seq(Tasks)]
  BY RevokeScript, TailTyped, OneTyped, TwoTyped
<1>2. tokens' \in [Token -> TokenEntry \cup {None}]
  BY RevokeScript DEF TypeOK
<1> QED BY <1>1, <1>2 DEF Revoke, TypeOK, checkVars, boundVars, toldVars

LEMMA UnlinkScript ==
    ASSUME TypeOK, NEW x \in Thread, RevokeParent(x)
    PROVE  /\ agenda[x] # <<>> /\ Task(x).do = "unparent"
           /\ Task(x).id \in Token /\ Task(x).parent \in Token
           /\ Then(x, <<>>)
BY DoingFacts, TaskFields DEF RevokeParent, Stored

LEMMA UnlinkTyped == ASSUME TypeOK, NEW x \in Thread, RevokeParent(x) PROVE TypeOK'
<1>1. agenda' \in [Thread -> Seq(Tasks)]
  BY UnlinkScript, TailTyped
<1> QED BY <1>1 DEF RevokeParent, TypeOK, checkVars, boundVars, toldVars

LEMMA DeleteScript ==
    ASSUME TypeOK, NEW x \in Thread, DeleteLeaseEntry(x)
    PROVE  /\ agenda[x] # <<>> /\ Task(x).do = "drop" /\ Task(x).id \in Lease
           /\ leases' = [leases EXCEPT ![Task(x).id] = None]
           /\ Then(x, <<>>)
BY DoingFacts, TaskFields DEF DeleteLeaseEntry, Stored, OnLease

LEMMA DeleteTyped == ASSUME TypeOK, NEW x \in Thread, DeleteLeaseEntry(x) PROVE TypeOK'
<1>1. agenda' \in [Thread -> Seq(Tasks)]
  BY DeleteScript, TailTyped
<1>2. leases' \in [Lease -> LeaseEntry \cup {None}]
  BY DeleteScript DEF TypeOK
<1> QED BY <1>1, <1>2 DEF DeleteLeaseEntry, TypeOK, checkVars, boundVars, toldVars

LEMMA UntieScript ==
    ASSUME TypeOK, NEW x \in Thread, RemoveIndexByToken(x)
    PROVE  /\ agenda[x] # <<>> /\ Task(x).do = "unindex"
           /\ Task(x).id \in SecretLease /\ Task(x).token \in Token
           /\ Then(x, <<>>)
BY DoingFacts, TaskFields DEF RemoveIndexByToken, Stored

LEMMA UntieTyped == ASSUME TypeOK, NEW x \in Thread, RemoveIndexByToken(x) PROVE TypeOK'
<1>1. agenda' \in [Thread -> Seq(Tasks)]
  BY UntieScript, TailTyped
<1> QED BY <1>1 DEF RemoveIndexByToken, TypeOK, checkVars, boundVars, toldVars


UntieTask(l, t) == [do |-> "unindex", id |-> l, token |-> t]

\* Each lease of a secret is dropped before it is put into the queue at 0.
SecretsGone(s, t) ==
    \A i \in DOMAIN s : \E l \in {k \in SecretLease : <<t, k>> \in index} :
        \/ s[i] = T("drop", l)
        \/ s[i] = UntieTask(l, t)
        \/ s[i] = Enqueue(l, 0) /\ i > 2 /\ s[i - 2] = T("drop", l)

LEMMA Thirds ==
    ASSUME NEW m \in Nat, NEW i \in 1 .. 3 * m
    PROVE  /\ (i + 2) \div 3 \in 1 .. m
           /\ i % 3 \in {0, 1, 2}
           /\ i % 3 = 0 => /\ i > 2 /\ (i - 2) % 3 = 1 /\ i - 2 \in 1 .. 3 * m
                           /\ ((i - 2) + 2) \div 3 = (i + 2) \div 3
OBVIOUS

LEMMA ByTokenScript ==
    ASSUME TypeOK, NEW x \in Thread, RevokeByToken(x)
    PROVE  /\ agenda[x] # <<>> /\ Task(x).do = "secrets" /\ Task(x).id \in Token
           /\ \E s \in Seq(Tasks) : Then(x, s) /\ SecretsGone(s, Task(x).id)
<1> DEFINE t == Task(x).id
           L == {l \in SecretLease : <<t, l>> \in index}
           f(q) == [i \in 1 .. 3 * Len(q) |->
                     LET l == q[(i + 2) \div 3] IN
                         CASE i % 3 = 1 -> T("drop", l)
                           [] i % 3 = 2 -> UntieTask(l, t)
                           [] OTHER -> Enqueue(l, 0)]
<1>1. agenda[x] # <<>> /\ Task(x).do = "secrets" /\ t \in Token
  BY DoingFacts, TaskFields DEF RevokeByToken, Stored, OnToken
<1>2. PICK q \in SetToSeqs(L) : Then(x, f(q))
  BY DEF RevokeByToken, UntieTask
<1>3. L \in SUBSET Nat /\ MaxTokens + MaxSecrets \in Nat /\ \A n \in L : n <= MaxTokens + MaxSecrets
  <2>1. L \subseteq SecretLease /\ SecretLease \subseteq Nat
    BY Numbers
  <2>2. \A n \in SecretLease : n <= MaxTokens + MaxSecrets
    BY Numbers
  <2> HIDE DEF L
  <2> QED BY <2>1, <2>2, BoundsAssumption
<1>4. \A l \in L : l \in SecretLease
  OBVIOUS
<1> HIDE DEF L
<1>5. q \in Seq(L) /\ \A i \in DOMAIN q : q[i] \in L
  BY <1>3, SetToSeqsFacts
<1> DEFINE m == Len(q)
           s == f(q)
<1>6. m \in Nat /\ DOMAIN q = 1 .. m
  BY <1>5
<1>7. \A l \in SecretLease : T("drop", l) \in Tasks /\ UntieTask(l, t) \in Tasks
                               /\ Enqueue(l, 0) \in Tasks
  BY <1>1, TaskMade, Numbers DEF UntieTask, OnLease
<1>8. ASSUME NEW i \in 1 .. 3 * m
      PROVE  \E l \in L :
                /\ s[i] \in Tasks
                /\ \/ s[i] = T("drop", l)
                   \/ s[i] = UntieTask(l, t)
                   \/ s[i] = Enqueue(l, 0) /\ i > 2 /\ s[i - 2] = T("drop", l)
  <2> DEFINE l == q[(i + 2) \div 3]
  <2>1. (i + 2) \div 3 \in 1 .. m /\ i % 3 \in {0, 1, 2}
    BY <1>6, Thirds
  <2>2. l \in L /\ l \in SecretLease
    BY <1>4, <1>5, <1>6, <2>1
  <2>3. s[i] = CASE i % 3 = 1 -> T("drop", l)
                 [] i % 3 = 2 -> UntieTask(l, t)
                 [] OTHER -> Enqueue(l, 0)
    OBVIOUS
  <2>4. CASE i % 3 = 1
    <3>1. s[i] = T("drop", l)
      BY <2>3, <2>4
    <3> QED BY <1>7, <2>2, <3>1
  <2>5. CASE i % 3 = 2
    <3>1. s[i] = UntieTask(l, t)
      BY <2>3, <2>5
    <3> QED BY <1>7, <2>2, <3>1
  <2>6. CASE i % 3 = 0
    <3>1. s[i] = Enqueue(l, 0)
      BY <2>3, <2>6
    <3>2. /\ i > 2 /\ (i - 2) % 3 = 1 /\ i - 2 \in 1 .. 3 * m
          /\ ((i - 2) + 2) \div 3 = (i + 2) \div 3
      BY <1>6, <2>6, Thirds
    <3>3. s[i - 2] = T("drop", q[((i - 2) + 2) \div 3])
      <4> DEFINE j == i - 2
      <4>1. j \in 1 .. 3 * m /\ j % 3 = 1
        BY <3>2
      <4> HIDE DEF j
      <4>2. s[j] = CASE j % 3 = 1 -> T("drop", q[(j + 2) \div 3])
                     [] j % 3 = 2 -> UntieTask(q[(j + 2) \div 3], t)
                     [] OTHER -> Enqueue(q[(j + 2) \div 3], 0)
        BY <4>1
      <4>3. s[j] = T("drop", q[(j + 2) \div 3])
        BY <4>1, <4>2
      <4> QED BY <4>3 DEF j
    <3>4. s[i - 2] = T("drop", l)
      BY <3>2, <3>3
    <3> HIDE DEF s, l
    <3> QED BY <1>7, <2>2, <3>1, <3>2, <3>4
  <2> QED BY <2>1, <2>4, <2>5, <2>6
<1>9. DOMAIN s = 1 .. 3 * m /\ 3 * m \in Nat
  BY <1>6
<1>10. s = [i \in 1 .. 3 * m |-> s[i]]
  OBVIOUS
<1> HIDE DEF s
<1>11. \A i \in 1 .. 3 * m : s[i] \in Tasks
  BY <1>8
<1>12. s \in Seq(Tasks)
  BY <1>9, <1>10, <1>11
<1>13. SecretsGone(s, t)
  BY <1>8, <1>9 DEF SecretsGone, L
<1>14. Then(x, s)
  BY <1>2 DEF s
<1> QED BY <1>1, <1>12, <1>13, <1>14

LEMMA ByTokenTyped == ASSUME TypeOK, NEW x \in Thread, RevokeByToken(x) PROVE TypeOK'
<1>1. agenda' \in [Thread -> Seq(Tasks)]
  BY ByTokenScript, ThenTyped
<1> QED BY <1>1, AgendaOnly DEF RevokeByToken

LEMMA PairOfTasks == ASSUME NEW a \in Tasks, NEW b \in Tasks PROVE <<a>> \o <<b>> = <<a, b>>
<1>1. <<a>> \in Seq(Tasks) /\ <<b>> \in Seq(Tasks) /\ <<a, b>> \in Seq(Tasks)
  OBVIOUS
<1>2. <<a>> \o <<b>> \in Seq(Tasks) /\ Len(<<a>> \o <<b>>) = 2
  BY <1>1
<1>3. \A i \in 1 .. 2 : (<<a>> \o <<b>>)[i] = <<a, b>>[i]
  OBVIOUS
<1>4. Len(<<a, b>>) = 2
  OBVIOUS
<1> QED BY <1>1, <1>2, <1>3, <1>4, SeqEqual

LEMMA NextScript ==
    ASSUME TypeOK, NEW e \in Manager, CheckerNext(e)
    PROVE  /\ e \in looping /\ agenda[e] = <<>>
           /\ \E l \in Due(e, now) :
                 /\ l \in Lease
                 /\ T("expire", l) \in Tasks /\ T("pop", l) \in Tasks
                 /\ \/ queue[e][l] # 0 /\ agenda'[e] = <<T("expire", l), T("pop", l)>>
                    \/ queue[e][l] = 0 /\ agenda'[e] = <<T("pop", l)>>
           /\ \A y \in Thread \ {e} : agenda'[y] = agenda[y]
           /\ agenda' \in [Thread -> Seq(Tasks)]
<1>1. PICK l \in Due(e, now) :
          agenda' = [agenda EXCEPT ![e] =
                (IF queue[e][l] = 0 THEN <<>> ELSE <<T("expire", l)>>) \o <<T("pop", l)>>]
  BY DEF CheckerNext
<1>2. l \in Lease
  BY DEF Due
<1>3. T("expire", l) \in Tasks /\ T("pop", l) \in Tasks
  BY <1>2, TaskMade DEF OnLease
<1>4. e \in Thread /\ agenda \in [Thread -> Seq(Tasks)]
  BY Numbers DEF TypeOK
<1>5. CASE queue[e][l] = 0
  <2>1. <<>> \o <<T("pop", l)>> = <<T("pop", l)>> /\ <<T("pop", l)>> \in Seq(Tasks)
    BY <1>3
  <2>2. agenda' = [agenda EXCEPT ![e] = <<T("pop", l)>>]
    BY <1>1, <1>5, <2>1
  <2> QED BY <1>2, <1>3, <1>4, <1>5, <2>1, <2>2 DEF CheckerNext
<1>6. CASE queue[e][l] # 0
  <2> DEFINE s == <<T("expire", l), T("pop", l)>>
  <2>1. <<T("expire", l)>> \o <<T("pop", l)>> = s /\ s \in Seq(Tasks)
    BY <1>3, PairOfTasks
  <2>2. agenda' = [agenda EXCEPT ![e] = s]
    BY <1>1, <1>6, <2>1
  <2> QED BY <1>2, <1>3, <1>4, <1>6, <2>1, <2>2 DEF CheckerNext
<1> QED BY <1>5, <1>6

LEMMA ExpireScript ==
    ASSUME TypeOK, NEW e \in Manager, CheckerRevoke(e)
    PROVE  /\ agenda[e] # <<>> /\ Task(e).do = "expire" /\ Task(e).id \in Lease
           /\ T("drop", Task(e).id) \in Tasks
           /\ LET l == Task(e).id IN
              \/ leases[l] = None /\ Then(e, <<>>)
              \/ /\ leases[l] # None /\ l \in Token /\ T("tree", l) \in Tasks
                 /\ Then(e, <<T("tree", l), T("drop", l)>>)
              \/ /\ leases[l] # None /\ l \in SecretLease
                 /\ UntieTask(l, leases[l].token) \in Tasks
                 /\ Then(e, <<T("drop", l), UntieTask(l, leases[l].token)>>)
<1> DEFINE l == Task(e).id
           s == CASE leases[l] = None -> <<>>
                  [] leases[l] # None /\ l \in Token -> <<T("tree", l), T("drop", l)>>
                  [] OTHER -> <<T("drop", l), UntieTask(l, leases[l].token)>>
<1>1. agenda[e] # <<>> /\ Task(e).do = "expire" /\ l \in Lease
  BY DoingFacts, TaskFields, Numbers DEF CheckerRevoke, Stored, OnLease
<1>2. Then(e, s)
  BY DEF CheckerRevoke, UntieTask
<1>3. T("drop", l) \in Tasks /\ (l \in Token => T("tree", l) \in Tasks)
  BY <1>1, TaskMade DEF OnLease, OnToken
<1>4. CASE leases[l] = None
  <2>1. Then(e, <<>>)
    BY <1>2, <1>4
  <2> QED BY <1>1, <1>3, <1>4, <2>1
<1>5. CASE leases[l] # None /\ l \in Token
  <2>1. Then(e, <<T("tree", l), T("drop", l)>>)
    BY <1>2, <1>5
  <2> HIDE DEF s
  <2> QED BY <1>1, <1>3, <1>5, <2>1
<1>6. CASE leases[l] # None /\ l \notin Token
  <2>1. Then(e, <<T("drop", l), UntieTask(l, leases[l].token)>>)
    BY <1>2, <1>6
  <2>2. l \in SecretLease
    BY <1>1, <1>6 DEF Lease
  <2>3. leases[l].token \in Token
    BY <1>1, <1>6 DEF TypeOK, LeaseEntry
  <2>4. UntieTask(l, leases[l].token) \in Tasks
    BY <2>2, <2>3, TaskMade DEF UntieTask
  <2> HIDE DEF s
  <2> QED BY <1>1, <1>3, <1>6, <2>1, <2>2, <2>4
<1> QED BY <1>4, <1>5, <1>6

LEMMA PopScript ==
    ASSUME TypeOK, NEW e \in Manager, CheckerPop(e)
    PROVE  /\ agenda[e] # <<>> /\ Task(e).do = "pop" /\ Task(e).id \in Lease
           /\ queue' = [queue EXCEPT ![e] = [@ EXCEPT ![Task(e).id] = None]]
           /\ Then(e, <<>>)
BY DoingFacts, TaskFields, Numbers DEF CheckerPop, OnLease

LEMMA CheckerTyped ==
    ASSUME TypeOK, NEW e \in Manager,
           CheckerLock(e) \/ CheckerNext(e) \/ CheckerRevoke(e) \/ CheckerPop(e) \/ CheckerUnlock(e)
    PROVE  TypeOK'
<1>1. e \in Thread
  BY Numbers
<1>2. CASE CheckerLock(e)
  <2>1. looping' \subseteq 1 .. managers
    BY <1>2, BoundsAssumption DEF CheckerLock, TypeOK, Manager
  <2> QED BY <1>2, <2>1 DEF CheckerLock, TypeOK, storageVars, boundVars, toldVars
<1>3. CASE CheckerNext(e)
  BY <1>3, NextScript, AgendaOnly DEF CheckerNext
<1>4. CASE CheckerRevoke(e)
  <2>1. agenda' \in [Thread -> Seq(Tasks)]
    BY <1>1, <1>4, ExpireScript, TailTyped, TwoTyped
  <2> QED BY <1>4, <2>1, AgendaOnly DEF CheckerRevoke
<1>5. CASE CheckerPop(e)
  <2>1. agenda' \in [Thread -> Seq(Tasks)]
    BY <1>1, <1>5, PopScript, TailTyped
  <2>2. queue' \in [Manager -> [Lease -> Expiry \cup {None}]]
    <3>1. queue \in [Manager -> [Lease -> Expiry \cup {None}]]
      BY DEF TypeOK
    <3>2. [queue[e] EXCEPT ![Task(e).id] = None] \in [Lease -> Expiry \cup {None}]
      BY <3>1
    <3> QED BY <1>5, <3>1, <3>2, PopScript
  <2> QED BY <1>5, <2>1, <2>2 DEF CheckerPop, TypeOK, storageVars, boundVars, toldVars
<1>6. CASE CheckerUnlock(e)
  BY <1>6 DEF CheckerUnlock, TypeOK, storageVars, boundVars, toldVars
<1> QED BY <1>2, <1>3, <1>4, <1>5, <1>6


\* The tasks of the calls a client may make.
LEMMA CallTasks ==
    ASSUME TypeOK, NEW c \in Client, NEW s, Call(c, s), s \in Seq(Tasks)
    PROVE  /\ status = "ready" /\ agenda[c] = <<>>
           /\ agenda'[c] = s /\ \A y \in Thread \ {c} : agenda'[y] = agenda[y]
           /\ agenda' \in [Thread -> Seq(Tasks)]
           /\ UNCHANGED <<storageVars, status, managers, checkVars, now, boundVars, toldVars>>
<1>1. c \in Thread /\ agenda \in [Thread -> Seq(Tasks)]
  BY Numbers DEF TypeOK
<1>2. agenda' = [agenda EXCEPT ![c] = s]
  BY DEF Call
<1> QED BY <1>1, <1>2 DEF Call

CreateTask(t, req) == [do |-> "create", id |-> t, req |-> req]
RevokeReply(u, S) == [do |-> "reply", id |-> u, op |-> "revoke", tree |-> S]

\* What a request starts with.
Started(c, s) ==
    \/ s = <<T("token", None)>>
    \/ \E t \in held, req \in TokenReq :
          s = <<T("check", t), CreateTask(t, req)>>
    \/ \E t \in held, req \in TokenReq :
          s = <<T("check", t), CreateTask(t, req), T("token", t)>>
    \/ \E t, u \in held : s = <<T("check", t), T("renew", u), T("token", None)>>
    \/ \E t, u \in held : s = <<T("check", t), T("tree", u), RevokeReply(u, Tree(u))>>
    \/ \E t, u \in held : s = <<T("check", t), T("revoke", u)>>
    \/ \E t \in held : t \in Reader /\ s = <<T("check", t), T("secret", t)>>

LEMMA StartTasks ==
    ASSUME TypeOK, NEW t \in held, NEW u \in held, NEW req \in TokenReq
    PROVE  /\ t \in Token /\ u \in Token /\ Tree(u) \subseteq Token
           /\ T("check", t) \in Tasks /\ CreateTask(t, req) \in Tasks
           /\ T("token", t) \in Tasks /\ T("token", None) \in Tasks
           /\ T("renew", u) \in Tasks /\ T("tree", u) \in Tasks /\ T("revoke", u) \in Tasks
           /\ T("secret", t) \in Tasks /\ RevokeReply(u, Tree(u)) \in Tasks
<1>1. t \in Token /\ u \in Token
  BY DEF TypeOK
<1>2. Tree(u) \subseteq Token
  BY DEF Tree
<1>3. CreateTask(t, req) \in Tasks
  BY <1>1, TaskMade DEF CreateTask
<1>4. RevokeReply(u, Tree(u)) \in Tasks
  BY <1>1, <1>2, TaskMade DEF RevokeReply
<1>5. T("token", t) \in Tasks /\ T("token", None) \in Tasks
  BY <1>1, TaskMade
<1>6. /\ T("check", t) \in Tasks /\ T("renew", u) \in Tasks /\ T("tree", u) \in Tasks
      /\ T("revoke", u) \in Tasks /\ T("secret", t) \in Tasks
  BY <1>1, TaskMade DEF OnToken
<1> QED BY <1>1, <1>2, <1>3, <1>4, <1>5, <1>6

LEMMA SeqsOfTasks ==
    ASSUME NEW a \in Tasks, NEW b \in Tasks, NEW d \in Tasks
    PROVE  /\ <<>> \in Seq(Tasks) /\ <<a>> \in Seq(Tasks) /\ <<a, b>> \in Seq(Tasks)
           /\ <<a, b, d>> \in Seq(Tasks)
           /\ <<a, b>> \o <<>> = <<a, b>> /\ <<a, b>> \o <<d>> = <<a, b, d>>
<1>1. /\ <<>> \in Seq(Tasks) /\ <<a>> \in Seq(Tasks) /\ <<d>> \in Seq(Tasks)
      /\ <<a, b>> \in Seq(Tasks) /\ <<a, b, d>> \in Seq(Tasks)
  OBVIOUS
<1>2. <<a, b>> \o <<>> = <<a, b>>
  BY <1>1, ConcatEmptySeq
<1>3. <<a, b>> \o <<d>> \in Seq(Tasks) /\ Len(<<a, b>> \o <<d>>) = 3
  BY <1>1
<1>4. \A i \in 1 .. 3 : (<<a, b>> \o <<d>>)[i] = <<a, b, d>>[i]
  OBVIOUS
<1>5. Len(<<a, b, d>>) = 3
  OBVIOUS
<1>6. <<a, b>> \o <<d>> = <<a, b, d>>
  BY <1>1, <1>3, <1>4, <1>5, SeqEqual
<1> QED BY <1>1, <1>2, <1>6

LEMMA RequestScript ==
    ASSUME TypeOK, NEW c \in Client, Request(c)
    PROVE  \E s \in Seq(Tasks) : Started(c, s) /\ Call(c, s)
<1>1. CASE Login(c)
  <2>1. T("token", None) \in Tasks
    BY TaskMade
  <2>2. <<T("token", None)>> \in Seq(Tasks)
    BY <2>1
  <2> QED BY <1>1, <2>2 DEF Login, Started
<1>2. ASSUME NEW t \in held, NEW req \in TokenReq, Create(c, t, req)
      PROVE \E s \in Seq(Tasks) : Started(c, s) /\ Call(c, s)
  <2> DEFINE a == T("check", t)
             b == CreateTask(t, req)
             d == T("token", t)
  <2>1. a \in Tasks /\ b \in Tasks /\ d \in Tasks
    BY StartTasks
  <2>2. /\ <<a, b>> \in Seq(Tasks) /\ <<a, b, d>> \in Seq(Tasks)
        /\ <<a, b>> \o <<>> = <<a, b>> /\ <<a, b>> \o <<d>> = <<a, b, d>>
    BY <2>1, SeqsOfTasks
  <2>3. Call(c, <<a, b>> \o (IF req.root THEN <<>> ELSE <<d>>))
    BY <1>2 DEF Create, CreateTask
  <2>4. Started(c, <<a, b>>) /\ Started(c, <<a, b, d>>)
    BY DEF Started
  <2> HIDE DEF a, b, d
  <2>5. Call(c, <<a, b>>) \/ Call(c, <<a, b, d>>)
    BY <2>2, <2>3
  <2> QED BY <2>2, <2>4, <2>5
<1>3. ASSUME NEW t \in held, NEW u \in held, Renew(c, t, u) \/ RevokeCall(c, t, u)
      PROVE \E s \in Seq(Tasks) : Started(c, s) /\ Call(c, s)
  <2> DEFINE a == T("check", t)
             r == <<a, T("renew", u), T("token", None)>>
             s == <<a, T("tree", u), RevokeReply(u, Tree(u))>>
  <2>1. /\ a \in Tasks /\ T("renew", u) \in Tasks /\ T("token", None) \in Tasks
        /\ T("tree", u) \in Tasks /\ RevokeReply(u, Tree(u)) \in Tasks
    <3>1. CASE TokenReq # {}
      BY <3>1, StartTasks
    <3>2. t \in Token /\ u \in Token /\ Tree(u) \subseteq Token
      BY DEF TypeOK, Tree
    <3> QED BY <3>2, TaskMade DEF OnToken, RevokeReply
  <2>2. r \in Seq(Tasks) /\ s \in Seq(Tasks)
    BY <2>1, SeqsOfTasks
  <2>3. Started(c, r) /\ Started(c, s)
    BY DEF Started
  <2>4. Call(c, r) \/ Call(c, s)
    BY <1>3 DEF Renew, RevokeCall, RevokeReply
  <2> QED BY <2>2, <2>3, <2>4
<1>4. ASSUME NEW t \in held, NEW u \in held, RevokeOrphan(c, t, u)
      PROVE \E s \in Seq(Tasks) : Started(c, s) /\ Call(c, s)
  <2> DEFINE s == <<T("check", t), T("revoke", u)>>
  <2>1. t \in Token /\ u \in Token
    BY DEF TypeOK
  <2>2. s \in Seq(Tasks)
    BY <2>1, TaskMade, SeqsOfTasks DEF OnToken
  <2>3. Started(c, s) /\ Call(c, s)
    BY <1>4 DEF RevokeOrphan, Started
  <2> QED BY <2>2, <2>3
<1>5. ASSUME NEW t \in held, ReadSecret(c, t)
      PROVE \E s \in Seq(Tasks) : Started(c, s) /\ Call(c, s)
  <2> DEFINE s == <<T("check", t), T("secret", t)>>
  <2>1. t \in Token
    BY DEF TypeOK
  <2>2. s \in Seq(Tasks)
    BY <2>1, TaskMade, SeqsOfTasks DEF OnToken
  <2>3. Started(c, s) /\ Call(c, s)
    BY <1>5 DEF ReadSecret, Started
  <2> QED BY <2>2, <2>3
<1> QED BY <1>1, <1>2, <1>3, <1>4, <1>5 DEF Request

LEMMA RequestTyped == ASSUME TypeOK, NEW c \in Client, Request(c) PROVE TypeOK'
BY RequestScript, CallTasks, AgendaOnly

LEMMA AnswerScript ==
    ASSUME TypeOK, NEW c \in Client, Answer(c)
    PROVE  LET r == Task(c) IN
           /\ agenda[c] # <<>> /\ r.do = "reply" /\ r.id \in Token
           /\ r.op \in {"token", "renew", "revoke"}
           /\ r.op = "revoke" => r.tree \subseteq Token
           /\ r.op # "revoke" => r.expire \in Expiry
           /\ held' = IF r.op = "token" THEN held \cup {r.id} ELSE held
           /\ acked' = IF r.op = "revoke" THEN acked ELSE [acked EXCEPT ![r.id] = r.expire]
           /\ revoked' = IF r.op = "revoke" THEN revoked \cup r.tree ELSE revoked
           /\ Then(c, <<>>)
BY DoingFacts, TaskFields, Numbers DEF Answer

LEMMA AnswerTyped == ASSUME TypeOK, NEW c \in Client, Answer(c) PROVE TypeOK'
<1>1. agenda' \in [Thread -> Seq(Tasks)]
  BY AnswerScript, TailTyped, Numbers
<1>2. held' \subseteq Token /\ revoked' \subseteq Token
  BY AnswerScript DEF TypeOK
<1>3. acked' \in [Token -> Expiry]
  BY AnswerScript DEF TypeOK
<1> QED BY <1>1, <1>2, <1>3 DEF Answer, TypeOK, storageVars, checkVars, boundVars

LEMMA FailTyped == ASSUME TypeOK, NEW x \in Thread, Fail(x) PROVE TypeOK'
<1>1. agenda' \in [Thread -> Seq(Tasks)]
  BY DropTyped DEF Fail, Abort
<1> QED BY <1>1 DEF Fail, Abort, TypeOK, storageVars, boundVars, toldVars

LEMMA RestoredTyped == ASSUME TypeOK PROVE Restored \in [Lease -> Expiry \cup {None}]
BY DEF TypeOK, Restored, LeaseEntry

\* An unseal that has opened the barrier still has a manager to make.
TypeInv == TypeOK /\ (status = "open" => managers < MaxManagers)

LEMMA VaultTyped ==
    ASSUME TypeInv, Seal \/ Open \/ Unseal \/ Tick \/ Crash PROVE TypeOK'
<1>0. TypeOK
  BY DEF TypeInv
<1>1. CASE Seal \/ Open
  BY <1>0, <1>1 DEF Seal, Open, TypeOK, storageVars, checkVars, boundVars, toldVars
<1>2. CASE Unseal
  <2>1. queue' \in [Manager -> [Lease -> Expiry \cup {None}]]
    BY <1>0, <1>2, RestoredTyped DEF Unseal, TypeOK
  <2>2. managers' \in 0 .. MaxManagers /\ looping' \subseteq 1 .. managers'
    BY <1>2, BoundsAssumption DEF Unseal, TypeOK, TypeInv
  <2> QED BY <1>0, <1>2, <2>1, <2>2 DEF Unseal, TypeOK, storageVars, boundVars, toldVars
<1>3. CASE Tick
  <2>1. now' \in Time
    BY <1>0, <1>3, BoundsAssumption DEF Tick, TypeOK, Time
  <2> QED BY <1>0, <1>3, <2>1 DEF Tick, TypeOK, storageVars, checkVars, boundVars, toldVars
<1>4. CASE Crash
  <2>1. <<>> \in Seq(Tasks)
    OBVIOUS
  <2>2. /\ agenda' \in [Thread -> Seq(Tasks)] /\ managers' \in 0 .. MaxManagers
        /\ looping' \subseteq 1 .. managers'
        /\ queue' \in [Manager -> [Lease -> Expiry \cup {None}]]
    BY <1>4, <2>1, BoundsAssumption DEF Crash
  <2> QED BY <1>0, <1>4, <2>2 DEF Crash, TypeOK, storageVars, boundVars, toldVars
<1> QED BY <1>1, <1>2, <1>3, <1>4


\* Only Open and Unseal have to do with an open barrier.
LEMMA OpenRoom ==
    ASSUME TypeInv, [Next]_vars
    PROVE  status' = "open" => managers' < MaxManagers
<1>1. CASE Open
  BY <1>1 DEF Open
<1>2. CASE Unseal \/ Seal \/ Crash
  BY <1>2 DEF Unseal, Seal, Crash
<1>3. CASE UNCHANGED <<status, managers>>
  BY <1>3 DEF TypeInv
<1>4. CASE Tick
  BY <1>3, <1>4 DEF Tick
<1>5. ASSUME NEW c \in Client, Request(c) PROVE UNCHANGED <<status, managers>>
  BY <1>5 DEF Request, Login, Create, Renew, RevokeCall, RevokeOrphan, ReadSecret, Call
<1>6. ASSUME NEW x \in Thread, RevokeStep(x) PROVE UNCHANGED <<status, managers>>
  BY <1>6 DEF RevokeStep, RevokeTree, Revoke, RevokeParent, RevokeByToken, DeleteLeaseEntry,
              RemoveIndexByToken, RegisterLeaseEntry
<1>7. ASSUME NEW c \in Client, RequestStep(c) PROVE UNCHANGED <<status, managers>>
  <2>1. c \in Thread
    BY Numbers
  <2> QED BY <1>6, <1>7, <2>1 DEF RequestStep, Check, Put, HandleCreate, CreateParent, CreateIndex,
              PostRoute, RegisterAuth, RenewToken, RenewPersist, RegisterSecret,
              CreateIndexByToken, Answer
<1>8. ASSUME NEW e \in Manager, CheckerStep(e) PROVE UNCHANGED <<status, managers>>
  <2>1. e \in Thread
    BY Numbers
  <2> QED BY <1>6, <1>8, <2>1 DEF CheckerStep, CheckerLock, CheckerNext, CheckerRevoke, CheckerPop,
              CheckerUnlock
<1>9. ASSUME NEW x \in Thread, Fail(x) PROVE UNCHANGED <<status, managers>>
  BY <1>9 DEF Fail
<1> QED BY <1>1, <1>2, <1>3, <1>4, <1>5, <1>7, <1>8, <1>9 DEF Next, vars

LEMMA RevokeStepTyped == ASSUME TypeOK, NEW x \in Thread, RevokeStep(x) PROVE TypeOK'
BY TreeTyped, RevokeTyped, UnlinkTyped, ByTokenTyped, DeleteTyped, UntieTyped, QueueTyped
   DEF RevokeStep

LEMMA TypeStep == TypeInv /\ [Next]_vars => TypeInv'
<1> SUFFICES ASSUME TypeInv, [Next]_vars PROVE TypeOK'
  BY OpenRoom DEF TypeInv
<1>1. TypeOK /\ Client \subseteq Thread /\ Manager \subseteq Thread
  BY Numbers DEF TypeInv
<1>2. ASSUME NEW c \in Client, Request(c) PROVE TypeOK'
  BY <1>1, <1>2, RequestTyped
<1>3. ASSUME NEW c \in Client, RequestStep(c) PROVE TypeOK'
  BY <1>1, <1>3, CheckTyped, PutTyped, CreateTyped, ParentTyped, LinkTyped, PostRouteTyped,
     RegisterTyped, RenewTyped, PersistTyped, SecretTyped, TieTyped, RevokeStepTyped, AnswerTyped
     DEF RequestStep
<1>4. ASSUME NEW e \in Manager, CheckerStep(e) PROVE TypeOK'
  BY <1>1, <1>4, CheckerTyped, RevokeStepTyped DEF CheckerStep
<1>5. ASSUME NEW x \in Thread, Fail(x) PROVE TypeOK'
  BY <1>1, <1>5, FailTyped
<1>6. CASE Seal \/ Open \/ Unseal \/ Tick \/ Crash
  BY <1>6, VaultTyped
<1>7. CASE UNCHANGED vars
  BY <1>1, <1>7 DEF vars, TypeOK, storageVars, checkVars, boundVars, toldVars
<1> QED BY <1>2, <1>3, <1>4, <1>5, <1>6, <1>7 DEF Next

LEMMA TypeInit == Init => TypeInv
<1> SUFFICES ASSUME Init PROVE TypeInv
  OBVIOUS
<1>1. tokens \in [Token -> TokenEntry \cup {None}]
  BY BoundsAssumption DEF Init, TokenEntry
<1>2. <<>> \in Seq(Tasks)
  OBVIOUS
<1>3. agenda \in [Thread -> Seq(Tasks)]
  BY <1>2 DEF Init
<1>4. /\ issued \in 1 .. MaxTokens /\ secrets \in 0 .. MaxSecrets /\ held \subseteq Token
      /\ managers \in 0 .. MaxManagers /\ now \in Time
  BY BoundsAssumption, Numbers DEF Init, Time
<1>5. acked \in [Token -> Expiry]
  BY Numbers DEF Init
<1> QED BY <1>1, <1>3, <1>4, <1>5 DEF Init, TypeOK, TypeInv

\* The variables keep their types, with any number of clients at work: every
\* task on an agenda has the arguments its operation reads.
THEOREM TokensTyped == Spec => []TypeOK
<1>1. TypeInv => TypeOK
  BY DEF TypeInv
<1> QED BY <1>1, TypeInit, TypeStep, PTL DEF Spec


-----------------------------------------------------------------------------
(* Every lease is scheduled *)

\* Where the tasks are after a step: those of s first, then the old ones but
\* the first.
LEMMA Shift ==
    ASSUME NEW a \in Seq(Tasks), a # <<>>, NEW s \in Seq(Tasks), NEW b, b = s \o Tail(a)
    PROVE  /\ b \in Seq(Tasks) /\ Len(b) = Len(s) + Len(a) - 1
           /\ Len(a) \in Nat \ {0} /\ Len(s) \in Nat
           /\ DOMAIN a = 1 .. Len(a) /\ DOMAIN s = 1 .. Len(s) /\ DOMAIN b = 1 .. Len(b)
           /\ \A i \in DOMAIN s : i \in DOMAIN b /\ b[i] = s[i]
           /\ \A i \in DOMAIN a : i > 1 => /\ i - 1 + Len(s) \in DOMAIN b
                                           /\ b[i - 1 + Len(s)] = a[i]
           /\ \A i \in DOMAIN b :
                 \/ i \in DOMAIN s /\ b[i] = s[i]
                 \/ /\ i > Len(s) /\ i - Len(s) + 1 \in DOMAIN a /\ i - Len(s) + 1 > 1
                    /\ b[i] = a[i - Len(s) + 1]
<1> DEFINE t == Tail(a)
<1>1. /\ Len(a) \in Nat \ {0} /\ Len(s) \in Nat
      /\ DOMAIN a = 1 .. Len(a) /\ DOMAIN s = 1 .. Len(s)
  BY EmptySeq, LenProperties
<1>2. t \in Seq(Tasks) /\ Len(t) = Len(a) - 1 /\ \A i \in 1 .. Len(t) : t[i] = a[i + 1]
  BY HeadTailProperties
<1> HIDE DEF t
<1>3. /\ b \in Seq(Tasks) /\ Len(b) = Len(s) + Len(t)
      /\ \A i \in 1 .. Len(s) + Len(t) : b[i] = IF i <= Len(s) THEN s[i] ELSE t[i - Len(s)]
  <2>1. b = s \o t
    BY DEF t
  <2>2. /\ s \o t \in Seq(Tasks) /\ Len(s \o t) = Len(s) + Len(t)
        /\ \A i \in 1 .. Len(s) + Len(t) :
              (s \o t)[i] = IF i <= Len(s) THEN s[i] ELSE t[i - Len(s)]
    BY <1>2, ConcatProperties
  <2> QED BY <2>1, <2>2
<1>4. DOMAIN b = 1 .. Len(b) /\ Len(b) = Len(s) + Len(a) - 1
  BY <1>1, <1>2, <1>3, LenProperties
<1>5. \A i \in DOMAIN s : i \in DOMAIN b /\ b[i] = s[i]
  BY <1>1, <1>2, <1>3, <1>4
<1>6. ASSUME NEW i \in DOMAIN a, i > 1
      PROVE  i - 1 + Len(s) \in DOMAIN b /\ b[i - 1 + Len(s)] = a[i]
  <2>1. /\ i - 1 + Len(s) \in 1 .. Len(s) + Len(t) /\ i - 1 + Len(s) > Len(s)
        /\ (i - 1 + Len(s)) - Len(s) = i - 1 /\ i - 1 \in 1 .. Len(t) /\ (i - 1) + 1 = i
    BY <1>1, <1>2, <1>6
  <2>2. b[i - 1 + Len(s)] = t[i - 1]
    <3> DEFINE k == i - 1 + Len(s)
    <3>1. k \in 1 .. Len(s) + Len(t) /\ ~(k <= Len(s)) /\ k - Len(s) = i - 1
      BY <1>1, <1>2, <1>6, <2>1
    <3> HIDE DEF k
    <3>2. b[k] = t[k - Len(s)]
      BY <1>3, <3>1
    <3> QED BY <3>1, <3>2 DEF k
  <2> QED BY <1>2, <1>3, <1>4, <2>1, <2>2
<1>7. ASSUME NEW i \in DOMAIN b
      PROVE  \/ i \in DOMAIN s /\ b[i] = s[i]
             \/ /\ i > Len(s) /\ i - Len(s) + 1 \in DOMAIN a /\ i - Len(s) + 1 > 1
                /\ b[i] = a[i - Len(s) + 1]
  <2>1. CASE i <= Len(s)
    BY <1>1, <1>2, <1>3, <1>4, <1>7, <2>1
  <2>2. CASE i > Len(s)
    <3>1. i - Len(s) \in 1 .. Len(t) /\ i - Len(s) + 1 \in 1 .. Len(a) /\ i - Len(s) + 1 > 1
      BY <1>1, <1>2, <1>3, <1>4, <1>7, <2>2
    <3>2. b[i] = t[i - Len(s)]
      BY <1>1, <1>2, <1>3, <1>4, <1>7, <2>2
    <3> QED BY <1>1, <1>2, <2>2, <3>1, <3>2
  <2> QED BY <1>1, <1>4, <2>1, <2>2
<1> QED BY <1>1, <1>2, <1>3, <1>4, <1>5, <1>6, <1>7

LEMMA ShiftTail ==
    ASSUME NEW a \in Seq(Tasks), a # <<>>, NEW s \in Seq(Tasks), NEW b, b = s \o Tail(a),
           NEW i \in DOMAIN a, i > 1
    PROVE  i - 1 + Len(s) \in DOMAIN b /\ b[i - 1 + Len(s)] = a[i]
BY Shift

LEMMA ShiftFirst ==
    ASSUME NEW a \in Seq(Tasks), a # <<>>, NEW s \in Seq(Tasks), NEW b, b = s \o Tail(a),
           NEW i \in DOMAIN s
    PROVE  i \in DOMAIN b /\ b[i] = s[i]
BY Shift

LEMMA ShiftBack ==
    ASSUME NEW a \in Seq(Tasks), a # <<>>, NEW s \in Seq(Tasks), NEW b, b = s \o Tail(a),
           NEW i \in DOMAIN b
    PROVE  \/ i \in DOMAIN s /\ b[i] = s[i]
           \/ \E j \in DOMAIN a : j > 1 /\ b[i] = a[j]
BY Shift

\* The parts of the invariant, each of one agenda a or of a whole state.

\* Leases of secrets that are still to come are on no agenda.
OldIds(a, sec) ==
    \A i \in DOMAIN a :
        a[i].do \in {"tie", "enqueue"} /\ a[i].id \in SecretLease => a[i].id <= MaxTokens + sec

\* The task that will let the checker know of a lease.  Nothing that may fail
\* stands before it but the index of a secret.
Urgent(k) == k.do = "enqueue" /\ k.priority # 0
Placed(a) == \A i \in DOMAIN a : Urgent(a[i]) => i = 1 \/ (i = 2 /\ a[1].do = "tie")

DroppedBefore(a, i, l) == \E j \in DOMAIN a : j < i /\ a[j].do = "drop" /\ a[j].id = l

\* What is put into the queue is no later than the lease, if there is one;
\* priority 0 is only for the lease of a secret that is gone by then.
EnqueueFits(a, i, ls, t) ==
    LET l == a[i].id IN
    /\ a[i].priority = 0 => l \in SecretLease /\ (ls[l] = None \/ DroppedBefore(a, i, l))
    /\ a[i].priority # 0 => /\ ls[l] # None => a[i].priority <= ls[l].expire
                            /\ l \in Token => a[i].priority <= t + Ttl
QueueFits(a, ls, t) == \A i \in DOMAIN a : a[i].do = "enqueue" => EnqueueFits(a, i, ls, t)

UrgentFor(a, l) == \E i \in DOMAIN a : Urgent(a[i]) /\ a[i].id = l
Announced(ag, l) == \E c \in Client : UrgentFor(ag[c], l)
Known(l, ls, q, ag) ==
    ls[l] # None => (q[l] # None /\ q[l] \in 1 .. ls[l].expire) \/ Announced(ag, l)

\* The checker pops a lease last, when it has dropped it or a client is about
\* to put it back.
PopFits(a, ls, ag) ==
    \A i \in DOMAIN a : a[i].do = "pop" =>
        /\ i = Len(a)
        /\ \/ ls[a[i].id] = None
           \/ Announced(ag, a[i].id)
           \/ \E j \in DOMAIN a : j < i /\ a[j].do \in {"expire", "drop"} /\ a[j].id = a[i].id

LeaseTimes ==
    /\ \A l \in Lease : leases[l] # None =>
          leases[l].expire >= 1 /\ (l \in Token => leases[l].expire <= now + Ttl)
    /\ \A l \in SecretLease : l > MaxTokens + secrets =>
          leases[l] = None /\ \A t \in Token : <<t, l>> \notin index

ThreadsFit ==
    /\ \A c \in Client : agenda[c] # <<>> => status = "ready"
    /\ \A e \in Manager : agenda[e] # <<>> => e \in looping
    /\ status = "ready" => managers \in Manager

AgendasFit ==
    /\ \A x \in Thread : OldIds(agenda[x], secrets)
    /\ \A c \in Client : Placed(agenda[c]) /\ QueueFits(agenda[c], leases, now)

QueueInv ==
    status = "ready" =>
        /\ \A l \in Lease : Known(l, leases, queue[managers], agenda)
        /\ PopFits(agenda[managers], leases, agenda)

LeaseInv == TypeInv /\ LeaseTimes /\ ThreadsFit /\ AgendasFit /\ QueueInv


\* What a step keeps of one agenda.
LEMMA ShiftOld ==
    ASSUME NEW a \in Seq(Tasks), a # <<>>, NEW s \in Seq(Tasks), NEW b, b = s \o Tail(a),
           NEW sec, OldIds(a, sec), OldIds(s, sec)
    PROVE  OldIds(b, sec)
<1> SUFFICES ASSUME NEW i \in DOMAIN b, b[i].do \in {"tie", "enqueue"}, b[i].id \in SecretLease
             PROVE  b[i].id <= MaxTokens + sec
  BY DEF OldIds
<1>1. \/ i \in DOMAIN s /\ b[i] = s[i]
      \/ i - Len(s) + 1 \in DOMAIN a /\ b[i] = a[i - Len(s) + 1]
  BY Shift
<1> QED BY <1>1 DEF OldIds

LEMMA ShiftPlaced ==
    ASSUME NEW a \in Seq(Tasks), a # <<>>, NEW s \in Seq(Tasks), NEW b, b = s \o Tail(a),
           Placed(a), a[1].do # "tie", \A i \in DOMAIN s : ~Urgent(s[i])
    PROVE  Placed(b)
<1> SUFFICES ASSUME NEW i \in DOMAIN b, Urgent(b[i]) PROVE FALSE
  BY DEF Placed
<1>1. i - Len(s) + 1 \in DOMAIN a /\ i - Len(s) + 1 > 1 /\ b[i] = a[i - Len(s) + 1]
  BY Shift
<1> QED BY <1>1 DEF Placed

LEMMA ShiftQueue ==
    ASSUME NEW a \in Seq(Tasks), a # <<>>, NEW s \in Seq(Tasks), NEW b, b = s \o Tail(a),
           NEW ls, NEW t, QueueFits(a, ls, t), QueueFits(s, ls, t),
           a[1].do = "drop" => ls[a[1].id] = None
    PROVE  QueueFits(b, ls, t)
<1> SUFFICES ASSUME NEW i \in DOMAIN b, b[i].do = "enqueue" PROVE EnqueueFits(b, i, ls, t)
  BY DEF QueueFits
<1>0. /\ DOMAIN a = 1 .. Len(a) /\ DOMAIN b = 1 .. Len(b) /\ Len(s) \in Nat
      /\ \A m \in DOMAIN a : m > 1 => m - 1 + Len(s) \in DOMAIN b /\ b[m - 1 + Len(s)] = a[m]
  <2>1. DOMAIN a = 1 .. Len(a) /\ DOMAIN b = 1 .. Len(b) /\ Len(s) \in Nat
    BY Shift
  <2>2. ASSUME NEW m \in DOMAIN a, m > 1
        PROVE  m - 1 + Len(s) \in DOMAIN b /\ b[m - 1 + Len(s)] = a[m]
    BY <2>2, ShiftTail
  <2> QED BY <2>1, <2>2
<1> DEFINE l == b[i].id
<1>1. CASE i \in DOMAIN s /\ b[i] = s[i]
  <2>1. EnqueueFits(s, i, ls, t)
    BY <1>1 DEF QueueFits
  <2>2. DroppedBefore(s, i, l) => DroppedBefore(b, i, l)
    <3> SUFFICES ASSUME NEW j \in DOMAIN s, j < i, s[j].do = "drop", s[j].id = l
                 PROVE  DroppedBefore(b, i, l)
      BY DEF DroppedBefore
    <3>1. j \in DOMAIN b /\ b[j] = s[j]
      BY Shift
    <3> QED BY <3>1 DEF DroppedBefore
  <2> QED BY <1>1, <2>1, <2>2 DEF EnqueueFits
<1>2. CASE /\ i > Len(s) /\ i - Len(s) + 1 \in DOMAIN a /\ i - Len(s) + 1 > 1
           /\ b[i] = a[i - Len(s) + 1]
  <2> DEFINE k == i - Len(s) + 1
  <2>1. EnqueueFits(a, k, ls, t)
    BY <1>2 DEF QueueFits
  <2>2. DroppedBefore(a, k, l) => ls[l] = None \/ DroppedBefore(b, i, l)
    <3> SUFFICES ASSUME NEW j \in DOMAIN a, j < k, a[j].do = "drop", a[j].id = l
                 PROVE  ls[l] = None \/ DroppedBefore(b, i, l)
      BY DEF DroppedBefore
    <3>1. CASE j = 1
      BY <3>1
    <3>2. CASE j > 1
      <4>1. j - 1 + Len(s) \in DOMAIN b /\ b[j - 1 + Len(s)] = a[j]
        BY <1>0, <3>2
      <4>2. j \in Nat /\ i \in Nat /\ Len(s) \in Nat
        BY <1>0
      <4>3. j - 1 + Len(s) < i
        BY <4>2
      <4> HIDE DEF l
      <4> QED BY <4>1, <4>3 DEF DroppedBefore
    <3>3. j \in Nat \ {0}
      BY <1>0
    <3> QED BY <3>1, <3>2, <3>3
  <2> HIDE DEF k
  <2> QED BY <1>2, <2>1, <2>2 DEF EnqueueFits, k
<1>3. \/ i \in DOMAIN s /\ b[i] = s[i]
      \/ /\ i > Len(s) /\ i - Len(s) + 1 \in DOMAIN a /\ i - Len(s) + 1 > 1
         /\ b[i] = a[i - Len(s) + 1]
  BY Shift
<1> QED BY <1>1, <1>2, <1>3

LEMMA ShiftUrgent ==
    ASSUME NEW a \in Seq(Tasks), a # <<>>, NEW s \in Seq(Tasks), NEW b, b = s \o Tail(a), NEW l,
           UrgentFor(s, l) \/ (~Urgent(a[1]) /\ UrgentFor(a, l))
    PROVE  UrgentFor(b, l)
<1>1. ASSUME NEW i \in DOMAIN s, Urgent(s[i]), s[i].id = l PROVE UrgentFor(b, l)
  <2>1. i \in DOMAIN b /\ b[i] = s[i]
    BY Shift
  <2> QED BY <1>1, <2>1 DEF UrgentFor
<1>2. ASSUME NEW i \in DOMAIN a, Urgent(a[i]), a[i].id = l, ~Urgent(a[1]) PROVE UrgentFor(b, l)
  <2>1. DOMAIN a = 1 .. Len(a)
    BY Shift
  <2>2. i > 1
    BY <1>2, <2>1
  <2>3. i - 1 + Len(s) \in DOMAIN b /\ b[i - 1 + Len(s)] = a[i]
    BY <2>2, Shift
  <2> QED BY <1>2, <2>3 DEF UrgentFor
<1> QED BY <1>1, <1>2 DEF UrgentFor

LEMMA ShiftPop ==
    ASSUME NEW a \in Seq(Tasks), a # <<>>, NEW s \in Seq(Tasks), NEW b, b = s \o Tail(a),
           NEW ls, NEW ag, PopFits(a, ls, ag), \A i \in DOMAIN s : s[i].do # "pop",
           a[1].do \in {"expire", "drop"} =>
               ls[a[1].id] = None \/ \E j \in DOMAIN s : s[j].do = "drop" /\ s[j].id = a[1].id
    PROVE  PopFits(b, ls, ag)
<1> SUFFICES ASSUME NEW i \in DOMAIN b, b[i].do = "pop"
             PROVE  /\ i = Len(b)
                    /\ \/ ls[b[i].id] = None
                       \/ Announced(ag, b[i].id)
                       \/ \E j \in DOMAIN b : /\ j < i /\ b[j].do \in {"expire", "drop"}
                                              /\ b[j].id = b[i].id
  BY DEF PopFits
<1> DEFINE k == i - Len(s) + 1
           l == b[i].id
<1>1. i > Len(s) /\ k \in DOMAIN a /\ k > 1 /\ b[i] = a[k]
  BY Shift
<1>2. /\ DOMAIN a = 1 .. Len(a) /\ DOMAIN b = 1 .. Len(b) /\ DOMAIN s = 1 .. Len(s)
      /\ Len(s) \in Nat /\ Len(a) \in Nat /\ Len(b) = Len(s) + Len(a) - 1
  BY Shift
<1>3. /\ k = Len(a)
      /\ \/ ls[l] = None
         \/ Announced(ag, l)
         \/ \E j \in DOMAIN a : j < k /\ a[j].do \in {"expire", "drop"} /\ a[j].id = l
  BY <1>1 DEF PopFits
<1>4. i = Len(b)
  BY <1>1, <1>2, <1>3
<1>5. ASSUME NEW j \in DOMAIN a, j < k, a[j].do \in {"expire", "drop"}, a[j].id = l
      PROVE  \/ ls[l] = None
             \/ \E m \in DOMAIN b : m < i /\ b[m].do \in {"expire", "drop"} /\ b[m].id = l
  <2>1. CASE j = 1
    <3>1. CASE ls[a[1].id] = None
      BY <1>5, <2>1, <3>1
    <3>2. ASSUME NEW m \in DOMAIN s, s[m].do = "drop", s[m].id = a[1].id
          PROVE  m \in DOMAIN b /\ m < i /\ b[m].do = "drop" /\ b[m].id = l
      <4>1. m \in DOMAIN b /\ b[m] = s[m]
        BY Shift
      <4>2. m < i
        BY <1>1, <1>2
      <4> QED BY <1>5, <2>1, <3>2, <4>1, <4>2
    <3> HIDE DEF l
    <3> QED BY <1>5, <2>1, <3>1, <3>2
  <2>2. CASE j > 1
    <3> DEFINE m == j - 1 + Len(s)
    <3>1. m \in DOMAIN b /\ b[m] = a[j]
      BY <2>2, Shift
    <3>2. m < i
      BY <1>1, <1>2, <1>5
    <3> HIDE DEF m, l
    <3> QED BY <1>5, <3>1, <3>2
  <2>3. j = 1 \/ j > 1
    BY <1>2
  <2> HIDE DEF l
  <2> QED BY <2>1, <2>2, <2>3
<1> HIDE DEF k, l
<1>6. ls[l] = None \/ Announced(ag, l)
        \/ \E m \in DOMAIN b : m < i /\ b[m].do \in {"expire", "drop"} /\ b[m].id = l
  BY <1>3, <1>5
<1> QED BY <1>4, <1>6 DEF l

LEMMA PopStays ==
    ASSUME NEW a, NEW ls, NEW ag, NEW ls2, NEW ag2, PopFits(a, ls, ag),
           \A l : Announced(ag, l) => Announced(ag2, l),
           \A l : ls[l] = None => ls2[l] = None \/ Announced(ag2, l)
    PROVE  PopFits(a, ls2, ag2)
<1> SUFFICES ASSUME NEW i \in DOMAIN a, a[i].do = "pop"
             PROVE  /\ i = Len(a)
                    /\ \/ ls2[a[i].id] = None
                       \/ Announced(ag2, a[i].id)
                       \/ \E j \in DOMAIN a : /\ j < i /\ a[j].do \in {"expire", "drop"}
                                              /\ a[j].id = a[i].id
  BY DEF PopFits
<1>1. /\ i = Len(a)
      /\ \/ ls[a[i].id] = None
         \/ Announced(ag, a[i].id)
         \/ \E j \in DOMAIN a : j < i /\ a[j].do \in {"expire", "drop"} /\ a[j].id = a[i].id
  BY DEF PopFits
<1> QED BY <1>1

\* An announcement lasts while its thread keeps its tasks.
LEMMA AnnouncedStays ==
    ASSUME NEW ag, NEW ag2, NEW x \in Thread, NEW l, Announced(ag, l),
           \A y \in Thread \ {x} : ag2[y] = ag[y],
           x \in Client => (UrgentFor(ag[x], l) => UrgentFor(ag2[x], l))
    PROVE  Announced(ag2, l)
<1>1. PICK c \in Client : UrgentFor(ag[c], l)
  BY DEF Announced
<1>2. c \in Thread
  BY Numbers
<1>3. CASE c = x
  BY <1>1, <1>3 DEF Announced
<1>4. CASE c # x
  <2>1. ag2[c] = ag[c]
    BY <1>2, <1>4
  <2> QED BY <1>1, <2>1 DEF Announced
<1> QED BY <1>3, <1>4


LEMMA NoEnqueueFits ==
    ASSUME NEW s, \A i \in DOMAIN s : s[i].do # "enqueue", NEW ls, NEW t
    PROVE  QueueFits(s, ls, t)
BY DEF QueueFits

\* A task that has to do with no lease.
Idle(k) == k.do \notin {"enqueue", "tie", "drop", "expire", "pop"}

\* The tasks s follow on one that has to do with no lease: they pop nothing,
\* announce nothing, and put a secret at 0 only after they drop it.
Harmless(s) ==
    /\ \A i \in DOMAIN s : s[i].do \notin {"tie", "pop"} /\ ~Urgent(s[i])
    /\ OldIds(s, secrets)
    /\ QueueFits(s, leases, now)

\* A step of x that goes on with harmless tasks and changes no lease and no queue.
LEMMA QuietStep ==
    ASSUME LeaseInv, TypeInv', NEW x \in Thread, agenda[x] # <<>>, Idle(Task(x)),
           NEW s \in Seq(Tasks), Harmless(s), Then(x, s),
           UNCHANGED <<leases, queue, managers, status, looping, now, secrets>>,
           index' \subseteq index
    PROVE  LeaseInv'
<1> DEFINE a == agenda[x]
           b == agenda'[x]
<1>1. /\ agenda \in [Thread -> Seq(Tasks)] /\ a \in Seq(Tasks) /\ a[1] = Task(x)
      /\ b = s \o Tail(a) /\ \A y \in Thread \ {x} : agenda'[y] = agenda[y]
  BY ThenAgenda, HeadTask DEF LeaseInv, TypeInv, TypeOK
<1>2. /\ leases' = leases /\ queue' = queue /\ managers' = managers /\ status' = status
      /\ looping' = looping /\ now' = now /\ secrets' = secrets
  OBVIOUS
<1>3. a[1].do \notin {"enqueue", "tie", "drop", "expire", "pop"}
  BY <1>1 DEF Idle
<1>4. LeaseTimes'
  BY <1>2 DEF LeaseInv, LeaseTimes
<1>5. ThreadsFit'
  <2>1. \A y \in Thread : agenda'[y] # <<>> => agenda[y] # <<>>
    BY <1>1
  <2> QED BY <1>2, <2>1, Numbers DEF LeaseInv, ThreadsFit
<1> HIDE DEF b
<1>6. OldIds(b, secrets)
  <2>1. OldIds(a, secrets)
    BY DEF LeaseInv, AgendasFit
  <2>2. OldIds(s, secrets)
    BY DEF Harmless
  <2> QED BY <1>1, <2>1, <2>2, ShiftOld
<1>7. x \in Client => Placed(b) /\ QueueFits(b, leases, now)
  <2> SUFFICES ASSUME x \in Client PROVE Placed(b) /\ QueueFits(b, leases, now)
    OBVIOUS
  <2>1. Placed(a) /\ QueueFits(a, leases, now)
    BY DEF LeaseInv, AgendasFit
  <2>2. Placed(b)
    BY <1>1, <1>3, <2>1, ShiftPlaced DEF Harmless
  <2>3. QueueFits(b, leases, now)
    <3>1. QueueFits(s, leases, now)
      BY DEF Harmless
    <3>2. a[1].do = "drop" => leases[a[1].id] = None
      BY <1>3
    <3> QED BY <1>1, <2>1, <3>1, <3>2, ShiftQueue
  <2> QED BY <2>2, <2>3
<1>8. AgendasFit'
  <2>1. \A y \in Thread : OldIds(agenda'[y], secrets')
    BY <1>1, <1>2, <1>6 DEF LeaseInv, AgendasFit, b
  <2>2. \A c \in Client : Placed(agenda'[c]) /\ QueueFits(agenda'[c], leases', now')
    BY <1>1, <1>2, <1>7, Numbers DEF LeaseInv, AgendasFit, b
  <2> QED BY <2>1, <2>2 DEF AgendasFit
<1>9. \A l : Announced(agenda, l) => Announced(agenda', l)
  <2> SUFFICES ASSUME NEW l, Announced(agenda, l) PROVE Announced(agenda', l)
    OBVIOUS
  <2>1. ~Urgent(a[1])
    BY <1>3 DEF Urgent
  <2>2. UrgentFor(a, l) => UrgentFor(b, l)
    BY <1>1, <2>1, ShiftUrgent
  <2> QED BY <1>1, <2>2, AnnouncedStays DEF b
<1>10. QueueInv'
  <2> SUFFICES ASSUME status = "ready" PROVE QueueInv'
    BY <1>2 DEF QueueInv
  <2>1. \A l \in Lease : Known(l, leases, queue[managers], agenda')
    BY <1>9 DEF LeaseInv, QueueInv, Known
  <2>2. PopFits(agenda[managers], leases, agenda')
    <3>1. PopFits(agenda[managers], leases, agenda)
      BY DEF LeaseInv, QueueInv
    <3> QED BY <1>9, <3>1, PopStays
  <2>3. PopFits(agenda'[managers], leases, agenda')
    <3>1. CASE managers = x
      <4>1. PopFits(a, leases, agenda')
        BY <2>2, <3>1
      <4>2. PopFits(b, leases, agenda')
        <5>1. \A i \in DOMAIN s : s[i].do # "pop"
          BY DEF Harmless
        <5>2. a[1].do \in {"expire", "drop"} =>
                \/ leases[a[1].id] = None
                \/ \E j \in DOMAIN s : s[j].do = "drop" /\ s[j].id = a[1].id
          BY <1>3
        <5> QED BY <1>1, <4>1, <5>1, <5>2, ShiftPop
      <4> QED BY <3>1, <4>2 DEF b
    <3>2. CASE managers # x
      <4>1. managers \in Thread
        BY Numbers DEF LeaseInv, ThreadsFit
      <4> QED BY <1>1, <2>2, <3>2, <4>1
    <3> QED BY <3>1, <3>2
  <2> QED BY <1>2, <2>1, <2>3 DEF QueueInv
<1> QED BY <1>4, <1>5, <1>8, <1>10 DEF LeaseInv

\* A step that ends a request early does so where nothing is announced.
LEMMA QuietDrop ==
    ASSUME LeaseInv, TypeInv', NEW x \in Thread, agenda[x] # <<>>,
           x \in Client => Task(x).do \notin {"enqueue", "tie"},
           Drop(x), looping' \subseteq looping, \A y \in looping \ looping' : y = x,
           UNCHANGED <<leases, queue, managers, status, now, secrets, index>>
    PROVE  LeaseInv'
<1>1. /\ agenda \in [Thread -> Seq(Tasks)] /\ agenda[x][1] = Task(x)
      /\ agenda'[x] = <<>> /\ \A y \in Thread \ {x} : agenda'[y] = agenda[y]
  BY DropAgenda, HeadTask DEF LeaseInv, TypeInv, TypeOK
<1>2. /\ leases' = leases /\ queue' = queue /\ managers' = managers /\ status' = status
      /\ now' = now /\ secrets' = secrets
  OBVIOUS
<1>3. LeaseTimes'
  BY <1>2 DEF LeaseInv, LeaseTimes
<1>4. ThreadsFit'
  BY <1>1, <1>2, Numbers DEF LeaseInv, ThreadsFit
<1>5. OldIds(<<>>, secrets) /\ Placed(<<>>) /\ QueueFits(<<>>, leases, now)
  BY DEF OldIds, Placed, QueueFits
<1>6. AgendasFit'
  <2>1. \A y \in Thread : OldIds(agenda'[y], secrets')
    BY <1>1, <1>2, <1>5 DEF LeaseInv, AgendasFit
  <2>2. \A c \in Client : Placed(agenda'[c]) /\ QueueFits(agenda'[c], leases', now')
    BY <1>1, <1>2, <1>5, Numbers DEF LeaseInv, AgendasFit
  <2> QED BY <2>1, <2>2 DEF AgendasFit
<1>7. \A l : Announced(agenda, l) => Announced(agenda', l)
  <2> SUFFICES ASSUME NEW l, Announced(agenda, l) PROVE Announced(agenda', l)
    OBVIOUS
  <2>1. x \in Client => ~UrgentFor(agenda[x], l)
    BY <1>1 DEF UrgentFor, Urgent, LeaseInv, AgendasFit, Placed
  <2> QED BY <1>1, <2>1, AnnouncedStays
<1>8. QueueInv'
  <2> SUFFICES ASSUME status = "ready" PROVE QueueInv'
    BY <1>2 DEF QueueInv
  <2>1. \A l \in Lease : Known(l, leases, queue[managers], agenda')
    BY <1>7 DEF LeaseInv, QueueInv, Known
  <2>2. PopFits(agenda[managers], leases, agenda')
    <3>1. PopFits(agenda[managers], leases, agenda)
      BY DEF LeaseInv, QueueInv
    <3> QED BY <1>7, <3>1, PopStays
  <2>3. PopFits(agenda'[managers], leases, agenda')
    <3>1. PopFits(<<>>, leases, agenda')
      BY DEF PopFits
    <3>2. managers \in Thread
      BY Numbers DEF LeaseInv, ThreadsFit
    <3> QED BY <1>1, <2>2, <3>1, <3>2
  <2> QED BY <1>2, <2>1, <2>3 DEF QueueInv
<1> QED BY <1>3, <1>4, <1>6, <1>8 DEF LeaseInv


\* An agenda fits when leases are dropped and time passes, and when a lease is
\* written that ends no sooner than what is announced for it.
LEMMA QueueStays ==
    ASSUME NEW a \in Seq(Tasks), NEW ls, NEW ls2, NEW t \in Nat, NEW t2 \in Nat, t <= t2,
           QueueFits(a, ls, t), \A l \in Lease : ls2[l] # None => ls2[l] = ls[l]
    PROVE  QueueFits(a, ls2, t2)
<1> SUFFICES ASSUME NEW i \in DOMAIN a, a[i].do = "enqueue" PROVE EnqueueFits(a, i, ls2, t2)
  BY DEF QueueFits
<1>1. a[i] \in Tasks
  BY ElementOfSeq, LenProperties
<1>2. a[i].id \in Lease /\ a[i].priority \in Nat
  BY <1>1, TaskFields, Numbers
<1>3. EnqueueFits(a, i, ls, t)
  BY DEF QueueFits
<1>4. t + Ttl <= t2 + Ttl /\ t + Ttl \in Nat /\ t2 + Ttl \in Nat
  BY BoundsAssumption
<1>5. a[i].priority <= t + Ttl => a[i].priority <= t2 + Ttl
  BY <1>2, <1>4
<1> QED BY <1>2, <1>3, <1>5 DEF EnqueueFits

LEMMA QueueWritten ==
    ASSUME NEW a \in Seq(Tasks), NEW ls, NEW n \in DOMAIN ls, NEW e, NEW t, QueueFits(a, ls, t),
           \A i \in DOMAIN a : a[i].do = "enqueue" /\ a[i].id = n =>
               a[i].priority # 0 /\ a[i].priority <= e.expire
    PROVE  QueueFits(a, [ls EXCEPT ![n] = e], t)
<1> SUFFICES ASSUME NEW i \in DOMAIN a, a[i].do = "enqueue"
             PROVE  EnqueueFits(a, i, [ls EXCEPT ![n] = e], t)
  BY DEF QueueFits
<1>1. EnqueueFits(a, i, ls, t)
  BY DEF QueueFits
<1>2. CASE a[i].id = n
  BY <1>1, <1>2 DEF EnqueueFits
<1>3. CASE a[i].id # n
  BY <1>1, <1>3 DEF EnqueueFits
<1> QED BY <1>2, <1>3

\* A reply at the end of an agenda changes nothing of the rest.
LEMMA ReplyLast ==
    ASSUME NEW a \in Seq(Tasks), NEW r \in Tasks, r.do = "reply", NEW b, b = a \o <<r>>
    PROVE  /\ b \in Seq(Tasks)
           /\ \A sec : OldIds(a, sec) => OldIds(b, sec)
           /\ a # <<>> /\ Placed(a) => Placed(b)
           /\ \A ls, t : QueueFits(a, ls, t) => QueueFits(b, ls, t)
           /\ \A l : UrgentFor(a, l) => UrgentFor(b, l)
<1>1. /\ b \in Seq(Tasks) /\ Len(a) \in Nat /\ Len(b) = Len(a) + 1
      /\ DOMAIN a = 1 .. Len(a) /\ DOMAIN b = 1 .. Len(a) + 1
      /\ \A i \in DOMAIN a : b[i] = a[i]
      /\ b[Len(a) + 1] = r
  OBVIOUS
<1>2. \A i \in DOMAIN b : (i \in DOMAIN a /\ b[i] = a[i]) \/ b[i].do = "reply"
  BY <1>1
<1>3. \A i \in DOMAIN a : i \in DOMAIN b /\ b[i] = a[i]
  BY <1>1
<1>4. ASSUME NEW sec, OldIds(a, sec) PROVE OldIds(b, sec)
  BY <1>2, <1>4 DEF OldIds
<1>5. ASSUME a # <<>>, Placed(a) PROVE Placed(b)
  <2>1. 1 \in DOMAIN a
    BY <1>1, <1>5
  <2> QED BY <1>2, <1>3, <1>5, <2>1 DEF Placed, Urgent
<1>6. ASSUME NEW ls, NEW t, QueueFits(a, ls, t) PROVE QueueFits(b, ls, t)
  <2> SUFFICES ASSUME NEW i \in DOMAIN b, b[i].do = "enqueue" PROVE EnqueueFits(b, i, ls, t)
    BY DEF QueueFits
  <2>1. i \in DOMAIN a /\ b[i] = a[i]
    BY <1>2
  <2>2. EnqueueFits(a, i, ls, t)
    BY <1>6, <2>1 DEF QueueFits
  <2>3. \A l : DroppedBefore(a, i, l) => DroppedBefore(b, i, l)
    BY <1>3 DEF DroppedBefore
  <2> QED BY <2>1, <2>2, <2>3 DEF EnqueueFits
<1>7. ASSUME NEW l, UrgentFor(a, l) PROVE UrgentFor(b, l)
  BY <1>3, <1>7 DEF UrgentFor
<1> QED BY <1>1, <1>4, <1>5, <1>6, <1>7

LEMMA LeqPlus ==
    ASSUME NEW k \in Nat, NEW m \in Nat, NEW i \in Nat, NEW j \in Nat, i <= j, k <= m + i
    PROVE  k <= m + j
OBVIOUS

\* A client writes the lease n and announces it.
LEMMA LeaseWritten ==
    ASSUME LeaseInv, TypeInv', NEW x \in Client, agenda[x] # <<>>,
           NEW n \in Lease, NEW e \in LeaseEntry, leases' = [leases EXCEPT ![n] = e],
           e.expire >= 1, n \in Token => e.expire <= now + Ttl,
           secrets' \in Nat, secrets <= secrets', n \in SecretLease => n <= MaxTokens + secrets',
           \A y \in Thread \ {x} : agenda'[y] = agenda[y],
           OldIds(agenda'[x], secrets'), Placed(agenda'[x]),
           QueueFits(agenda'[x], leases', now), UrgentFor(agenda'[x], n),
           \A l : UrgentFor(agenda[x], l) => UrgentFor(agenda'[x], l),
           \A c \in Client \ {x} : QueueFits(agenda[c], leases', now),
           UNCHANGED <<index, queue, managers, status, looping, now>>
    PROVE  LeaseInv'
<1>1. /\ index' = index /\ queue' = queue /\ managers' = managers /\ status' = status
      /\ looping' = looping /\ now' = now
  OBVIOUS
<1>2. x \in Thread /\ x \notin Manager
  BY Numbers
<1>3. leases \in [Lease -> LeaseEntry \cup {None}] /\ secrets \in Nat /\ MaxTokens \in Nat
  BY BoundsAssumption DEF LeaseInv, TypeInv, TypeOK
<1>4. \A l \in Lease : leases'[l] = IF l = n THEN e ELSE leases[l]
  BY <1>3
<1>5. LeaseTimes'
  <2>1. \A l \in Lease : leases'[l] # None =>
          leases'[l].expire >= 1 /\ (l \in Token => leases'[l].expire <= now' + Ttl)
    BY <1>1, <1>4 DEF LeaseInv, LeaseTimes
  <2>2. ASSUME NEW l \in SecretLease, l > MaxTokens + secrets'
        PROVE  leases'[l] = None /\ \A t \in Token : <<t, l>> \notin index'
    <3>1. l \in Nat /\ l \in Lease /\ l > MaxTokens + secrets
      BY <1>3, <2>2, Numbers
    <3>2. l # n
      BY <1>3, <2>2, <3>1
    <3> QED BY <1>1, <1>4, <3>1, <3>2 DEF LeaseInv, LeaseTimes
  <2> QED BY <2>1, <2>2 DEF LeaseTimes
<1>6. ThreadsFit'
  BY <1>1, <1>2, Numbers DEF LeaseInv, ThreadsFit
<1>7. AgendasFit'
  <2>1. ASSUME NEW y \in Thread, y # x PROVE OldIds(agenda'[y], secrets')
    <3>1. OldIds(agenda[y], secrets) /\ agenda'[y] = agenda[y]
      BY <2>1 DEF LeaseInv, AgendasFit
    <3>2. SecretLease \subseteq Nat
      BY Numbers
    <3>3. ASSUME NEW k \in SecretLease, k <= MaxTokens + secrets PROVE k <= MaxTokens + secrets'
      <4>1. k \in Nat
        BY <3>2
      <4> QED BY <1>3, <3>3, <4>1, LeqPlus
    <3> QED BY <3>1, <3>3 DEF OldIds
  <2>2. ASSUME NEW c \in Client, c # x
        PROVE  Placed(agenda'[c]) /\ QueueFits(agenda'[c], leases', now')
    BY <1>1, <2>2, Numbers DEF LeaseInv, AgendasFit
  <2> QED BY <1>1, <2>1, <2>2 DEF AgendasFit
<1>8. \A l : Announced(agenda, l) => Announced(agenda', l)
  BY <1>2, AnnouncedStays
<1>9. Announced(agenda', n)
  BY DEF Announced
<1>10. QueueInv'
  <2> SUFFICES ASSUME status = "ready" PROVE QueueInv'
    BY <1>1 DEF QueueInv
  <2>1. \A l \in Lease : Known(l, leases', queue[managers], agenda')
    <3> SUFFICES ASSUME NEW l \in Lease, leases'[l] # None, ~Announced(agenda', l)
                 PROVE  /\ queue[managers][l] # None
                        /\ queue[managers][l] \in 1 .. leases'[l].expire
      BY DEF Known
    <3>1. l # n
      BY <1>9
    <3>2. leases'[l] = leases[l]
      BY <1>4, <3>1
    <3> QED BY <1>8, <3>2 DEF LeaseInv, QueueInv, Known
  <2>2. PopFits(agenda[managers], leases', agenda')
    <3>1. PopFits(agenda[managers], leases, agenda)
      BY DEF LeaseInv, QueueInv
    <3>2. \A l : leases[l] = None => leases'[l] = None \/ Announced(agenda', l)
      BY <1>3, <1>9
    <3> QED BY <1>8, <3>1, <3>2, PopStays
  <2>3. agenda'[managers] = agenda[managers]
    BY <1>2, Numbers DEF LeaseInv, ThreadsFit
  <2> QED BY <1>1, <2>1, <2>2, <2>3 DEF QueueInv
<1> QED BY <1>5, <1>6, <1>7, <1>10 DEF LeaseInv


\* The tasks that announce a lease.
LEMMA EnqueueFacts ==
    ASSUME NEW n \in Lease, NEW p \in Expiry, p # 0
    PROVE  /\ Enqueue(n, p) \in Tasks /\ Enqueue(n, p).do = "enqueue"
           /\ Enqueue(n, p).id = n /\ Enqueue(n, p).priority = p /\ Urgent(Enqueue(n, p))
BY TaskMade DEF Enqueue, Urgent

\* Before a task that is neither of them nothing is announced.
LEMMA NothingUrgent ==
    ASSUME LeaseInv, NEW x \in Client, agenda[x] # <<>>, Task(x).do \notin {"enqueue", "tie"}
    PROVE  /\ \A i \in DOMAIN agenda[x] : ~Urgent(agenda[x][i])
           /\ \A l : ~UrgentFor(agenda[x], l)
<1>1. agenda[x][1] = Task(x) /\ Placed(agenda[x])
  BY HeadTask, Numbers DEF LeaseInv, TypeInv, TypeOK, AgendasFit
<1>2. \A i \in DOMAIN agenda[x] : ~Urgent(agenda[x][i])
  BY <1>1 DEF Placed, Urgent
<1> QED BY <1>2 DEF UrgentFor

\* What other clients have announced for a token fits a lease written now.
LEMMA TokenLeaseFits ==
    ASSUME LeaseInv, NEW c \in Client, NEW n \in Token
    PROVE  QueueFits(agenda[c], [leases EXCEPT ![n] = TokenLease(n)], now)
<1>1. agenda[c] \in Seq(Tasks) /\ leases \in [Lease -> LeaseEntry \cup {None}]
  BY Numbers DEF LeaseInv, TypeInv, TypeOK
<1>2. QueueFits(agenda[c], leases, now)
  BY DEF LeaseInv, AgendasFit
<1>3. n \in DOMAIN leases /\ n \notin SecretLease
  BY <1>1, Numbers
<1>4. TokenLease(n).expire = now + Ttl
  BY DEF TokenLease
<1>5. \A i \in DOMAIN agenda[c] : agenda[c][i].do = "enqueue" /\ agenda[c][i].id = n =>
          agenda[c][i].priority # 0 /\ agenda[c][i].priority <= TokenLease(n).expire
  BY <1>2, <1>3, <1>4 DEF QueueFits, EnqueueFits
<1> QED BY <1>1, <1>2, <1>3, <1>5, QueueWritten

\* The agenda of a client that announces a token's lease in the place of its
\* first task.
LEMMA AnnounceFirst ==
    ASSUME LeaseInv, NEW x \in Client, agenda[x] # <<>>,
           Task(x).do \notin {"enqueue", "tie", "drop"}, NEW n \in Token,
           NEW s \in Seq(Tasks), s # <<>>, s[1] = Enqueue(n, now + Ttl),
           \A i \in DOMAIN s : i = 1 \/ s[i].do = "reply",
           NEW b, b = s \o Tail(agenda[x])
    PROVE  /\ b \in Seq(Tasks) /\ b # <<>> /\ OldIds(b, secrets) /\ Placed(b)
           /\ QueueFits(b, [leases EXCEPT ![n] = TokenLease(n)], now)
           /\ UrgentFor(b, n)
<1> DEFINE a == agenda[x]
           q == Enqueue(n, now + Ttl)
           ls == [leases EXCEPT ![n] = TokenLease(n)]
<1>1. /\ a \in Seq(Tasks) /\ a # <<>> /\ a[1] = Task(x) /\ b = s \o Tail(a)
      /\ leases \in [Lease -> LeaseEntry \cup {None}]
  BY HeadTask, Numbers DEF LeaseInv, TypeInv, TypeOK
<1>2. now + Ttl \in Expiry /\ now + Ttl # 0 /\ now + Ttl \in Nat
  BY ExpiryOK, BoundsAssumption DEF LeaseInv, TypeInv
<1>3. n \in Lease /\ n \notin SecretLease
  BY Numbers
<1>4. q.do = "enqueue" /\ q.id = n /\ q.priority = now + Ttl /\ Urgent(q)
  BY <1>2, <1>3, EnqueueFacts
<1>5. 1 \in DOMAIN s
  BY EmptySeq, LenProperties
<1>6. OldIds(s, secrets)
  BY <1>3, <1>4 DEF OldIds
<1>7. OldIds(b, secrets)
  <2>1. OldIds(a, secrets)
    BY Numbers DEF LeaseInv, AgendasFit
  <2> HIDE DEF a
  <2> QED BY <1>1, <1>6, <2>1, ShiftOld
<1>8. Placed(b)
  <2> SUFFICES ASSUME NEW i \in DOMAIN b, Urgent(b[i]) PROVE i = 1
    BY DEF Placed
  <2>1. \A j \in DOMAIN a : ~Urgent(a[j])
    BY NothingUrgent
  <2>2. i \in DOMAIN s /\ b[i] = s[i]
    BY <1>1, <2>1, Shift
  <2> QED BY <2>2 DEF Urgent
<1>9. ls[n] = TokenLease(n) /\ TokenLease(n).expire = now + Ttl
  BY <1>1, <1>3 DEF TokenLease
<1>10. QueueFits(s, ls, now)
  <2> SUFFICES ASSUME NEW i \in DOMAIN s, s[i].do = "enqueue" PROVE EnqueueFits(s, i, ls, now)
    BY DEF QueueFits
  <2>1. i = 1
    OBVIOUS
  <2> HIDE DEF ls, q
  <2> QED BY <1>2, <1>4, <1>9, <2>1 DEF EnqueueFits, q
<1>11. QueueFits(a, ls, now)
  BY TokenLeaseFits
<1>12. QueueFits(b, ls, now)
  <2> HIDE DEF ls
  <2>1. a[1].do = "drop" => ls[a[1].id] = None
    BY <1>1
  <2> HIDE DEF a
  <2> QED BY <1>1, <1>10, <1>11, <2>1, ShiftQueue
<1>13. UrgentFor(s, n)
  BY <1>4, <1>5 DEF UrgentFor
<1>14. UrgentFor(b, n)
  <2> HIDE DEF a
  <2> QED BY <1>1, <1>13, ShiftUrgent
<1>15. b \in Seq(Tasks) /\ b # <<>>
  <2>1. b \in Seq(Tasks) /\ 1 \in DOMAIN b
    BY <1>1, <1>5, Shift
  <2> QED BY <2>1
<1> QED BY <1>7, <1>8, <1>12, <1>14, <1>15

LEMMA LeaseNow ==
    ASSUME TypeOK, NEW n \in Token
    PROVE  /\ now + Ttl \in Expiry /\ now + Ttl >= 1 /\ n \in Lease /\ n \notin SecretLease
           /\ TokenLease(n) \in LeaseEntry /\ TokenLease(n).expire = now + Ttl
           /\ secrets \in Nat /\ secrets <= secrets /\ now + Ttl <= now + Ttl
<1>1. now + Ttl \in Expiry /\ now \in Nat /\ TokenLease(n) \in LeaseEntry
  BY ExpiryOK, TokenLeaseTyped
<1>2. now + Ttl >= 1 /\ now + Ttl <= now + Ttl
  BY <1>1, BoundsAssumption
<1>3. secrets \in Nat /\ secrets <= secrets
  BY BoundsAssumption DEF TypeOK
<1>4. TokenLease(n).expire = now + Ttl
  BY DEF TokenLease
<1>5. n \in Lease /\ n \notin SecretLease
  BY Numbers
<1> QED BY <1>1, <1>2, <1>3, <1>4, <1>5

LEMMA RegisterKnown ==
    ASSUME LeaseInv, TypeInv', NEW x \in Client, RegisterAuth(x) PROVE LeaseInv'
<1> DEFINE n == Task(x).id
           q == Enqueue(n, now + Ttl)
           r == Reply("token", n, now + Ttl)
<1>0. TypeOK /\ x \in Thread
  BY Numbers DEF LeaseInv, TypeInv
<1>1. /\ agenda[x] # <<>> /\ Task(x).do = "lease" /\ n \in Token
      /\ leases' = [leases EXCEPT ![n] = TokenLease(n)] /\ Then(x, <<q, r>>)
  BY <1>0, RegisterScript
<1>2. /\ UNCHANGED <<index, queue, managers, status, looping, now>> /\ secrets' = secrets
  BY DEF RegisterAuth, checkVars, boundVars
<1>3. /\ now + Ttl \in Expiry /\ now + Ttl >= 1 /\ n \in Lease /\ n \notin SecretLease
      /\ TokenLease(n) \in LeaseEntry /\ TokenLease(n).expire = now + Ttl
      /\ secrets \in Nat /\ secrets <= secrets /\ now + Ttl <= now + Ttl
  BY <1>0, <1>1, LeaseNow
<1>4. q \in Tasks /\ r \in Tasks /\ r.do = "reply"
  BY <1>1, <1>3, TaskMade DEF Reply
<1> HIDE DEF q, r
<1>5. /\ <<q, r>> \in Seq(Tasks) /\ <<q, r>> # <<>> /\ <<q, r>>[1] = q
      /\ \A i \in DOMAIN <<q, r>> : i = 1 \/ <<q, r>>[i].do = "reply"
  BY <1>4
<1>6. /\ agenda'[x] = <<q, r>> \o Tail(agenda[x])
      /\ \A y \in Thread \ {x} : agenda'[y] = agenda[y]
  BY <1>0, <1>1, <1>5, ThenAgenda DEF TypeOK
<1>7. /\ OldIds(agenda'[x], secrets) /\ Placed(agenda'[x])
      /\ QueueFits(agenda'[x], leases', now) /\ UrgentFor(agenda'[x], n)
  BY <1>1, <1>5, <1>6, AnnounceFirst DEF q
<1>8. \A l : UrgentFor(agenda[x], l) => UrgentFor(agenda'[x], l)
  BY <1>1, NothingUrgent
<1>9. \A c \in Client \ {x} : QueueFits(agenda[c], leases', now)
  BY <1>1, TokenLeaseFits
<1>10. /\ OldIds(agenda'[x], secrets') /\ secrets' \in Nat /\ secrets <= secrets'
       /\ (n \in SecretLease => n <= MaxTokens + secrets')
       /\ TokenLease(n).expire >= 1 /\ (n \in Token => TokenLease(n).expire <= now + Ttl)
  BY <1>2, <1>3, <1>7
<1> HIDE DEF n
<1> QED BY <1>1, <1>2, <1>3, <1>6, <1>7, <1>8, <1>9, <1>10, LeaseWritten

LEMMA PersistKnown ==
    ASSUME LeaseInv, TypeInv', NEW x \in Client, RenewPersist(x) PROVE LeaseInv'
<1> DEFINE n == Task(x).id
           q == Enqueue(n, now + Ttl)
           r == Reply("renew", n, now + Ttl)
           b == <<q>> \o Tail(agenda[x])
<1>0. TypeOK /\ x \in Thread
  BY Numbers DEF LeaseInv, TypeInv
<1>1. /\ agenda[x] # <<>> /\ Task(x).do = "renewal" /\ n \in Token
      /\ leases' = [leases EXCEPT ![n] = TokenLease(n)]
      /\ agenda'[x] = b \o <<r>> /\ q \in Tasks /\ r \in Tasks
      /\ \A y \in Thread \ {x} : agenda'[y] = agenda[y]
  BY <1>0, PersistScript
<1>2. /\ UNCHANGED <<index, queue, managers, status, looping, now>> /\ secrets' = secrets
  BY DEF RenewPersist, checkVars, boundVars
<1>3. /\ now + Ttl \in Expiry /\ now + Ttl >= 1 /\ n \in Lease /\ n \notin SecretLease
      /\ TokenLease(n) \in LeaseEntry /\ TokenLease(n).expire = now + Ttl
      /\ secrets \in Nat /\ secrets <= secrets /\ now + Ttl <= now + Ttl
  BY <1>0, <1>1, LeaseNow
<1>4. r.do = "reply"
  BY DEF Reply
<1> HIDE DEF q, r
<1>5. /\ <<q>> \in Seq(Tasks) /\ <<q>> # <<>> /\ <<q>>[1] = q
      /\ \A i \in DOMAIN <<q>> : i = 1 \/ <<q>>[i].do = "reply"
  BY <1>1
<1>6. /\ b \in Seq(Tasks) /\ b # <<>> /\ OldIds(b, secrets) /\ Placed(b)
      /\ QueueFits(b, leases', now) /\ UrgentFor(b, n)
  BY <1>1, <1>5, AnnounceFirst DEF q
<1> HIDE DEF b
<1>7. /\ OldIds(agenda'[x], secrets) /\ Placed(agenda'[x])
      /\ QueueFits(agenda'[x], leases', now) /\ UrgentFor(agenda'[x], n)
  BY <1>1, <1>4, <1>6, ReplyLast
<1>8. \A l : UrgentFor(agenda[x], l) => UrgentFor(agenda'[x], l)
  BY <1>1, NothingUrgent
<1>9. \A c \in Client \ {x} : QueueFits(agenda[c], leases', now)
  BY <1>1, TokenLeaseFits
<1>10. /\ OldIds(agenda'[x], secrets') /\ secrets' \in Nat /\ secrets <= secrets'
       /\ (n \in SecretLease => n <= MaxTokens + secrets')
       /\ TokenLease(n).expire >= 1 /\ (n \in Token => TokenLease(n).expire <= now + Ttl)
  BY <1>2, <1>3, <1>7
<1> HIDE DEF n
<1> QED BY <1>1, <1>2, <1>3, <1>7, <1>8, <1>9, <1>10, LeaseWritten


LEMMA SecretKnown ==
    ASSUME LeaseInv, TypeInv', NEW x \in Client, RegisterSecret(x) PROVE LeaseInv'
<1> DEFINE t == Task(x).id
           n == NextSecret
           k == TieTask(n, t)
           q == Enqueue(n, now + SecretTtl)
           s == <<k, q>>
           e == SecretLeaseOf(t)
           a == agenda[x]
           b == agenda'[x]
           ls == [leases EXCEPT ![n] = e]
<1>0. TypeOK /\ x \in Thread
  BY Numbers DEF LeaseInv, TypeInv
<1>1. /\ a # <<>> /\ Task(x).do = "secret" /\ t \in Token
      /\ n \in SecretLease /\ n \in Lease /\ n \notin Token /\ secrets' = secrets + 1
      /\ leases' = ls /\ Then(x, s)
  BY <1>0, SecretScript, Numbers
<1>2. UNCHANGED <<index, queue, managers, status, looping, now>>
  BY DEF RegisterSecret, checkVars
<1>3. now + SecretTtl \in Expiry /\ now + SecretTtl >= 1 /\ now + SecretTtl \in Nat
  BY <1>0, ExpiryOK, BoundsAssumption
<1>4. secrets \in Nat /\ secrets' \in Nat /\ secrets <= secrets' /\ n <= MaxTokens + secrets'
  BY <1>0, <1>1, BoundsAssumption DEF TypeOK, NextSecret
<1>5. e \in LeaseEntry /\ e.expire = now + SecretTtl
  BY <1>1, <1>3 DEF SecretLeaseOf, LeaseEntry
<1>6. k \in Tasks /\ k.do = "tie" /\ k.id = n
  BY <1>1, TaskMade DEF TieTask
<1>7. q \in Tasks /\ q.do = "enqueue" /\ q.id = n /\ q.priority = now + SecretTtl /\ Urgent(q)
  <2>1. now + SecretTtl # 0
    BY <1>3
  <2> QED BY <1>1, <1>3, <2>1, EnqueueFacts
<1>8. leases \in [Lease -> LeaseEntry \cup {None}] /\ ls[n] = e
  BY <1>0, <1>1 DEF TypeOK
<1> HIDE DEF k, q, e, n
<1>9. /\ s \in Seq(Tasks) /\ DOMAIN s = 1 .. 2 /\ s[1] = k /\ s[2] = q
  BY <1>6, <1>7
<1> HIDE DEF s
<1>10. /\ a \in Seq(Tasks) /\ a[1] = Task(x) /\ b = s \o Tail(a)
       /\ \A y \in Thread \ {x} : agenda'[y] = agenda[y]
  BY <1>0, <1>1, <1>9, ThenAgenda, HeadTask DEF TypeOK
<1> HIDE DEF ls
<1>11. \A y \in Thread : \A i \in DOMAIN agenda[y] : agenda[y][i].do = "enqueue" => agenda[y][i].id # n
  <2>1. \A y \in Thread : OldIds(agenda[y], secrets)
    BY DEF LeaseInv, AgendasFit
  <2>2. n > MaxTokens + secrets /\ ~(n <= MaxTokens + secrets)
    BY <1>4, BoundsAssumption DEF n, NextSecret
  <2> QED BY <1>1, <2>1, <2>2 DEF OldIds
<1>12. \A c \in Client : QueueFits(agenda[c], ls, now)
  <2> SUFFICES ASSUME NEW c \in Client PROVE QueueFits(agenda[c], ls, now)
    OBVIOUS
  <2>1. agenda[c] \in Seq(Tasks) /\ QueueFits(agenda[c], leases, now) /\ c \in Thread
    BY <1>0, Numbers DEF LeaseInv, AgendasFit, TypeOK
  <2>2. \A i \in DOMAIN agenda[c] : agenda[c][i].do = "enqueue" /\ agenda[c][i].id = n =>
            agenda[c][i].priority # 0 /\ agenda[c][i].priority <= e.expire
    BY <1>11, <2>1
  <2>3. n \in DOMAIN leases
    BY <1>1, <1>8
  <2> QED BY <2>1, <2>2, <2>3, QueueWritten DEF ls
<1>13. QueueFits(s, ls, now)
  <2> SUFFICES ASSUME NEW i \in DOMAIN s, s[i].do = "enqueue" PROVE EnqueueFits(s, i, ls, now)
    BY DEF QueueFits
  <2>1. i = 2
    BY <1>6, <1>9
  <2>2. q.priority # 0 /\ q.priority <= ls[n].expire
    BY <1>3, <1>5, <1>7, <1>8
  <2> QED BY <1>1, <1>7, <1>9, <2>1, <2>2 DEF EnqueueFits
<1> HIDE DEF a, b
<1>14. QueueFits(b, ls, now)
  <2>1. a[1].do = "drop" => ls[a[1].id] = None
    BY <1>1, <1>10
  <2>2. QueueFits(a, ls, now)
    BY <1>12 DEF a
  <2> QED BY <1>1, <1>10, <1>9, <1>13, <2>1, <2>2, ShiftQueue
<1>15. OldIds(b, secrets')
  <2>1. OldIds(s, secrets')
    BY <1>4, <1>6, <1>7, <1>9 DEF OldIds
  <2>2. OldIds(a, secrets')
    <3>1. OldIds(a, secrets)
      BY <1>0 DEF LeaseInv, AgendasFit, a
    <3>2. SecretLease \subseteq Nat /\ MaxTokens \in Nat
      BY Numbers, BoundsAssumption
    <3>3. ASSUME NEW m \in SecretLease, m <= MaxTokens + secrets PROVE m <= MaxTokens + secrets'
      BY <1>4, <3>2, <3>3, LeqPlus
    <3> QED BY <3>1, <3>3 DEF OldIds
  <2> QED BY <1>1, <1>9, <1>10, <2>1, <2>2, ShiftOld
<1>16. \A i \in DOMAIN a : ~Urgent(a[i])
  <2>1. Task(x).do \notin {"enqueue", "tie"} /\ agenda[x] # <<>>
    BY <1>1 DEF a
  <2> QED BY <2>1, NothingUrgent DEF a
<1>17. Placed(b)
  <2> SUFFICES ASSUME NEW i \in DOMAIN b, Urgent(b[i]) PROVE i = 2 /\ b[1].do = "tie"
    BY DEF Placed
  <2>0. a \in Seq(Tasks) /\ a # <<>> /\ s \in Seq(Tasks) /\ b = s \o Tail(a)
    BY <1>1, <1>9, <1>10
  <2>1. i \in DOMAIN s /\ b[i] = s[i]
    <3>1. \/ i \in DOMAIN s /\ b[i] = s[i]
          \/ \E j \in DOMAIN a : j > 1 /\ b[i] = a[j]
      BY <2>0, ShiftBack
    <3> QED BY <1>16, <3>1
  <2>2. b[1] = s[1]
    <3>1. 1 \in DOMAIN s
      BY <1>9
    <3> QED BY <2>0, <3>1, ShiftFirst
  <2>3. i = 2
    BY <1>6, <1>9, <2>1 DEF Urgent
  <2> QED BY <1>6, <1>9, <2>2, <2>3
<1>18. UrgentFor(b, n)
  <2>1. 2 \in DOMAIN s /\ Urgent(s[2]) /\ s[2].id = n
    BY <1>7, <1>9
  <2>2. UrgentFor(s, n)
    BY <2>1 DEF UrgentFor
  <2> QED BY <1>1, <1>9, <1>10, <2>2, ShiftUrgent
<1>19. \A l : UrgentFor(agenda[x], l) => UrgentFor(agenda'[x], l)
  BY <1>16 DEF UrgentFor, a
<1>20. /\ e.expire >= 1 /\ (n \in Token => e.expire <= now + Ttl)
       /\ (n \in SecretLease => n <= MaxTokens + secrets')
       /\ leases' = [leases EXCEPT ![n] = e] /\ agenda[x] # <<>>
       /\ QueueFits(agenda'[x], leases', now) /\ OldIds(agenda'[x], secrets')
       /\ Placed(agenda'[x]) /\ UrgentFor(agenda'[x], n)
       /\ \A c \in Client \ {x} : QueueFits(agenda[c], leases', now)
  BY <1>1, <1>3, <1>4, <1>5, <1>12, <1>14, <1>15, <1>17, <1>18 DEF a, b, ls
<1> QED BY <1>1, <1>2, <1>4, <1>5, <1>10, <1>19, <1>20, LeaseWritten

\* The lease l is dropped by x, a client or a checker.
LEMMA DeleteKnown ==
    ASSUME LeaseInv, TypeInv', NEW x \in Thread, DeleteLeaseEntry(x) PROVE LeaseInv'
<1> DEFINE a == agenda[x]
           b == agenda'[x]
           s == <<>>
<1>0. TypeOK
  BY DEF LeaseInv, TypeInv
<1>1. /\ a # <<>> /\ Task(x).do = "drop" /\ Task(x).id \in Lease
      /\ leases' = [leases EXCEPT ![Task(x).id] = None] /\ Then(x, s)
  BY <1>0, DeleteScript
<1>2. /\ index' = index /\ queue' = queue /\ managers' = managers /\ status' = status
      /\ looping' = looping /\ now' = now /\ secrets' = secrets
  BY DEF DeleteLeaseEntry, checkVars, boundVars
<1>3. s \in Seq(Tasks)
  OBVIOUS
<1>4. /\ agenda \in [Thread -> Seq(Tasks)] /\ a \in Seq(Tasks) /\ a[1] = Task(x)
      /\ b = s \o Tail(a) /\ \A y \in Thread \ {x} : agenda'[y] = agenda[y]
  BY <1>0, <1>1, <1>3, ThenAgenda, HeadTask DEF TypeOK
<1>5. leases \in [Lease -> LeaseEntry \cup {None}] /\ now \in Nat /\ now <= now
  BY <1>0, ExpiryOK DEF TypeOK
<1>6. /\ \A l \in Lease : leases'[l] # None => leases'[l] = leases[l]
      /\ \A l : leases[l] = None => leases'[l] = None
      /\ leases'[Task(x).id] = None
  BY <1>1, <1>5
<1>7. LeaseTimes'
  BY <1>2, <1>6, Numbers DEF LeaseInv, LeaseTimes
<1>8. ThreadsFit'
  BY <1>1, <1>2, <1>4, Numbers DEF LeaseInv, ThreadsFit
<1>9. \A c \in Client : QueueFits(agenda[c], leases', now)
  <2> SUFFICES ASSUME NEW c \in Client PROVE QueueFits(agenda[c], leases', now)
    OBVIOUS
  <2>1. agenda[c] \in Seq(Tasks) /\ QueueFits(agenda[c], leases, now)
    BY <1>4, Numbers DEF LeaseInv, AgendasFit
  <2> QED BY <1>5, <1>6, <2>1, QueueStays
<1> HIDE DEF b, s
<1>10. DOMAIN s = {} /\ OldIds(s, secrets) /\ QueueFits(s, leases', now)
  BY DEF s, OldIds, QueueFits
<1>11. OldIds(b, secrets)
  <2>1. OldIds(a, secrets)
    BY DEF LeaseInv, AgendasFit
  <2> HIDE DEF a
  <2> QED BY <1>1, <1>3, <1>4, <1>10, <2>1, ShiftOld
<1>12. x \in Client => Placed(b) /\ QueueFits(b, leases', now)
  <2> SUFFICES ASSUME x \in Client PROVE Placed(b) /\ QueueFits(b, leases', now)
    OBVIOUS
  <2>1. Placed(a) /\ QueueFits(a, leases', now)
    BY <1>9 DEF LeaseInv, AgendasFit
  <2>2. a[1].do # "tie"
    BY <1>1, <1>4
  <2>6. a[1].do = "drop" => leases'[a[1].id] = None
    BY <1>1, <1>4, <1>6
  <2>3. \A i \in DOMAIN s : ~Urgent(s[i])
    BY <1>10
  <2> HIDE DEF a
  <2>4. Placed(b)
    BY <1>1, <1>3, <1>4, <2>1, <2>2, <2>3, ShiftPlaced
  <2>5. QueueFits(b, leases', now)
    <3>1. a # <<>> /\ a \in Seq(Tasks) /\ b = s \o Tail(a) /\ s \in Seq(Tasks)
      BY <1>1, <1>3, <1>4
    <3>2. QueueFits(a, leases', now) /\ QueueFits(s, leases', now)
      BY <1>10, <2>1
    <3> QED BY <2>6, <3>1, <3>2, ShiftQueue
  <2> QED BY <2>4, <2>5
<1>13. AgendasFit'
  <2>1. \A y \in Thread : OldIds(agenda'[y], secrets')
    BY <1>2, <1>4, <1>11 DEF LeaseInv, AgendasFit, b
  <2>2. \A c \in Client : Placed(agenda'[c]) /\ QueueFits(agenda'[c], leases', now')
    BY <1>2, <1>4, <1>9, <1>12, Numbers DEF LeaseInv, AgendasFit, b
  <2> QED BY <2>1, <2>2 DEF AgendasFit
<1>14. \A l : Announced(agenda, l) => Announced(agenda', l)
  <2> SUFFICES ASSUME NEW l, Announced(agenda, l) PROVE Announced(agenda', l)
    OBVIOUS
  <2>1. ~Urgent(a[1])
    BY <1>1, <1>4 DEF Urgent
  <2>2. UrgentFor(a, l) => UrgentFor(b, l)
    <3> HIDE DEF a
    <3> QED BY <1>1, <1>3, <1>4, <2>1, ShiftUrgent
  <2> QED BY <1>4, <2>2, AnnouncedStays DEF b
<1>15. QueueInv'
  <2> SUFFICES ASSUME status = "ready" PROVE QueueInv'
    BY <1>2 DEF QueueInv
  <2>1. \A l \in Lease : Known(l, leases', queue[managers], agenda')
    BY <1>6, <1>14 DEF LeaseInv, QueueInv, Known
  <2>2. PopFits(agenda[managers], leases', agenda')
    <3>1. PopFits(agenda[managers], leases, agenda)
      BY DEF LeaseInv, QueueInv
    <3> QED BY <1>6, <1>14, <3>1, PopStays
  <2>3. PopFits(agenda'[managers], leases', agenda')
    <3>1. CASE managers = x
      <4>1. PopFits(a, leases', agenda')
        BY <2>2, <3>1
      <4>2. leases'[a[1].id] = None /\ \A i \in DOMAIN s : s[i].do # "pop"
        BY <1>4, <1>6, <1>10
      <4>3. PopFits(b, leases', agenda')
        <5> HIDE DEF a
        <5>1. a # <<>> /\ a \in Seq(Tasks) /\ b = s \o Tail(a) /\ s \in Seq(Tasks)
          BY <1>1, <1>3, <1>4
        <5>2. \A i \in DOMAIN s : s[i].do # "pop"
          BY <4>2
        <5>3. a[1].do \in {"expire", "drop"} =>
                \/ leases'[a[1].id] = None
                \/ \E j \in DOMAIN s : s[j].do = "drop" /\ s[j].id = a[1].id
          BY <4>2
        <5> QED BY <4>1, <5>1, <5>2, <5>3, ShiftPop
      <4> QED BY <3>1, <4>3 DEF b
    <3>2. CASE managers # x
      <4>1. managers \in Thread
        BY Numbers DEF LeaseInv, ThreadsFit
      <4> QED BY <1>4, <2>2, <3>2, <4>1
    <3> QED BY <3>1, <3>2
  <2> QED BY <1>2, <2>1, <2>3 DEF QueueInv
<1> QED BY <1>7, <1>8, <1>13, <1>15 DEF LeaseInv



-----------------------------------------------------------------------------
(* Steps that have to do with no lease *)

LEMMA IdleHarmless ==
    ASSUME NEW s, \A i \in DOMAIN s : Idle(s[i]) PROVE Harmless(s)
<1>1. \A i \in DOMAIN s : s[i].do \notin {"enqueue", "tie", "pop"} /\ ~Urgent(s[i])
  BY DEF Idle, Urgent
<1>2. OldIds(s, secrets) /\ QueueFits(s, leases, now)
  BY <1>1 DEF OldIds, QueueFits
<1> QED BY <1>1, <1>2 DEF Harmless

LEMMA FewHarmless ==
    /\ Harmless(<<>>)
    /\ \A k \in Tasks : Idle(k) => Harmless(<<k>>)
    /\ \A k, m \in Tasks : Idle(k) /\ Idle(m) => Harmless(<<k, m>>)
    /\ \A k, m, r \in Tasks : Idle(k) /\ Idle(m) /\ Idle(r) => Harmless(<<k, m, r>>)
<1>1. Harmless(<<>>)
  <2>1. \A i \in DOMAIN <<>> : Idle(<<>>[i])
    OBVIOUS
  <2> QED BY <2>1, IdleHarmless
<1>2. ASSUME NEW k \in Tasks, Idle(k) PROVE Harmless(<<k>>)
  <2>1. \A i \in DOMAIN <<k>> : Idle(<<k>>[i])
    BY <1>2
  <2> QED BY <2>1, IdleHarmless
<1>3. ASSUME NEW k \in Tasks, NEW m \in Tasks, Idle(k), Idle(m) PROVE Harmless(<<k, m>>)
  <2>1. \A i \in DOMAIN <<k, m>> : Idle(<<k, m>>[i])
    BY <1>3
  <2> QED BY <2>1, IdleHarmless
<1>4. ASSUME NEW k \in Tasks, NEW m \in Tasks, NEW r \in Tasks, Idle(k), Idle(m), Idle(r)
      PROVE  Harmless(<<k, m, r>>)
  <2>1. \A i \in DOMAIN <<k, m, r>> : Idle(<<k, m, r>>[i])
    BY <1>4
  <2> QED BY <2>1, IdleHarmless
<1> QED BY <1>1, <1>2, <1>3, <1>4

\* The tasks a quiet step goes on with.
LEMMA IdleTasks ==
    /\ \A do \in OnToken, n \in Token : Idle(T(do, n))
    /\ \A n \in Token : \A e : Idle(UseTask(n, e)) /\ Idle(PutTask(n, e))
    /\ \A n \in Token, p \in Token : Idle(LinkTask(n, p)) /\ Idle(UnlinkTask(n, p))
BY DEF Idle, T, OnToken, UseTask, PutTask, LinkTask, UnlinkTask

\* What a quiet step leaves alone.
Frame ==
    /\ leases' = leases /\ queue' = queue /\ managers' = managers /\ status' = status
    /\ looping' = looping /\ now' = now /\ secrets' = secrets /\ index' \subseteq index

LEMMA QuietThen ==
    ASSUME LeaseInv, TypeInv', NEW x \in Thread, agenda[x] # <<>>, Idle(Task(x)),
           NEW s \in Seq(Tasks), Harmless(s), Then(x, s), Frame
    PROVE  LeaseInv'
<1>1. /\ UNCHANGED <<leases, queue, managers, status, looping, now, secrets>>
      /\ index' \subseteq index
  BY DEF Frame
<1> QED BY <1>1, QuietStep

LEMMA QuietEnd ==
    ASSUME LeaseInv, TypeInv', NEW x \in Thread, agenda[x] # <<>>, Idle(Task(x)),
           Drop(x), Frame, index' = index
    PROVE  LeaseInv'
<1>1. /\ UNCHANGED <<leases, queue, managers, status, now, secrets, index>>
      /\ looping' \subseteq looping /\ \A y \in looping \ looping' : y = x
  BY DEF Frame
<1>2. x \in Client => Task(x).do \notin {"enqueue", "tie"}
  BY DEF Idle
<1> QED BY <1>1, <1>2, QuietDrop

LEMMA CheckKnown ==
    ASSUME LeaseInv, TypeInv', NEW x \in Thread, Check(x) PROVE LeaseInv'
<1>0. TypeOK
  BY DEF LeaseInv, TypeInv
<1> DEFINE t == Task(x).id
<1>1. /\ agenda[x] # <<>> /\ Task(x).do = "check" /\ t \in Token
      /\ \/ Drop(x)
         \/ Then(x, <<>>)
         \/ Then(x, <<T("revoke", t)>>)
         \/ /\ tokens[t] # None /\ tokens[t].num_uses \in Nat \ {0, 1}
            /\ Then(x, <<UseTask(t, tokens[t])>>)
  BY <1>0, CheckScript
<1>2. Frame /\ index' = index
  BY DEF Check, Frame, storageVars, checkVars, boundVars
<1>3. Idle(Task(x))
  BY <1>1 DEF Idle
<1>4. CASE Drop(x)
  BY <1>1, <1>2, <1>3, <1>4, QuietEnd
<1>5. CASE Then(x, <<>>)
  <2>1. <<>> \in Seq(Tasks) /\ Harmless(<<>>)
    BY FewHarmless
  <2> QED BY <1>1, <1>2, <1>3, <1>5, <2>1, QuietThen
<1>6. CASE Then(x, <<T("revoke", t)>>)
  <2> DEFINE k == T("revoke", t)
  <2>1. k \in Tasks /\ Idle(k)
    BY <1>1, TaskMade, IdleTasks DEF OnToken
  <2>2. Then(x, <<k>>)
    BY <1>6
  <2> HIDE DEF k
  <2>3. <<k>> \in Seq(Tasks) /\ Harmless(<<k>>)
    BY <2>1, FewHarmless
  <2> QED BY <1>1, <1>2, <1>3, <2>2, <2>3, QuietThen
<1>7. CASE /\ tokens[t] # None /\ tokens[t].num_uses \in Nat \ {0, 1}
           /\ Then(x, <<UseTask(t, tokens[t])>>)
  <2> DEFINE k == UseTask(t, tokens[t])
  <2>0. tokens[t] \in TokenEntry
    BY <1>0, <1>1, <1>7 DEF TypeOK
  <2>1. k \in Tasks /\ Idle(k)
    BY <1>1, <1>7, <2>0, UseTyped, IdleTasks
  <2>2. Then(x, <<k>>)
    BY <1>7
  <2> HIDE DEF k
  <2>3. <<k>> \in Seq(Tasks) /\ Harmless(<<k>>)
    BY <2>1, FewHarmless
  <2> QED BY <1>1, <1>2, <1>3, <2>2, <2>3, QuietThen
<1> QED BY <1>1, <1>4, <1>5, <1>6, <1>7


LEMMA CreateKnown ==
    ASSUME LeaseInv, TypeInv', NEW x \in Thread, HandleCreate(x) PROVE LeaseInv'
<1>0. TypeOK
  BY DEF LeaseInv, TypeInv
<1> DEFINE t == Task(x).id
           req == Task(x).req
           n == issued + 1
           p == ParentFor(t, req)
           e == NewEntry(p, req)
<1>1. /\ agenda[x] # <<>> /\ Task(x).do = "create" /\ t \in Token /\ req \in TokenReq
      /\ \/ Drop(x)
         \/ /\ issued < MaxTokens
            /\ \/ Then(x, <<PutTask(n, e)>>)
               \/ p # None /\ Then(x, <<T("parent", p), LinkTask(n, p), PutTask(n, e)>>)
  BY <1>0, CreateScript
<1>2. Frame /\ index' = index
  BY DEF HandleCreate, Frame, storageVars, checkVars
<1>3. Idle(Task(x))
  BY <1>1 DEF Idle
<1>4. CASE Drop(x)
  BY <1>1, <1>2, <1>3, <1>4, QuietEnd
<1>5. p \in Token \cup {None}
  BY <1>1 DEF ParentFor
<1>6. ASSUME issued < MaxTokens PROVE n \in Token
  BY <1>0, <1>6, BoundsAssumption DEF TypeOK, Token
<1> HIDE DEF n, p, req
<1>7. CASE issued < MaxTokens /\ Then(x, <<PutTask(n, e)>>)
  <2> DEFINE k == PutTask(n, e)
  <2>1. k \in Tasks /\ Idle(k)
    BY <1>1, <1>5, <1>6, <1>7, NewTyped, IdleTasks
  <2>2. Then(x, <<k>>)
    BY <1>7
  <2> HIDE DEF k
  <2>3. <<k>> \in Seq(Tasks) /\ Harmless(<<k>>)
    BY <2>1, FewHarmless
  <2> QED BY <1>1, <1>2, <1>3, <2>2, <2>3, QuietThen
<1>8. CASE /\ issued < MaxTokens /\ p # None
           /\ Then(x, <<T("parent", p), LinkTask(n, p), PutTask(n, e)>>)
  <2> DEFINE k == T("parent", p)
             m == LinkTask(n, p)
             r == PutTask(n, e)
  <2>1. p \in Token
    BY <1>5, <1>8
  <2>2. k \in Tasks /\ Idle(k)
    BY <2>1, TaskMade, IdleTasks DEF OnToken
  <2>3. m \in Tasks /\ Idle(m) /\ r \in Tasks /\ Idle(r)
    BY <1>1, <1>5, <1>6, <1>8, <2>1, NewTyped, IdleTasks
  <2>4. Then(x, <<k, m, r>>)
    BY <1>8
  <2> HIDE DEF k, m, r
  <2>5. <<k, m, r>> \in Seq(Tasks) /\ Harmless(<<k, m, r>>)
    BY <2>2, <2>3, FewHarmless
  <2> QED BY <1>1, <1>2, <1>3, <2>4, <2>5, QuietThen
<1> QED BY <1>1, <1>4, <1>7, <1>8

\* The steps that only take their task off the agenda, or end the request.
LEMMA ShortKnown ==
    ASSUME LeaseInv, TypeInv', NEW x \in Thread,
           Put(x) \/ CreateParent(x) \/ CreateIndex(x) \/ RevokeParent(x)
           \/ RemoveIndexByToken(x) \/ (x \in Client /\ Answer(x))
    PROVE  LeaseInv'
<1>0. TypeOK
  BY DEF LeaseInv, TypeInv
<1>1. /\ agenda[x] # <<>>
      /\ Task(x).do \in {"use", "put", "parent", "index", "unparent", "unindex", "reply"}
      /\ Then(x, <<>>) \/ (Drop(x) /\ CreateParent(x))
  BY <1>0, PutScript, ParentScript, LinkScript, UnlinkScript, UntieScript, AnswerScript
<1>2. Idle(Task(x))
  BY <1>1 DEF Idle
<1>3. Frame
  <2>1. CASE Put(x)
    BY <2>1 DEF Put, Frame, checkVars, boundVars
  <2>2. CASE CreateParent(x)
    BY <2>2 DEF CreateParent, Frame, storageVars, checkVars, boundVars
  <2>3. CASE CreateIndex(x)
    BY <2>3 DEF CreateIndex, Frame, checkVars, boundVars
  <2>4. CASE RevokeParent(x)
    BY <2>4 DEF RevokeParent, Frame, checkVars, boundVars
  <2>5. CASE RemoveIndexByToken(x)
    BY <2>5 DEF RemoveIndexByToken, Frame, checkVars, boundVars
  <2>6. CASE Answer(x)
    BY <2>6 DEF Answer, Frame, storageVars, checkVars, boundVars
  <2> QED BY <2>1, <2>2, <2>3, <2>4, <2>5, <2>6
<1>4. CASE Then(x, <<>>)
  <2>1. <<>> \in Seq(Tasks) /\ Harmless(<<>>)
    BY FewHarmless
  <2> QED BY <1>1, <1>2, <1>3, <1>4, <2>1, QuietThen
<1>5. CASE Drop(x) /\ CreateParent(x)
  <2>1. index' = index
    BY <1>5 DEF CreateParent, storageVars
  <2> QED BY <1>1, <1>2, <1>3, <1>5, <2>1, QuietEnd
<1> QED BY <1>1, <1>4, <1>5

LEMMA PostRouteKnown ==
    ASSUME LeaseInv, TypeInv', NEW x \in Thread, PostRoute(x) PROVE LeaseInv'
<1> DEFINE k == T("lease", issued + 1)
<1>1. agenda[x] # <<>> /\ Task(x).do = "token" /\ issued + 1 \in Token /\ Then(x, <<k>>)
  BY PostRouteScript DEF LeaseInv, TypeInv
<1>2. Frame
  BY DEF PostRoute, Frame, checkVars
<1>3. Idle(Task(x)) /\ Idle(k) /\ k \in Tasks
  BY <1>1, TaskMade, IdleTasks DEF Idle, OnToken
<1> HIDE DEF k
<1>4. <<k>> \in Seq(Tasks) /\ Harmless(<<k>>)
  BY <1>3, FewHarmless
<1> QED BY <1>1, <1>2, <1>3, <1>4, QuietThen

LEMMA RenewKnown ==
    ASSUME LeaseInv, TypeInv', NEW x \in Thread, RenewToken(x) PROVE LeaseInv'
<1> DEFINE k == T("renewal", Task(x).id)
<1>1. /\ agenda[x] # <<>> /\ Task(x).do = "renew" /\ Task(x).id \in Token
      /\ Drop(x) \/ Then(x, <<k>>)
  BY RenewScript DEF LeaseInv, TypeInv
<1>2. Frame /\ index' = index
  BY DEF RenewToken, Frame, storageVars, checkVars, boundVars
<1>3. Idle(Task(x)) /\ Idle(k) /\ k \in Tasks
  BY <1>1, TaskMade, IdleTasks DEF Idle, OnToken
<1>4. CASE Drop(x)
  BY <1>1, <1>2, <1>3, <1>4, QuietEnd
<1> HIDE DEF k
<1>5. CASE Then(x, <<k>>)
  <2>1. <<k>> \in Seq(Tasks) /\ Harmless(<<k>>)
    BY <1>3, FewHarmless
  <2> QED BY <1>1, <1>2, <1>3, <1>5, <2>1, QuietThen
<1> QED BY <1>1, <1>4, <1>5

LEMMA TreeKnown ==
    ASSUME LeaseInv, TypeInv', NEW x \in Thread, RevokeTree(x) PROVE LeaseInv'
<1> DEFINE t == Task(x).id
<1>1. agenda[x] # <<>> /\ Task(x).do = "tree" /\ t \in Token
  BY TreeScript DEF LeaseInv, TypeInv
<1>2. PICK s \in Seq(Tasks) :
        /\ Then(x, s)
        /\ \A i \in DOMAIN s : s[i] = T("revoke", t) \/ \E n \in ChildrenOf(t) : s[i] = T("tree", n)
  BY TreeScript DEF LeaseInv, TypeInv
<1>3. Frame
  BY DEF RevokeTree, Frame, storageVars, checkVars, boundVars
<1>4. \A i \in DOMAIN s : Idle(s[i])
  <2>1. Idle(T("revoke", t)) /\ \A n \in ChildrenOf(t) : Idle(T("tree", n))
    BY <1>1, IdleTasks DEF OnToken, ChildrenOf
  <2> QED BY <1>2, <2>1
<1>5. Harmless(s)
  BY <1>4, IdleHarmless
<1>6. Idle(Task(x))
  BY <1>1 DEF Idle
<1> QED BY <1>1, <1>2, <1>3, <1>5, <1>6, QuietThen

LEMMA RevokeKnown ==
    ASSUME LeaseInv, TypeInv', NEW x \in Thread, Revoke(x) PROVE LeaseInv'
<1> DEFINE t == Task(x).id
           k == T("secrets", t)
           m == UnlinkTask(t, tokens[t].parent)
<1>1. /\ agenda[x] # <<>> /\ Task(x).do = "revoke" /\ t \in Token
      /\ \/ Then(x, <<>>)
         \/ Then(x, <<k>>)
         \/ m \in Tasks /\ tokens[t].parent \in Token /\ Then(x, <<m, k>>)
  BY RevokeScript DEF LeaseInv, TypeInv
<1>2. Frame
  BY DEF Revoke, Frame, checkVars, boundVars
<1>3. Idle(Task(x)) /\ Idle(k) /\ k \in Tasks /\ (tokens[t].parent \in Token => Idle(m))
  BY <1>1, TaskMade, IdleTasks DEF Idle, OnToken
<1> HIDE DEF k, m
<1>4. CASE Then(x, <<>>)
  <2>1. <<>> \in Seq(Tasks) /\ Harmless(<<>>)
    BY FewHarmless
  <2> QED BY <1>1, <1>2, <1>3, <1>4, <2>1, QuietThen
<1>5. CASE Then(x, <<k>>)
  <2>1. <<k>> \in Seq(Tasks) /\ Harmless(<<k>>)
    BY <1>3, FewHarmless
  <2> QED BY <1>1, <1>2, <1>3, <1>5, <2>1, QuietThen
<1>6. CASE m \in Tasks /\ tokens[t].parent \in Token /\ Then(x, <<m, k>>)
  <2>1. <<m, k>> \in Seq(Tasks) /\ Harmless(<<m, k>>)
    BY <1>3, <1>6, FewHarmless
  <2> QED BY <1>1, <1>2, <1>3, <1>6, <2>1, QuietThen
<1> QED BY <1>1, <1>4, <1>5, <1>6


\* A secret is put at 0 after it was dropped.
LEMMA ByTokenKnown ==
    ASSUME LeaseInv, TypeInv', NEW x \in Thread, RevokeByToken(x) PROVE LeaseInv'
<1> DEFINE t == Task(x).id
<1>0. TypeOK
  BY DEF LeaseInv, TypeInv
<1>1. agenda[x] # <<>> /\ Task(x).do = "secrets" /\ t \in Token
  BY <1>0, ByTokenScript
<1>2. PICK s \in Seq(Tasks) : Then(x, s) /\ SecretsGone(s, t)
  BY <1>0, ByTokenScript
<1>3. Frame
  BY DEF RevokeByToken, Frame, storageVars, checkVars, boundVars
<1>4. Idle(Task(x))
  BY <1>1 DEF Idle
<1>5. \A l \in SecretLease : <<t, l>> \in index => l <= MaxTokens + secrets
  <2> SUFFICES ASSUME NEW l \in SecretLease, <<t, l>> \in index PROVE l <= MaxTokens + secrets
    OBVIOUS
  <2>1. ~(l > MaxTokens + secrets)
    BY <1>1 DEF LeaseInv, LeaseTimes
  <2>2. l \in Nat /\ MaxTokens + secrets \in Nat
    BY <1>0, Numbers, BoundsAssumption DEF TypeOK
  <2> QED BY <2>1, <2>2
<1> HIDE DEF t
<1>6. ASSUME NEW i \in DOMAIN s
      PROVE  \E l \in SecretLease : /\ <<t, l>> \in index
               /\ \/ s[i].do \in {"drop", "unindex"}
                  \/ /\ s[i].do = "enqueue" /\ s[i].id = l /\ s[i].priority = 0
                     /\ i > 2 /\ s[i - 2].do = "drop" /\ s[i - 2].id = l
  <2>1. PICK l \in {k \in SecretLease : <<t, k>> \in index} :
            \/ s[i] = T("drop", l)
            \/ s[i] = UntieTask(l, t)
            \/ s[i] = Enqueue(l, 0) /\ i > 2 /\ s[i - 2] = T("drop", l)
    BY <1>2 DEF SecretsGone
  <2>2. /\ T("drop", l).do = "drop" /\ T("drop", l).id = l /\ UntieTask(l, t).do = "unindex"
        /\ Enqueue(l, 0).do = "enqueue" /\ Enqueue(l, 0).id = l /\ Enqueue(l, 0).priority = 0
    BY DEF T, UntieTask, Enqueue
  <2> QED BY <2>1, <2>2
<1>7. \A i \in DOMAIN s : s[i].do \notin {"tie", "pop"} /\ ~Urgent(s[i])
  BY <1>6 DEF Urgent
<1>8. OldIds(s, secrets)
  BY <1>5, <1>6 DEF OldIds
<1>9. QueueFits(s, leases, now)
  <2> SUFFICES ASSUME NEW i \in DOMAIN s, s[i].do = "enqueue" PROVE EnqueueFits(s, i, leases, now)
    BY DEF QueueFits
  <2>1. PICK l \in SecretLease :
           /\ s[i].id = l /\ s[i].priority = 0
           /\ i > 2 /\ s[i - 2].do = "drop" /\ s[i - 2].id = l
    BY <1>6
  <2>2. i - 2 \in DOMAIN s /\ i - 2 < i
    <3>1. DOMAIN s = 1 .. Len(s) /\ Len(s) \in Nat
      BY LenProperties
    <3> QED BY <2>1, <3>1
  <2>3. DroppedBefore(s, i, l)
    BY <2>1, <2>2 DEF DroppedBefore
  <2> QED BY <2>1, <2>3 DEF EnqueueFits
<1>10. Harmless(s)
  BY <1>7, <1>8, <1>9 DEF Harmless
<1> QED BY <1>1, <1>2, <1>3, <1>4, <1>10, QuietThen

\* The index of a secret is written, and its lease is the next to be put in
\* the queue.
LEMMA TieKnown ==
    ASSUME LeaseInv, TypeInv', NEW x \in Client, CreateIndexByToken(x) PROVE LeaseInv'
<1> DEFINE a == agenda[x]
           b == agenda'[x]
           s == <<>>
<1>0. TypeOK /\ x \in Thread /\ x \notin Manager
  BY Numbers DEF LeaseInv, TypeInv
<1>1. /\ a # <<>> /\ Task(x).do = "tie" /\ Task(x).id \in SecretLease /\ Then(x, s)
  BY <1>0, TieScript
<1>2. /\ leases' = leases /\ queue' = queue /\ managers' = managers /\ status' = status
      /\ looping' = looping /\ now' = now /\ secrets' = secrets
      /\ index' = index \cup {<<Task(x).token, Task(x).id>>}
  BY DEF CreateIndexByToken, checkVars, boundVars
<1>3. s \in Seq(Tasks)
  OBVIOUS
<1>4. /\ agenda \in [Thread -> Seq(Tasks)] /\ a \in Seq(Tasks) /\ a[1] = Task(x)
      /\ 1 \in DOMAIN a
      /\ b = s \o Tail(a) /\ \A y \in Thread \ {x} : agenda'[y] = agenda[y]
  BY <1>0, <1>1, <1>3, ThenAgenda, HeadTask DEF TypeOK
<1>5. OldIds(a, secrets) /\ Placed(a) /\ QueueFits(a, leases, now)
  BY <1>0 DEF LeaseInv, AgendasFit
<1>6. Task(x).id <= MaxTokens + secrets
  BY <1>1, <1>4, <1>5 DEF OldIds
<1>7. LeaseTimes'
  <2>1. ~(Task(x).id > MaxTokens + secrets)
    <3>1. Task(x).id \in Nat /\ MaxTokens + secrets \in Nat
      <4>1. secrets \in 0 .. MaxSecrets
        BY <1>0 DEF TypeOK
      <4>2. MaxTokens + secrets \in Nat
        BY <4>1, BoundsAssumption
      <4>3. Task(x).id \in Nat
        BY <1>1, Numbers
      <4> QED BY <4>2, <4>3
    <3> QED BY <1>6, <3>1
  <2>2. LeaseTimes
    BY DEF LeaseInv
  <2>3. \A l \in SecretLease : l > MaxTokens + secrets =>
          leases[l] = None /\ \A t \in Token : <<t, l>> \notin index'
    BY <1>2, <2>1, <2>2 DEF LeaseTimes
  <2> QED BY <1>2, <2>2, <2>3 DEF LeaseTimes
<1>8. ThreadsFit'
  <2>1. \A y \in Thread : agenda'[y] # <<>> => agenda[y] # <<>>
    BY <1>1, <1>4
  <2> QED BY <1>2, <2>1, Numbers DEF LeaseInv, ThreadsFit
<1> HIDE DEF a, b, s
<1>9. /\ a \in Seq(Tasks) /\ a # <<>> /\ s \in Seq(Tasks) /\ b = s \o Tail(a)
  BY <1>1, <1>3, <1>4
<1>10. DOMAIN s = {} /\ Len(s) = 0 /\ OldIds(s, secrets) /\ QueueFits(s, leases, now)
  BY DEF s, OldIds, QueueFits
<1>11. OldIds(b, secrets)
  BY <1>5, <1>9, <1>10, ShiftOld
<1>12. QueueFits(b, leases, now)
  <2>1. a[1].do = "drop" => leases[a[1].id] = None
    BY <1>1, <1>4
  <2> QED BY <1>5, <1>9, <1>10, <2>1, ShiftQueue
<1>13. Placed(b)
  <2> SUFFICES ASSUME NEW i \in DOMAIN b, Urgent(b[i]) PROVE i = 1
    BY DEF Placed
  <2>1. i - Len(s) + 1 \in DOMAIN a /\ i - Len(s) + 1 > 1 /\ b[i] = a[i - Len(s) + 1]
    <3>1. \/ i \in DOMAIN s /\ b[i] = s[i]
          \/ /\ i > Len(s) /\ i - Len(s) + 1 \in DOMAIN a /\ i - Len(s) + 1 > 1
             /\ b[i] = a[i - Len(s) + 1]
      BY <1>9, Shift
    <3> QED BY <1>10, <3>1
  <2>2. DOMAIN b = 1 .. Len(b)
    BY <1>9, Shift
  <2>3. i \in Nat /\ i - Len(s) + 1 = i + 1
    BY <1>9, <1>10, <2>2
  <2>4. i + 1 \in DOMAIN a /\ Urgent(a[i + 1]) /\ i + 1 > 1
    BY <2>1, <2>3
  <2>5. i + 1 = 1 \/ i + 1 = 2
    BY <1>5, <2>4 DEF Placed
  <2> QED BY <2>3, <2>4, <2>5
<1>14. AgendasFit'
  <2>1. \A y \in Thread : OldIds(agenda'[y], secrets')
    BY <1>2, <1>4, <1>11 DEF LeaseInv, AgendasFit, b
  <2>2. \A c \in Client : Placed(agenda'[c]) /\ QueueFits(agenda'[c], leases', now')
    BY <1>2, <1>4, <1>12, <1>13, Numbers DEF LeaseInv, AgendasFit, b
  <2> QED BY <2>1, <2>2 DEF AgendasFit
<1>15. \A l : Announced(agenda, l) => Announced(agenda', l)
  <2> SUFFICES ASSUME NEW l, Announced(agenda, l) PROVE Announced(agenda', l)
    OBVIOUS
  <2>1. ~Urgent(a[1])
    BY <1>1, <1>4 DEF Urgent
  <2>2. UrgentFor(a, l) => UrgentFor(b, l)
    BY <1>9, <2>1, ShiftUrgent
  <2> QED BY <1>0, <1>4, <2>2, AnnouncedStays DEF a, b
<1>16. QueueInv'
  <2> SUFFICES ASSUME status = "ready" PROVE QueueInv'
    BY <1>2 DEF QueueInv
  <2>1. \A l \in Lease : Known(l, leases, queue[managers], agenda')
    BY <1>15 DEF LeaseInv, QueueInv, Known
  <2>2. PopFits(agenda[managers], leases, agenda')
    <3>1. PopFits(agenda[managers], leases, agenda)
      BY DEF LeaseInv, QueueInv
    <3> QED BY <1>15, <3>1, PopStays
  <2>3. agenda'[managers] = agenda[managers]
    <3>1. managers \in Manager /\ managers \in Thread
      BY Numbers DEF LeaseInv, ThreadsFit
    <3> QED BY <1>0, <1>4, <3>1
  <2> QED BY <1>2, <2>1, <2>2, <2>3 DEF QueueInv
<1> QED BY <1>7, <1>8, <1>14, <1>16 DEF LeaseInv


-----------------------------------------------------------------------------
(* Steps that change the queue, and those of a checker *)

\* A checker has nothing to put in the queue: its lock is its own.
LEMMA QueueByClient ==
    ASSUME LeaseInv, NEW x \in Thread, RegisterLeaseEntry(x) PROVE x \in Client
<1>1. agenda[x] # <<>> /\ QueueOf(x) \notin looping
  BY QueueScript DEF LeaseInv, TypeInv
<1> SUFFICES ASSUME x \notin Client PROVE FALSE
  OBVIOUS
<1>2. x \in Manager /\ QueueOf(x) = x
  BY DEF Thread, QueueOf
<1> QED BY <1>1, <1>2 DEF LeaseInv, ThreadsFit

LEMMA QueueKnown ==
    ASSUME LeaseInv, TypeInv', NEW x \in Thread, RegisterLeaseEntry(x) PROVE LeaseInv'
<1> DEFINE a == agenda[x]
           b == agenda'[x]
           s == <<>>
           n == Task(x).id
           p == Task(x).priority
<1>0. TypeOK /\ x \in Client /\ x \notin Manager
  BY QueueByClient, Numbers DEF LeaseInv, TypeInv
<1>1. /\ a # <<>> /\ Task(x).do = "enqueue" /\ n \in Lease /\ p \in Expiry
      /\ managers \notin looping
      /\ queue' = [queue EXCEPT ![managers] = [@ EXCEPT ![n] = p]] /\ Then(x, s)
  BY <1>0, QueueScript DEF QueueOf
<1>2. /\ leases' = leases /\ managers' = managers /\ status' = status /\ index' = index
      /\ looping' = looping /\ now' = now /\ secrets' = secrets
  BY DEF RegisterLeaseEntry, storageVars, boundVars
<1>3. s \in Seq(Tasks)
  OBVIOUS
<1>4. /\ agenda \in [Thread -> Seq(Tasks)] /\ a \in Seq(Tasks) /\ a[1] = Task(x)
      /\ 1 \in DOMAIN a
      /\ b = s \o Tail(a) /\ \A y \in Thread \ {x} : agenda'[y] = agenda[y]
  BY <1>0, <1>1, <1>3, ThenAgenda, HeadTask DEF TypeOK
<1>5. OldIds(a, secrets) /\ Placed(a) /\ QueueFits(a, leases, now)
  BY <1>0 DEF LeaseInv, AgendasFit
<1>6. LeaseTimes'
  BY <1>2 DEF LeaseInv, LeaseTimes
<1>7. ThreadsFit'
  <2>1. \A y \in Thread : agenda'[y] # <<>> => agenda[y] # <<>>
    BY <1>1, <1>4
  <2> QED BY <1>2, <2>1, Numbers DEF LeaseInv, ThreadsFit
<1>8. /\ p = 0 => leases[n] = None
      /\ p # 0 => (leases[n] # None => p <= leases[n].expire)
  <2>1. EnqueueFits(a, 1, leases, now)
    BY <1>1, <1>4, <1>5 DEF QueueFits
  <2>2. ~DroppedBefore(a, 1, n)
    <3>1. DOMAIN a = 1 .. Len(a)
      BY <1>4, LenProperties
    <3> QED BY <3>1 DEF DroppedBefore
  <2> HIDE DEF a
  <2> QED BY <1>4, <2>1, <2>2 DEF EnqueueFits
<1>9. /\ queue \in [Manager -> [Lease -> Expiry \cup {None}]]
      /\ leases \in [Lease -> LeaseEntry \cup {None}]
  BY <1>0 DEF TypeOK
<1> HIDE DEF a, b, s, n, p
<1>10. a \in Seq(Tasks) /\ a # <<>> /\ s \in Seq(Tasks) /\ b = s \o Tail(a)
  BY <1>1, <1>3, <1>4
<1>11. DOMAIN s = {} /\ OldIds(s, secrets) /\ QueueFits(s, leases, now)
  BY DEF s, OldIds, QueueFits
<1>12. OldIds(b, secrets)
  BY <1>5, <1>10, <1>11, ShiftOld
<1>13. QueueFits(b, leases, now)
  <2>1. a[1].do = "drop" => leases[a[1].id] = None
    BY <1>1, <1>4
  <2> QED BY <1>5, <1>10, <1>11, <2>1, ShiftQueue
<1>14. Placed(b)
  <2>1. a[1].do # "tie"
    BY <1>1, <1>4
  <2>2. \A i \in DOMAIN s : ~Urgent(s[i])
    BY <1>11
  <2> QED BY <1>5, <1>10, <2>1, <2>2, ShiftPlaced
<1>15. AgendasFit'
  <2>1. \A y \in Thread : OldIds(agenda'[y], secrets')
    BY <1>2, <1>4, <1>12 DEF LeaseInv, AgendasFit, b
  <2>2. \A c \in Client : Placed(agenda'[c]) /\ QueueFits(agenda'[c], leases', now')
    BY <1>2, <1>4, <1>13, <1>14, Numbers DEF LeaseInv, AgendasFit, b
  <2> QED BY <2>1, <2>2 DEF AgendasFit
<1>16. ASSUME NEW l, l # n, Announced(agenda, l) PROVE Announced(agenda', l)
  <2>1. UrgentFor(a, l) => UrgentFor(b, l)
    <3> SUFFICES ASSUME NEW i \in DOMAIN a, Urgent(a[i]), a[i].id = l PROVE UrgentFor(b, l)
      BY DEF UrgentFor
    <3>1. i > 1
      <4>1. DOMAIN a = 1 .. Len(a)
        BY <1>10, Shift
      <4>2. i # 1
        BY <1>4, <1>16 DEF n
      <4> QED BY <4>1, <4>2
    <3>2. i - 1 + Len(s) \in DOMAIN b /\ b[i - 1 + Len(s)] = a[i]
      BY <1>10, <3>1, ShiftTail
    <3> QED BY <3>2 DEF UrgentFor
  <2> QED BY <1>4, <1>16, <2>1, AnnouncedStays DEF a, b
<1>17. QueueInv'
  <2> SUFFICES ASSUME status = "ready" PROVE QueueInv'
    BY <1>2 DEF QueueInv
  <2>1. managers \in Manager /\ managers \in Thread
    BY Numbers DEF LeaseInv, ThreadsFit
  <2>2. agenda'[managers] = <<>>
    <3>1. agenda[managers] = <<>>
      BY <1>1, <2>1 DEF LeaseInv, ThreadsFit
    <3> QED BY <1>0, <1>4, <2>1, <3>1
  <2>3. PopFits(agenda'[managers], leases, agenda')
    BY <2>2 DEF PopFits
  <2>4. /\ queue'[managers][n] = p
        /\ \A l \in Lease \ {n} : queue'[managers][l] = queue[managers][l]
    BY <1>1, <1>9, <2>1
  <2>5. ASSUME NEW l \in Lease PROVE Known(l, leases, queue'[managers], agenda')
    <3>1. CASE l = n
      <4> SUFFICES ASSUME leases[l] # None PROVE p # None /\ p \in 1 .. leases[l].expire
        BY <2>4, <3>1 DEF Known
      <4>1. p # 0 /\ p <= leases[n].expire
        BY <1>8, <3>1
      <4>2. p \in Nat /\ p # None /\ leases[n].expire \in Nat
        BY <1>1, <1>9, <3>1, Numbers DEF LeaseEntry
      <4> QED BY <3>1, <4>1, <4>2
    <3>2. CASE l # n
      BY <1>16, <2>4, <3>2 DEF LeaseInv, QueueInv, Known
    <3> QED BY <3>1, <3>2
  <2> QED BY <1>2, <2>3, <2>5 DEF QueueInv
<1> QED BY <1>6, <1>7, <1>15, <1>17 DEF LeaseInv


\* What a checker does next changes no client's agenda.
LEMMA ClientsSame ==
    ASSUME NEW e \in Manager, \A y \in Thread \ {e} : agenda'[y] = agenda[y]
    PROVE  /\ \A c \in Client : agenda'[c] = agenda[c]
           /\ \A l : Announced(agenda, l) => Announced(agenda', l)
<1>1. \A c \in Client : agenda'[c] = agenda[c]
  BY Numbers
<1> QED BY <1>1 DEF Announced

\* A step of a checker that changes its agenda and perhaps its queue.
LEMMA CheckerMoves ==
    ASSUME LeaseInv, TypeInv', NEW e \in Manager,
           \A y \in Thread \ {e} : agenda'[y] = agenda[y],
           agenda'[e] # <<>> => e \in looping, OldIds(agenda'[e], secrets),
           leases' = leases, index' = index, managers' = managers, status' = status,
           looping' = looping, now' = now, secrets' = secrets,
           \A m \in Manager \ {e} : queue'[m] = queue[m],
           status = "ready" /\ managers = e =>
              /\ \A l \in Lease : Known(l, leases, queue'[e], agenda')
              /\ PopFits(agenda'[e], leases, agenda')
    PROVE  LeaseInv'
<1>1. /\ \A c \in Client : agenda'[c] = agenda[c]
      /\ \A l : Announced(agenda, l) => Announced(agenda', l)
  BY ClientsSame
<1>2. LeaseTimes'
  BY DEF LeaseInv, LeaseTimes
<1>3. ThreadsFit'
  <2>1. \A y \in Manager : agenda'[y] # <<>> => y \in looping
    BY Numbers DEF LeaseInv, ThreadsFit
  <2> QED BY <1>1, <2>1 DEF LeaseInv, ThreadsFit
<1>4. AgendasFit'
  <2>1. \A y \in Thread : OldIds(agenda'[y], secrets')
    BY DEF LeaseInv, AgendasFit
  <2>2. \A c \in Client : Placed(agenda'[c]) /\ QueueFits(agenda'[c], leases', now')
    BY <1>1 DEF LeaseInv, AgendasFit
  <2> QED BY <2>1, <2>2 DEF AgendasFit
<1>5. QueueInv'
  <2>1. CASE status # "ready"
    BY <2>1 DEF QueueInv
  <2>2. CASE status = "ready" /\ managers = e
    BY <2>2 DEF QueueInv
  <2>3. CASE status = "ready" /\ managers # e
    <3>1. managers \in Manager /\ managers \in Thread
      BY <2>3, Numbers DEF LeaseInv, ThreadsFit
    <3>2. agenda'[managers] = agenda[managers] /\ queue'[managers] = queue[managers]
      BY <2>3, <3>1
    <3>3. \A l \in Lease : Known(l, leases, queue[managers], agenda')
      BY <1>1, <2>3 DEF LeaseInv, QueueInv, Known
    <3>4. PopFits(agenda[managers], leases, agenda')
      <4>1. PopFits(agenda[managers], leases, agenda)
        BY <2>3 DEF LeaseInv, QueueInv
      <4> QED BY <1>1, <4>1, PopStays
    <3> QED BY <3>2, <3>3, <3>4 DEF QueueInv
  <2> QED BY <2>1, <2>2, <2>3
<1> QED BY <1>2, <1>3, <1>4, <1>5 DEF LeaseInv

LEMMA NextKnown ==
    ASSUME LeaseInv, TypeInv', NEW e \in Manager, CheckerNext(e) PROVE LeaseInv'
<1> DEFINE b == agenda'[e]
<1>0. TypeOK
  BY DEF LeaseInv, TypeInv
<1>1. e \in looping /\ \A y \in Thread \ {e} : agenda'[y] = agenda[y]
  BY <1>0, NextScript
<1>2. PICK l \in Lease :
        /\ T("expire", l) \in Tasks /\ T("pop", l) \in Tasks
        /\ \/ queue[e][l] # 0 /\ b = <<T("expire", l), T("pop", l)>>
           \/ queue[e][l] = 0 /\ b = <<T("pop", l)>>
  BY <1>0, NextScript
<1>3. /\ leases' = leases /\ index' = index /\ managers' = managers /\ status' = status
      /\ looping' = looping /\ now' = now /\ secrets' = secrets /\ queue' = queue
  BY DEF CheckerNext, storageVars, checkVars, boundVars
<1>4. /\ T("expire", l).do = "expire" /\ T("expire", l).id = l
      /\ T("pop", l).do = "pop" /\ T("pop", l).id = l
  BY DEF T
<1>5. OldIds(b, secrets)
  <2> DEFINE k == T("expire", l)
             m == T("pop", l)
  <2>1. \A i \in DOMAIN b : b[i] = k \/ b[i] = m
    <3> HIDE DEF k, m
    <3>1. b = <<k, m>> \/ b = <<m>>
      BY <1>2 DEF k, m
    <3> HIDE DEF b
    <3>2. CASE b = <<k, m>>
      BY <3>2
    <3>3. CASE b = <<m>>
      BY <3>3
    <3> QED BY <3>1, <3>2, <3>3
  <2> HIDE DEF b
  <2> QED BY <1>4, <2>1 DEF OldIds
<1>6. \A k : Announced(agenda, k) => Announced(agenda', k)
  BY <1>1, ClientsSame
<1>7. ASSUME status = "ready", managers = e
      PROVE  /\ \A k \in Lease : Known(k, leases, queue[e], agenda')
             /\ PopFits(b, leases, agenda')
  <2>1. \A k \in Lease : Known(k, leases, queue[e], agenda')
    BY <1>6, <1>7 DEF LeaseInv, QueueInv, Known
  <2>2. CASE queue[e][l] # 0 /\ b = <<T("expire", l), T("pop", l)>>
    <3> HIDE DEF b
    <3>1. DOMAIN b = {1, 2} /\ Len(b) = 2 /\ b[1] = T("expire", l) /\ b[2] = T("pop", l)
      BY <2>2
    <3>2. \A i \in DOMAIN b : b[i].do = "pop" => i = 2
      BY <1>4, <3>1
    <3>3. 1 \in DOMAIN b /\ 1 < 2 /\ b[1].do \in {"expire", "drop"} /\ b[1].id = b[2].id
      BY <1>4, <3>1
    <3> QED BY <2>1, <3>1, <3>2, <3>3 DEF PopFits
  <2>3. CASE queue[e][l] = 0 /\ b = <<T("pop", l)>>
    <3>1. leases[l] = None \/ Announced(agenda', l)
      BY <2>1, <2>3 DEF Known
    <3> HIDE DEF b
    <3>2. DOMAIN b = {1} /\ Len(b) = 1 /\ b[1] = T("pop", l)
      BY <2>3
    <3> QED BY <1>4, <2>1, <3>1, <3>2 DEF PopFits
  <2> QED BY <1>2, <2>2, <2>3, <2>1
<1> QED BY <1>1, <1>3, <1>5, <1>7, CheckerMoves

\* A lease that is gone, or is dropped before it is popped.
LEMMA ExpireKnown ==
    ASSUME LeaseInv, TypeInv', NEW e \in Manager, CheckerRevoke(e) PROVE LeaseInv'
<1> DEFINE a == agenda[e]
           b == agenda'[e]
           l == Task(e).id
<1>0. TypeOK /\ e \in Thread
  BY Numbers DEF LeaseInv, TypeInv
<1>1. a # <<>> /\ Task(e).do = "expire" /\ l \in Lease
  BY <1>0, ExpireScript
<1>2. PICK s \in Seq(Tasks) :
        /\ Then(e, s) /\ \A i \in DOMAIN s : s[i].do \in {"tree", "drop", "unindex"}
        /\ leases[l] = None \/ \E j \in DOMAIN s : s[j].do = "drop" /\ s[j].id = l
  <2> DEFINE k == T("tree", l)
             d == T("drop", l)
             u == UntieTask(l, leases[l].token)
  <2>1. /\ d \in Tasks
        /\ \/ leases[l] = None /\ Then(e, <<>>)
           \/ k \in Tasks /\ Then(e, <<k, d>>)
           \/ u \in Tasks /\ Then(e, <<d, u>>)
    BY <1>0, ExpireScript
  <2>2. k.do = "tree" /\ d.do = "drop" /\ d.id = l /\ u.do = "unindex"
    BY DEF T, UntieTask
  <2> HIDE DEF k, d, u, l
  <2>3. CASE leases[l] = None /\ Then(e, <<>>)
    <3>1. <<>> \in Seq(Tasks) /\ \A i \in DOMAIN <<>> : <<>>[i].do \in {"tree", "drop", "unindex"}
      OBVIOUS
    <3> QED BY <2>3, <3>1
  <2>4. CASE k \in Tasks /\ Then(e, <<k, d>>)
    <3> DEFINE s == <<k, d>>
    <3>1. /\ s \in Seq(Tasks) /\ \A i \in DOMAIN s : s[i].do \in {"tree", "drop", "unindex"}
          /\ 2 \in DOMAIN s /\ s[2].do = "drop" /\ s[2].id = l
      BY <2>1, <2>2, <2>4
    <3>2. Then(e, s)
      BY <2>4
    <3> HIDE DEF s
    <3> QED BY <3>1, <3>2
  <2>5. CASE u \in Tasks /\ Then(e, <<d, u>>)
    <3> DEFINE s == <<d, u>>
    <3>1. /\ s \in Seq(Tasks) /\ \A i \in DOMAIN s : s[i].do \in {"tree", "drop", "unindex"}
          /\ 1 \in DOMAIN s /\ s[1].do = "drop" /\ s[1].id = l
      BY <2>1, <2>2, <2>5
    <3>2. Then(e, s)
      BY <2>5
    <3> HIDE DEF s
    <3> QED BY <3>1, <3>2
  <2> QED BY <2>1, <2>3, <2>4, <2>5
<1>3. /\ leases' = leases /\ index' = index /\ managers' = managers /\ status' = status
      /\ looping' = looping /\ now' = now /\ secrets' = secrets /\ queue' = queue
  BY DEF CheckerRevoke, storageVars, checkVars, boundVars
<1>4. /\ agenda \in [Thread -> Seq(Tasks)] /\ a \in Seq(Tasks) /\ a[1] = Task(e)
      /\ b = s \o Tail(a) /\ \A y \in Thread \ {e} : agenda'[y] = agenda[y]
  BY <1>0, <1>1, <1>2, ThenAgenda, HeadTask DEF TypeOK
<1>5. e \in looping /\ OldIds(a, secrets)
  BY <1>0, <1>1 DEF LeaseInv, ThreadsFit, AgendasFit
<1>6. \A k : Announced(agenda, k) => Announced(agenda', k)
  BY <1>4, ClientsSame
<1>7. a # <<>> /\ a \in Seq(Tasks) /\ b = s \o Tail(a)
  BY <1>1, <1>4
<1>8. OldIds(b, secrets)
  <2>1. OldIds(s, secrets)
    BY <1>2 DEF OldIds
  <2> HIDE DEF a, b
  <2> QED BY <1>5, <1>7, <2>1, ShiftOld
<1>9. ASSUME status = "ready", managers = e
      PROVE  /\ \A k \in Lease : Known(k, leases, queue[e], agenda')
             /\ PopFits(b, leases, agenda')
  <2>1. \A k \in Lease : Known(k, leases, queue[e], agenda')
    BY <1>6, <1>9 DEF LeaseInv, QueueInv, Known
  <2>2. PopFits(a, leases, agenda')
    <3>1. PopFits(a, leases, agenda)
      BY <1>9 DEF LeaseInv, QueueInv
    <3> HIDE DEF a
    <3> QED BY <1>6, <3>1, PopStays
  <2>3. \A i \in DOMAIN s : s[i].do # "pop"
    BY <1>2
  <2>4. a[1].do \in {"expire", "drop"} =>
          leases[a[1].id] = None \/ \E j \in DOMAIN s : s[j].do = "drop" /\ s[j].id = a[1].id
    BY <1>2, <1>4
  <2>5. PopFits(b, leases, agenda')
    <3> HIDE DEF a, b
    <3> QED BY <1>7, <2>2, <2>3, <2>4, ShiftPop
  <2> QED BY <2>1, <2>5
<1> QED BY <1>3, <1>4, <1>5, <1>8, <1>9, CheckerMoves


\* A lease is popped when it is gone, or about to be put back.
LEMMA PopKnown ==
    ASSUME LeaseInv, TypeInv', NEW e \in Manager, CheckerPop(e) PROVE LeaseInv'
<1> DEFINE a == agenda[e]
           b == agenda'[e]
           l == Task(e).id
           s == <<>>
<1>0. TypeOK /\ e \in Thread
  BY Numbers DEF LeaseInv, TypeInv
<1>1. /\ a # <<>> /\ Task(e).do = "pop" /\ l \in Lease /\ Then(e, s)
      /\ queue' = [queue EXCEPT ![e] = [@ EXCEPT ![l] = None]]
  BY <1>0, PopScript
<1>2. /\ leases' = leases /\ index' = index /\ managers' = managers /\ status' = status
      /\ looping' = looping /\ now' = now /\ secrets' = secrets
  BY DEF CheckerPop, storageVars, boundVars
<1>3. s \in Seq(Tasks)
  OBVIOUS
<1>4. /\ agenda \in [Thread -> Seq(Tasks)] /\ a \in Seq(Tasks) /\ a[1] = Task(e)
      /\ 1 \in DOMAIN a
      /\ b = s \o Tail(a) /\ \A y \in Thread \ {e} : agenda'[y] = agenda[y]
  BY <1>0, <1>1, <1>3, ThenAgenda, HeadTask DEF TypeOK
<1>5. e \in looping /\ OldIds(a, secrets)
  BY <1>0, <1>1 DEF LeaseInv, ThreadsFit, AgendasFit
<1>6. \A k : Announced(agenda, k) => Announced(agenda', k)
  BY <1>4, ClientsSame
<1>7. queue \in [Manager -> [Lease -> Expiry \cup {None}]]
  BY <1>0 DEF TypeOK
<1>8. /\ \A m \in Manager \ {e} : queue'[m] = queue[m]
      /\ \A k \in Lease \ {l} : queue'[e][k] = queue[e][k]
  BY <1>1, <1>7
<1> HIDE DEF s
<1>9. a # <<>> /\ a \in Seq(Tasks) /\ s \in Seq(Tasks) /\ b = s \o Tail(a)
  BY <1>1, <1>3, <1>4
<1>10. DOMAIN s = {} /\ OldIds(s, secrets)
  BY DEF s, OldIds
<1>11. OldIds(b, secrets)
  <2> HIDE DEF a, b
  <2> QED BY <1>5, <1>9, <1>10, ShiftOld
<1>12. ASSUME status = "ready", managers = e
       PROVE  /\ \A k \in Lease : Known(k, leases, queue'[e], agenda')
              /\ PopFits(b, leases, agenda')
  <2>1. PopFits(a, leases, agenda')
    <3>1. PopFits(a, leases, agenda)
      BY <1>12 DEF LeaseInv, QueueInv
    <3> HIDE DEF a
    <3> QED BY <1>6, <3>1, PopStays
  <2>2. leases[l] = None \/ Announced(agenda', l)
    <3>1. DOMAIN a = 1 .. Len(a)
      BY <1>4, LenProperties
    <3>2. \A j \in DOMAIN a : ~(j < 1)
      BY <3>1
    <3>3. a[1].do = "pop" /\ a[1].id = l
      BY <1>1, <1>4
    <3> HIDE DEF a, l
    <3> QED BY <1>4, <2>1, <3>2, <3>3 DEF PopFits
  <2>3. \A k \in Lease : Known(k, leases, queue'[e], agenda')
    <3> SUFFICES ASSUME NEW k \in Lease PROVE Known(k, leases, queue'[e], agenda')
      OBVIOUS
    <3>1. CASE k = l
      BY <2>2, <3>1 DEF Known
    <3>2. CASE k # l
      <4>1. Known(k, leases, queue[e], agenda)
        BY <1>12 DEF LeaseInv, QueueInv
      <4> HIDE DEF l
      <4> QED BY <1>6, <1>8, <3>2, <4>1 DEF Known
    <3> QED BY <3>1, <3>2
  <2>4. \A i \in DOMAIN s : s[i].do # "pop"
    BY <1>10
  <2>5. a[1].do \in {"expire", "drop"} =>
          leases[a[1].id] = None \/ \E j \in DOMAIN s : s[j].do = "drop" /\ s[j].id = a[1].id
    BY <1>1, <1>4
  <2>6. PopFits(b, leases, agenda')
    <3> HIDE DEF a, b
    <3> QED BY <1>9, <2>1, <2>4, <2>5, ShiftPop
  <2> QED BY <2>3, <2>6
<1> QED BY <1>2, <1>4, <1>5, <1>8, <1>11, <1>12, CheckerMoves

\* The lock of the queue is taken, or given back by a checker with no task.
LEMMA LockKnown ==
    ASSUME LeaseInv, TypeInv', NEW e \in Manager, CheckerLock(e) \/ CheckerUnlock(e)
    PROVE  LeaseInv'
<1>1. /\ agenda' = agenda /\ leases' = leases /\ index' = index /\ managers' = managers
      /\ status' = status /\ now' = now /\ secrets' = secrets /\ queue' = queue
      /\ looping' = looping \cup {e} \/ (looping' = looping \ {e} /\ agenda[e] = <<>>)
  BY DEF CheckerLock, CheckerUnlock, storageVars, boundVars
<1>2. LeaseTimes'
  BY <1>1 DEF LeaseInv, LeaseTimes
<1>3. ThreadsFit'
  BY <1>1 DEF LeaseInv, ThreadsFit
<1>4. AgendasFit'
  BY <1>1 DEF LeaseInv, AgendasFit
<1>5. QueueInv'
  BY <1>1 DEF LeaseInv, QueueInv
<1> QED BY <1>2, <1>3, <1>4, <1>5 DEF LeaseInv

-----------------------------------------------------------------------------
(* Requests, errors, and the life of the process *)

LEMMA IdleStart ==
    ASSUME NEW c, NEW s, Started(c, s), TypeOK PROVE \A i \in DOMAIN s : Idle(s[i])
<1>1. \A n : /\ Idle(T("check", n)) /\ Idle(T("token", n)) /\ Idle(T("renew", n))
             /\ Idle(T("tree", n)) /\ Idle(T("revoke", n)) /\ Idle(T("secret", n))
  BY DEF Idle, T
<1>2. \A n, z : Idle(CreateTask(n, z)) /\ Idle(RevokeReply(n, z))
  BY DEF Idle, CreateTask, RevokeReply
<1>3. ASSUME NEW k, NEW m, NEW r, Idle(k), Idle(m), Idle(r)
      PROVE  /\ \A i \in DOMAIN <<k>> : Idle(<<k>>[i])
             /\ \A i \in DOMAIN <<k, m>> : Idle(<<k, m>>[i])
             /\ \A i \in DOMAIN <<k, m, r>> : Idle(<<k, m, r>>[i])
  BY <1>3
<1>4. CASE s = <<T("token", None)>>
  BY <1>1, <1>3, <1>4
<1>5. ASSUME NEW t \in held, NEW req \in TokenReq,
             \/ s = <<T("check", t), CreateTask(t, req)>>
             \/ s = <<T("check", t), CreateTask(t, req), T("token", t)>>
      PROVE  \A i \in DOMAIN s : Idle(s[i])
  BY <1>1, <1>2, <1>3, <1>5
<1>6. ASSUME NEW t \in held, NEW u \in held,
             \/ s = <<T("check", t), T("renew", u), T("token", None)>>
             \/ s = <<T("check", t), T("tree", u), RevokeReply(u, Tree(u))>>
             \/ s = <<T("check", t), T("revoke", u)>>
             \/ s = <<T("check", t), T("secret", t)>>
      PROVE  \A i \in DOMAIN s : Idle(s[i])
  BY <1>1, <1>2, <1>3, <1>6
<1> QED BY <1>4, <1>5, <1>6 DEF Started

LEMMA RequestKnown ==
    ASSUME LeaseInv, TypeInv', NEW c \in Client, Request(c) PROVE LeaseInv'
<1>0. TypeOK /\ c \in Thread /\ c \notin Manager
  BY Numbers DEF LeaseInv, TypeInv
<1>1. PICK s \in Seq(Tasks) : Started(c, s) /\ Call(c, s)
  BY <1>0, RequestScript
<1>2. /\ status = "ready" /\ agenda[c] = <<>>
      /\ agenda'[c] = s /\ \A y \in Thread \ {c} : agenda'[y] = agenda[y]
      /\ UNCHANGED <<storageVars, status, managers, checkVars, now, boundVars, toldVars>>
  BY <1>0, <1>1, CallTasks
<1>3. /\ leases' = leases /\ index' = index /\ managers' = managers /\ status' = status
      /\ looping' = looping /\ now' = now /\ secrets' = secrets /\ queue' = queue
  BY <1>2 DEF storageVars, checkVars, boundVars
<1>4. \A i \in DOMAIN s : Idle(s[i])
  BY <1>0, <1>1, IdleStart
<1>5. OldIds(s, secrets) /\ QueueFits(s, leases, now) /\ Placed(s)
  BY <1>4 DEF OldIds, QueueFits, Placed, Idle, Urgent
<1>6. LeaseTimes'
  BY <1>3 DEF LeaseInv, LeaseTimes
<1>7. ThreadsFit'
  <2>1. \A y \in Manager : agenda'[y] = agenda[y]
    BY <1>0, <1>2, Numbers
  <2> QED BY <1>2, <1>3, <2>1 DEF LeaseInv, ThreadsFit
<1>8. AgendasFit'
  <2>1. \A y \in Thread : OldIds(agenda'[y], secrets')
    BY <1>2, <1>3, <1>5 DEF LeaseInv, AgendasFit
  <2>2. \A d \in Client : Placed(agenda'[d]) /\ QueueFits(agenda'[d], leases', now')
    BY <1>2, <1>3, <1>5, Numbers DEF LeaseInv, AgendasFit
  <2> QED BY <2>1, <2>2 DEF AgendasFit
<1>9. \A l : Announced(agenda, l) => Announced(agenda', l)
  <2> SUFFICES ASSUME NEW l, Announced(agenda, l) PROVE Announced(agenda', l)
    OBVIOUS
  <2>1. ~UrgentFor(agenda[c], l)
    BY <1>2 DEF UrgentFor
  <2> QED BY <1>0, <1>2, <2>1, AnnouncedStays
<1>10. QueueInv'
  <2>1. \A l \in Lease : Known(l, leases, queue[managers], agenda')
    BY <1>2, <1>9 DEF LeaseInv, QueueInv, Known
  <2>2. PopFits(agenda[managers], leases, agenda')
    <3>1. PopFits(agenda[managers], leases, agenda)
      BY <1>2 DEF LeaseInv, QueueInv
    <3> QED BY <1>9, <3>1, PopStays
  <2>3. agenda'[managers] = agenda[managers]
    <3>1. managers \in Manager /\ managers \in Thread
      BY <1>2, Numbers DEF LeaseInv, ThreadsFit
    <3> QED BY <1>0, <1>2, <3>1
  <2> QED BY <1>3, <2>1, <2>2, <2>3 DEF QueueInv
<1> QED BY <1>6, <1>7, <1>8, <1>10 DEF LeaseInv

\* The index of a secret is written without an error.
TieHolds == \A c \in Client : ~(Doing(c, "tie") /\ Fail(c))

LEMMA FailKnown ==
    ASSUME LeaseInv, TypeInv', NEW x \in Thread, Fail(x), TieHolds PROVE LeaseInv'
<1>1. /\ agenda[x] # <<>> /\ Task(x).do \notin InMemory /\ Drop(x)
      /\ looping' \subseteq looping /\ \A y \in looping \ looping' : y = x
  BY DEF Fail, Abort
<1>2. UNCHANGED <<leases, queue, managers, status, now, secrets, index>>
  BY DEF Fail, storageVars, boundVars
<1>3. x \in Client => Task(x).do \notin {"enqueue", "tie"}
  BY <1>1 DEF InMemory, TieHolds, Doing
<1> QED BY <1>1, <1>2, <1>3, QuietDrop


LEMMA SealKnown ==
    ASSUME LeaseInv, TypeInv', Seal \/ Open PROVE LeaseInv'
<1>1. /\ agenda' = agenda /\ leases' = leases /\ index' = index /\ managers' = managers
      /\ now' = now /\ secrets' = secrets /\ queue' = queue /\ looping' = looping
      /\ status' # "ready" /\ \A c \in Client : agenda[c] = <<>>
  BY DEF Seal, Open, storageVars, checkVars, boundVars, LeaseInv, ThreadsFit
<1>2. LeaseTimes'
  BY <1>1 DEF LeaseInv, LeaseTimes
<1>3. ThreadsFit'
  BY <1>1 DEF LeaseInv, ThreadsFit
<1>4. AgendasFit'
  BY <1>1 DEF LeaseInv, AgendasFit
<1>5. QueueInv'
  BY <1>1 DEF QueueInv
<1> QED BY <1>2, <1>3, <1>4, <1>5 DEF LeaseInv

\* restore puts every lease in the queue of the new manager.
LEMMA UnsealKnown ==
    ASSUME LeaseInv, TypeInv', Unseal PROVE LeaseInv'
<1>0. TypeOK /\ managers \in 0 .. MaxManagers /\ looping \subseteq 1 .. managers
  BY DEF LeaseInv, TypeInv, TypeOK
<1>1. /\ agenda' = agenda /\ leases' = leases /\ index' = index /\ now' = now
      /\ secrets' = secrets /\ looping' = looping /\ status' = "ready" /\ status = "open"
      /\ managers' = managers + 1 /\ queue' = [queue EXCEPT ![managers + 1] = Restored]
  BY DEF Unseal, storageVars, boundVars
<1> DEFINE m == managers + 1
<1>2. m \in Manager /\ m \notin looping /\ m \in Thread
  <2>1. managers' \in 0 .. MaxManagers
    BY DEF TypeInv, TypeOK
  <2>2. m \in Manager /\ m \notin looping
    BY <1>0, <1>1, <2>1, BoundsAssumption DEF Manager
  <2> QED BY <2>2, Numbers
<1>3. agenda[m] = <<>>
  BY <1>2 DEF LeaseInv, ThreadsFit
<1>4. queue'[m] = Restored
  <2>1. queue \in [Manager -> [Lease -> Expiry \cup {None}]]
    BY <1>0 DEF TypeOK
  <2> QED BY <1>1, <1>2, <2>1
<1>5. leases \in [Lease -> LeaseEntry \cup {None}]
  BY <1>0 DEF TypeOK
<1> HIDE DEF m
<1>6. ASSUME NEW l \in Lease PROVE Known(l, leases, queue'[m], agenda)
  <2> SUFFICES ASSUME leases[l] # None
               PROVE  queue'[m][l] # None /\ queue'[m][l] \in 1 .. leases[l].expire
    BY DEF Known
  <2>1. queue'[m][l] = leases[l].expire
    BY <1>4 DEF Restored
  <2>2. leases[l].expire \in Nat
    BY <1>5, Numbers DEF LeaseEntry
  <2>3. leases[l].expire >= 1
    BY DEF LeaseInv, LeaseTimes
  <2> QED BY <2>1, <2>2, <2>3, Numbers
<1>7. PopFits(agenda[m], leases, agenda)
  BY <1>3 DEF PopFits
<1>8. managers' = m
  BY <1>1 DEF m
<1>9. QueueInv'
  BY <1>1, <1>6, <1>7, <1>8 DEF QueueInv
<1>10. ThreadsFit'
  BY <1>1, <1>2, <1>8 DEF LeaseInv, ThreadsFit
<1>11. LeaseTimes' /\ AgendasFit'
  BY <1>1 DEF LeaseInv, LeaseTimes, AgendasFit
<1> QED BY <1>9, <1>10, <1>11 DEF LeaseInv

LEMMA TickKnown ==
    ASSUME LeaseInv, TypeInv', Tick PROVE LeaseInv'
<1>0. TypeOK
  BY DEF LeaseInv, TypeInv
<1>1. /\ agenda' = agenda /\ leases' = leases /\ index' = index /\ managers' = managers
      /\ status' = status /\ now' = now + 1 /\ secrets' = secrets /\ queue' = queue
      /\ looping' = looping
  BY DEF Tick, storageVars, checkVars, boundVars
<1>2. now \in Nat /\ now' \in Nat /\ now <= now'
  BY <1>0, <1>1, ExpiryOK
<1>3. LeaseTimes'
  <2>1. LeaseTimes
    BY DEF LeaseInv
  <2>2. ASSUME NEW l \in Token, leases[l] # None PROVE leases[l].expire <= now' + Ttl
    <3>1. leases[l].expire \in Nat
      <4>1. leases[l] \in LeaseEntry
        BY <1>0, <2>2, Numbers DEF TypeOK
      <4> QED BY <4>1, Numbers DEF LeaseEntry
    <3>2. leases[l].expire <= now + Ttl
      BY <2>1, <2>2, Numbers DEF LeaseTimes
    <3> QED BY <1>1, <1>2, <3>1, <3>2, BoundsAssumption
  <2> QED BY <1>1, <2>1, <2>2 DEF LeaseTimes
<1>4. ThreadsFit'
  BY <1>1 DEF LeaseInv, ThreadsFit
<1>5. \A c \in Client : QueueFits(agenda[c], leases, now')
  <2> SUFFICES ASSUME NEW c \in Client PROVE QueueFits(agenda[c], leases, now')
    OBVIOUS
  <2>1. agenda[c] \in Seq(Tasks) /\ QueueFits(agenda[c], leases, now)
    BY <1>0, Numbers DEF LeaseInv, AgendasFit, TypeOK
  <2>2. \A l \in Lease : leases[l] # None => leases[l] = leases[l]
    OBVIOUS
  <2> QED BY <1>2, <2>1, <2>2, QueueStays
<1>6. AgendasFit'
  BY <1>1, <1>5 DEF LeaseInv, AgendasFit
<1>7. QueueInv'
  BY <1>1 DEF LeaseInv, QueueInv
<1> QED BY <1>3, <1>4, <1>6, <1>7 DEF LeaseInv

LEMMA CrashKnown ==
    ASSUME LeaseInv, TypeInv', Crash PROVE LeaseInv'
<1>1. /\ leases' = leases /\ index' = index /\ now' = now /\ secrets' = secrets
      /\ status' = "sealed" /\ \A y \in Thread : agenda'[y] = <<>>
  BY DEF Crash, storageVars, boundVars
<1>2. LeaseTimes'
  BY <1>1 DEF LeaseInv, LeaseTimes
<1>3. ThreadsFit'
  BY <1>1, Numbers DEF ThreadsFit
<1>4. AgendasFit'
  <2>1. \A y \in Thread : OldIds(agenda'[y], secrets')
    BY <1>1 DEF OldIds
  <2>2. \A c \in Client : Placed(agenda'[c]) /\ QueueFits(agenda'[c], leases', now')
    BY <1>1, Numbers DEF Placed, QueueFits
  <2> QED BY <2>1, <2>2 DEF AgendasFit
<1>5. QueueInv'
  BY <1>1 DEF QueueInv
<1> QED BY <1>2, <1>3, <1>4, <1>5 DEF LeaseInv

LEMMA StutterKnown ==
    ASSUME LeaseInv, TypeInv', UNCHANGED vars PROVE LeaseInv'
<1>1. /\ agenda' = agenda /\ leases' = leases /\ index' = index /\ managers' = managers
      /\ status' = status /\ now' = now /\ secrets' = secrets /\ queue' = queue
      /\ looping' = looping
  BY DEF vars, storageVars, checkVars, boundVars
<1> QED BY <1>1 DEF LeaseInv, LeaseTimes, ThreadsFit, AgendasFit, QueueInv

LEMMA RevokeStepKnown ==
    ASSUME LeaseInv, TypeInv', NEW x \in Thread, RevokeStep(x) PROVE LeaseInv'
BY TreeKnown, RevokeKnown, ShortKnown, ByTokenKnown, DeleteKnown, QueueKnown DEF RevokeStep

LEMMA RequestStepKnown ==
    ASSUME LeaseInv, TypeInv', NEW c \in Client, RequestStep(c) PROVE LeaseInv'
<1>0. c \in Thread
  BY Numbers
<1> QED BY <1>0, CheckKnown, ShortKnown, CreateKnown, PostRouteKnown, RegisterKnown, RenewKnown,
           PersistKnown, SecretKnown, TieKnown, RevokeStepKnown DEF RequestStep

LEMMA CheckerStepKnown ==
    ASSUME LeaseInv, TypeInv', NEW e \in Manager, CheckerStep(e) PROVE LeaseInv'
<1>0. e \in Thread
  BY Numbers
<1> QED BY <1>0, LockKnown, NextKnown, ExpireKnown, PopKnown, RevokeStepKnown DEF CheckerStep

LEMMA LeaseStep == LeaseInv /\ [Next]_vars /\ [TieHolds]_vars => LeaseInv'
<1> SUFFICES ASSUME LeaseInv, [Next]_vars, [TieHolds]_vars PROVE LeaseInv'
  OBVIOUS
<1>1. TypeInv'
  BY TypeStep DEF LeaseInv
<1>2. CASE UNCHANGED vars
  BY <1>1, <1>2, StutterKnown
<1>3. CASE Next /\ TieHolds
  <2>1. ASSUME NEW c \in Client, Request(c) \/ RequestStep(c) PROVE LeaseInv'
    BY <1>1, <2>1, RequestKnown, RequestStepKnown
  <2>2. ASSUME NEW e \in Manager, CheckerStep(e) PROVE LeaseInv'
    BY <1>1, <2>2, CheckerStepKnown
  <2>3. ASSUME NEW x \in Thread, Fail(x) PROVE LeaseInv'
    BY <1>1, <1>3, <2>3, FailKnown
  <2>4. CASE Seal \/ Open
    BY <1>1, <2>4, SealKnown
  <2>5. CASE Unseal
    BY <1>1, <2>5, UnsealKnown
  <2>6. CASE Tick
    BY <1>1, <2>6, TickKnown
  <2>7. CASE Crash
    BY <1>1, <2>7, CrashKnown
  <2> QED BY <1>3, <2>1, <2>2, <2>3, <2>4, <2>5, <2>6, <2>7 DEF Next
<1> QED BY <1>2, <1>3

LEMMA LeaseInit == Init => LeaseInv
<1> SUFFICES ASSUME Init PROVE LeaseInv
  OBVIOUS
<1>1. TypeInv
  BY TypeInit
<1>2. \A x \in Thread : agenda[x] = <<>>
  BY DEF Init
<1>3. LeaseTimes
  BY Numbers DEF Init, LeaseTimes
<1>4. ThreadsFit
  BY <1>2, Numbers DEF Init, ThreadsFit
<1>5. AgendasFit
  <2>1. \A x \in Thread : OldIds(agenda[x], secrets)
    BY <1>2 DEF OldIds
  <2>2. \A c \in Client : Placed(agenda[c]) /\ QueueFits(agenda[c], leases, now)
    BY <1>2, Numbers DEF Placed, QueueFits
  <2> QED BY <2>1, <2>2 DEF AgendasFit
<1>6. QueueInv
  BY DEF Init, QueueInv
<1> QED BY <1>1, <1>3, <1>4, <1>5, <1>6 DEF LeaseInv

LEMMA LeaseInvUse == LeaseInv => LeaseScheduled
<1> SUFFICES ASSUME LeaseInv, status = "ready", NEW l \in Lease, leases[l] # None
             PROVE  \/ queue[managers][l] # None /\ queue[managers][l] \in 1 .. leases[l].expire
                    \/ \E c \in Client : \E i \in DOMAIN agenda[c] :
                          agenda[c][i].do = "enqueue" /\ agenda[c][i].id = l
  BY DEF LeaseScheduled
<1>1. Known(l, leases, queue[managers], agenda)
  BY DEF LeaseInv, QueueInv
<1>2. CASE Announced(agenda, l)
  <2>1. PICK c \in Client : UrgentFor(agenda[c], l)
    BY <1>2 DEF Announced
  <2> QED BY <2>1 DEF UrgentFor, Urgent
<1> QED BY <1>1, <1>2 DEF Known

\* With any number of clients, checkers, seals and crashes, and with errors of
\* storage at every step but one: while the vault is unsealed, every stored
\* lease is in the queue of the newest manager, no later than it ends, or a
\* request is about to put it there.  The one step is create_index_by_token,
\* the second write of register_secret: its error leaves a lease behind that
\* is in no queue.
THEOREM TokensLeaseScheduled == Spec /\ [][TieHolds]_vars => []LeaseScheduled
BY LeaseInit, LeaseStep, LeaseInvUse, PTL DEF Spec
=============================================================================
