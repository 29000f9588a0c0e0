------------------------------- MODULE Tokens -------------------------------
(***************************************************************************)
(* Tokens and their leases: the token store                                *)
(* (src/src/modules/auth/token_store.rs) and the expiration manager        *)
(* (src/src/modules/auth/expiration.rs).                                   *)
(*                                                                         *)
(* A thread, of a client or of a manager's lease checker, works on an      *)
(* agenda: the operations of the code still to be done, each with at most  *)
(* one effect on storage or on the queue.  Between two of them any other   *)
(* thread may run.  A request holds a read lock on the core, so a seal     *)
(* waits for it; the checker holds none.  An error drops the agenda.       *)
(*                                                                         *)
(* Every unseal makes a new manager with a queue and a checker thread of   *)
(* its own.  A seal stops neither: the old manager keeps the old router,   *)
(* the router keeps the token backend and this the old token store, so     *)
(* that the old checker goes on as soon as the barrier is open again.      *)
(*                                                                         *)
(* Policies are reduced to root or not, a TTL to one value per kind of     *)
(* lease, and every id is new.                                             *)
(***************************************************************************)
EXTENDS Naturals, SequencesExt

CONSTANTS
    Client,         \* threads that serve requests
    TokenReq,       \* the bodies of auth/token/create that are sent
    MaxTokens,      \* bound: how many tokens are ever made
    MaxSecrets,     \* bound: how many secrets are ever leased
    Reader,         \* bound: the tokens that read leased secrets
    MaxTime,        \* bound: the last time the clock shows
    MaxManagers,    \* bound: how often one process is unsealed
    Ttl,            \* the TTL of a token
    SecretTtl,      \* the TTL of a secret
    None,
    Faulty,         \* the threads whose storage operations may fail
    Crashes         \* may the process crash?

ASSUME BoundsAssumption ==
    /\ MaxTokens \in Nat \ {0} /\ MaxManagers \in Nat \ {0}
    /\ MaxSecrets \in Nat /\ MaxTime \in Nat
    /\ Ttl \in Nat \ {0} /\ SecretTtl \in Nat \ {0}
ASSUME TokenReqAssumption ==
    TokenReq \subseteq [id : BOOLEAN, num_uses : Nat, root : BOOLEAN, no_parent : BOOLEAN]

VARIABLES
    \* storage
    tokens,     \* token/id/: the TokenEntry of each token
    parents,    \* token/parent/: pairs of a parent and a child
    leases,     \* id/: the LeaseEntry of each lease
    index,      \* token/: pairs of a token and a lease of a secret it read
    \* memory
    status,     \* "sealed"; "open": the barrier is; "ready": unseal is done
    managers,   \* the managers this process made
    queue,      \* the queue of each: lease -> priority
    looping,    \* the managers whose checker holds the lock of its queue
    agenda,     \* what each thread has still to do
    now,
    \* history, never read by the code
    issued,     \* how many tokens were made
    secrets,    \* how many secrets were leased
    held,       \* the tokens whose id some client knows
    acked,      \* the latest expiry of each token that a client was told
    revoked     \* tokens whose revocation was acknowledged, with their trees

storageVars == <<tokens, parents, leases, index>>
checkVars   == <<queue, looping>>
boundVars   == <<issued, secrets>>
toldVars    == <<held, acked, revoked>>
vars == <<storageVars, status, managers, checkVars, agenda, now, boundVars, toldVars>>

-----------------------------------------------------------------------------
Root == 1
Token == 1 .. MaxTokens
SecretLease == MaxTokens + 1 .. MaxTokens + MaxSecrets
\* The lease of a token has the number of the token.
Lease == Token \cup SecretLease
Manager == 1 .. MaxManagers
Thread == Client \cup Manager
Time == 0 .. MaxTime
Expiry == 0 .. MaxTime + Ttl + SecretTtl

TokenEntry == [parent : Token \cup {None}, num_uses : Nat, root : BOOLEAN]
LeaseEntry == [token : Token, expire : Expiry]

ASSUME NoneAssumption == None \notin Nat \cup TokenEntry \cup LeaseEntry
ASSUME ClientAssumption == Client \cap Nat = {}

\* What may stand on an agenda.
OnToken == {"check", "parent", "lease", "tree", "revoke", "secrets", "renew", "renewal", "secret"}
OnLease == {"drop", "expire", "pop"}
Tasks ==
    [do : OnToken, id : Token]
    \cup [do : OnLease, id : Lease]
    \cup [do : {"token"}, id : Token \cup {None}]
    \cup [do : {"use", "put"}, id : Token, entry : TokenEntry]
    \cup [do : {"create"}, id : Token, req : TokenReq]
    \cup [do : {"index", "unparent"}, id : Token, parent : Token]
    \cup [do : {"tie", "unindex"}, id : SecretLease, token : Token]
    \cup [do : {"enqueue"}, id : Lease, priority : Expiry]
    \cup [do : {"reply"}, id : Token, op : {"token", "renew"}, expire : Expiry]
    \cup [do : {"reply"}, id : Token, op : {"revoke"}, tree : SUBSET Token]

T(do, id) == [do |-> do, id |-> id]
Enqueue(l, priority) == [do |-> "enqueue", id |-> l, priority |-> priority]
Reply(op, id, expire) == [do |-> "reply", id |-> id, op |-> op, expire |-> expire]

\* The queue of a request is the newest manager's.
QueueOf(x) == IF x \in Client THEN managers ELSE x

-----------------------------------------------------------------------------
Init ==
    /\ tokens = [n \in Token |->
          IF n = Root THEN [parent |-> None, num_uses |-> 0, root |-> TRUE] ELSE None]
    /\ parents = {}
    /\ leases = [l \in Lease |-> None]
    /\ index = {}
    /\ status = "sealed"
    /\ managers = 0
    /\ queue = [e \in Manager |-> [l \in Lease |-> None]]
    /\ looping = {}
    /\ agenda = [x \in Thread |-> <<>>]
    /\ now = 0
    /\ issued = 1
    /\ secrets = 0
    /\ held = {Root}
    /\ acked = [n \in Token |-> 0]
    /\ revoked = {}

-----------------------------------------------------------------------------
(* How a thread works on its agenda *)

Task(x) == Head(agenda[x])
Doing(x, do) == agenda[x] # <<>> /\ Task(x).do = do
Then(x, tasks) == agenda' = [agenda EXCEPT ![x] = tasks \o Tail(agenda[x])]
Drop(x) == agenda' = [agenda EXCEPT ![x] = <<>>]
Abort(x) == Drop(x) /\ looping' = looping \ {x}

\* An operation of the barrier, with the barrier open.
Stored(x, do) == Doing(x, do) /\ status # "sealed"

InMemory == {"enqueue", "reply", "pop"}

\* The operation fails: the request ends with an error; the checker leaves
\* its loop, and the entry stays in the queue.
Fail(x) ==
    /\ agenda[x] # <<>>
    /\ Task(x).do \notin InMemory
    /\ status = "sealed" \/ x \in Faulty
    /\ Abort(x)
    /\ UNCHANGED <<storageVars, status, managers, queue, now, boundVars, toldVars>>

-----------------------------------------------------------------------------
(* TokenStore::check_token, before every request but a login *)

\* Slip: use_token does not return early when there is no limit.
CheckNoEarlyReturn(x) ==
    /\ Stored(x, "check")
    /\ LET t == Task(x).id
           e == tokens[t]
       IN  \/ e = None /\ Drop(x)
           \/ /\ e # None
              /\ Then(x, CASE e.num_uses = 1 -> <<T("revoke", t)>>
                           [] OTHER -> <<[do |-> "use", id |-> t,
                                          entry |-> [e EXCEPT !.num_uses = @ - 1]]>>)
    /\ UNCHANGED <<storageVars, status, managers, checkVars, now, boundVars, toldVars>>

Check(x) ==
    /\ Stored(x, "check")
    /\ LET t == Task(x).id
           e == tokens[t]
       IN  \/ e = None /\ Drop(x)
           \/ /\ e # None
              /\ Then(x, CASE e.num_uses = 0 -> <<>>
                           [] e.num_uses = 1 -> <<T("revoke", t)>>
                           [] OTHER -> <<[do |-> "use", id |-> t,
                                          entry |-> [e EXCEPT !.num_uses = @ - 1]]>>)
    /\ UNCHANGED <<storageVars, status, managers, checkVars, now, boundVars, toldVars>>

\* use_token writes the entry it looked up, with one use less; the last step
\* of create writes a new one.
Put(x) ==
    /\ Stored(x, "use") \/ Stored(x, "put")
    /\ tokens' = [tokens EXCEPT ![Task(x).id] = Task(x).entry]
    /\ Then(x, <<>>)
    /\ UNCHANGED <<parents, leases, index, status, managers, checkVars, now, boundVars,
                   toldVars>>

-----------------------------------------------------------------------------
(* Creation: handle_create, create, and what post_route adds *)

\* Slip: the token is written first, the link to its parent after it.
CreateStepsSwapped(n, p, e) ==
    IF p = None THEN <<[do |-> "put", id |-> n, entry |-> e]>>
    ELSE <<T("parent", p), [do |-> "put", id |-> n, entry |-> e],
           [do |-> "index", id |-> n, parent |-> p]>>

\* create: look the parent up, link the child to it, write the child.
CreateSteps(n, p, e) ==
    IF p = None THEN <<[do |-> "put", id |-> n, entry |-> e]>>
    ELSE <<T("parent", p), [do |-> "index", id |-> n, parent |-> p],
           [do |-> "put", id |-> n, entry |-> e]>>

\* Only root chooses an id or leaves the parent out, only root makes root.
Allowed(parent, req) ==
    /\ parent # None
    /\ parent.num_uses = 0
    /\ req.id \/ req.root \/ req.no_parent => parent.root

HandleCreate(x) ==
    /\ Stored(x, "create")
    /\ LET t   == Task(x).id
           req == Task(x).req
           n   == issued + 1
           p   == IF req.no_parent THEN None ELSE t
           e   == [parent |-> p, num_uses |-> req.num_uses, root |-> req.root]
       IN  IF Allowed(tokens[t], req)
           THEN /\ issued < MaxTokens
                /\ Then(x, CreateSteps(n, p, e))
                /\ issued' = n
                /\ held' = IF req.id THEN held \cup {n} ELSE held
           ELSE Drop(x) /\ UNCHANGED <<issued, held>>
    /\ UNCHANGED <<storageVars, status, managers, checkVars, now, secrets, acked,
                   revoked>>

CreateParent(x) ==
    /\ Stored(x, "parent")
    /\ IF tokens[Task(x).id] = None THEN Drop(x) ELSE Then(x, <<>>)
    /\ UNCHANGED <<storageVars, status, managers, checkVars, now, boundVars, toldVars>>

CreateIndex(x) ==
    /\ Stored(x, "index")
    /\ parents' = parents \cup {<<Task(x).parent, Task(x).id>>}
    /\ Then(x, <<>>)
    /\ UNCHANGED <<tokens, leases, index, status, managers, checkVars, now, boundVars,
                   toldVars>>

\* post_route, for every response with an auth: a second token, without
\* parent and use count, whose id replaces the first one in the response.
PostRoute(x) ==
    /\ Stored(x, "token")
    /\ issued < MaxTokens
    /\ LET n == issued + 1 IN
          /\ tokens' = [tokens EXCEPT ![n] =
                [parent |-> None, num_uses |-> 0, root |-> FALSE]]
          /\ issued' = n
          /\ Then(x, <<T("lease", n)>>)
    /\ UNCHANGED <<parents, leases, index, status, managers, checkVars, now, secrets, held,
                   acked, revoked>>

\* register_auth.
RegisterAuth(x) ==
    /\ Stored(x, "lease")
    /\ LET n == Task(x).id IN
          /\ leases' = [leases EXCEPT ![n] = [token |-> n, expire |-> now + Ttl]]
          /\ Then(x, <<Enqueue(n, now + Ttl), Reply("token", n, now + Ttl)>>)
    /\ UNCHANGED <<tokens, parents, index, status, managers, checkVars, now, boundVars,
                   toldVars>>

\* Slip: a lease that is in the queue keeps its priority.
RegisterLeaseEntryOnce(x) ==
    /\ Doing(x, "enqueue")
    /\ QueueOf(x) \notin looping
    /\ queue' = [queue EXCEPT ![QueueOf(x)][Task(x).id] =
                    IF @ = None THEN Task(x).priority ELSE @]
    /\ Then(x, <<>>)
    /\ UNCHANGED <<storageVars, status, managers, looping, now, boundVars, toldVars>>

\* register_lease_entry waits for the lock of the queue.
RegisterLeaseEntry(x) ==
    /\ Doing(x, "enqueue")
    /\ QueueOf(x) \notin looping
    /\ queue' = [queue EXCEPT ![QueueOf(x)][Task(x).id] = Task(x).priority]
    /\ Then(x, <<>>)
    /\ UNCHANGED <<storageVars, status, managers, looping, now, boundVars, toldVars>>

-----------------------------------------------------------------------------
(* Renewal: handle_renew, renew_token *)

\* The token, then its lease, which must not have expired: only reads, taken
\* together.
RenewToken(x) ==
    /\ Stored(x, "renew")
    /\ LET u == Task(x).id IN
          IF tokens[u] # None /\ leases[u] # None /\ leases[u].expire >= now
          THEN Then(x, <<T("renewal", u)>>) ELSE Drop(x)
    /\ UNCHANGED <<storageVars, status, managers, checkVars, now, boundVars, toldVars>>

\* The client hears of it after post_route.
RenewPersist(x) ==
    /\ Stored(x, "renewal")
    /\ LET u == Task(x).id
           expire == now + Ttl
       IN  /\ leases' = [leases EXCEPT ![u] = [token |-> u, expire |-> expire]]
           /\ agenda' = [agenda EXCEPT ![x] =
                 <<Enqueue(u, expire)>> \o Tail(agenda[x]) \o <<Reply("renew", u, expire)>>]
    /\ UNCHANGED <<tokens, parents, index, status, managers, checkVars, now, boundVars,
                   toldVars>>

-----------------------------------------------------------------------------
(* register_secret, for a read of a mount with leased_passthrough *)

RegisterSecret(x) ==
    /\ Stored(x, "secret")
    /\ secrets < MaxSecrets
    /\ LET l == MaxTokens + secrets + 1
           t == Task(x).id
       IN  /\ leases' = [leases EXCEPT ![l] = [token |-> t, expire |-> now + SecretTtl]]
           /\ Then(x, <<[do |-> "tie", id |-> l, token |-> t],
                        Enqueue(l, now + SecretTtl)>>)
    /\ secrets' = secrets + 1
    /\ UNCHANGED <<tokens, parents, index, status, managers, checkVars, now, issued, toldVars>>

\* create_index_by_token.
CreateIndexByToken(x) ==
    /\ Stored(x, "tie")
    /\ index' = index \cup {<<Task(x).token, Task(x).id>>}
    /\ Then(x, <<>>)
    /\ UNCHANGED <<tokens, parents, leases, status, managers, checkVars, now, boundVars,
                   toldVars>>

-----------------------------------------------------------------------------
(* Revocation, by a request and by a checker *)

TaskSeqs(do, S) == {[i \in DOMAIN s |-> T(do, s[i])] : s \in SetToSeqs(S)}

\* Slip: the children are left alone.
RevokeTreeAlone(x) ==
    /\ Stored(x, "tree")
    /\ Then(x, <<T("revoke", Task(x).id)>>)
    /\ UNCHANGED <<storageVars, status, managers, checkVars, now, boundVars, toldVars>>

\* revoke_tree_salted: the children that are linked now, each with its tree,
\* then the token.
RevokeTree(x) ==
    /\ Stored(x, "tree")
    /\ LET t == Task(x).id IN
          \E s \in TaskSeqs("tree", {n \in Token : <<t, n>> \in parents}) :
              Then(x, Append(s, T("revoke", t)))
    /\ UNCHANGED <<storageVars, status, managers, checkVars, now, boundVars, toldVars>>

\* revoke_salted: only a token that is there has a link and secrets to go.
Revoke(x) ==
    /\ Stored(x, "revoke")
    /\ LET t == Task(x).id
           e == tokens[t]
       IN  /\ tokens' = [tokens EXCEPT ![t] = None]
           /\ Then(x, CASE e = None -> <<>>
                        [] e # None /\ e.parent = None -> <<T("secrets", t)>>
                        [] OTHER -> <<[do |-> "unparent", id |-> t, parent |-> e.parent],
                                      T("secrets", t)>>)
    /\ UNCHANGED <<parents, leases, index, status, managers, checkVars, now, boundVars,
                   toldVars>>

RevokeParent(x) ==
    /\ Stored(x, "unparent")
    /\ parents' = parents \ {<<Task(x).parent, Task(x).id>>}
    /\ Then(x, <<>>)
    /\ UNCHANGED <<tokens, leases, index, status, managers, checkVars, now, boundVars,
                   toldVars>>

\* revoke_by_token; each lease is put back in the queue with priority 0.
RevokeByToken(x) ==
    /\ Stored(x, "secrets")
    /\ LET t == Task(x).id IN
          \E s \in SetToSeqs({l \in SecretLease : <<t, l>> \in index}) :
              Then(x, [i \in 1 .. 3 * Len(s) |->
                  LET l == s[(i + 2) \div 3] IN
                      CASE i % 3 = 1 -> T("drop", l)
                        [] i % 3 = 2 -> [do |-> "unindex", id |-> l, token |-> t]
                        [] OTHER -> Enqueue(l, 0)])
    /\ UNCHANGED <<storageVars, status, managers, checkVars, now, boundVars, toldVars>>

\* delete_lease_entry.
DeleteLeaseEntry(x) ==
    /\ Stored(x, "drop")
    /\ leases' = [leases EXCEPT ![Task(x).id] = None]
    /\ Then(x, <<>>)
    /\ UNCHANGED <<tokens, parents, index, status, managers, checkVars, now, boundVars,
                   toldVars>>

\* remove_index_by_token.
RemoveIndexByToken(x) ==
    /\ Stored(x, "unindex")
    /\ index' = index \ {<<Task(x).token, Task(x).id>>}
    /\ Then(x, <<>>)
    /\ UNCHANGED <<tokens, parents, leases, status, managers, checkVars, now, boundVars,
                   toldVars>>

-----------------------------------------------------------------------------
(* The thread of start_check_expired_lease_entries *)

Due(e, p) == {l \in Lease : queue[e][l] # None /\ queue[e][l] <= p}

\* A look at the head under a read lock, then the write lock.
CheckerLock(e) ==
    /\ e <= managers
    /\ e \notin looping
    /\ \E l \in Due(e, now) : queue[e][l] < now
    /\ looping' = looping \cup {e}
    /\ UNCHANGED <<storageVars, status, managers, queue, agenda, now, boundVars, toldVars>>

\* The head of the queue is handled and popped; priority 0 is only popped.
CheckerNext(e) ==
    /\ e \in looping
    /\ agenda[e] = <<>>
    /\ \E l \in Due(e, now) :
          /\ \A k \in Due(e, now) : queue[e][l] <= queue[e][k]
          /\ agenda' = [agenda EXCEPT ![e] =
                (IF queue[e][l] = 0 THEN <<>> ELSE <<T("expire", l)>>) \o <<T("pop", l)>>]
    /\ UNCHANGED <<storageVars, status, managers, checkVars, now, boundVars, toldVars>>

\* revoke_lease_id and revoke_lease_entry: the expiry is not looked at again.
\* The revocation of a secret itself is the backend's.
CheckerRevoke(e) ==
    /\ Stored(e, "expire")
    /\ LET l == Task(e).id IN
          Then(e, CASE leases[l] = None -> <<>>
                    [] leases[l] # None /\ l \in Token -> <<T("tree", l), T("drop", l)>>
                    [] OTHER -> <<T("drop", l),
                                  [do |-> "unindex", id |-> l, token |-> leases[l].token]>>)
    /\ UNCHANGED <<storageVars, status, managers, checkVars, now, boundVars, toldVars>>

\* Slip: the lease that was handled stays at the head.
CheckerPopKeeps(e) ==
    /\ Doing(e, "pop")
    /\ Then(e, <<>>)
    /\ UNCHANGED <<storageVars, status, managers, checkVars, now, boundVars, toldVars>>

CheckerPop(e) ==
    /\ Doing(e, "pop")
    /\ queue' = [queue EXCEPT ![e][Task(e).id] = None]
    /\ Then(e, <<>>)
    /\ UNCHANGED <<storageVars, status, managers, looping, now, boundVars, toldVars>>

CheckerUnlock(e) ==
    /\ e \in looping
    /\ agenda[e] = <<>>
    /\ Due(e, now) = {}
    /\ looping' = looping \ {e}
    /\ UNCHANGED <<storageVars, status, managers, queue, agenda, now, boundVars, toldVars>>

-----------------------------------------------------------------------------
(* Requests *)

Call(c, tasks) ==
    /\ status = "ready"
    /\ agenda[c] = <<>>
    /\ agenda' = [agenda EXCEPT ![c] = tasks]
    /\ UNCHANGED <<storageVars, status, managers, checkVars, now, boundVars, toldVars>>

Room(n) == issued + n <= MaxTokens

Login(c) == Room(1) /\ Call(c, <<T("token", None)>>)

\* A root token is refused by post_route, when it has been made.
Create(c, t, req) ==
    /\ Room(IF req.root THEN 1 ELSE 2)
    /\ Call(c, <<T("check", t), [do |-> "create", id |-> t, req |-> req]>>
               \o (IF req.root THEN <<>> ELSE <<T("token", t)>>))

Renew(c, t, u) ==
    /\ Room(1)
    /\ Call(c, <<T("check", t), T("renew", u), T("token", None)>>)

\* The token and what is linked below it now: the least set with t in it that
\* is closed under the links.
Tree(t) ==
    {n \in Token : \A S \in SUBSET Token :
        t \in S /\ (\A p \in S, m \in Token : <<p, m>> \in parents => m \in S) => n \in S}

RevokeCall(c, t, u) ==
    Call(c, <<T("check", t), T("tree", u),
              [do |-> "reply", id |-> u, op |-> "revoke", tree |-> Tree(u)]>>)

\* revoke-orphan is a root path.
RevokeOrphan(c, t, u) ==
    /\ tokens[t] # None /\ tokens[t].root
    /\ Call(c, <<T("check", t), T("revoke", u)>>)

ReadSecret(c, t) ==
    /\ t \in Reader
    /\ secrets < MaxSecrets
    /\ Call(c, <<T("check", t), T("secret", t)>>)

\* What the client learns: history only.
Answer(c) ==
    /\ Doing(c, "reply")
    /\ LET r == Task(c) IN
          /\ held' = IF r.op = "token" THEN held \cup {r.id} ELSE held
          /\ acked' = IF r.op = "revoke" THEN acked ELSE [acked EXCEPT ![r.id] = r.expire]
          /\ revoked' = IF r.op = "revoke" THEN revoked \cup r.tree ELSE revoked
    /\ Then(c, <<>>)
    /\ UNCHANGED <<storageVars, status, managers, checkVars, now, boundVars>>

-----------------------------------------------------------------------------
(* Seal, unseal, time, crash *)

Seal ==
    /\ status # "sealed"
    /\ \A c \in Client : agenda[c] = <<>>
    /\ status' = "sealed"
    /\ UNCHANGED <<storageVars, managers, checkVars, agenda, now, boundVars, toldVars>>

Open ==
    /\ status = "sealed"
    /\ managers < MaxManagers
    /\ status' = "open"
    /\ UNCHANGED <<storageVars, managers, checkVars, agenda, now, boundVars, toldVars>>

\* Slip: restore leaves the leases of tokens out.
RestoredSecretsOnly ==
    [l \in Lease |-> IF leases[l] = None \/ l \in Token THEN None ELSE leases[l].expire]

\* restore.
Restored == [l \in Lease |-> IF leases[l] = None THEN None ELSE leases[l].expire]

\* AuthModule::init.
Unseal ==
    /\ status = "open"
    /\ status' = "ready"
    /\ managers' = managers + 1
    /\ queue' = [queue EXCEPT ![managers + 1] = Restored]
    /\ UNCHANGED <<storageVars, looping, agenda, now, boundVars, toldVars>>

Tick ==
    /\ now < MaxTime
    /\ now' = now + 1
    /\ UNCHANGED <<storageVars, status, managers, checkVars, agenda, boundVars, toldVars>>

Crash ==
    /\ Crashes
    /\ status' = "sealed"
    /\ managers' = 0
    /\ queue' = [e \in Manager |-> [l \in Lease |-> None]]
    /\ looping' = {}
    /\ agenda' = [x \in Thread |-> <<>>]
    /\ UNCHANGED <<storageVars, now, boundVars, toldVars>>

-----------------------------------------------------------------------------
Request(c) ==
    \/ Login(c)
    \/ \E t \in held :
          \/ \E req \in TokenReq : Create(c, t, req)
          \/ \E u \in held : Renew(c, t, u) \/ RevokeCall(c, t, u) \/ RevokeOrphan(c, t, u)
          \/ ReadSecret(c, t)

RevokeStep(x) ==
    \/ RevokeTree(x) \/ Revoke(x) \/ RevokeParent(x) \/ RevokeByToken(x)
    \/ DeleteLeaseEntry(x) \/ RemoveIndexByToken(x) \/ RegisterLeaseEntry(x)

RequestStep(c) ==
    \/ Check(c) \/ Put(c)
    \/ HandleCreate(c) \/ CreateParent(c) \/ CreateIndex(c)
    \/ PostRoute(c) \/ RegisterAuth(c)
    \/ RenewToken(c) \/ RenewPersist(c)
    \/ RegisterSecret(c) \/ CreateIndexByToken(c)
    \/ RevokeStep(c) \/ Answer(c)

CheckerStep(e) ==
    \/ CheckerLock(e) \/ CheckerNext(e) \/ CheckerRevoke(e) \/ CheckerPop(e)
    \/ CheckerUnlock(e) \/ RevokeStep(e)

Next ==
    \/ \E c \in Client : Request(c) \/ RequestStep(c)
    \/ \E e \in Manager : CheckerStep(e)
    \/ \E x \in Thread : Fail(x)
    \/ Seal \/ Open \/ Unseal \/ Tick \/ Crash

\* A thread that can go on does; the clock does not stop.
Fairness ==
    /\ \A e \in Manager : WF_vars(CheckerStep(e))
    /\ \A c \in Client : WF_vars(RequestStep(c))
    /\ WF_vars(Tick)

Spec == Init /\ [][Next]_vars
FairSpec == Spec /\ Fairness

-----------------------------------------------------------------------------
(* Properties *)

\* The types of the variables.
TypeOK ==
    /\ tokens \in [Token -> TokenEntry \cup {None}]
    /\ parents \subseteq Token \X Token
    /\ leases \in [Lease -> LeaseEntry \cup {None}]
    /\ index \subseteq Token \X SecretLease
    /\ status \in {"sealed", "open", "ready"}
    /\ managers \in 0 .. MaxManagers
    /\ queue \in [Manager -> [Lease -> Expiry \cup {None}]]
    /\ looping \subseteq 1 .. managers
    /\ agenda \in [Thread -> Seq(Tasks)]
    /\ now \in Time
    /\ issued \in 1 .. MaxTokens
    /\ secrets \in 0 .. MaxSecrets
    /\ held \subseteq Token
    /\ acked \in [Token -> Expiry]
    /\ revoked \subseteq Token

\* create links a child before it writes it, and revoke_salted deletes it
\* before it unlinks it: however a call is cut short, by an error or a crash,
\* every stored token with a parent can be found by revoke_tree.
ParentLinked ==
    \A n \in Token : tokens[n] # None /\ tokens[n].parent # None =>
        <<tokens[n].parent, n>> \in parents

\* No two requests are in progress at once.  (The checkers are no requests.)
OneRequest == \A c, d \in Client : agenda[c] # <<>> /\ agenda[d] # <<>> => c = d

\* revoke_tree: as long as requests do not overlap, the token of a revocation
\* that returned Ok and the tree that was linked below it are gone and never
\* come back, whatever the checkers do beside it and wherever a request fails
\* or is cut.  (Not so for requests that overlap: a create that has linked its
\* child, or a use_token that has read its token, writes it after the
\* revocation has passed.)
RevokedTreeGone == []OneRequest => [](\A n \in revoked : tokens[n] = None)

\* While the vault is unsealed, the checker of the newest manager knows every
\* stored lease, and will handle it no later than it ends: the lease is in its
\* queue, or a request is about to put it there.  Renewals, revocations by
\* requests and the old checkers run at the same time.  (Not so for a secret
\* whose index could not be written: a fault in register_secret leaves a lease
\* that only the next unseal finds.)
LeaseScheduled ==
    status = "ready" => \A l \in Lease : leases[l] # None =>
        \/ queue[managers][l] # None /\ queue[managers][l] \in 1 .. leases[l].expire
        \/ \E c \in Client : \E i \in DOMAIN agenda[c] :
              agenda[c][i].do = "enqueue" /\ agenda[c][i].id = l

\* A checker of e deletes a token that its client was told lives longer.
TooEarly(e) ==
    /\ Doing(e, "revoke")
    /\ tokens[Task(e).id] # None
    /\ now < acked[Task(e).id]

\* The checker of the newest manager never ends a token before the time its
\* owner was told, even with a renewal on its way.
CheckerOnTime == \A e \in Manager : e = managers => ~TooEarly(e)

\* The checker waits for the lock it holds itself.
SelfBlocked(e) == e \in looping /\ Doing(e, "enqueue")

Expired(n) == tokens[n] # None /\ leases[n] # None /\ leases[n].expire < now

\* A token whose lease has ended is deleted, unless the vault is sealed or a
\* checker blocks itself (see CheckerHandlesExpired).
ExpiredTokensGo ==
    \A n \in Token :
        (status = "ready" /\ Expired(n)) ~>
            (~Expired(n) \/ status # "ready" \/ SelfBlocked(managers))

-----------------------------------------------------------------------------
(* What the texts of the repository say *)

\* expiration.rs: "to check for expired leases and handle them accordingly".
CheckerHandlesExpired ==
    \A n \in Token : (status = "ready" /\ Expired(n)) ~> (~Expired(n) \/ status # "ready")
=============================================================================
