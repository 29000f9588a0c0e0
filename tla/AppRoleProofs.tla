--------------------------- MODULE AppRoleProofs ---------------------------
(***************************************************************************)
(* Proofs about AppRole, for any number of threads, roles and secret ids,  *)
(* in three layers: the locks and what a call finds under them (Control),  *)
(* the entries of secret ids and their uses (SecretInv), the roles and     *)
(* their index (RoleInv).                                                  *)
(***************************************************************************)
EXTENDS AppRole, TLAPS

-----------------------------------------------------------------------------
(* Which call holds what *)

RoleWriters == {"unindex", "put_role", "index", "flush", "delete_index", "delete_role"}
SlotWriters == {"register_entry", "destroy", "login_last"}

\* What the record of a call has at each step, and the locks it holds.
Fits(k) ==
    /\ k.step \in RoleWriters => k.role \in Role /\ k.roleMode = "write"
    /\ k.step \in {"repair", "login_role"} => k.role \in Role
    /\ k.step \in {"unindex", "put_role", "index", "repair"} => k.entry \in RoleEntry
    /\ k.step = "unindex" => k.previous \in RoleId
    /\ k.step = "login_role" => k.secret \in SecretId
    /\ k.step \in SlotWriters \cup {"register", "login_check", "login_drop", "login_use"} =>
          k.slot \in Slot
    /\ k.step \in SlotWriters => k.slotMode = "write"
    /\ k.step = "login_drop" => k.slotMode = "read"
    /\ k.step \in {"register_entry", "login_last"} => k.storage \in SecretIdStorageEntry
    /\ k.step = "register_entry" => k.storage.num_uses \in Nat

\* What is in the slot a call has locked.
HeldBy(k, sec) ==
    /\ k.step \in {"destroy", "login_last"} => sec[k.slot] # None
    /\ k.step = "login_last" => /\ sec[k.slot].accessor = k.storage.accessor
                                /\ sec[k.slot].num_uses = 1

Apart(k, m) ==
    /\ k.role = m.role /\ k.roleMode = "write" => m.roleMode = "none"
    /\ k.slot = m.slot /\ k.slotMode = "write" => m.slotMode = "none"

Calls ==
    /\ \A c \in Client : Fits(call[c]) /\ HeldBy(call[c], secret)
    /\ \A c, d \in Client : c # d => Apart(call[c], call[d])
    /\ \A c \in Client : call[c].slot = tidy.slot /\ tidy.slotMode = "write" =>
          call[c].slotMode = "none"
    /\ tidy.step = "expired" => tidy.slot \in Slot /\ tidy.slotMode = "write"

Control == TypeOK /\ Calls

\* Nobody but x has the slot s for writing.
SlotFree(x, s) == \A d \in Client \ {x} : call[d].slot = s => call[d].slotMode # "write"

LEMMA NoneFacts ==
    /\ None \notin RoleEntry /\ None \notin SecretIdStorageEntry /\ None \notin Role
    /\ None \notin RoleId /\ None \notin SecretId /\ None \notin Slot
BY NoneAssumption

LEMMA NoCallFacts ==
    /\ NoCall \in CallRecord /\ NoCall.step = "idle" /\ NoCall.roleMode = "none"
    /\ NoCall.slotMode = "none" /\ NoCall.flushed = {}
BY DEF NoCall, CallRecord, Mode

LEMMA IdleFits == ASSUME NEW k, k.step = "idle", NEW sec PROVE Fits(k) /\ HeldBy(k, sec)
BY DEF Fits, HeldBy, RoleWriters, SlotWriters

\* A step of the thread c, after which k is its record.
LEMMA CallsMove ==
    ASSUME Control, NEW c \in Client, NEW k, call' = [call EXCEPT ![c] = k], tidy' = tidy,
           Fits(k), HeldBy(k, secret'),
           \/ k.roleMode = "none"
           \/ k.role = call[c].role /\ k.roleMode = call[c].roleMode
           \/ k.roleMode \in Mode /\ RoleLock(c, k.role, k.roleMode),
           \/ k.slotMode = "none"
           \/ k.slot = call[c].slot /\ k.slotMode = call[c].slotMode
           \/ k.slotMode \in Mode /\ SlotLock(c, k.slot, k.slotMode),
           \A s \in Slot : secret'[s] = secret[s] \/ SlotFree(c, s)
    PROVE  Calls'
<1>0. call \in [Client -> CallRecord]
  BY DEF Control, TypeOK
<1>1. call'[c] = k /\ \A d \in Client \ {c} : call'[d] = call[d]
  BY <1>0
<1>2. ASSUME NEW d \in Client PROVE Fits(call'[d]) /\ HeldBy(call'[d], secret')
  <2>1. CASE d = c
    BY <1>1, <2>1
  <2>2. CASE d # c
    <3>1. call'[d] = call[d] /\ Fits(call[d]) /\ HeldBy(call[d], secret)
      BY <1>1, <2>2 DEF Control, Calls
    <3> DEFINE m == call[d]
    <3>2. CASE m.step \in {"destroy", "login_last"}
      <4>1. m.slot \in Slot /\ m.slotMode = "write"
        BY <3>1, <3>2 DEF Fits, SlotWriters
      <4>2. secret'[m.slot] = secret[m.slot]
        BY <2>2, <4>1 DEF SlotFree
      <4> HIDE DEF m
      <4> QED BY <3>1, <4>2 DEF HeldBy, m
    <3>3. CASE m.step \notin {"destroy", "login_last"}
      BY <3>1, <3>3 DEF HeldBy
    <3> QED BY <3>2, <3>3
  <2> QED BY <2>1, <2>2
<1>3. ASSUME NEW d \in Client \ {c} PROVE Apart(k, call[d]) /\ Apart(call[d], k)
  <2>1. Apart(call[c], call[d]) /\ Apart(call[d], call[c])
    BY DEF Control, Calls
  <2>2. call[d].roleMode \in Mode /\ call[d].slotMode \in Mode
    BY <1>0 DEF CallRecord
  <2>3. /\ k.role = call[d].role /\ k.roleMode = "write" => call[d].roleMode = "none"
        /\ k.role = call[d].role /\ call[d].roleMode = "write" => k.roleMode = "none"
    BY <2>1, <2>2 DEF Apart, RoleLock, Compatible, Mode
  <2>4. /\ k.slot = call[d].slot /\ k.slotMode = "write" => call[d].slotMode = "none"
        /\ k.slot = call[d].slot /\ call[d].slotMode = "write" => k.slotMode = "none"
    BY <2>1, <2>2 DEF Apart, SlotLock, Compatible, Mode
  <2> QED BY <2>3, <2>4 DEF Apart
<1>4. \A d, e \in Client : d # e => Apart(call'[d], call'[e])
  BY <1>1, <1>3 DEF Control, Calls
<1>5. \A d \in Client : call'[d].slot = tidy.slot /\ tidy.slotMode = "write" => call'[d].slotMode = "none"
  <2>1. c # "tidy"
    BY TidyAssumption
  <2>2. k.slot = tidy.slot /\ tidy.slotMode = "write" => k.slotMode = "none"
    BY <2>1 DEF Control, Calls, SlotLock, Compatible, Mode
  <2> QED BY <1>1, <2>2 DEF Control, Calls
<1> QED BY <1>2, <1>4, <1>5 DEF Control, Calls

\* The types of what a call or the task can change.
CoreTyped ==
    /\ role \in [Role -> RoleEntry \cup {None}]
    /\ roleIndex \in [RoleId -> Role \cup {None}]
    /\ secret \in [Slot -> SecretIdStorageEntry \cup {None}]
    /\ accessor \in [Accessor -> Slot \cup {None}]
    /\ call \in [Client -> CallRecord]
    /\ tidy \in TidyRecord
    /\ now \in 0 .. MaxTime
    /\ keys \in 0 .. MaxKeys
    /\ accessors \in 0 .. MaxAccessors
    /\ granted \in [Accessor -> Nat]
    /\ logins \in [Accessor -> Nat]
    /\ dead \subseteq Accessor

LEMMA CoreFacts == ASSUME Control PROVE CoreTyped
BY DEF Control, TypeOK, CoreTyped

\* The slot of a role's secret id.
LEMMA SlotOf ==
    ASSUME NEW r \in Role, role \in [Role -> RoleEntry \cup {None}], role[r] # None,
           NEW i \in SecretId
    PROVE  role[r] \in RoleEntry /\ <<role[r].hmac_key, i>> \in Slot
BY DEF RoleEntry, Slot

-----------------------------------------------------------------------------
(* The requests on roles *)

LEMMA SetRoleControl ==
    ASSUME Control, NEW c \in Client, Idle(c), NEW r \in Role, NEW e \in RoleEntry,
           NEW p \in RoleId \cup {None}, SetRole(c, r, e, p)
    PROVE  /\ call' \in [Client -> CallRecord]
           /\ Calls'
<1> DEFINE st == IF p \in {None, e.role_id} THEN "put_role" ELSE "unindex"
           k == [NoCall EXCEPT !.step = st, !.role = r, !.roleMode = "write", !.entry = e,
                               !.previous = p, !.create = p # e.role_id]
<1>1. call' = [call EXCEPT ![c] = k] /\ RoleLock(c, r, "write") /\ tidy' = tidy /\ secret' = secret
  BY DEF SetRole, Do, storageVars
<1>2. st \in {"put_role", "unindex"} /\ (st = "unindex" => p \in RoleId)
  OBVIOUS
<1> HIDE DEF st
<1>3. /\ k \in CallRecord /\ k.step = st /\ k.role = r /\ k.roleMode = "write"
      /\ k.entry = e /\ k.previous = p /\ k.slotMode = "none"
  BY <1>2 DEF NoCall, CallRecord, Mode
<1> HIDE DEF k
<1>4. Fits(k) /\ HeldBy(k, secret')
  BY <1>2, <1>3 DEF Fits, HeldBy, RoleWriters, SlotWriters
<1>5. Calls'
  BY <1>1, <1>3, <1>4, CallsMove DEF Mode
<1>6. call' \in [Client -> CallRecord]
  BY <1>1, <1>3 DEF Control, TypeOK
<1> QED BY <1>5, <1>6

LEMMA WriteRoleControl ==
    ASSUME Control, NEW c \in Client, NEW r \in Role, NEW i \in RoleId, NEW n \in Uses,
           WriteRole(c, r, i, n)
    PROVE  CoreTyped' /\ Calls'
<1>0. CoreTyped
  BY CoreFacts
<1> DEFINE new == role[r] = None
           key == IF new THEN keys + 1 ELSE role[r].hmac_key
           e == [role_id |-> i, hmac_key |-> key, num_uses |-> n]
           p == IF new THEN None ELSE role[r].role_id
<1>1. Idle(c) /\ key <= MaxKeys /\ keys' = (IF new THEN key ELSE keys) /\ SetRole(c, r, e, p)
  BY DEF WriteRole
<1>2. key \in Key /\ p \in RoleId \cup {None} /\ keys' \in 0 .. MaxKeys
  BY <1>0, <1>1, NumbersAssumption DEF CoreTyped, RoleEntry, Key
<1>3. e \in RoleEntry
  BY <1>2 DEF RoleEntry
<1> HIDE DEF e, p
<1>4. call' \in [Client -> CallRecord] /\ Calls'
  BY <1>1, <1>2, <1>3, SetRoleControl
<1> QED BY <1>0, <1>1, <1>2, <1>4 DEF CoreTyped, SetRole, storageVars, historyVars

LEMMA UpdateRoleFieldControl ==
    ASSUME Control, NEW c \in Client, NEW r \in Role, NEW n \in Uses, UpdateRoleField(c, r, n)
    PROVE  CoreTyped' /\ Calls'
<1>0. CoreTyped
  BY CoreFacts
<1> DEFINE e == [role[r] EXCEPT !.num_uses = n]
<1>1. Idle(c) /\ role[r] # None /\ keys' = keys /\ SetRole(c, r, e, None)
  BY DEF UpdateRoleField
<1>3. e \in RoleEntry
  BY <1>0, <1>1 DEF CoreTyped, RoleEntry
<1> HIDE DEF e
<1>4. call' \in [Client -> CallRecord] /\ Calls'
  BY <1>1, <1>3, SetRoleControl
<1> QED BY <1>0, <1>1, <1>4 DEF CoreTyped, SetRole, storageVars, historyVars

LEMMA ReadRoleControl ==
    ASSUME Control, NEW c \in Client, NEW r \in Role, ReadRole(c, r)
    PROVE  CoreTyped' /\ Calls'
<1>0. CoreTyped
  BY CoreFacts
<1> DEFINE k == [NoCall EXCEPT !.step = "repair", !.role = r, !.entry = role[r]]
<1>1. call' = [call EXCEPT ![c] = k] /\ role[r] # None /\ tidy' = tidy /\ secret' = secret
  BY DEF ReadRole, Do, storageVars
<1>2. role[r] \in RoleEntry
  BY <1>0, <1>1 DEF CoreTyped
<1>3. /\ k \in CallRecord /\ k.step = "repair" /\ k.role = r /\ k.entry = role[r]
      /\ k.roleMode = "none" /\ k.slotMode = "none"
  BY <1>2 DEF NoCall, CallRecord, Mode
<1> HIDE DEF k
<1>4. Fits(k) /\ HeldBy(k, secret')
  BY <1>2, <1>3 DEF Fits, HeldBy, RoleWriters, SlotWriters
<1>5. Calls'
  BY <1>1, <1>3, <1>4, CallsMove
<1> QED BY <1>0, <1>1, <1>3, <1>5 DEF CoreTyped, ReadRole, storageVars, historyVars

LEMMA DeleteRoleControl ==
    ASSUME Control, NEW c \in Client, NEW r \in Role, DeleteRole(c, r)
    PROVE  CoreTyped' /\ Calls'
<1>0. CoreTyped
  BY CoreFacts
<1> DEFINE t == {s \in Slot : s[1] = role[r].hmac_key /\ secret[s] # None}
           k == [NoCall EXCEPT !.step = "flush", !.role = r, !.roleMode = "write", !.todo = t]
<1>1. call' = [call EXCEPT ![c] = k] /\ RoleLock(c, r, "write") /\ tidy' = tidy /\ secret' = secret
  BY DEF DeleteRole, Do, storageVars
<1>2. t \subseteq Slot
  OBVIOUS
<1> HIDE DEF t
<1>3. /\ k \in CallRecord /\ k.step = "flush" /\ k.role = r
      /\ k.roleMode = "write" /\ k.slotMode = "none"
  BY <1>2 DEF NoCall, CallRecord, Mode
<1> HIDE DEF k
<1>4. Fits(k) /\ HeldBy(k, secret')
  BY <1>2, <1>3 DEF Fits, HeldBy, RoleWriters, SlotWriters
<1>5. Calls'
  BY <1>1, <1>3, <1>4, CallsMove DEF Mode
<1> QED BY <1>0, <1>1, <1>3, <1>5 DEF CoreTyped, DeleteRole, storageVars, historyVars

\* A call that ends, whatever it has written in a slot nobody else had locked.
LEMMA ReturnControl ==
    ASSUME Control, NEW c \in Client, Return(c), tidy' = tidy,
           \A s \in Slot : secret'[s] = secret[s] \/ SlotFree(c, s)
    PROVE  call' \in [Client -> CallRecord] /\ Calls'
<1>1. call' = [call EXCEPT ![c] = NoCall]
  BY DEF Return
<1>2. Fits(NoCall) /\ HeldBy(NoCall, secret')
  BY IdleFits, NoCallFacts
<1>3. Calls'
  BY <1>1, <1>2, NoCallFacts, CallsMove
<1> QED BY <1>1, <1>3, NoCallFacts DEF Control, TypeOK

\* A call that goes on to a step of the requests on roles.
LEMMA GotoControl ==
    ASSUME Control, NEW c \in Client, call[c].step \in RoleWriters,
           NEW st \in {"put_role", "index", "delete_index", "delete_role"}, Goto(c, st),
           st \in {"put_role", "index"} => call[c].entry \in RoleEntry,
           tidy' = tidy, secret' = secret
    PROVE  call' \in [Client -> CallRecord] /\ Calls'
<1> DEFINE k == [call[c] EXCEPT !.step = st]
<1>0. call \in [Client -> CallRecord] /\ Fits(call[c])
  BY DEF Control, TypeOK, Calls
<1>1. call' = [call EXCEPT ![c] = k]
  BY <1>0 DEF Goto
<1>2. call[c] \in CallRecord
  BY <1>0
<1>3. /\ k \in CallRecord /\ k.step = st /\ k.role = call[c].role /\ k.roleMode = call[c].roleMode
      /\ k.slot = call[c].slot /\ k.slotMode = call[c].slotMode /\ k.entry = call[c].entry
  BY <1>2 DEF CallRecord
<1> HIDE DEF k
<1>4. call[c].role \in Role /\ call[c].roleMode = "write"
  BY <1>0 DEF Fits
<1>5. Fits(k) /\ HeldBy(k, secret')
  BY <1>3, <1>4 DEF Fits, HeldBy, RoleWriters, SlotWriters
<1>6. Calls'
  BY <1>1, <1>3, <1>5, CallsMove
<1> QED BY <1>0, <1>1, <1>3, <1>6

LEMMA SetRoleUnindexControl ==
    ASSUME Control, NEW c \in Client, SetRoleUnindex(c)
    PROVE  CoreTyped' /\ Calls'
<1>0. CoreTyped /\ Fits(call[c])
  BY CoreFacts DEF Control, Calls
<1>1. call[c].step = "unindex" /\ Goto(c, "put_role") /\ tidy' = tidy /\ secret' = secret
  BY DEF SetRoleUnindex, At
<1>2. call[c].previous \in RoleId /\ call[c].entry \in RoleEntry
  BY <1>0, <1>1 DEF Fits
<1>3. call' \in [Client -> CallRecord] /\ Calls'
  BY <1>1, <1>2, GotoControl DEF RoleWriters
<1> QED BY <1>0, <1>2, <1>3 DEF CoreTyped, SetRoleUnindex, storageVars, historyVars

LEMMA SetRolePutControl ==
    ASSUME Control, NEW c \in Client, SetRolePut(c)
    PROVE  CoreTyped' /\ Calls'
<1>0. CoreTyped /\ Fits(call[c])
  BY CoreFacts DEF Control, Calls
<1>1. call[c].step = "put_role" /\ tidy' = tidy /\ secret' = secret
  BY DEF SetRolePut, At
<1>2. call[c].role \in Role /\ call[c].entry \in RoleEntry
  BY <1>0, <1>1 DEF Fits, RoleWriters
<1>3. call' \in [Client -> CallRecord] /\ Calls'
  <2>1. CASE Goto(c, "index")
    BY <1>1, <1>2, <2>1, GotoControl DEF RoleWriters
  <2>2. CASE Return(c)
    BY <1>1, <2>2, ReturnControl
  <2> QED BY <2>1, <2>2 DEF SetRolePut
<1> QED BY <1>0, <1>2, <1>3 DEF CoreTyped, SetRolePut, historyVars

LEMMA SetRoleIndexControl ==
    ASSUME Control, NEW c \in Client, SetRoleIndex(c)
    PROVE  CoreTyped' /\ Calls'
<1>0. CoreTyped /\ Fits(call[c])
  BY CoreFacts DEF Control, Calls
<1>1. call[c].step = "index" /\ tidy' = tidy /\ secret' = secret /\ Return(c)
  BY DEF SetRoleIndex, At
<1>2. call[c].role \in Role /\ call[c].entry \in RoleEntry
  BY <1>0, <1>1 DEF Fits, RoleWriters
<1>3. call' \in [Client -> CallRecord] /\ Calls'
  BY <1>1, ReturnControl
<1> QED BY <1>0, <1>2, <1>3 DEF CoreTyped, SetRoleIndex, historyVars, RoleEntry

LEMMA ReadRoleRepairControl ==
    ASSUME Control, NEW c \in Client, ReadRoleRepair(c)
    PROVE  CoreTyped' /\ Calls'
<1>0. CoreTyped /\ Fits(call[c])
  BY CoreFacts DEF Control, Calls
<1>1. call[c].step = "repair" /\ tidy' = tidy /\ secret' = secret /\ Return(c)
  BY DEF ReadRoleRepair, At
<1>2. call[c].role \in Role /\ call[c].entry \in RoleEntry
  BY <1>0, <1>1 DEF Fits, RoleWriters
<1>3. call' \in [Client -> CallRecord] /\ Calls'
  BY <1>1, ReturnControl
<1> QED BY <1>0, <1>2, <1>3 DEF CoreTyped, ReadRoleRepair, historyVars, RoleEntry

LEMMA DeleteRoleIndexControl ==
    ASSUME Control, NEW c \in Client, DeleteRoleIndex(c)
    PROVE  CoreTyped' /\ Calls'
<1>0. CoreTyped
  BY CoreFacts
<1>1. call[c].step = "delete_index" /\ tidy' = tidy /\ secret' = secret /\ Goto(c, "delete_role")
  BY DEF DeleteRoleIndex, At
<1>3. call' \in [Client -> CallRecord] /\ Calls'
  BY <1>1, GotoControl DEF RoleWriters
<1> QED BY <1>0, <1>3 DEF CoreTyped, DeleteRoleIndex, historyVars

LEMMA DeleteRoleEntryControl ==
    ASSUME Control, NEW c \in Client, DeleteRoleEntry(c)
    PROVE  CoreTyped' /\ Calls'
<1>0. CoreTyped /\ call[c] \in CallRecord
  BY CoreFacts DEF CoreTyped
<1>1. tidy' = tidy /\ secret' = secret /\ Return(c)
  BY DEF DeleteRoleEntry, At
<1>2. call[c].flushed \subseteq Accessor
  BY <1>0 DEF CallRecord
<1>3. call' \in [Client -> CallRecord] /\ Calls'
  BY <1>1, ReturnControl
<1> QED BY <1>0, <1>2, <1>3 DEF CoreTyped, DeleteRoleEntry


LEMMA FlushRoleSecretsControl ==
    ASSUME Control, NEW c \in Client, FlushRoleSecrets(c)
    PROVE  CoreTyped' /\ Calls'
<1>0. CoreTyped /\ call[c] \in CallRecord /\ Fits(call[c])
  BY CoreFacts DEF CoreTyped, Control, Calls
<1>1. /\ call[c].step = "flush" /\ UNCHANGED <<role, roleIndex, accessor, tidy, now, keys, accessors>>
      /\ UNCHANGED <<granted, logins, dead>>
  BY DEF FlushRoleSecrets, At, historyVars
<1>2. CASE call[c].todo = {} /\ Goto(c, "delete_index") /\ UNCHANGED secret
  <2>1. call' \in [Client -> CallRecord] /\ Calls'
    BY <1>1, <1>2, GotoControl DEF RoleWriters
  <2> QED BY <1>0, <1>1, <1>2, <2>1 DEF CoreTyped
<1>3. ASSUME NEW s \in call[c].todo, SlotLock(c, s, "write"),
             secret' = [secret EXCEPT ![s] = None],
             Do(c, [call[c] EXCEPT !.todo = @ \ {s}, !.flushed =
                      @ \cup (IF secret[s] = None THEN {} ELSE {secret[s].accessor})])
      PROVE  CoreTyped' /\ Calls'
  <2> DEFINE f == IF secret[s] = None THEN {} ELSE {secret[s].accessor}
             k == [call[c] EXCEPT !.todo = @ \ {s}, !.flushed = @ \cup f]
  <2>1. s \in Slot
    BY <1>0 DEF CallRecord
  <2>2. f \subseteq Accessor
    BY <1>0, <2>1 DEF CoreTyped, SecretIdStorageEntry
  <2>3. call' = [call EXCEPT ![c] = k]
    BY <1>3 DEF Do
  <2> HIDE DEF f
  <2>4. /\ k \in CallRecord /\ k.step = "flush" /\ k.role = call[c].role
        /\ k.roleMode = call[c].roleMode /\ k.slot = call[c].slot /\ k.slotMode = call[c].slotMode
    BY <1>0, <1>1, <2>2 DEF CallRecord
  <2> HIDE DEF k
  <2>5. Fits(k) /\ HeldBy(k, secret')
    BY <1>0, <1>1, <2>4 DEF Fits, HeldBy, RoleWriters, SlotWriters
  <2>6. SlotFree(c, s)
    BY <1>3 DEF SlotLock, SlotFree, Compatible
  <2>7. \A t \in Slot : secret'[t] = secret[t] \/ SlotFree(c, t)
    BY <1>0, <1>3, <2>1, <2>6 DEF CoreTyped
  <2>8. Calls'
    BY <1>1, <2>3, <2>4, <2>5, <2>7, CallsMove
  <2> QED BY <1>0, <1>1, <1>3, <2>1, <2>3, <2>4, <2>8 DEF CoreTyped
<1> QED BY <1>2, <1>3 DEF FlushRoleSecrets

-----------------------------------------------------------------------------
(* The requests on secret ids *)

LEMMA WriteSecretIdControl ==
    ASSUME Control, NEW c \in Client, NEW r \in Role, NEW i \in SecretId, NEW n \in Uses,
           NEW ttl \in Ttls, WriteSecretId(c, r, i, n, ttl)
    PROVE  CoreTyped' /\ Calls'
<1>0. CoreTyped
  BY CoreFacts
<1> DEFINE s == <<role[r].hmac_key, i>>
           k == [NoCall EXCEPT !.step = "register", !.role = r, !.roleMode = "read",
                               !.slot = s, !.num_uses = n, !.ttl = ttl]
<1>1. /\ call' = [call EXCEPT ![c] = k] /\ RoleLock(c, r, "read") /\ role[r] # None
      /\ tidy' = tidy /\ secret' = secret
  BY DEF WriteSecretId, Do, storageVars
<1>2. s \in Slot
  BY <1>0, <1>1, SlotOf DEF CoreTyped
<1>3. n \in Nat /\ ttl \in Nat
  BY NumbersAssumption
<1> HIDE DEF s
<1>4. /\ k \in CallRecord /\ k.step = "register" /\ k.role = r /\ k.roleMode = "read"
      /\ k.slot = s /\ k.slotMode = "none"
  BY <1>2, <1>3 DEF NoCall, CallRecord, Mode
<1> HIDE DEF k
<1>5. Fits(k) /\ HeldBy(k, secret')
  BY <1>2, <1>4 DEF Fits, HeldBy, RoleWriters, SlotWriters
<1>6. Calls'
  BY <1>1, <1>4, <1>5, CallsMove DEF Mode
<1> QED BY <1>0, <1>1, <1>4, <1>6 DEF CoreTyped, WriteSecretId, storageVars, historyVars

LEMMA RegisterAccessorControl ==
    ASSUME Control, NEW c \in Client, RegisterAccessor(c)
    PROVE  CoreTyped' /\ Calls'
<1> DEFINE s == call[c].slot
           a == accessors + 1
           e == [accessor |-> a, num_uses |-> call[c].num_uses,
                 expiration_time |-> now + call[c].ttl]
           k == [call[c] EXCEPT !.step = "register_entry", !.slotMode = "write", !.storage = e]
<1>0. CoreTyped /\ call[c] \in CallRecord /\ Fits(call[c])
  BY CoreFacts DEF CoreTyped, Control, Calls
<1>1. /\ call[c].step = "register" /\ SlotLock(c, s, "write")
      /\ role' = role /\ roleIndex' = roleIndex /\ secret' = secret /\ tidy' = tidy
      /\ now' = now /\ keys' = keys /\ granted' = granted /\ logins' = logins /\ dead' = dead
  BY DEF RegisterAccessor, At, historyVars
<1>2. CASE Return(c) /\ UNCHANGED <<accessor, accessors>>
  <2>1. call' \in [Client -> CallRecord] /\ Calls'
    BY <1>1, <1>2, ReturnControl
  <2> QED BY <1>0, <1>1, <1>2, <2>1 DEF CoreTyped
<1>3. CASE /\ a <= MaxAccessors /\ accessor' = [accessor EXCEPT ![a] = s] /\ accessors' = a
           /\ call' = [call EXCEPT ![c] = k]
  <2>1. s \in Slot
    BY <1>0, <1>1 DEF Fits, SlotWriters
  <2>2. a \in Accessor /\ a \in 0 .. MaxAccessors
    BY <1>0, <1>3, NumbersAssumption DEF CoreTyped, Accessor
  <2>3. call[c].num_uses \in Nat /\ call[c].ttl \in Nat /\ now \in Nat
    BY <1>0, NumbersAssumption DEF CallRecord, CoreTyped
  <2>4. e \in SecretIdStorageEntry /\ e.num_uses \in Nat
    BY <2>2, <2>3 DEF SecretIdStorageEntry
  <2> HIDE DEF e
  <2>5. /\ k \in CallRecord /\ k.step = "register_entry" /\ k.role = call[c].role
        /\ k.roleMode = call[c].roleMode /\ k.slot = s /\ k.slotMode = "write" /\ k.storage = e
    BY <1>0, <2>4 DEF CallRecord, Mode
  <2> HIDE DEF k, s
  <2>6. Fits(k) /\ HeldBy(k, secret')
    BY <2>1, <2>4, <2>5 DEF Fits, HeldBy, RoleWriters, SlotWriters
  <2>7. Calls'
    BY <1>1, <1>3, <2>5, <2>6, CallsMove DEF Mode
  <2> QED BY <1>0, <1>1, <1>3, <2>1, <2>2, <2>5, <2>7 DEF CoreTyped
<1>4. a > MaxAccessors \/ a <= MaxAccessors
  BY <1>0, NumbersAssumption DEF CoreTyped
<1> QED BY <1>2, <1>3, <1>4 DEF RegisterAccessor, Do

\* The slot a call has for writing is nobody else's.
LEMMA WriterAlone ==
    ASSUME Control, NEW c \in Client, call[c].slotMode = "write" \/ call[c].slotMode = "read"
    PROVE  SlotFree(c, call[c].slot)
<1>1. ASSUME NEW d \in Client \ {c}, call[d].slot = call[c].slot, call[d].slotMode = "write"
      PROVE  FALSE
  <2>1. Apart(call[d], call[c])
    BY DEF Control, Calls
  <2> QED BY <1>1, <2>1 DEF Apart
<1> QED BY <1>1 DEF SlotFree

\* A call that writes its slot and ends.
LEMMA WriteReturnControl ==
    ASSUME Control, NEW c \in Client, call[c].slotMode \in {"read", "write"}, Return(c),
           call[c].slot \in Slot, NEW x, secret' = [secret EXCEPT ![call[c].slot] = x],
           tidy' = tidy
    PROVE  call' \in [Client -> CallRecord] /\ Calls'
<1>1. SlotFree(c, call[c].slot)
  BY WriterAlone
<1>2. \A t \in Slot : secret'[t] = secret[t] \/ SlotFree(c, t)
  BY <1>1 DEF Control, TypeOK
<1> QED BY <1>2, ReturnControl

LEMMA RegisterEntryControl ==
    ASSUME Control, NEW c \in Client, RegisterEntry(c)
    PROVE  CoreTyped' /\ Calls'
<1>0. CoreTyped /\ Fits(call[c])
  BY CoreFacts DEF Control, Calls
<1>1. /\ call[c].step = "register_entry" /\ tidy' = tidy /\ Return(c)
      /\ secret' = [secret EXCEPT ![call[c].slot] = call[c].storage]
  BY DEF RegisterEntry, At
<1>2. /\ call[c].slot \in Slot /\ call[c].slotMode = "write"
      /\ call[c].storage \in SecretIdStorageEntry /\ call[c].storage.num_uses \in Nat
  BY <1>0, <1>1 DEF Fits, SlotWriters
<1>3. call' \in [Client -> CallRecord] /\ Calls'
  BY <1>1, <1>2, WriteReturnControl
<1>4. call[c].storage.accessor \in Accessor
  BY <1>2 DEF SecretIdStorageEntry
<1> QED BY <1>0, <1>1, <1>2, <1>3, <1>4 DEF CoreTyped, RegisterEntry

LEMMA LookupSecretIdControl ==
    ASSUME Control, NEW c \in Client, NEW r \in Role, NEW i \in SecretId, LookupSecretId(c, r, i)
    PROVE  CoreTyped' /\ Calls'
<1>0. CoreTyped
  BY CoreFacts
<1> DEFINE s == <<role[r].hmac_key, i>>
<1>1. /\ Idle(c) /\ SlotLock(c, s, "write") /\ role[r] # None /\ call' = call /\ tidy' = tidy
      /\ secret' = [secret EXCEPT ![s] = None]
  BY DEF LookupSecretId
<1>2. s \in Slot
  BY <1>0, <1>1, SlotOf DEF CoreTyped
<1> HIDE DEF s
<1>3. call' = [call EXCEPT ![c] = call[c]]
  BY <1>0, <1>1 DEF CoreTyped
<1>4. \A t \in Slot : secret'[t] = secret[t] \/ SlotFree(c, t)
  <2>1. SlotFree(c, s)
    BY <1>1 DEF SlotLock, SlotFree, Compatible
  <2> QED BY <1>0, <1>1, <2>1 DEF CoreTyped
<1>5. Fits(call[c]) /\ HeldBy(call[c], secret')
  BY <1>1, IdleFits DEF Idle
<1> DEFINE k == call[c]
<1>6. k.role = call[c].role /\ k.roleMode = call[c].roleMode /\ k.slot = call[c].slot /\ k.slotMode = call[c].slotMode
  OBVIOUS
<1>7. call' = [call EXCEPT ![c] = k] /\ Fits(k) /\ HeldBy(k, secret')
  BY <1>3, <1>5
<1> HIDE DEF k
<1>8. Calls'
  BY <1>1, <1>4, <1>6, <1>7, CallsMove
<1> QED BY <1>0, <1>1, <1>2, <1>8 DEF CoreTyped, LookupSecretId, historyVars

LEMMA DestroyControl ==
    ASSUME Control, NEW c \in Client, NEW r \in Role, NEW mode \in {"read", "write"},
           NEW s \in Slot, NEW a \in Accessor, Destroy(c, r, mode, s, a)
    PROVE  CoreTyped' /\ Calls'
<1>0. CoreTyped
  BY CoreFacts
<1> DEFINE k == [NoCall EXCEPT !.step = "destroy", !.role = r, !.roleMode = mode, !.slot = s,
                               !.slotMode = "write"]
<1>1. /\ call' = [call EXCEPT ![c] = k] /\ RoleLock(c, r, mode) /\ SlotLock(c, s, "write")
      /\ secret[s] # None /\ tidy' = tidy /\ secret' = secret
  BY DEF Destroy, Do
<1>2. /\ k \in CallRecord /\ k.step = "destroy" /\ k.role = r /\ k.roleMode = mode
      /\ k.slot = s /\ k.slotMode = "write"
  BY DEF NoCall, CallRecord, Mode
<1> HIDE DEF k
<1>3. Fits(k) /\ HeldBy(k, secret')
  BY <1>1, <1>2 DEF Fits, HeldBy, RoleWriters, SlotWriters
<1>4. Calls'
  BY <1>1, <1>2, <1>3, CallsMove DEF Mode
<1> QED BY <1>0, <1>1, <1>2, <1>4 DEF CoreTyped, Destroy, historyVars

LEMMA DestroySecretIdControl ==
    ASSUME Control, NEW c \in Client, NEW r \in Role, NEW i \in SecretId, DestroySecretId(c, r, i)
    PROVE  CoreTyped' /\ Calls'
<1>0. CoreTyped
  BY CoreFacts
<1> DEFINE s == <<role[r].hmac_key, i>>
<1>1. role[r] # None /\ secret[s] # None /\ Destroy(c, r, "read", s, secret[s].accessor)
  BY DEF DestroySecretId
<1>2. s \in Slot
  BY <1>0, <1>1, SlotOf DEF CoreTyped
<1> HIDE DEF s
<1>3. secret[s].accessor \in Accessor
  BY <1>0, <1>1, <1>2 DEF CoreTyped, SecretIdStorageEntry
<1> QED BY <1>1, <1>2, <1>3, DestroyControl

LEMMA DestroyAccessorControl ==
    ASSUME Control, NEW c \in Client, NEW r \in Role, NEW a \in Accessor, DestroyAccessor(c, r, a)
    PROVE  CoreTyped' /\ Calls'
<1>0. CoreTyped
  BY CoreFacts
<1>1. accessor[a] # None /\ Destroy(c, r, "write", accessor[a], a)
  BY DEF DestroyAccessor
<1>2. accessor[a] \in Slot
  BY <1>0, <1>1 DEF CoreTyped
<1> QED BY <1>1, <1>2, DestroyControl

LEMMA DestroyEntryControl ==
    ASSUME Control, NEW c \in Client, DestroyEntry(c)
    PROVE  CoreTyped' /\ Calls'
<1>0. CoreTyped /\ Fits(call[c]) /\ HeldBy(call[c], secret)
  BY CoreFacts DEF Control, Calls
<1> DEFINE s == call[c].slot
<1>1. /\ call[c].step = "destroy" /\ tidy' = tidy /\ Return(c)
      /\ secret' = [secret EXCEPT ![s] = None] /\ dead' = dead \cup {secret[s].accessor}
  BY DEF DestroyEntry, At
<1>2. s \in Slot /\ call[c].slotMode = "write" /\ secret[s] # None
  BY <1>0, <1>1 DEF Fits, SlotWriters, HeldBy
<1>3. call' \in [Client -> CallRecord] /\ Calls'
  BY <1>1, <1>2, WriteReturnControl
<1>4. secret[s].accessor \in Accessor
  BY <1>0, <1>2 DEF CoreTyped, SecretIdStorageEntry
<1> QED BY <1>0, <1>1, <1>2, <1>3, <1>4 DEF CoreTyped, DestroyEntry

-----------------------------------------------------------------------------
(* Login *)

LEMMA LoginControl ==
    ASSUME Control, NEW c \in Client, NEW i \in RoleId, NEW s \in SecretId, Login(c, i, s)
    PROVE  CoreTyped' /\ Calls'
<1>0. CoreTyped
  BY CoreFacts
<1> DEFINE k == [NoCall EXCEPT !.step = "login_role", !.role = roleIndex[i], !.secret = s]
<1>1. call' = [call EXCEPT ![c] = k] /\ roleIndex[i] # None /\ tidy' = tidy /\ secret' = secret
  BY DEF Login, Do, storageVars
<1>2. roleIndex[i] \in Role
  BY <1>0, <1>1 DEF CoreTyped
<1>3. /\ k \in CallRecord /\ k.step = "login_role" /\ k.role = roleIndex[i] /\ k.secret = s
      /\ k.roleMode = "none" /\ k.slotMode = "none"
  BY <1>2 DEF NoCall, CallRecord, Mode
<1> HIDE DEF k
<1>4. Fits(k) /\ HeldBy(k, secret')
  BY <1>2, <1>3 DEF Fits, HeldBy, RoleWriters, SlotWriters
<1>5. Calls'
  BY <1>1, <1>3, <1>4, CallsMove
<1> QED BY <1>0, <1>1, <1>3, <1>5 DEF CoreTyped, Login, storageVars, historyVars

LEMMA LoginRoleControl ==
    ASSUME Control, NEW c \in Client, LoginRole(c)
    PROVE  CoreTyped' /\ Calls'
<1> DEFINE r == call[c].role
           s == <<role[r].hmac_key, call[c].secret>>
           k == [NoCall EXCEPT !.step = "login_check", !.slot = s]
<1>0. CoreTyped /\ Fits(call[c])
  BY CoreFacts DEF Control, Calls
<1>1. /\ call[c].step = "login_role" /\ tidy' = tidy /\ secret' = secret
      /\ IF role[r] = None THEN Return(c) ELSE call' = [call EXCEPT ![c] = k]
  BY DEF LoginRole, At, Do, storageVars
<1>2. call' \in [Client -> CallRecord] /\ Calls'
  <2>1. CASE role[r] = None
    BY <1>1, <2>1, ReturnControl
  <2>2. CASE role[r] # None
    <3>1. r \in Role /\ call[c].secret \in SecretId
      BY <1>0, <1>1 DEF Fits
    <3>2. s \in Slot
      BY <1>0, <2>2, <3>1, SlotOf DEF CoreTyped
    <3> HIDE DEF s
    <3>3. /\ k \in CallRecord /\ k.step = "login_check" /\ k.slot = s
          /\ k.roleMode = "none" /\ k.slotMode = "none"
      BY <3>2 DEF NoCall, CallRecord, Mode
    <3>4. call' = [call EXCEPT ![c] = k]
      BY <1>1, <2>2
    <3> HIDE DEF k
    <3>5. Fits(k) /\ HeldBy(k, secret')
      BY <3>2, <3>3 DEF Fits, HeldBy, RoleWriters, SlotWriters
    <3>6. Calls'
      BY <1>1, <3>3, <3>4, <3>5, CallsMove
    <3> QED BY <1>0, <3>3, <3>4, <3>6 DEF CoreTyped
  <2> QED BY <2>1, <2>2
<1> QED BY <1>0, <1>2 DEF CoreTyped, LoginRole, storageVars, historyVars

LEMMA LoginCheckControl ==
    ASSUME Control, NEW c \in Client, LoginCheck(c)
    PROVE  CoreTyped' /\ Calls'
<1> DEFINE s == call[c].slot
           e == secret[s]
<1>0. CoreTyped /\ call[c] \in CallRecord /\ Fits(call[c])
  BY CoreFacts DEF CoreTyped, Control, Calls
<1>1. /\ call[c].step = "login_check" /\ SlotLock(c, s, "read")
      /\ role' = role /\ roleIndex' = roleIndex /\ secret' = secret /\ accessor' = accessor
      /\ tidy' = tidy /\ now' = now /\ keys' = keys /\ accessors' = accessors
      /\ granted' = granted /\ dead' = dead
  BY DEF LoginCheck, At, storageVars
<1>2. s \in Slot
  BY <1>0, <1>1 DEF Fits
<1>3. SUFFICES call' \in [Client -> CallRecord] /\ Calls' /\ logins' \in [Accessor -> Nat]
  BY <1>0, <1>1 DEF CoreTyped
<1>4. CASE Refuse(c)
  BY <1>0, <1>1, <1>4, ReturnControl DEF Refuse, CoreTyped
<1>5. CASE e # None /\ Accept(c, e.accessor)
  BY <1>0, <1>1, <1>2, <1>5, ReturnControl DEF Accept, CoreTyped, SecretIdStorageEntry
<1>6. CASE Do(c, [call[c] EXCEPT !.step = "login_drop", !.slotMode = "read"]) /\ UNCHANGED logins
  <2> DEFINE k == [call[c] EXCEPT !.step = "login_drop", !.slotMode = "read"]
  <2>1. call' = [call EXCEPT ![c] = k]
    BY <1>6 DEF Do
  <2>2. /\ k \in CallRecord /\ k.step = "login_drop" /\ k.slot = s /\ k.slotMode = "read"
        /\ k.role = call[c].role /\ k.roleMode = call[c].roleMode
    BY <1>0 DEF CallRecord, Mode
  <2> HIDE DEF k, s
  <2>3. Fits(k) /\ HeldBy(k, secret')
    BY <1>2, <2>2 DEF Fits, HeldBy, RoleWriters, SlotWriters
  <2>4. Calls'
    BY <1>1, <2>1, <2>2, <2>3, CallsMove DEF Mode
  <2> QED BY <1>0, <1>6, <2>1, <2>2, <2>4 DEF CoreTyped
<1>7. CASE e # None /\ Do(c, [call[c] EXCEPT !.step = "login_use", !.storage = e]) /\ UNCHANGED logins
  <2> DEFINE k == [call[c] EXCEPT !.step = "login_use", !.storage = e]
  <2>0. e \in SecretIdStorageEntry
    BY <1>0, <1>2, <1>7 DEF CoreTyped
  <2>1. call' = [call EXCEPT ![c] = k]
    BY <1>7 DEF Do
  <2> HIDE DEF e
  <2>2. /\ k \in CallRecord /\ k.step = "login_use" /\ k.slot = s /\ k.slotMode = call[c].slotMode
        /\ k.role = call[c].role /\ k.roleMode = call[c].roleMode
    BY <1>0, <2>0 DEF CallRecord, Mode
  <2> HIDE DEF k
  <2>3. Fits(k) /\ HeldBy(k, secret')
    BY <1>2, <2>2 DEF Fits, HeldBy, RoleWriters, SlotWriters
  <2>4. Calls'
    BY <1>1, <2>1, <2>2, <2>3, CallsMove DEF Mode
  <2> QED BY <1>0, <1>7, <2>1, <2>2, <2>4 DEF CoreTyped
<1> QED BY <1>4, <1>5, <1>6, <1>7 DEF LoginCheck

LEMMA LoginDropControl ==
    ASSUME Control, NEW c \in Client, LoginDrop(c)
    PROVE  CoreTyped' /\ Calls'
<1>0. CoreTyped /\ Fits(call[c])
  BY CoreFacts DEF Control, Calls
<1>1. /\ call[c].step = "login_drop" /\ tidy' = tidy /\ Return(c)
      /\ secret' = [secret EXCEPT ![call[c].slot] = None]
  BY DEF LoginDrop, At
<1>2. call[c].slot \in Slot /\ call[c].slotMode = "read"
  BY <1>0, <1>1 DEF Fits
<1>3. call' \in [Client -> CallRecord] /\ Calls'
  BY <1>1, <1>2, WriteReturnControl
<1> QED BY <1>0, <1>1, <1>2, <1>3 DEF CoreTyped, LoginDrop, historyVars

LEMMA UseControl ==
    ASSUME Control, NEW c \in Client, call[c].step = "login_use", NEW s, s = call[c].slot,
           SlotLock(c, s, "write"), secret[s] # None, Use(c, s, secret[s]), tidy' = tidy
    PROVE  /\ call' \in [Client -> CallRecord] /\ Calls'
           /\ secret' \in [Slot -> SecretIdStorageEntry \cup {None}]
           /\ accessor' \in [Accessor -> Slot \cup {None}]
           /\ logins' \in [Accessor -> Nat]
<1> DEFINE e == secret[s]
<1>0. CoreTyped /\ call[c] \in CallRecord /\ Fits(call[c])
  BY CoreFacts DEF CoreTyped, Control, Calls
<1>1. s \in Slot
  BY <1>0 DEF Fits
<1>2. e \in SecretIdStorageEntry /\ e.accessor \in Accessor /\ e.num_uses \in Int
  BY <1>0, <1>1 DEF CoreTyped, SecretIdStorageEntry
<1>3. CASE /\ e.num_uses = 1 /\ accessor' = [accessor EXCEPT ![e.accessor] = None]
           /\ Do(c, [call[c] EXCEPT !.step = "login_last", !.slotMode = "write", !.storage = e])
           /\ UNCHANGED <<secret, logins>>
  <2> DEFINE k == [call[c] EXCEPT !.step = "login_last", !.slotMode = "write", !.storage = e]
  <2>1. call' = [call EXCEPT ![c] = k] /\ secret' = secret
    BY <1>3 DEF Do
  <2>e. e = secret[s]
    OBVIOUS
  <2> HIDE DEF e
  <2>2. /\ k \in CallRecord /\ k.step = "login_last" /\ k.slot = s /\ k.slotMode = "write"
        /\ k.role = call[c].role /\ k.roleMode = call[c].roleMode /\ k.storage = e
    BY <1>0, <1>2 DEF CallRecord, Mode
  <2> HIDE DEF k
  <2>3. Fits(k) /\ HeldBy(k, secret')
    BY <1>1, <1>2, <1>3, <2>1, <2>2, <2>e DEF Fits, HeldBy, RoleWriters, SlotWriters
  <2>4. Calls'
    BY <2>1, <2>2, <2>3, CallsMove DEF Mode
  <2> QED BY <1>0, <1>2, <1>3, <2>1, <2>2, <2>4 DEF CoreTyped
<1>4. CASE /\ secret' = [secret EXCEPT ![s] = [e EXCEPT !.num_uses = @ - 1]]
           /\ Accept(c, e.accessor) \/ Refuse(c)
           /\ UNCHANGED accessor
  <2>1. [e EXCEPT !.num_uses = @ - 1] \in SecretIdStorageEntry
    BY <1>2 DEF SecretIdStorageEntry
  <2>2. logins' \in [Accessor -> Nat]
    BY <1>0, <1>2, <1>4 DEF Accept, Refuse, CoreTyped
  <2>3. \A t \in Slot : secret'[t] = secret[t] \/ SlotFree(c, t)
    <3>1. SlotFree(c, s)
      BY DEF SlotLock, SlotFree, Compatible
    <3> QED BY <1>0, <1>1, <1>4, <3>1 DEF CoreTyped
  <2>4. Return(c)
    BY <1>4 DEF Accept, Refuse
  <2>5. call' \in [Client -> CallRecord] /\ Calls'
    BY <2>3, <2>4, ReturnControl
  <2> QED BY <1>0, <1>1, <1>4, <2>1, <2>2, <2>5 DEF CoreTyped
<1> QED BY <1>3, <1>4 DEF Use

LEMMA LoginUseControl ==
    ASSUME Control, NEW c \in Client, LoginUse(c)
    PROVE  CoreTyped' /\ Calls'
<1> DEFINE s == call[c].slot
<1>0. CoreTyped
  BY CoreFacts
<1>1. /\ call[c].step = "login_use" /\ SlotLock(c, s, "write")
      /\ role' = role /\ roleIndex' = roleIndex /\ tidy' = tidy /\ now' = now /\ keys' = keys
      /\ accessors' = accessors /\ granted' = granted /\ dead' = dead
  BY DEF LoginUse, At
<1>2. CASE Refuse(c) /\ UNCHANGED <<secret, accessor>>
  <2>1. call' \in [Client -> CallRecord] /\ Calls'
    BY <1>1, <1>2, ReturnControl DEF Refuse
  <2> QED BY <1>0, <1>1, <1>2, <2>1 DEF CoreTyped, Refuse
<1>3. CASE secret[s] # None /\ Use(c, s, secret[s])
  <2> HIDE DEF s
  <2>1. /\ call' \in [Client -> CallRecord] /\ Calls'
        /\ secret' \in [Slot -> SecretIdStorageEntry \cup {None}]
        /\ accessor' \in [Accessor -> Slot \cup {None}]
        /\ logins' \in [Accessor -> Nat]
    BY <1>1, <1>3, UseControl DEF s
  <2> QED BY <1>0, <1>1, <2>1 DEF CoreTyped
<1> QED BY <1>2, <1>3 DEF LoginUse

LEMMA LoginLastControl ==
    ASSUME Control, NEW c \in Client, LoginLast(c)
    PROVE  CoreTyped' /\ Calls'
<1>0. CoreTyped /\ Fits(call[c])
  BY CoreFacts DEF Control, Calls
<1>1. /\ call[c].step = "login_last" /\ tidy' = tidy /\ Return(c)
      /\ secret' = [secret EXCEPT ![call[c].slot] = None]
  BY DEF LoginLast, At, Accept, Refuse
<1>2. /\ call[c].slot \in Slot /\ call[c].slotMode = "write"
      /\ call[c].storage.accessor \in Accessor
  BY <1>0, <1>1 DEF Fits, SlotWriters, SecretIdStorageEntry
<1>3. call' \in [Client -> CallRecord] /\ Calls'
  BY <1>1, <1>2, WriteReturnControl
<1>4. logins' \in [Accessor -> Nat]
  BY <1>0, <1>2 DEF LoginLast, Accept, Refuse, CoreTyped
<1> QED BY <1>0, <1>1, <1>2, <1>3, <1>4 DEF CoreTyped, LoginLast

-----------------------------------------------------------------------------
(* The tidy task, faults and time *)

\* A step of the task, after which k is its record.
LEMMA TidyMove ==
    ASSUME Control, NEW k \in TidyRecord, tidy' = k, call' = call,
           k.step = "expired" => k.slot \in Slot /\ k.slotMode = "write",
           \/ k.slotMode = "none"
           \/ k.slot = tidy.slot /\ k.slotMode = tidy.slotMode
           \/ SlotLock("tidy", k.slot, "write"),
           \A s \in Slot : secret'[s] = secret[s] \/ SlotFree("tidy", s)
    PROVE  Calls'
<1>1. ASSUME NEW d \in Client PROVE Fits(call[d]) /\ HeldBy(call[d], secret')
  <2>1. Fits(call[d]) /\ HeldBy(call[d], secret)
    BY DEF Control, Calls
  <2> DEFINE m == call[d]
  <2>2. CASE m.step \in {"destroy", "login_last"}
    <3>1. m.slot \in Slot /\ m.slotMode = "write"
      BY <2>1, <2>2 DEF Fits, SlotWriters
    <3>2. secret'[m.slot] = secret[m.slot]
      BY <3>1, TidyAssumption DEF SlotFree
    <3> HIDE DEF m
    <3> QED BY <2>1, <3>2 DEF HeldBy, m
  <2>3. CASE m.step \notin {"destroy", "login_last"}
    BY <2>1, <2>3 DEF HeldBy
  <2> QED BY <2>2, <2>3
<1>2. ASSUME NEW d \in Client, call[d].slot = k.slot, k.slotMode = "write"
      PROVE  call[d].slotMode = "none"
  BY <1>2, TidyAssumption DEF SlotLock, Compatible, Control, Calls
<1> QED BY <1>1, <1>2 DEF Control, Calls

LEMMA NoTidyFacts ==
    /\ NoTidy \in TidyRecord /\ NoTidy.step = "idle" /\ NoTidy.slotMode = "none"
BY DEF NoTidy, TidyRecord, Mode

LEMMA TidyReturnControl ==
    ASSUME Control, TidyReturn, call' = call, secret' = secret
    PROVE  tidy' \in TidyRecord /\ Calls'
<1>1. tidy' = NoTidy
  BY DEF TidyReturn
<1>2. Calls'
  BY <1>1, NoTidyFacts, TidyMove
<1> QED BY <1>1, <1>2, NoTidyFacts

\* The task goes on and holds the locks it held.
LEMMA TidyGoesOn ==
    ASSUME Control, NEW k \in TidyRecord, tidy' = k, call' = call,
           k.step = tidy.step \/ k.step # "expired", k.slot = tidy.slot, k.slotMode = tidy.slotMode,
           \A s \in Slot : secret'[s] = secret[s] \/ SlotFree("tidy", s)
    PROVE  Calls'
<1>1. k.step = "expired" => k.slot \in Slot /\ k.slotMode = "write"
  BY DEF Control, Calls
<1> QED BY <1>1, TidyMove

LEMMA TidyStartControl ==
    ASSUME Control, TidyStart
    PROVE  CoreTyped' /\ Calls' /\ guard' \in {0, 1}
<1>0. CoreTyped /\ guard \in {0, 1} /\ tidy \in TidyRecord
  BY CoreFacts DEF Control, TypeOK
<1>1. /\ call' = call /\ secret' = secret /\ guard' \in {0, 1}
      /\ tidy' = tidy \/ tidy' = [tidy EXCEPT !.step = "spawn"]
  BY <1>0 DEF TidyStart, storageVars
<1> DEFINE k == [tidy EXCEPT !.step = "spawn"]
<1>2. k \in TidyRecord /\ k.step = "spawn" /\ k.slot = tidy.slot /\ k.slotMode = tidy.slotMode
  BY <1>0 DEF TidyRecord
<1>3. tidy' = tidy \/ tidy' = k
  BY <1>1
<1> HIDE DEF k
<1>4. Calls' /\ tidy' \in TidyRecord
  <2>1. CASE tidy' = tidy
    BY <1>0, <1>1, <2>1, TidyGoesOn
  <2>2. CASE tidy' = k
    BY <1>1, <1>2, <2>2, TidyGoesOn
  <2> QED BY <1>3, <2>1, <2>2
<1> QED BY <1>0, <1>1, <1>4 DEF CoreTyped, TidyStart, storageVars, historyVars

LEMMA TidySpawnControl ==
    ASSUME Control, TidySpawn
    PROVE  CoreTyped' /\ Calls' /\ guard' \in {0, 1}
<1>0. CoreTyped /\ guard \in {0, 1} /\ tidy \in TidyRecord
  BY CoreFacts DEF Control, TypeOK
<1> DEFINE l == {a \in Accessor : accessor[a] # None}
           k == [tidy EXCEPT !.step = "keys", !.skip = {}, !.listed = l]
<1>1. call' = call /\ secret' = secret /\ guard' = guard /\ (tidy' = k \/ tidy' = NoTidy)
  BY DEF TidySpawn, storageVars
<1>2. l \subseteq Accessor
  OBVIOUS
<1> HIDE DEF l
<1>3. k \in TidyRecord /\ k.step = "keys" /\ k.slot = tidy.slot /\ k.slotMode = tidy.slotMode
  BY <1>0, <1>2 DEF TidyRecord
<1> HIDE DEF k
<1>4. Calls' /\ tidy' \in TidyRecord
  <2>1. CASE tidy' = k
    BY <1>1, <1>3, <2>1, TidyGoesOn
  <2>2. CASE tidy' = NoTidy
    BY <1>1, <2>2, NoTidyFacts, TidyMove
  <2> QED BY <1>1, <2>1, <2>2
<1> QED BY <1>0, <1>1, <1>4 DEF CoreTyped, TidySpawn, storageVars, historyVars

LEMMA TidyKeysControl ==
    ASSUME Control, TidyKeys
    PROVE  CoreTyped' /\ Calls' /\ guard' \in {0, 1}
<1>0. CoreTyped /\ guard \in {0, 1} /\ tidy \in TidyRecord
  BY CoreFacts DEF Control, TypeOK
<1> DEFINE found == {s[1] : s \in {t \in Slot : secret[t] # None}}
           k == [tidy EXCEPT !.step = "slots", !.keys = found, !.todo = found, !.slots = {}]
<1>1. call' = call /\ secret' = secret /\ guard' = guard /\ tidy' = k
  BY DEF TidyKeys, storageVars
<1>2. found \subseteq Key
  BY DEF Slot
<1> HIDE DEF found
<1>3. k \in TidyRecord /\ k.step = "slots" /\ k.slot = tidy.slot /\ k.slotMode = tidy.slotMode
  BY <1>0, <1>2 DEF TidyRecord
<1> HIDE DEF k
<1>4. Calls'
  BY <1>1, <1>3, TidyGoesOn
<1> QED BY <1>0, <1>1, <1>3, <1>4 DEF CoreTyped, TidyKeys, storageVars, historyVars

LEMMA TidySlotsControl ==
    ASSUME Control, TidySlots
    PROVE  CoreTyped' /\ Calls' /\ guard' \in {0, 1}
<1>0. CoreTyped /\ guard \in {0, 1} /\ tidy \in TidyRecord
  BY CoreFacts DEF Control, TypeOK
<1>1. PICK x \in tidy.todo :
         tidy' = [tidy EXCEPT !.todo = @ \ {x},
                     !.slots = {s \in Slot : s[1] = x /\ secret[s] # None}]
  BY DEF TidySlots
<1> DEFINE l == {s \in Slot : s[1] = x /\ secret[s] # None}
           k == [tidy EXCEPT !.todo = @ \ {x}, !.slots = l]
<1>2. call' = call /\ secret' = secret /\ guard' = guard /\ tidy' = k /\ l \subseteq Slot
  BY <1>1 DEF TidySlots, storageVars
<1> HIDE DEF l
<1>3. k \in TidyRecord /\ k.step = tidy.step /\ k.slot = tidy.slot /\ k.slotMode = tidy.slotMode
  BY <1>0, <1>2 DEF TidyRecord
<1> HIDE DEF k
<1>4. Calls'
  BY <1>2, <1>3, TidyGoesOn
<1> QED BY <1>0, <1>2, <1>3, <1>4 DEF CoreTyped, TidySlots, storageVars, historyVars

LEMMA TidyCleanControl ==
    ASSUME Control, TidyClean
    PROVE  CoreTyped' /\ Calls' /\ guard' \in {0, 1}
<1>0. CoreTyped /\ guard \in {0, 1} /\ tidy \in TidyRecord
  BY CoreFacts DEF Control, TypeOK
<1>1. /\ tidy.step = "slots" /\ call' = call /\ role' = role /\ roleIndex' = roleIndex
      /\ now' = now /\ keys' = keys /\ accessors' = accessors
      /\ granted' = granted /\ logins' = logins /\ dead' = dead
  BY DEF TidyClean, historyVars
<1>2. PICK s \in tidy.slots :
         LET e == secret[s]
             rest == [tidy EXCEPT !.slots = @ \ {s}]
         IN  /\ SlotLock("tidy", s, "write")
             /\ \/ e = None /\ TidyReturn /\ UNCHANGED <<secret, accessor>>
                \/ /\ e # None /\ secret' = [secret EXCEPT ![s] = None] /\ tidy' = rest
                   /\ UNCHANGED <<accessor, guard>>
                \/ /\ e # None
                   /\ \/ /\ accessor' = [accessor EXCEPT ![e.accessor] = None]
                         /\ tidy' = [rest EXCEPT !.step = "expired", !.slot = s, !.slotMode = "write"]
                      \/ /\ tidy' = [rest EXCEPT !.skip = @ \cup {e.accessor}]
                         /\ UNCHANGED accessor
                   /\ UNCHANGED <<secret, guard>>
  BY DEF TidyClean
<1>3. s \in Slot
  BY <1>0 DEF TidyRecord
<1> DEFINE e == secret[s]
           rest == [tidy EXCEPT !.slots = @ \ {s}]
<1>4. /\ rest \in TidyRecord /\ rest.step = "slots" /\ rest.slot = tidy.slot
      /\ rest.slotMode = tidy.slotMode /\ rest.skip = tidy.skip
  BY <1>0, <1>1 DEF TidyRecord
<1>5. \A t \in Slot : [secret EXCEPT ![s] = None][t] = secret[t] \/ SlotFree("tidy", t)
  <2>1. SlotFree("tidy", s)
    BY <1>2 DEF SlotLock, SlotFree, Compatible
  <2> QED BY <1>0, <1>3, <2>1 DEF CoreTyped
<1>6. CASE TidyReturn /\ UNCHANGED <<secret, accessor>>
  BY <1>0, <1>1, <1>6, TidyReturnControl DEF CoreTyped, TidyReturn
<1>7. CASE secret' = [secret EXCEPT ![s] = None] /\ tidy' = rest /\ UNCHANGED <<accessor, guard>>
  <2> HIDE DEF rest
  <2>1. Calls'
    BY <1>1, <1>4, <1>5, <1>7, TidyGoesOn
  <2> QED BY <1>0, <1>1, <1>4, <1>7, <2>1 DEF CoreTyped
<1>8. CASE /\ e # None /\ accessor' = [accessor EXCEPT ![e.accessor] = None]
           /\ tidy' = [rest EXCEPT !.step = "expired", !.slot = s, !.slotMode = "write"]
           /\ UNCHANGED <<secret, guard>>
  <2> DEFINE k == [rest EXCEPT !.step = "expired", !.slot = s, !.slotMode = "write"]
  <2> HIDE DEF rest
  <2>1. k \in TidyRecord /\ k.step = "expired" /\ k.slot = s /\ k.slotMode = "write"
    BY <1>3, <1>4 DEF TidyRecord, Mode
  <2>2. tidy' = k
    BY <1>8
  <2> HIDE DEF k
  <2>3. Calls'
    BY <1>1, <1>2, <1>3, <1>8, <2>1, <2>2, TidyMove
  <2> QED BY <1>0, <1>1, <1>8, <2>1, <2>2, <2>3 DEF CoreTyped
<1>9. CASE e # None /\ tidy' = [rest EXCEPT !.skip = @ \cup {e.accessor}] /\ UNCHANGED <<accessor, secret, guard>>
  <2> DEFINE k == [rest EXCEPT !.skip = @ \cup {e.accessor}]
  <2>0. e.accessor \in Accessor
    BY <1>0, <1>3, <1>9 DEF CoreTyped, SecretIdStorageEntry
  <2>2. tidy' = k
    BY <1>9
  <2> HIDE DEF rest, e
  <2>1. k \in TidyRecord /\ k.step = tidy.step /\ k.slot = tidy.slot /\ k.slotMode = tidy.slotMode
    BY <1>1, <1>4, <2>0 DEF TidyRecord
  <2> HIDE DEF k
  <2>3. Calls'
    BY <1>1, <1>9, <2>1, <2>2, TidyGoesOn
  <2> QED BY <1>0, <1>1, <1>9, <2>1, <2>2, <2>3 DEF CoreTyped
<1> QED BY <1>2, <1>6, <1>7, <1>8, <1>9

LEMMA TidyExpiredControl ==
    ASSUME Control, TidyExpired
    PROVE  CoreTyped' /\ Calls' /\ guard' \in {0, 1}
<1>0. CoreTyped /\ guard \in {0, 1} /\ tidy \in TidyRecord
  BY CoreFacts DEF Control, TypeOK
<1> DEFINE k == [tidy EXCEPT !.step = "slots", !.slot = None, !.slotMode = "none"]
<1>1. /\ tidy.step = "expired" /\ call' = call /\ tidy' = k /\ guard' = guard
      /\ secret' = [secret EXCEPT ![tidy.slot] = None]
  BY DEF TidyExpired
<1>2. k \in TidyRecord /\ k.step = "slots" /\ k.slotMode = "none"
  BY <1>0 DEF TidyRecord, Mode
<1> HIDE DEF k
<1>3. SlotFree("tidy", tidy.slot) /\ tidy.slot \in Slot
  BY <1>1 DEF Control, Calls, SlotFree
<1>4. \A t \in Slot : secret'[t] = secret[t] \/ SlotFree("tidy", t)
  BY <1>0, <1>1, <1>3 DEF CoreTyped
<1>5. Calls'
  BY <1>1, <1>2, <1>4, TidyMove
<1> QED BY <1>0, <1>1, <1>2, <1>3, <1>5 DEF CoreTyped, TidyExpired, historyVars

LEMMA TidyRelistControl ==
    ASSUME Control, TidyRelist
    PROVE  CoreTyped' /\ Calls' /\ guard' \in {0, 1}
<1>0. CoreTyped /\ guard \in {0, 1} /\ tidy \in TidyRecord
  BY CoreFacts DEF Control, TypeOK
<1> DEFINE l == {s \in Slot : s[1] \in tidy.keys /\ secret[s] # None}
           k == [tidy EXCEPT !.step = "accessors", !.slots = l]
<1>1. call' = call /\ secret' = secret /\ ((tidy' = k /\ guard' = guard) \/ TidyReturn)
  BY DEF TidyRelist, storageVars
<1>2. l \subseteq Slot
  OBVIOUS
<1> HIDE DEF l
<1>3. k \in TidyRecord /\ k.step = "accessors" /\ k.slot = tidy.slot /\ k.slotMode = tidy.slotMode
  BY <1>0, <1>2 DEF TidyRecord
<1> HIDE DEF k
<1>4. Calls' /\ tidy' \in TidyRecord /\ guard' \in {0, 1}
  <2>1. CASE tidy' = k /\ guard' = guard
    BY <1>0, <1>1, <1>3, <2>1, TidyGoesOn
  <2>2. CASE TidyReturn
    <3>1. guard' = 0
      BY <2>2 DEF TidyReturn
    <3> QED BY <1>1, <2>2, <3>1, TidyReturnControl
  <2> QED BY <1>1, <2>1, <2>2
<1> QED BY <1>0, <1>1, <1>4 DEF CoreTyped, TidyRelist, storageVars, historyVars

LEMMA TidyAccessorControl ==
    ASSUME Control, TidyAccessor
    PROVE  CoreTyped' /\ Calls' /\ guard' \in {0, 1}
<1>0. CoreTyped /\ guard \in {0, 1} /\ tidy \in TidyRecord
  BY CoreFacts DEF Control, TypeOK
<1>1. /\ tidy.step = "accessors" /\ call' = call /\ role' = role /\ roleIndex' = roleIndex
      /\ secret' = secret /\ now' = now /\ keys' = keys /\ accessors' = accessors
      /\ granted' = granted /\ logins' = logins /\ dead' = dead
  BY DEF TidyAccessor, historyVars
<1>2. CASE TidyReturn /\ UNCHANGED accessor
  BY <1>0, <1>1, <1>2, TidyReturnControl DEF CoreTyped, TidyReturn
<1>3. ASSUME NEW a \in tidy.listed, tidy' = [tidy EXCEPT !.listed = @ \ {a}], guard' = guard,
             accessor' = [accessor EXCEPT ![a] = None] \/ accessor' = accessor
      PROVE  CoreTyped' /\ Calls' /\ guard' \in {0, 1}
  <2> DEFINE k == [tidy EXCEPT !.listed = @ \ {a}]
  <2>1. k \in TidyRecord /\ k.step = tidy.step /\ k.slot = tidy.slot /\ k.slotMode = tidy.slotMode
    BY <1>0 DEF TidyRecord
  <2>2. tidy' = k
    BY <1>3
  <2> HIDE DEF k
  <2>3. Calls'
    BY <1>1, <2>1, <2>2, TidyGoesOn
  <2>4. accessor' \in [Accessor -> Slot \cup {None}]
    BY <1>0, <1>3 DEF CoreTyped
  <2> QED BY <1>0, <1>1, <1>3, <2>1, <2>2, <2>3, <2>4 DEF CoreTyped
<1> QED BY <1>2, <1>3 DEF TidyAccessor

LEMMA TidyFailsControl ==
    ASSUME Control, TidyFails
    PROVE  CoreTyped' /\ Calls' /\ guard' \in {0, 1}
<1>0. CoreTyped
  BY CoreFacts
<1>1. call' = call /\ secret' = secret /\ TidyReturn /\ guard' = 0
  BY DEF TidyFails, TidyReturn, storageVars
<1>2. tidy' \in TidyRecord /\ Calls'
  BY <1>1, TidyReturnControl
<1> QED BY <1>0, <1>1, <1>2 DEF CoreTyped, TidyFails, storageVars, historyVars

LEMMA FailsControl ==
    ASSUME Control, NEW c \in Client, Fails(c)
    PROVE  CoreTyped' /\ Calls'
<1>0. CoreTyped
  BY CoreFacts
<1>1. Return(c) /\ tidy' = tidy /\ secret' = secret
  BY DEF Fails, storageVars
<1>2. call' \in [Client -> CallRecord] /\ Calls'
  BY <1>1, ReturnControl
<1> QED BY <1>0, <1>1, <1>2 DEF CoreTyped, Fails, storageVars, historyVars

LEMMA TickControl ==
    ASSUME Control, Tick
    PROVE  CoreTyped' /\ Calls' /\ guard' \in {0, 1}
<1>0. CoreTyped /\ guard \in {0, 1}
  BY CoreFacts DEF Control, TypeOK
<1>1. now' \in 0 .. MaxTime
  BY <1>0, NumbersAssumption DEF Tick, CoreTyped
<1> QED BY <1>0, <1>1 DEF CoreTyped, Tick, storageVars, historyVars, Control, Calls

LEMMA CrashControl ==
    ASSUME Control, Crash
    PROVE  CoreTyped' /\ Calls' /\ guard' \in {0, 1}
<1>0. CoreTyped
  BY CoreFacts
<1>1. /\ call' = [c \in Client |-> NoCall] /\ tidy' = NoTidy /\ guard' = 0 /\ secret' = secret
  BY DEF Crash, TidyReturn, storageVars
<1>2. Fits(NoCall) /\ HeldBy(NoCall, secret)
  BY IdleFits, NoCallFacts
<1>3. Apart(NoCall, NoCall)
  BY NoCallFacts DEF Apart
<1>4. Calls'
  BY <1>1, <1>2, <1>3, NoCallFacts, NoTidyFacts DEF Calls
<1> QED BY <1>0, <1>1, <1>4, NoCallFacts, NoTidyFacts DEF CoreTyped, Crash, storageVars, historyVars

-----------------------------------------------------------------------------
LEMMA ControlInit == Init => Control
<1> SUFFICES ASSUME Init PROVE Control
  OBVIOUS
<1>1. TypeOK
  BY NoCallFacts, NoTidyFacts, NumbersAssumption DEF Init, TypeOK
<1>2. Fits(NoCall) /\ HeldBy(NoCall, secret)
  BY IdleFits, NoCallFacts
<1>3. Apart(NoCall, NoCall)
  BY NoCallFacts DEF Apart
<1>4. Calls
  BY <1>2, <1>3, NoCallFacts, NoTidyFacts DEF Calls, Init
<1> QED BY <1>1, <1>4 DEF Control

LEMMA RoleCallControl ==
    ASSUME Control, NEW c \in Client, RoleCall(c) PROVE CoreTyped' /\ Calls'
<1>1. PICK r \in Role :
        \/ \E i \in RoleId, n \in Uses : WriteRole(c, r, i, n)
        \/ \E n \in Uses : UpdateRoleField(c, r, n)
        \/ ReadRole(c, r)
        \/ DeleteRole(c, r)
  BY Zenon DEF RoleCall
<1> QED BY <1>1, WriteRoleControl, UpdateRoleFieldControl, ReadRoleControl, DeleteRoleControl

LEMMA SecretIdCallControl ==
    ASSUME Control, NEW c \in Client, SecretIdCall(c) PROVE CoreTyped' /\ Calls'
BY Zenon, WriteSecretIdControl, LookupSecretIdControl, DestroySecretIdControl,
   DestroyAccessorControl, LoginControl DEF SecretIdCall

LEMMA CallStepControl ==
    ASSUME Control, NEW c \in Client, CallStep(c) PROVE CoreTyped' /\ Calls'
BY Zenon, SetRoleUnindexControl, SetRolePutControl, SetRoleIndexControl, ReadRoleRepairControl,
   FlushRoleSecretsControl, DeleteRoleIndexControl, DeleteRoleEntryControl,
   RegisterAccessorControl, RegisterEntryControl, DestroyEntryControl, LoginRoleControl,
   LoginCheckControl, LoginDropControl, LoginUseControl, LoginLastControl DEF CallStep

LEMMA TaskStepControl ==
    ASSUME Control, TaskStep PROVE CoreTyped' /\ Calls' /\ guard' \in {0, 1}
BY Zenon, TidySpawnControl, TidyKeysControl, TidySlotsControl, TidyCleanControl,
   TidyExpiredControl, TidyRelistControl, TidyAccessorControl, TidyFailsControl
   DEF TaskStep, TidyStep

LEMMA ControlNext == Control /\ [Next]_vars => Control'
<1> SUFFICES ASSUME Control, [Next]_vars PROVE Control'
  OBVIOUS
<1>0. guard \in {0, 1} /\ calls \in 0 .. MaxCalls /\ \A c \in Admin : c \in Client
  BY AdminAssumption DEF Control, TypeOK
<1>1. SUFFICES CoreTyped' /\ Calls' /\ guard' \in {0, 1} /\ calls' \in 0 .. MaxCalls
  BY DEF Control, TypeOK, CoreTyped
<1>2. CASE Request
  <2>1. calls' \in 0 .. MaxCalls
    BY <1>0, <1>2, NumbersAssumption DEF Request
  <2>2. CASE guard' = guard /\ \E c \in Admin : RoleCall(c)
    BY <1>0, <2>1, <2>2, RoleCallControl
  <2>3. CASE guard' = guard /\ \E c \in Client : SecretIdCall(c)
    BY <1>0, <2>1, <2>3, SecretIdCallControl
  <2>4. CASE TidyStart
    BY <2>1, <2>4, TidyStartControl
  <2> QED BY <1>2, <2>2, <2>3, <2>4 DEF Request
<1>3. CASE (\E c \in Client : Work(c)) /\ calls' = calls
  <2>1. PICK c \in Client : (CallStep(c) \/ Fails(c)) /\ guard' = guard
    BY <1>3 DEF Work
  <2>2. CoreTyped' /\ Calls'
    BY <2>1, CallStepControl, FailsControl
  <2> QED BY <1>0, <1>3, <2>1, <2>2
<1>4. CASE TaskStep /\ calls' = calls
  BY <1>0, <1>4, TaskStepControl
<1>5. CASE Tick /\ calls' = calls
  BY <1>0, <1>5, TickControl
<1>6. CASE Crash /\ calls' = calls
  BY <1>0, <1>6, CrashControl
<1>7. CASE UNCHANGED vars
  <2>1. CoreTyped
    BY CoreFacts
  <2> QED BY <1>0, <1>7, <2>1 DEF vars, storageVars, historyVars, CoreTyped, Control, Calls
<1> QED BY <1>2, <1>3, <1>4, <1>5, <1>6, <1>7 DEF Next

\* Type correctness, for any number of threads that serve requests.  What it
\* rests on is that the locks on roles and slots exclude each other, and that
\* an entry which a call is about to destroy, or to use for the last time, is
\* still there when it gets to it (path_login.rs, path_role.rs).
THEOREM AppRoleTyped == Spec => []TypeOK
<1>1. Control => TypeOK
  BY DEF Control
<1> QED BY ControlInit, ControlNext, <1>1, PTL DEF Spec

-----------------------------------------------------------------------------
(* Secret ids: each accessor names one entry, and the entry its uses *)

\* The destruction of a is acknowledged, or will be with that of its role.
Gone(a) == a \in dead \/ \E c \in Client : a \in call[c].flushed

\* What may still be taken of a stored entry.
Within(e) ==
    /\ e.accessor <= accessors
    /\ ~Gone(e.accessor)
    /\ granted[e.accessor] > 0 =>
          e.num_uses >= 1 /\ logins[e.accessor] + e.num_uses <= granted[e.accessor]

\* Nothing has happened to the entry with the accessor a yet.
Fresh(a) ==
    /\ granted[a] = 0 /\ logins[a] = 0 /\ ~Gone(a)
    /\ \A s \in Slot : secret[s] # None => secret[s].accessor # a

Once ==
    \A s, t \in Slot :
       secret[s] # None /\ secret[t] # None /\ secret[s].accessor = secret[t].accessor => s = t

Registering(c) == call[c].step = "register_entry"

SecretInv ==
    /\ Once
    /\ \A s \in Slot : secret[s] # None => Within(secret[s])
    /\ \A a \in Accessor : a > accessors => Fresh(a)
    /\ \A c \in Client : Registering(c) =>
          call[c].storage.accessor <= accessors /\ Fresh(call[c].storage.accessor)
    /\ \A c, d \in Client :
          Registering(c) /\ Registering(d) /\ call[c].storage.accessor = call[d].storage.accessor
             => c = d
    /\ UsesRespected

\* The step registers nothing new.
Quiet == \A d \in Client : call'[d].step = "register_entry" => call'[d] = call[d]

LEMMA SecretSame ==
    ASSUME Control, SecretInv, Quiet, secret' = secret, granted' = granted, logins' = logins,
           accessors' = accessors, \A a \in Accessor : Gone(a)' => Gone(a)
    PROVE  SecretInv'
<1>0. CoreTyped
  BY CoreFacts
<1>1. ASSUME NEW a \in Accessor, Fresh(a) PROVE Fresh(a)'
  BY <1>1 DEF Fresh
<1>2. ASSUME NEW s \in Slot, secret[s] # None PROVE Within(secret[s])'
  <2>1. secret[s].accessor \in Accessor
    BY <1>0, <1>2 DEF CoreTyped, SecretIdStorageEntry
  <2> QED BY <1>2, <2>1 DEF Within, SecretInv
<1>3. ASSUME NEW c \in Client, call'[c].step = "register_entry"
      PROVE  /\ call'[c] = call[c] /\ call[c].storage.accessor \in Accessor
             /\ call[c].storage.accessor <= accessors /\ Fresh(call[c].storage.accessor)'
  <2>1. call'[c] = call[c] /\ Registering(c)
    BY <1>3 DEF Quiet, Registering
  <2>2. call[c].storage.accessor \in Accessor
    BY <2>1 DEF Registering, Control, Calls, Fits, SecretIdStorageEntry
  <2> QED BY <1>1, <2>1, <2>2 DEF SecretInv
<1>4. Once'
  BY DEF SecretInv, Once
<1>5. \A a \in Accessor : a > accessors' => Fresh(a)'
  BY <1>1 DEF SecretInv
<1>6. UsesRespected'
  BY DEF SecretInv, UsesRespected
<1>7. \A c, d \in Client :
          Registering(c)' /\ Registering(d)' /\ call'[c].storage.accessor = call'[d].storage.accessor
             => c = d
  BY <1>3 DEF SecretInv, Registering
<1>8. \A c \in Client : Registering(c)' =>
          call'[c].storage.accessor <= accessors' /\ Fresh(call[c].storage.accessor)'
  BY <1>3 DEF Registering
<1> QED BY <1>2, <1>4, <1>5, <1>6, <1>7, <1>8 DEF SecretInv

\* The entry in slot s goes, perhaps with its last use.
LEMMA SecretGone ==
    ASSUME Control, SecretInv, Quiet, NEW s \in Slot, secret' = [secret EXCEPT ![s] = None],
           granted' = granted, accessors' = accessors,
           \A a \in Accessor : Gone(a)' => Gone(a) \/ (secret[s] # None /\ a = secret[s].accessor),
           \/ logins' = logins
           \/ /\ secret[s] # None /\ secret[s].num_uses = 1
              /\ logins' = [logins EXCEPT ![secret[s].accessor] = @ + 1]
    PROVE  SecretInv'
<1>0. CoreTyped
  BY CoreFacts
<1>a. ASSUME NEW t \in Slot, secret[t] # None
      PROVE  secret[t].accessor \in Accessor /\ secret[t].num_uses \in Int
  BY <1>0, <1>a DEF CoreTyped, SecretIdStorageEntry
<1>b. secret'[s] = None /\ \A t \in Slot : t # s => secret'[t] = secret[t]
  BY <1>0 DEF CoreTyped
<1>c. ASSUME NEW a \in Accessor, secret[s] = None \/ a # secret[s].accessor
      PROVE  logins'[a] = logins[a] /\ (Gone(a)' => Gone(a))
  BY <1>0, <1>c DEF CoreTyped
<1>1. ASSUME NEW a \in Accessor, Fresh(a) PROVE Fresh(a)'
  <2>1. secret[s] = None \/ a # secret[s].accessor
    BY <1>1 DEF Fresh
  <2>2. logins'[a] = logins[a] /\ (Gone(a)' => Gone(a))
    BY <1>c, <2>1
  <2> QED BY <1>1, <1>b, <2>2 DEF Fresh
<1>2. ASSUME NEW t \in Slot, secret'[t] # None
      PROVE  t # s /\ secret'[t] = secret[t] /\ secret[t] # None /\ Within(secret[t])'
  <2>1. t # s /\ secret'[t] = secret[t] /\ secret[t] # None
    BY <1>2, <1>b
  <2>2. secret[t].accessor \in Accessor
    BY <1>a, <2>1
  <2>3. secret[s] = None \/ secret[t].accessor # secret[s].accessor
    BY <2>1 DEF SecretInv, Once
  <2>4. logins'[secret[t].accessor] = logins[secret[t].accessor]
    BY <1>c, <2>2, <2>3
  <2>5. Within(secret[t])
    BY <2>1 DEF SecretInv
  <2>6. Gone(secret[t].accessor)' => Gone(secret[t].accessor)
    BY <1>c, <2>1, <2>2, <2>3
  <2> QED BY <2>1, <2>4, <2>5, <2>6 DEF Within
<1>3. ASSUME NEW c \in Client, call'[c].step = "register_entry"
      PROVE  /\ call'[c] = call[c] /\ call[c].storage.accessor \in Accessor
             /\ call[c].storage.accessor <= accessors /\ Fresh(call[c].storage.accessor)'
  <2>1. call'[c] = call[c] /\ Registering(c)
    BY <1>3 DEF Quiet, Registering
  <2>2. call[c].storage.accessor \in Accessor
    BY <2>1 DEF Registering, Control, Calls, Fits, SecretIdStorageEntry
  <2> QED BY <1>1, <2>1, <2>2 DEF SecretInv
<1>4. Once'
  BY <1>2 DEF SecretInv, Once
<1>5. \A a \in Accessor : a > accessors' => Fresh(a)'
  BY <1>1 DEF SecretInv
<1>6. UsesRespected'
  <2>1. ASSUME NEW a \in Accessor, granted[a] > 0 PROVE logins'[a] <= granted[a]
    <3>1. logins[a] <= granted[a]
      BY <2>1 DEF SecretInv, UsesRespected
    <3>2. CASE secret[s] # None /\ a = secret[s].accessor /\ secret[s].num_uses = 1
      <4>1. logins[a] + 1 <= granted[a]
        BY <2>1, <3>2 DEF SecretInv, Within
      <4> QED BY <1>0, <3>1, <4>1 DEF CoreTyped
    <3>3. CASE ~(secret[s] # None /\ a = secret[s].accessor /\ secret[s].num_uses = 1)
      BY <1>0, <1>c, <3>1, <3>3 DEF CoreTyped
    <3> QED BY <3>2, <3>3
  <2> QED BY <2>1 DEF UsesRespected
<1>7. \A c, d \in Client :
          Registering(c)' /\ Registering(d)' /\ call'[c].storage.accessor = call'[d].storage.accessor
             => c = d
  BY <1>3 DEF SecretInv, Registering
<1>8. \A c \in Client : Registering(c)' =>
          call'[c].storage.accessor <= accessors' /\ Fresh(call[c].storage.accessor)'
  BY <1>3 DEF Registering
<1>9. \A t \in Slot : secret'[t] # None => Within(secret[t])'
  BY <1>2
<1> QED BY <1>4, <1>5, <1>6, <1>7, <1>8, <1>9 DEF SecretInv

\* The entry in slot s is used: it stays, with what is left of it.
LEMMA SecretUsed ==
    ASSUME Control, SecretInv, Quiet, NEW s \in Slot, secret[s] # None,
           NEW f \in SecretIdStorageEntry, f.accessor = secret[s].accessor,
           secret' = [secret EXCEPT ![s] = f],
           granted' = granted, accessors' = accessors,
           \A a \in Accessor : Gone(a)' => Gone(a),
           NEW m \in Nat, logins' = [logins EXCEPT ![f.accessor] = m],
           granted[f.accessor] > 0 => f.num_uses >= 1 /\ m + f.num_uses <= granted[f.accessor]
    PROVE  SecretInv'
<1>0. CoreTyped /\ f.accessor \in Accessor /\ f.num_uses \in Int
  BY CoreFacts DEF SecretIdStorageEntry
<1>a. ASSUME NEW t \in Slot, secret[t] # None PROVE secret[t].accessor \in Accessor
  BY <1>0, <1>a DEF CoreTyped, SecretIdStorageEntry
<1>b. secret'[s] = f /\ \A t \in Slot : t # s => secret'[t] = secret[t]
  BY <1>0 DEF CoreTyped
<1>c. logins'[f.accessor] = m /\ \A a \in Accessor : a # f.accessor => logins'[a] = logins[a]
  BY <1>0 DEF CoreTyped
<1>d. f # None
  BY NoneFacts
<1>e. Within(secret[s])
  BY DEF SecretInv
<1>1. ASSUME NEW a \in Accessor, Fresh(a) PROVE Fresh(a)'
  <2>1. a # f.accessor
    BY <1>1 DEF Fresh
  <2>2. \A t \in Slot : secret'[t] # None => secret'[t].accessor # a
    BY <1>1, <1>b, <2>1 DEF Fresh
  <2> QED BY <1>1, <1>c, <2>1, <2>2 DEF Fresh
<1>2. ASSUME NEW t \in Slot, secret'[t] # None PROVE Within(secret[t])'
  <2>1. CASE t = s
    <3>1. Gone(secret[t].accessor)' => Gone(f.accessor)
      BY <1>0, <1>b, <2>1
    <3> QED BY <1>0, <1>b, <1>c, <1>e, <2>1, <3>1 DEF Within
  <2>2. CASE t # s
    <3>1. secret'[t] = secret[t] /\ secret[t] # None /\ secret[t].accessor \in Accessor
      BY <1>2, <1>a, <1>b, <2>2
    <3>2. secret[t].accessor # f.accessor
      BY <2>2, <3>1 DEF SecretInv, Once
    <3>3. Gone(secret[t].accessor)' => Gone(secret[t].accessor)
      BY <3>1
    <3>4. Within(secret[t])
      BY <3>1 DEF SecretInv
    <3> QED BY <1>c, <3>1, <3>2, <3>3, <3>4 DEF Within
  <2> QED BY <2>1, <2>2
<1>3. ASSUME NEW c \in Client, call'[c].step = "register_entry"
      PROVE  /\ call'[c] = call[c] /\ call[c].storage.accessor \in Accessor
             /\ call[c].storage.accessor <= accessors /\ Fresh(call[c].storage.accessor)'
  <2>1. call'[c] = call[c] /\ Registering(c)
    BY <1>3 DEF Quiet, Registering
  <2>2. call[c].storage.accessor \in Accessor
    BY <2>1 DEF Registering, Control, Calls, Fits, SecretIdStorageEntry
  <2> QED BY <1>1, <2>1, <2>2 DEF SecretInv
<1>4. Once'
  <2>1. ASSUME NEW t \in Slot, secret'[t] # None
        PROVE  secret[t] # None /\ secret'[t].accessor = secret[t].accessor
    BY <1>b, <2>1
  <2> QED BY <2>1 DEF SecretInv, Once
<1>5. \A a \in Accessor : a > accessors' => Fresh(a)'
  BY <1>1 DEF SecretInv
<1>6. UsesRespected'
  <2>1. ASSUME NEW a \in Accessor, granted[a] > 0 PROVE logins'[a] <= granted[a]
    <3>1. CASE a = f.accessor
      BY <1>0, <1>c, <2>1, <3>1 DEF CoreTyped
    <3>2. CASE a # f.accessor
      BY <1>c, <2>1, <3>2 DEF SecretInv, UsesRespected
    <3> QED BY <3>1, <3>2
  <2> QED BY <2>1 DEF UsesRespected
<1>7. \A c, d \in Client :
          Registering(c)' /\ Registering(d)' /\ call'[c].storage.accessor = call'[d].storage.accessor
             => c = d
  BY <1>3 DEF SecretInv, Registering
<1>8. \A c \in Client : Registering(c)' =>
          call'[c].storage.accessor <= accessors' /\ Fresh(call[c].storage.accessor)'
  BY <1>3 DEF Registering
<1> QED BY <1>2, <1>4, <1>5, <1>6, <1>7, <1>8 DEF SecretInv

\* A step of the thread c, after which k is its record, and which destroys
\* nothing outside D.
LEMMA GoneMove ==
    ASSUME Control, NEW c \in Client, NEW k, call' = [call EXCEPT ![c] = k],
           k.step # "register_entry", NEW D, k.flushed \subseteq call[c].flushed \cup D,
           dead' \subseteq dead \cup call[c].flushed \cup D
    PROVE  Quiet /\ \A a \in Accessor : Gone(a)' => Gone(a) \/ a \in D
<1>1. call'[c] = k /\ \A d \in Client \ {c} : call'[d] = call[d]
  BY DEF Control, TypeOK
<1>2. Quiet
  BY <1>1 DEF Quiet
<1>3. ASSUME NEW a \in Accessor, Gone(a)', a \notin D PROVE Gone(a)
  <2>1. CASE a \in dead'
    BY <1>3, <2>1 DEF Gone
  <2>2. ASSUME NEW d \in Client, a \in call'[d].flushed PROVE Gone(a)
    BY <1>1, <1>3, <2>2 DEF Gone
  <2> QED BY <1>3, <2>1, <2>2 DEF Gone
<1> QED BY <1>2, <1>3

LEMMA SameMove ==
    ASSUME Control, SecretInv, NEW c \in Client, NEW k, call' = [call EXCEPT ![c] = k],
           k.step # "register_entry", k.flushed \subseteq call[c].flushed,
           dead' \subseteq dead \cup call[c].flushed,
           secret' = secret, granted' = granted, logins' = logins, accessors' = accessors
    PROVE  SecretInv'
<1> DEFINE D == {}
<1>1. k.flushed \subseteq call[c].flushed \cup D /\ dead' \subseteq dead \cup call[c].flushed \cup D
  OBVIOUS
<1> HIDE DEF D
<1>2. Quiet /\ \A a \in Accessor : Gone(a)' => Gone(a) \/ a \in D
  BY <1>1, GoneMove
<1>3. \A a \in Accessor : Gone(a)' => Gone(a)
  BY <1>2 DEF D
<1> QED BY <1>2, <1>3, SecretSame

LEMMA SameReturn ==
    ASSUME Control, SecretInv, NEW c \in Client, Return(c), dead' \subseteq dead \cup call[c].flushed,
           secret' = secret, granted' = granted, logins' = logins, accessors' = accessors
    PROVE  SecretInv'
<1>1. call' = [call EXCEPT ![c] = NoCall]
  BY DEF Return
<1>2. NoCall.step # "register_entry" /\ NoCall.flushed \subseteq call[c].flushed
  BY NoCallFacts
<1> HIDE DEF NoCall
<1> QED BY <1>1, <1>2, SameMove

LEMMA GoneReturn ==
    ASSUME Control, SecretInv, NEW c \in Client, Return(c), NEW s \in Slot,
           secret' = [secret EXCEPT ![s] = None], granted' = granted, accessors' = accessors,
           dead' \subseteq dead \cup (IF secret[s] # None THEN {secret[s].accessor} ELSE {}),
           \/ logins' = logins
           \/ /\ secret[s] # None /\ secret[s].num_uses = 1
              /\ logins' = [logins EXCEPT ![secret[s].accessor] = @ + 1]
    PROVE  SecretInv'
<1> DEFINE D == IF secret[s] # None THEN {secret[s].accessor} ELSE {}
<1>1. call' = [call EXCEPT ![c] = NoCall]
  BY DEF Return
<1>2. NoCall.step # "register_entry" /\ NoCall.flushed \subseteq call[c].flushed \cup D
  BY NoCallFacts
<1>3. dead' \subseteq dead \cup call[c].flushed \cup D
  OBVIOUS
<1> HIDE DEF D
<1>4. Quiet /\ \A a \in Accessor : Gone(a)' => Gone(a) \/ a \in D
  BY <1>1, <1>2, <1>3, GoneMove
<1>5. \A a \in Accessor : Gone(a)' => Gone(a) \/ (secret[s] # None /\ a = secret[s].accessor)
  BY <1>4 DEF D
<1> QED BY <1>4, <1>5, SecretGone

LEMMA SetRoleSecret ==
    ASSUME Control, SecretInv, NEW c \in Client, NEW r, NEW e, NEW p, SetRole(c, r, e, p)
    PROVE  SecretInv'
<1> DEFINE k == [NoCall EXCEPT
                    !.step = IF p \in {None, e.role_id} THEN "put_role" ELSE "unindex",
                    !.role = r, !.roleMode = "write", !.entry = e,
                    !.previous = p, !.create = p # e.role_id]
<1>1. /\ call' = [call EXCEPT ![c] = k] /\ dead' = dead
      /\ secret' = secret /\ granted' = granted /\ logins' = logins /\ accessors' = accessors
  BY DEF SetRole, Do, storageVars, historyVars
<1>2. k.step # "register_entry" /\ k.flushed = {}
  BY DEF NoCall
<1> HIDE DEF k
<1> QED BY <1>1, <1>2, SameMove

LEMMA RoleCallSecret ==
    ASSUME Control, SecretInv, NEW c \in Client, RoleCall(c)
    PROVE  SecretInv'
<1>1. PICK r \in Role :
        \/ \E i \in RoleId, n \in Uses : WriteRole(c, r, i, n)
        \/ \E n \in Uses : UpdateRoleField(c, r, n)
        \/ ReadRole(c, r)
        \/ DeleteRole(c, r)
  BY Zenon DEF RoleCall
<1>2. CASE \E i \in RoleId, n \in Uses : WriteRole(c, r, i, n)
  BY <1>2, SetRoleSecret DEF WriteRole
<1>3. CASE \E n \in Uses : UpdateRoleField(c, r, n)
  BY <1>3, SetRoleSecret DEF UpdateRoleField
<1>4. CASE ReadRole(c, r)
  <2> DEFINE k == [NoCall EXCEPT !.step = "repair", !.role = r, !.entry = role[r]]
  <2>1. /\ call' = [call EXCEPT ![c] = k] /\ dead' = dead
        /\ secret' = secret /\ granted' = granted /\ logins' = logins /\ accessors' = accessors
    BY <1>4 DEF ReadRole, Do, storageVars, historyVars
  <2>2. k.step # "register_entry" /\ k.flushed = {}
    BY DEF NoCall
  <2> HIDE DEF k
  <2> QED BY <2>1, <2>2, SameMove
<1>5. CASE DeleteRole(c, r)
  <2> DEFINE t == {s \in Slot : s[1] = role[r].hmac_key /\ secret[s] # None}
             k == [NoCall EXCEPT !.step = "flush", !.role = r, !.roleMode = "write", !.todo = t]
  <2>1. /\ call' = [call EXCEPT ![c] = k] /\ dead' = dead
        /\ secret' = secret /\ granted' = granted /\ logins' = logins /\ accessors' = accessors
    BY <1>5 DEF DeleteRole, Do, storageVars, historyVars
  <2>2. k.step # "register_entry" /\ k.flushed = {}
    BY DEF NoCall
  <2> HIDE DEF k
  <2> QED BY <2>1, <2>2, SameMove
<1> QED BY <1>1, <1>2, <1>3, <1>4, <1>5

LEMMA GotoSecret ==
    ASSUME Control, SecretInv, NEW c \in Client, NEW st, st # "register_entry", Goto(c, st),
           dead' = dead,
           secret' = secret, granted' = granted, logins' = logins, accessors' = accessors
    PROVE  SecretInv'
<1> DEFINE k == [call[c] EXCEPT !.step = st]
<1>1. call \in [Client -> CallRecord] /\ call[c] \in CallRecord
  BY DEF Control, TypeOK
<1>2. call' = [call EXCEPT ![c] = k]
  BY <1>1 DEF Goto
<1>3. k.step = st /\ k.flushed = call[c].flushed
  BY <1>1 DEF CallRecord
<1> HIDE DEF k
<1> QED BY <1>2, <1>3, SameMove

LEMMA RoleStepSecret ==
    ASSUME Control, SecretInv, NEW c \in Client,
           \/ SetRoleUnindex(c) \/ SetRolePut(c) \/ SetRoleIndex(c) \/ ReadRoleRepair(c)
           \/ DeleteRoleIndex(c) \/ DeleteRoleEntry(c) \/ Fails(c)
    PROVE  SecretInv'
<1>1. /\ secret' = secret /\ granted' = granted /\ logins' = logins /\ accessors' = accessors
      /\ dead' \subseteq dead \cup call[c].flushed
  BY DEF SetRoleUnindex, SetRolePut, SetRoleIndex, ReadRoleRepair, DeleteRoleIndex,
         DeleteRoleEntry, Fails, storageVars, historyVars
<1>2. CASE Return(c)
  BY <1>1, <1>2, SameReturn
<1>3. CASE dead' = dead /\ \E st \in {"put_role", "index", "delete_role"} : Goto(c, st)
  BY <1>1, <1>3, GotoSecret
<1> QED BY <1>2, <1>3 DEF SetRoleUnindex, SetRolePut, SetRoleIndex, ReadRoleRepair,
         DeleteRoleIndex, DeleteRoleEntry, Fails, historyVars

LEMMA FlushRoleSecretsSecret ==
    ASSUME Control, SecretInv, NEW c \in Client, FlushRoleSecrets(c)
    PROVE  SecretInv'
<1>0. CoreTyped /\ call[c] \in CallRecord
  BY CoreFacts DEF CoreTyped
<1>1. /\ granted' = granted /\ logins' = logins /\ accessors' = accessors /\ dead' = dead
      /\ call[c].step = "flush"
  BY DEF FlushRoleSecrets, historyVars, At
<1>2. CASE Goto(c, "delete_index") /\ UNCHANGED secret
  BY <1>1, <1>2, GotoSecret
<1>3. ASSUME NEW s \in call[c].todo, secret' = [secret EXCEPT ![s] = None],
             Do(c, [call[c] EXCEPT !.todo = @ \ {s}, !.flushed =
                      @ \cup (IF secret[s] = None THEN {} ELSE {secret[s].accessor})])
      PROVE  SecretInv'
  <2> DEFINE D == IF secret[s] = None THEN {} ELSE {secret[s].accessor}
             k == [call[c] EXCEPT !.todo = @ \ {s}, !.flushed = @ \cup D]
  <2>1. call' = [call EXCEPT ![c] = k] /\ s \in Slot
    BY <1>0, <1>3 DEF Do, CallRecord
  <2>d. \A a : a \in D => secret[s] # None /\ a = secret[s].accessor
    OBVIOUS
  <2> HIDE DEF D
  <2>2. k.step = "flush" /\ k.flushed = call[c].flushed \cup D
    BY <1>0, <1>1 DEF CallRecord
  <2> HIDE DEF k
  <2>3. k.step # "register_entry" /\ k.flushed \subseteq call[c].flushed \cup D
        /\ dead' \subseteq dead \cup call[c].flushed \cup D
    BY <1>1, <2>2
  <2>4. Quiet /\ \A a \in Accessor : Gone(a)' => Gone(a) \/ a \in D
    BY <2>1, <2>3, GoneMove
  <2>5. \A a \in Accessor : Gone(a)' => Gone(a) \/ (secret[s] # None /\ a = secret[s].accessor)
    BY <2>4, <2>d
  <2> QED BY <1>1, <1>3, <2>1, <2>4, <2>5, SecretGone
<1> QED BY <1>2, <1>3 DEF FlushRoleSecrets

LEMMA SecretIdCallSecret ==
    ASSUME Control, SecretInv, NEW c \in Client, SecretIdCall(c)
    PROVE  SecretInv'
<1>0. CoreTyped
  BY CoreFacts
<1>1. ASSUME NEW r \in Role, NEW i \in SecretId, NEW n \in Uses, NEW ttl \in Ttls,
             WriteSecretId(c, r, i, n, ttl)
      PROVE  SecretInv'
  <2> DEFINE k == [NoCall EXCEPT !.step = "register", !.role = r, !.roleMode = "read",
                       !.slot = <<role[r].hmac_key, i>>, !.num_uses = n, !.ttl = ttl]
  <2>1. /\ call' = [call EXCEPT ![c] = k] /\ dead' = dead
        /\ secret' = secret /\ granted' = granted /\ logins' = logins /\ accessors' = accessors
    BY <1>1 DEF WriteSecretId, Do, storageVars, historyVars
  <2>2. k.step # "register_entry" /\ k.flushed = {}
    BY DEF NoCall
  <2> HIDE DEF k
  <2> QED BY <2>1, <2>2, SameMove
<1>2. ASSUME NEW r \in Role, NEW i \in SecretId, LookupSecretId(c, r, i) PROVE SecretInv'
  <2> DEFINE s == <<role[r].hmac_key, i>>
  <2>1. /\ role[r] # None /\ secret' = [secret EXCEPT ![s] = None]
        /\ call' = call /\ dead' = dead /\ granted' = granted /\ logins' = logins
        /\ accessors' = accessors
    BY <1>2 DEF LookupSecretId, historyVars
  <2>2. s \in Slot
    BY <1>0, <2>1, SlotOf DEF CoreTyped
  <2> HIDE DEF s
  <2>3. Quiet /\ \A a \in Accessor : Gone(a)' => Gone(a)
    BY <2>1 DEF Quiet, Gone
  <2> QED BY <2>1, <2>2, <2>3, SecretGone
<1>3. ASSUME NEW r, NEW mode, NEW s, NEW a, Destroy(c, r, mode, s, a) PROVE SecretInv'
  <2> DEFINE k == [NoCall EXCEPT !.step = "destroy", !.role = r, !.roleMode = mode, !.slot = s,
                       !.slotMode = "write"]
  <2>1. /\ call' = [call EXCEPT ![c] = k] /\ dead' = dead
        /\ secret' = secret /\ granted' = granted /\ logins' = logins /\ accessors' = accessors
    BY <1>3 DEF Destroy, Do, storageVars, historyVars
  <2>2. k.step # "register_entry" /\ k.flushed = {}
    BY DEF NoCall
  <2> HIDE DEF k
  <2> QED BY <2>1, <2>2, SameMove
<1>4. ASSUME NEW i \in RoleId, NEW s \in SecretId, Login(c, i, s) PROVE SecretInv'
  <2> DEFINE k == [NoCall EXCEPT !.step = "login_role", !.role = roleIndex[i], !.secret = s]
  <2>1. /\ call' = [call EXCEPT ![c] = k] /\ dead' = dead
        /\ secret' = secret /\ granted' = granted /\ logins' = logins /\ accessors' = accessors
    BY <1>4 DEF Login, Do, storageVars, historyVars
  <2>2. k.step # "register_entry" /\ k.flushed = {}
    BY DEF NoCall
  <2> HIDE DEF k
  <2> QED BY <2>1, <2>2, SameMove
<1> QED BY <1>1, <1>2, <1>3, <1>4 DEF SecretIdCall, DestroySecretId, DestroyAccessor

LEMMA RegisterAccessorSecret ==
    ASSUME Control, SecretInv, NEW c \in Client, RegisterAccessor(c)
    PROVE  SecretInv'
<1> DEFINE a == accessors + 1
           e == [accessor |-> a, num_uses |-> call[c].num_uses,
                 expiration_time |-> now + call[c].ttl]
           k == [call[c] EXCEPT !.step = "register_entry", !.slotMode = "write", !.storage = e]
<1>0. CoreTyped /\ call[c] \in CallRecord
  BY CoreFacts DEF CoreTyped
<1>1. secret' = secret /\ granted' = granted /\ logins' = logins /\ dead' = dead
  BY DEF RegisterAccessor, historyVars
<1>2. CASE Return(c) /\ UNCHANGED accessors
  BY <1>1, <1>2, SameReturn
<1>3. CASE a <= MaxAccessors /\ accessors' = a /\ call' = [call EXCEPT ![c] = k]
  <2>0. a \in Accessor /\ a > accessors /\ a \in Nat /\ accessors \in Nat
    BY <1>0, <1>3, NumbersAssumption DEF CoreTyped, Accessor
  <2>1. k.step = "register_entry" /\ k.storage.accessor = a /\ k.flushed = call[c].flushed
    BY <1>0 DEF CallRecord
  <2>2. call'[c] = k /\ \A d \in Client \ {c} : call'[d] = call[d]
    BY <1>0, <1>3 DEF CoreTyped
  <2>3. accessors' = a
    BY <1>3
  <2>a. a = accessors + 1
    OBVIOUS
  <2> HIDE DEF k, a
  <2>4. \A b : Gone(b)' => Gone(b)
    BY <1>1, <2>1, <2>2 DEF Gone
  <2>5. ASSUME NEW b \in Accessor, Fresh(b) PROVE Fresh(b)'
    BY <1>1, <2>4, <2>5 DEF Fresh
  <2>6. ASSUME NEW s \in Slot, secret[s] # None PROVE Within(secret[s])'
    <3>1. secret[s].accessor \in Nat /\ secret[s].accessor <= a
      BY <1>0, <2>0, <2>6 DEF CoreTyped, SecretIdStorageEntry, Accessor, SecretInv, Within
    <3>2. Within(secret[s]) /\ (Gone(secret[s].accessor)' => Gone(secret[s].accessor))
      BY <1>1, <2>4, <2>6 DEF SecretInv
    <3> QED BY <1>1, <2>3, <3>1, <3>2 DEF Within
  <2>7. ASSUME NEW d \in Client, d # c, call'[d].step = "register_entry"
        PROVE  /\ call'[d] = call[d] /\ call[d].storage.accessor \in Accessor
               /\ call[d].storage.accessor < a /\ Fresh(call[d].storage.accessor)'
    <3>1. call'[d] = call[d] /\ Registering(d)
      BY <2>2, <2>7 DEF Registering
    <3>2. call[d].storage.accessor \in Accessor
      BY <3>1 DEF Registering, Control, Calls, Fits, SecretIdStorageEntry
    <3>3. call[d].storage.accessor <= accessors /\ Fresh(call[d].storage.accessor)
      BY <3>1 DEF SecretInv
    <3>4. call[d].storage.accessor < a
      BY <2>0, <2>a, <3>2, <3>3 DEF Accessor
    <3> QED BY <2>5, <3>1, <3>2, <3>3, <3>4
  <2>8. Fresh(a)
    BY <2>0 DEF SecretInv
  <2>9. call'[c].storage.accessor = a /\ Fresh(call[c].storage.accessor)'
    <3>1. /\ granted'[a] = 0 /\ logins'[a] = 0
          /\ \A s \in Slot : secret'[s] # None => secret'[s].accessor # a
      BY <1>1, <2>8 DEF Fresh
    <3>2. call'[c].storage.accessor = a
      BY <2>1, <2>2
    <3>3. Gone(call[c].storage.accessor)' => Gone(a)
      BY <2>4, <3>2
    <3> QED BY <2>8, <3>1, <3>2, <3>3 DEF Fresh
  <2>10. Once'
    BY <1>1 DEF SecretInv, Once
  <2>11. \A b \in Accessor : b > accessors' => Fresh(b)'
    <3>1. \A b \in Accessor : b > a => b > accessors
      BY <2>0, <2>a DEF Accessor
    <3> QED BY <2>3, <2>5, <3>1 DEF SecretInv
  <2>12. UsesRespected'
    BY <1>1 DEF SecretInv, UsesRespected
  <2>13. \A d, f \in Client :
          Registering(d)' /\ Registering(f)' /\ call'[d].storage.accessor = call'[f].storage.accessor
             => d = f
    <3>1. \A d \in Client : d # c /\ call'[d].step = "register_entry" =>
             Registering(d) /\ call'[d].storage.accessor = call[d].storage.accessor /\ call[d].storage.accessor # a
      BY <2>0, <2>7 DEF Accessor, Registering
    <3> QED BY <2>9, <3>1 DEF SecretInv, Registering
  <2>14. \A d \in Client : Registering(d)' =>
          call'[d].storage.accessor <= accessors' /\ Fresh(call[d].storage.accessor)'
    <3>1. ASSUME NEW d \in Client, call'[d].step = "register_entry"
          PROVE  call'[d].storage.accessor <= a /\ Fresh(call[d].storage.accessor)'
      <4>1. CASE d = c
        BY <2>0, <2>9, <4>1
      <4>2. CASE d # c
        BY <2>0, <2>7, <3>1, <4>2 DEF Accessor
      <4> QED BY <4>1, <4>2
    <3> QED BY <2>3, <3>1 DEF Registering
  <2> QED BY <1>1, <2>6, <2>10, <2>11, <2>12, <2>13, <2>14 DEF SecretInv
<1>4. a > MaxAccessors \/ a <= MaxAccessors
  BY <1>0, NumbersAssumption DEF CoreTyped
<1> QED BY <1>2, <1>3, <1>4 DEF RegisterAccessor, Do

LEMMA RegisterEntrySecret ==
    ASSUME Control, SecretInv, NEW c \in Client, RegisterEntry(c)
    PROVE  SecretInv'
<1> DEFINE s == call[c].slot
           e == call[c].storage
           a == e.accessor
<1>0. CoreTyped /\ Fits(call[c])
  BY CoreFacts DEF Control, Calls
<1>1. /\ Registering(c) /\ secret' = [secret EXCEPT ![s] = e]
      /\ granted' = [granted EXCEPT ![a] = e.num_uses]
      /\ call' = [call EXCEPT ![c] = NoCall]
      /\ accessors' = accessors /\ logins' = logins /\ dead' = dead
  BY DEF RegisterEntry, Return, Registering, At
<1>2. s \in Slot /\ e \in SecretIdStorageEntry /\ e.num_uses \in Nat /\ e # None
  BY <1>0, <1>1, NoneFacts DEF Fits, SlotWriters, Registering
<1>3. a \in Accessor /\ a <= accessors /\ Fresh(a)
  BY <1>1, <1>2 DEF SecretIdStorageEntry, SecretInv
<1>4. call'[c] = NoCall /\ \A d \in Client \ {c} : call'[d] = call[d]
  BY <1>0, <1>1 DEF CoreTyped
<1>5. secret'[s] = e /\ \A t \in Slot : t # s => secret'[t] = secret[t]
  BY <1>0, <1>1, <1>2 DEF CoreTyped
<1>6. granted'[a] = e.num_uses /\ \A b \in Accessor : b # a => granted'[b] = granted[b]
  BY <1>0, <1>1, <1>3 DEF CoreTyped
<1>7. \A b : Gone(b)' => Gone(b)
  BY <1>1, <1>4, NoCallFacts DEF Gone
<1>8. ASSUME NEW b \in Accessor, b # a, Fresh(b) PROVE Fresh(b)'
  <2>1. \A t \in Slot : secret'[t] # None => secret'[t].accessor # b
    BY <1>5, <1>8 DEF Fresh
  <2> QED BY <1>1, <1>6, <1>7, <1>8, <2>1 DEF Fresh
<1>9. ASSUME NEW t \in Slot, secret'[t] # None, t # s
      PROVE  /\ secret'[t] = secret[t] /\ secret[t] # None /\ secret[t].accessor # a
             /\ secret[t].accessor \in Accessor
  BY <1>0, <1>3, <1>5, <1>9 DEF Fresh, CoreTyped, SecretIdStorageEntry
<1>10. ASSUME NEW t \in Slot, secret'[t] # None PROVE Within(secret[t])'
  <2>1. CASE t = s
    <3>1. secret'[t] = e /\ (Gone(secret[t].accessor)' => Gone(a))
      BY <1>5, <1>7, <2>1
    <3>2. ~Gone(a) /\ logins[a] = 0
      BY <1>3 DEF Fresh
    <3> QED BY <1>1, <1>2, <1>3, <1>6, <3>1, <3>2 DEF Within
  <2>2. CASE t # s
    <3>1. /\ secret'[t] = secret[t] /\ secret[t] # None /\ secret[t].accessor # a
          /\ secret[t].accessor \in Accessor
      BY <1>9, <1>10, <2>2
    <3>2. Within(secret[t]) /\ (Gone(secret[t].accessor)' => Gone(secret[t].accessor))
      BY <1>7, <3>1 DEF SecretInv
    <3>3. granted'[secret[t].accessor] = granted[secret[t].accessor]
      BY <1>6, <3>1
    <3> QED BY <1>1, <3>1, <3>2, <3>3 DEF Within
  <2> QED BY <2>1, <2>2
<1>11. ASSUME NEW d \in Client, call'[d].step = "register_entry"
       PROVE  /\ call'[d] = call[d] /\ Registering(d) /\ call[d].storage.accessor <= accessors
              /\ Fresh(call[d].storage.accessor)'
  <2>1. call'[d] = call[d] /\ Registering(d) /\ d # c
    BY <1>4, <1>11, NoCallFacts DEF Registering
  <2>2. /\ call[d].storage.accessor \in Accessor /\ call[d].storage.accessor <= accessors
        /\ Fresh(call[d].storage.accessor)
    BY <2>1 DEF Registering, Control, Calls, Fits, SecretIdStorageEntry, SecretInv
  <2>3. call[d].storage.accessor # a
    BY <1>1, <2>1 DEF SecretInv
  <2> QED BY <1>8, <2>1, <2>2, <2>3
<1>12. Once'
  BY <1>5, <1>9 DEF SecretInv, Once
<1>13. \A b \in Accessor : b > accessors' => Fresh(b)'
  <2>1. \A b \in Accessor : b > accessors => b # a
    BY <1>0, <1>3 DEF Accessor, CoreTyped
  <2> QED BY <1>1, <1>8, <2>1 DEF SecretInv
<1>14. UsesRespected'
  <2>1. ASSUME NEW b \in Accessor, granted'[b] > 0 PROVE logins'[b] <= granted'[b]
    <3>1. CASE b = a
      BY <1>1, <1>2, <1>3, <1>6, <3>1 DEF Fresh
    <3>2. CASE b # a
      BY <1>1, <1>6, <2>1, <3>2 DEF SecretInv, UsesRespected
    <3> QED BY <3>1, <3>2
  <2> QED BY <2>1 DEF UsesRespected
<1>15. \A d, f \in Client :
          Registering(d)' /\ Registering(f)' /\ call'[d].storage.accessor = call'[f].storage.accessor
             => d = f
  BY <1>11 DEF SecretInv, Registering
<1>16. \A d \in Client : Registering(d)' =>
          call'[d].storage.accessor <= accessors' /\ Fresh(call[d].storage.accessor)'
  BY <1>1, <1>11 DEF Registering
<1> QED BY <1>10, <1>12, <1>13, <1>14, <1>15, <1>16 DEF SecretInv

LEMMA DestroyEntrySecret ==
    ASSUME Control, SecretInv, NEW c \in Client, DestroyEntry(c)
    PROVE  SecretInv'
<1> DEFINE s == call[c].slot
<1>1. /\ call[c].step = "destroy" /\ Return(c) /\ secret' = [secret EXCEPT ![s] = None]
      /\ dead' = dead \cup {secret[s].accessor}
      /\ granted' = granted /\ logins' = logins /\ accessors' = accessors
  BY DEF DestroyEntry, At
<1>2. s \in Slot /\ secret[s] # None
  BY <1>1 DEF Control, Calls, Fits, SlotWriters, HeldBy
<1>3. dead' \subseteq dead \cup (IF secret[s] # None THEN {secret[s].accessor} ELSE {})
  BY <1>1, <1>2
<1> HIDE DEF s
<1> QED BY <1>1, <1>2, <1>3, GoneReturn

LEMMA LoginRoleSecret ==
    ASSUME Control, SecretInv, NEW c \in Client, LoginRole(c)
    PROVE  SecretInv'
<1> DEFINE k == [NoCall EXCEPT !.step = "login_check",
                           !.slot = <<role[call[c].role].hmac_key, call[c].secret>>]
<1>1. /\ Return(c) \/ call' = [call EXCEPT ![c] = k]
      /\ secret' = secret /\ granted' = granted /\ logins' = logins /\ accessors' = accessors
      /\ dead' = dead
  BY DEF LoginRole, Do, storageVars, historyVars
<1>2. k.step # "register_entry" /\ k.flushed = {}
  BY DEF NoCall
<1> HIDE DEF k
<1>3. CASE Return(c)
  BY <1>1, <1>3, SameReturn
<1>4. CASE call' = [call EXCEPT ![c] = k]
  BY <1>1, <1>2, <1>4, SameMove
<1> QED BY <1>1, <1>3, <1>4

\* A use of the entry in slot s that ends the call.
LEMMA UsedReturn ==
    ASSUME Control, SecretInv, NEW c \in Client, Return(c), NEW s \in Slot, secret[s] # None,
           NEW f \in SecretIdStorageEntry, f.accessor = secret[s].accessor,
           secret' = [secret EXCEPT ![s] = f],
           granted' = granted, accessors' = accessors, dead' = dead,
           NEW m \in Nat, logins' = [logins EXCEPT ![f.accessor] = m],
           granted[f.accessor] > 0 => f.num_uses >= 1 /\ m + f.num_uses <= granted[f.accessor]
    PROVE  SecretInv'
<1> DEFINE D == {}
<1>1. call' = [call EXCEPT ![c] = NoCall]
  BY DEF Return
<1>2. /\ NoCall.step # "register_entry" /\ NoCall.flushed \subseteq call[c].flushed \cup D
      /\ dead' \subseteq dead \cup call[c].flushed \cup D
  BY NoCallFacts
<1> HIDE DEF D, NoCall
<1>3. Quiet /\ \A a \in Accessor : Gone(a)' => Gone(a) \/ a \in D
  BY <1>1, <1>2, GoneMove
<1>4. Quiet /\ \A a \in Accessor : Gone(a)' => Gone(a)
  BY <1>3 DEF D
<1> QED BY <1>4, SecretUsed

LEMMA LoginCheckSecret ==
    ASSUME Control, SecretInv, NEW c \in Client, LoginCheck(c)
    PROVE  SecretInv'
<1> DEFINE s == call[c].slot
           e == secret[s]
<1>0. CoreTyped /\ call[c] \in CallRecord
  BY CoreFacts DEF CoreTyped
<1>1. /\ call[c].step = "login_check"
      /\ secret' = secret /\ granted' = granted /\ accessors' = accessors /\ dead' = dead
  BY DEF LoginCheck, At, storageVars
<1>2. s \in Slot
  BY <1>1 DEF Control, Calls, Fits
<1>3. CASE Refuse(c)
  BY <1>1, <1>3, SameReturn DEF Refuse
<1>4. CASE e # None /\ e.num_uses = 0 /\ Accept(c, e.accessor)
  <2>1. /\ e \in SecretIdStorageEntry /\ e.accessor \in Accessor
        /\ secret' = [secret EXCEPT ![s] = e]
    BY <1>0, <1>1, <1>2, <1>4 DEF CoreTyped, SecretIdStorageEntry
  <2>2. granted[e.accessor] > 0 => e.num_uses >= 1
    BY <1>2, <1>4 DEF SecretInv, Within
  <2> DEFINE m == logins[e.accessor] + 1
  <2>3. Return(c) /\ logins' = [logins EXCEPT ![e.accessor] = m] /\ m \in Nat
    BY <1>0, <1>4, <2>1 DEF Accept, CoreTyped
  <2>4. ~(granted[e.accessor] > 0)
    BY <1>4, <2>2
  <2> HIDE DEF m
  <2> QED BY <1>1, <1>2, <1>4, <2>1, <2>3, <2>4, UsedReturn
<1>5. ASSUME NEW st \in {"login_drop", "login_use"}, NEW mode, NEW x,
             Do(c, [call[c] EXCEPT !.step = st, !.slotMode = mode, !.storage = x]),
             logins' = logins
      PROVE  SecretInv'
  <2> DEFINE k == [call[c] EXCEPT !.step = st, !.slotMode = mode, !.storage = x]
  <2>1. call' = [call EXCEPT ![c] = k]
    BY <1>5 DEF Do
  <2>2. k.step # "register_entry" /\ k.flushed = call[c].flushed
    BY <1>0 DEF CallRecord
  <2> HIDE DEF k
  <2> QED BY <1>1, <1>5, <2>1, <2>2, SameMove
<1>6. CASE Do(c, [call[c] EXCEPT !.step = "login_drop", !.slotMode = "read"]) /\ logins' = logins
  <2>1. [call[c] EXCEPT !.step = "login_drop", !.slotMode = "read"] =
           [call[c] EXCEPT !.step = "login_drop", !.slotMode = "read", !.storage = call[c].storage]
    BY <1>0 DEF CallRecord
  <2> QED BY <1>5, <1>6, <2>1
<1>7. CASE Do(c, [call[c] EXCEPT !.step = "login_use", !.storage = e]) /\ logins' = logins
  <2>1. [call[c] EXCEPT !.step = "login_use", !.storage = e] =
           [call[c] EXCEPT !.step = "login_use", !.slotMode = call[c].slotMode, !.storage = e]
    BY <1>0 DEF CallRecord
  <2> QED BY <1>5, <1>7, <2>1
<1> QED BY <1>3, <1>4, <1>6, <1>7 DEF LoginCheck

LEMMA LoginDropSecret ==
    ASSUME Control, SecretInv, NEW c \in Client, LoginDrop(c)
    PROVE  SecretInv'
<1> DEFINE s == call[c].slot
<1>1. /\ call[c].step = "login_drop" /\ Return(c) /\ secret' = [secret EXCEPT ![s] = None]
      /\ granted' = granted /\ logins' = logins /\ accessors' = accessors
      /\ dead' \subseteq dead \cup (IF secret[s] # None THEN {secret[s].accessor} ELSE {})
  BY DEF LoginDrop, At, historyVars
<1>2. s \in Slot
  BY <1>1 DEF Control, Calls, Fits
<1> HIDE DEF s
<1> QED BY <1>1, <1>2, GoneReturn

LEMMA LoginUseSecret ==
    ASSUME Control, SecretInv, NEW c \in Client, LoginUse(c)
    PROVE  SecretInv'
<1> DEFINE s == call[c].slot
           e == secret[s]
<1>0. CoreTyped /\ call[c] \in CallRecord
  BY CoreFacts DEF CoreTyped
<1>1. /\ call[c].step = "login_use"
      /\ granted' = granted /\ accessors' = accessors /\ dead' = dead
  BY DEF LoginUse, At
<1>2. s \in Slot
  BY <1>1 DEF Control, Calls, Fits
<1>3. CASE Refuse(c) /\ secret' = secret
  BY <1>1, <1>3, SameReturn DEF Refuse
<1>4. CASE /\ secret' = secret /\ logins' = logins
           /\ Do(c, [call[c] EXCEPT !.step = "login_last", !.slotMode = "write", !.storage = e])
  <2> DEFINE k == [call[c] EXCEPT !.step = "login_last", !.slotMode = "write", !.storage = e]
  <2>1. call' = [call EXCEPT ![c] = k]
    BY <1>4 DEF Do
  <2>2. k.step # "register_entry" /\ k.flushed = call[c].flushed
    BY <1>0 DEF CallRecord
  <2> HIDE DEF k
  <2> QED BY <1>1, <1>4, <2>1, <2>2, SameMove
<1>5. CASE /\ e # None /\ e.num_uses # 1
           /\ secret' = [secret EXCEPT ![s] = [e EXCEPT !.num_uses = @ - 1]]
           /\ Accept(c, e.accessor) \/ Refuse(c)
  <2> DEFINE f == [e EXCEPT !.num_uses = @ - 1]
  <2>1. e \in SecretIdStorageEntry /\ e.accessor \in Accessor /\ e.num_uses \in Int
    BY <1>0, <1>2, <1>5 DEF CoreTyped, SecretIdStorageEntry
  <2>2. f \in SecretIdStorageEntry /\ f.accessor = e.accessor /\ f.num_uses = e.num_uses - 1
    BY <2>1 DEF SecretIdStorageEntry
  <2>3. secret' = [secret EXCEPT ![s] = f]
    BY <1>5
  <2>4. PICK m \in {logins[e.accessor], logins[e.accessor] + 1} :
           Return(c) /\ logins' = [logins EXCEPT ![e.accessor] = m]
    <3>1. CASE Accept(c, e.accessor)
      BY <1>0, <2>1, <3>1 DEF Accept, CoreTyped
    <3>2. CASE Refuse(c)
      BY <1>0, <2>1, <3>2 DEF Refuse, CoreTyped
    <3> QED BY <1>5, <3>1, <3>2
  <2>5. logins[e.accessor] \in Nat /\ granted[e.accessor] \in Nat
    BY <1>0, <2>1 DEF CoreTyped
  <2>6. granted[e.accessor] > 0 => e.num_uses >= 1 /\ logins[e.accessor] + e.num_uses <= granted[e.accessor]
    BY <1>2, <1>5 DEF SecretInv, Within
  <2>7. m \in Nat /\ (granted[f.accessor] > 0 => f.num_uses >= 1 /\ m + f.num_uses <= granted[f.accessor])
    BY <1>5, <2>1, <2>2, <2>4, <2>5, <2>6
  <2> HIDE DEF f
  <2> QED BY <1>1, <1>2, <1>5, <2>2, <2>3, <2>4, <2>7, UsedReturn
<1> QED BY <1>3, <1>4, <1>5 DEF LoginUse, Use

LEMMA LoginLastSecret ==
    ASSUME Control, SecretInv, NEW c \in Client, LoginLast(c)
    PROVE  SecretInv'
<1> DEFINE s == call[c].slot
<1>1. /\ call[c].step = "login_last" /\ Return(c) /\ secret' = [secret EXCEPT ![s] = None]
      /\ granted' = granted /\ accessors' = accessors
      /\ dead' \subseteq dead \cup (IF secret[s] # None THEN {secret[s].accessor} ELSE {})
      /\ \/ logins' = logins
         \/ logins' = [logins EXCEPT ![call[c].storage.accessor] = @ + 1]
  BY DEF LoginLast, At, historyVars, Accept, Refuse
<1>2. s \in Slot /\ secret[s] # None /\ secret[s].num_uses = 1 /\ secret[s].accessor = call[c].storage.accessor
  BY <1>1 DEF Control, Calls, Fits, SlotWriters, HeldBy
<1>3. \/ logins' = logins
      \/ /\ secret[s] # None /\ secret[s].num_uses = 1
         /\ logins' = [logins EXCEPT ![secret[s].accessor] = @ + 1]
  BY <1>1, <1>2
<1> HIDE DEF s
<1> QED BY <1>1, <1>2, <1>3, GoneReturn

\* The task, the clock and a crash touch no more than one entry.
LEMMA OtherSecret ==
    ASSUME Control, SecretInv, TidyStart \/ TaskStep \/ Tick \/ Crash \/ UNCHANGED vars
    PROVE  SecretInv'
<1>0. CoreTyped /\ tidy \in TidyRecord
  BY CoreFacts DEF CoreTyped
<1>1. granted' = granted /\ logins' = logins /\ accessors' = accessors /\ dead' = dead
  <2>1. CASE TidyStart \/ Tick \/ Crash \/ UNCHANGED vars
    BY <2>1 DEF TidyStart, Tick, Crash, vars, historyVars
  <2>2. CASE TaskStep
    BY <2>2 DEF TaskStep, TidyStep, TidySpawn, TidyKeys, TidySlots, TidyClean, TidyExpired,
                TidyRelist, TidyAccessor, TidyFails, historyVars
  <2> QED BY <2>1, <2>2
<1>2. call' = call \/ call' = [c \in Client |-> NoCall]
  <2>1. CASE TidyStart \/ Tick \/ Crash \/ UNCHANGED vars
    BY <2>1 DEF TidyStart, Tick, Crash, vars
  <2>2. CASE TaskStep
    BY <2>2 DEF TaskStep, TidyStep, TidySpawn, TidyKeys, TidySlots, TidyClean, TidyExpired,
                TidyRelist, TidyAccessor, TidyFails
  <2> QED BY <2>1, <2>2
<1>3. Quiet /\ \A a \in Accessor : Gone(a)' => Gone(a)
  <2>1. CASE call' = call
    BY <1>1, <2>1 DEF Quiet, Gone
  <2>2. CASE call' = [c \in Client |-> NoCall]
    BY <1>1, <2>2, NoCallFacts DEF Quiet, Gone
  <2> QED BY <1>2, <2>1, <2>2
<1>4. CASE secret' = secret
  BY <1>1, <1>3, <1>4, SecretSame
<1>5. ASSUME NEW s \in Slot, secret' = [secret EXCEPT ![s] = None] PROVE SecretInv'
  BY <1>1, <1>3, <1>5, SecretGone
<1>6. CASE TidyClean
  <2>1. PICK s \in tidy.slots : secret' = secret \/ secret' = [secret EXCEPT ![s] = None]
    BY <1>6 DEF TidyClean
  <2>2. s \in Slot
    BY <1>0 DEF TidyRecord
  <2> QED BY <1>4, <1>5, <2>1, <2>2
<1>7. CASE TidyExpired
  <2>1. tidy.slot \in Slot /\ secret' = [secret EXCEPT ![tidy.slot] = None]
    BY <1>7 DEF TidyExpired, Control, Calls
  <2> QED BY <1>5, <2>1
<1>8. CASE ~(TidyClean \/ TidyExpired)
  <2>1. secret' = secret
    BY <1>8 DEF TidyStart, TaskStep, TidyStep, TidySpawn, TidyKeys, TidySlots,
                TidyRelist, TidyAccessor, TidyFails, Tick, Crash, vars, storageVars
  <2> QED BY <1>4, <2>1
<1> QED BY <1>6, <1>7, <1>8

LEMMA SecretInit == Init => SecretInv
<1> SUFFICES ASSUME Init PROVE SecretInv
  OBVIOUS
<1>1. /\ \A s \in Slot : secret[s] = None
      /\ \A c \in Client : call[c] = NoCall
      /\ \A a \in Accessor : granted[a] = 0 /\ logins[a] = 0
      /\ dead = {} /\ accessors = 0
  BY DEF Init
<1> QED BY <1>1, NoCallFacts DEF SecretInv, Once, Fresh, Gone, Registering, UsesRespected

LEMMA SecretNext == Control /\ SecretInv /\ [Next]_vars => SecretInv'
<1> SUFFICES ASSUME Control, SecretInv, [Next]_vars PROVE SecretInv'
  OBVIOUS
<1>1. ASSUME NEW c \in Client, CallStep(c) \/ Fails(c) PROVE SecretInv'
  BY <1>1, RoleStepSecret, FlushRoleSecretsSecret, RegisterAccessorSecret, RegisterEntrySecret,
     DestroyEntrySecret, LoginRoleSecret, LoginCheckSecret, LoginDropSecret, LoginUseSecret,
     LoginLastSecret DEF CallStep
<1>2. CASE Request
  <2>1. \A c \in Admin : c \in Client
    BY AdminAssumption
  <2> QED BY <1>2, <2>1, RoleCallSecret, SecretIdCallSecret, OtherSecret DEF Request
<1>3. CASE \E c \in Client : Work(c)
  BY <1>1, <1>3 DEF Work
<1>4. CASE TaskStep \/ Tick \/ Crash \/ UNCHANGED vars
  BY <1>4, OtherSecret
<1> QED BY <1>2, <1>3, <1>4 DEF Next

\* A secret id with a limited number of uses never serves more logins than it
\* was registered with, however many threads log in with it at once, whichever
\* calls fail and wherever the process crashes (path_login.rs).
THEOREM AppRoleUsesRespected == Spec => []UsesRespected
<1>1. SecretInv => UsesRespected
  BY DEF SecretInv
<1> QED BY ControlInit, ControlNext, SecretInit, SecretNext, <1>1, PTL DEF Spec

\* A secret id whose destruction was acknowledged is never stored again, for
\* any number of threads: no login writes back what it read before
\* (path_login.rs, path_role.rs, path_tidy_secret_id.rs).
THEOREM AppRoleDestroyedStaysOut == Spec => []DestroyedStaysOut
<1>1. SecretInv => DestroyedStaysOut
  BY DEF SecretInv, Within, Gone, DestroyedStaysOut
<1> QED BY ControlInit, ControlNext, SecretInit, SecretNext, <1>1, PTL DEF Spec

-----------------------------------------------------------------------------
(* Roles: what the index leads to *)

\* What the call k knows of its role, of the roles ro and their index ix.
Knows(k, ro, ix) ==
    /\ k.step = "unindex" => ro[k.role] # None /\ ro[k.role].role_id = k.previous
    /\ k.step = "put_role" => \A i \in RoleId : ix[i] = k.role => i = k.entry.role_id
    /\ k.step = "index" => ro[k.role] = k.entry
    /\ k.step \in {"flush", "delete_index"} => ro[k.role] # None
    /\ k.step = "delete_role" => \A i \in RoleId : ix[i] # k.role

RoleInv == IndexFitsRole /\ \A c \in Client : Knows(call[c], role, roleIndex)

\* Nobody but c has the role r for writing.
RoleFree(c, r) == \A d \in Client \ {c} : call[d].role = r => call[d].roleMode # "write"

LEMMA IdleKnows ==
    ASSUME NEW k, k.step \notin RoleWriters, NEW ro, NEW ix PROVE Knows(k, ro, ix)
BY DEF Knows, RoleWriters

\* A step of the thread c, after which k is its record.
LEMMA RoleMove ==
    ASSUME Control, RoleInv, NEW c \in Client, NEW k, call' = [call EXCEPT ![c] = k],
           IndexFitsRole', Knows(k, role', roleIndex'),
           \A r \in Role : \/ role'[r] = role[r] /\ \A i \in RoleId : roleIndex'[i] = r => roleIndex[i] = r
                           \/ RoleFree(c, r)
    PROVE  RoleInv'
<1>1. call'[c] = k /\ \A d \in Client \ {c} : call'[d] = call[d]
  BY DEF Control, TypeOK
<1>2. ASSUME NEW d \in Client PROVE Knows(call'[d], role', roleIndex')
  <2>1. CASE d = c
    BY <1>1, <2>1
  <2>2. CASE d # c /\ call[d].step \notin RoleWriters
    BY <1>1, <2>2, IdleKnows
  <2>3. CASE d # c /\ call[d].step \in RoleWriters
    <3>1. call'[d] = call[d] /\ call[d].role \in Role /\ call[d].roleMode = "write"
      BY <1>1, <2>3 DEF Control, Calls, Fits
    <3>2. /\ role'[call[d].role] = role[call[d].role]
          /\ \A i \in RoleId : roleIndex'[i] = call[d].role => roleIndex[i] = call[d].role
      BY <2>3, <3>1 DEF RoleFree
    <3>3. Knows(call[d], role, roleIndex)
      BY DEF RoleInv
    <3> DEFINE m == call[d]
    <3>4. call'[d] = m /\ role'[m.role] = role[m.role] /\ Knows(m, role, roleIndex)
          /\ \A i \in RoleId : roleIndex'[i] = m.role => roleIndex[i] = m.role
      BY <3>1, <3>2, <3>3
    <3> HIDE DEF m
    <3>5. Knows(m, role', roleIndex')
      BY <3>4 DEF Knows
    <3> QED BY <3>4, <3>5
  <2> QED BY <2>1, <2>2, <2>3
<1> QED BY <1>2 DEF RoleInv

LEMMA RoleSame ==
    ASSUME Control, RoleInv, NEW c \in Client, NEW k, call' = [call EXCEPT ![c] = k],
           role' = role, roleIndex' = roleIndex, Knows(k, role, roleIndex)
    PROVE  RoleInv'
<1>1. IndexFitsRole'
  BY DEF RoleInv, IndexFitsRole
<1> QED BY <1>1, RoleMove

\* The role a call has for writing is nobody else's.
LEMMA RoleWriterAlone ==
    ASSUME Control, NEW c \in Client, call[c].roleMode = "write"
    PROVE  RoleFree(c, call[c].role)
<1>1. ASSUME NEW d \in Client \ {c}, call[d].role = call[c].role, call[d].roleMode = "write"
      PROVE  FALSE
  <2>1. Apart(call[c], call[d])
    BY DEF Control, Calls
  <2> QED BY <1>1, <2>1 DEF Apart
<1> QED BY <1>1 DEF RoleFree

LEMMA SetRoleRole ==
    ASSUME Control, RoleInv, NEW c \in Client, NEW r \in Role, NEW e \in RoleEntry, NEW p,
           SetRole(c, r, e, p),
           \/ role[r] = None /\ p = None
           \/ role[r] # None /\ p = None /\ role[r].role_id = e.role_id
           \/ role[r] # None /\ p = role[r].role_id
    PROVE  RoleInv'
<1> DEFINE st == IF p \in {None, e.role_id} THEN "put_role" ELSE "unindex"
           k == [NoCall EXCEPT !.step = st, !.role = r, !.roleMode = "write", !.entry = e,
                               !.previous = p, !.create = p # e.role_id]
<1>1. call' = [call EXCEPT ![c] = k] /\ role' = role /\ roleIndex' = roleIndex
  BY DEF SetRole, Do, storageVars
<1>2. /\ st = "put_role" => p = None \/ p = e.role_id
      /\ st = "unindex" => p # None
      /\ st \in {"put_role", "unindex"}
  OBVIOUS
<1> HIDE DEF st
<1>3. k.step = st /\ k.role = r /\ k.entry = e /\ k.previous = p
  BY DEF NoCall
<1> HIDE DEF k
<1>4. st = "put_role" => \A i \in RoleId : roleIndex[i] = r => i = e.role_id
  <2>1. r # None
    BY NoneFacts
  <2>2. \A i \in RoleId : roleIndex[i] = r => role[r] # None /\ role[r].role_id = i
    BY <2>1 DEF RoleInv, IndexFitsRole
  <2>3. role[r] # None => role[r].role_id # None
    BY NoneFacts DEF Control, TypeOK, RoleEntry
  <2> QED BY <1>2, <2>2, <2>3
<1>5. st = "unindex" => role[r] # None /\ role[r].role_id = p
  BY <1>2
<1>6. Knows(k, role, roleIndex)
  BY <1>2, <1>3, <1>4, <1>5 DEF Knows
<1> QED BY <1>1, <1>6, RoleSame

LEMMA RoleCallRole ==
    ASSUME Control, RoleInv, NEW c \in Client, RoleCall(c)
    PROVE  RoleInv'
<1>0. CoreTyped
  BY CoreFacts
<1>1. PICK r \in Role :
        \/ \E i \in RoleId, n \in Uses : WriteRole(c, r, i, n)
        \/ \E n \in Uses : UpdateRoleField(c, r, n)
        \/ ReadRole(c, r)
        \/ DeleteRole(c, r)
  BY Zenon DEF RoleCall
<1>2. ASSUME NEW i \in RoleId, NEW n \in Uses, WriteRole(c, r, i, n) PROVE RoleInv'
  <2> DEFINE new == role[r] = None
             key == IF new THEN keys + 1 ELSE role[r].hmac_key
             e == [role_id |-> i, hmac_key |-> key, num_uses |-> n]
             p == IF new THEN None ELSE role[r].role_id
  <2>1. key <= MaxKeys /\ SetRole(c, r, e, p)
    BY <1>2 DEF WriteRole
  <2>2. key \in Key
    BY <1>0, <2>1, NumbersAssumption DEF CoreTyped, RoleEntry, Key
  <2>3. e \in RoleEntry
    BY <2>2 DEF RoleEntry
  <2>4. \/ role[r] = None /\ p = None
        \/ role[r] # None /\ p = role[r].role_id
    OBVIOUS
  <2> HIDE DEF e, p
  <2> QED BY <2>1, <2>3, <2>4, SetRoleRole
<1>3. ASSUME NEW n \in Uses, UpdateRoleField(c, r, n) PROVE RoleInv'
  <2> DEFINE e == [role[r] EXCEPT !.num_uses = n]
  <2>1. role[r] # None /\ SetRole(c, r, e, None)
    BY <1>3 DEF UpdateRoleField
  <2>2. e \in RoleEntry /\ role[r].role_id = e.role_id
    BY <1>0, <2>1 DEF CoreTyped, RoleEntry
  <2> HIDE DEF e
  <2> QED BY <2>1, <2>2, SetRoleRole
<1>4. CASE ReadRole(c, r)
  <2> DEFINE k == [NoCall EXCEPT !.step = "repair", !.role = r, !.entry = role[r]]
  <2>1. call' = [call EXCEPT ![c] = k] /\ role' = role /\ roleIndex' = roleIndex
    BY <1>4 DEF ReadRole, Do, storageVars
  <2>2. k.step = "repair"
    BY DEF NoCall
  <2> HIDE DEF k
  <2>3. Knows(k, role, roleIndex)
    BY <2>2 DEF Knows
  <2> QED BY <2>1, <2>3, RoleSame
<1>5. CASE DeleteRole(c, r)
  <2> DEFINE t == {s \in Slot : s[1] = role[r].hmac_key /\ secret[s] # None}
             k == [NoCall EXCEPT !.step = "flush", !.role = r, !.roleMode = "write", !.todo = t]
  <2>1. call' = [call EXCEPT ![c] = k] /\ role' = role /\ roleIndex' = roleIndex /\ role[r] # None
    BY <1>5 DEF DeleteRole, Do, storageVars
  <2> HIDE DEF t
  <2>2. k.step = "flush" /\ k.role = r
    BY DEF NoCall
  <2> HIDE DEF k
  <2>3. Knows(k, role, roleIndex)
    BY <2>1, <2>2 DEF Knows
  <2> QED BY <2>1, <2>3, RoleSame
<1> QED BY <1>1, <1>2, <1>3, <1>4, <1>5

\* A step that only takes from the index.
LEMMA IndexLoses ==
    ASSUME RoleInv, role' = role, \A i \in RoleId : roleIndex'[i] \in {roleIndex[i], None}
    PROVE  IndexFitsRole'
BY DEF RoleInv, IndexFitsRole

LEMMA SetRoleUnindexRole ==
    ASSUME Control, RoleInv, NEW c \in Client, SetRoleUnindex(c)
    PROVE  RoleInv'
<1> DEFINE k == [call[c] EXCEPT !.step = "put_role"]
           r == call[c].role
<1>0. CoreTyped /\ call[c] \in CallRecord /\ Fits(call[c]) /\ Knows(call[c], role, roleIndex)
  BY CoreFacts DEF CoreTyped, Control, Calls, RoleInv
<1>1. /\ call[c].step = "unindex" /\ call' = [call EXCEPT ![c] = k]
      /\ roleIndex' = [roleIndex EXCEPT ![call[c].previous] = None] /\ role' = role
  BY <1>0 DEF SetRoleUnindex, At, Goto, CoreTyped
<1>2. k.step = "put_role" /\ k.role = r /\ k.entry = call[c].entry
  BY <1>0 DEF CallRecord
<1> HIDE DEF k
<1>3. /\ r \in Role /\ r # None /\ role[r] # None /\ role[r].role_id = call[c].previous
      /\ call[c].previous \in RoleId
  BY <1>0, <1>1, NoneFacts DEF Fits, RoleWriters, Knows
<1>4. roleIndex'[call[c].previous] = None /\ \A i \in RoleId : roleIndex'[i] \in {roleIndex[i], None}
  BY <1>0, <1>1, <1>3 DEF CoreTyped
<1>5. IndexFitsRole'
  BY <1>1, <1>4, IndexLoses
<1>6. \A i \in RoleId : roleIndex'[i] # r
  BY <1>3, <1>4 DEF RoleInv, IndexFitsRole
<1>7. Knows(k, role', roleIndex')
  BY <1>2, <1>6 DEF Knows
<1>8. \A q \in Role : role'[q] = role[q] /\ \A i \in RoleId : roleIndex'[i] = q => roleIndex[i] = q
  BY <1>1, <1>4, NoneFacts
<1> QED BY <1>1, <1>5, <1>7, <1>8, RoleMove

LEMMA SetRolePutRole ==
    ASSUME Control, RoleInv, NEW c \in Client, SetRolePut(c)
    PROVE  RoleInv'
<1> DEFINE r == call[c].role
           e == call[c].entry
<1>0. CoreTyped /\ call[c] \in CallRecord /\ Fits(call[c]) /\ Knows(call[c], role, roleIndex)
  BY CoreFacts DEF CoreTyped, Control, Calls, RoleInv
<1>1. call[c].step = "put_role" /\ role' = [role EXCEPT ![r] = e] /\ roleIndex' = roleIndex
  BY DEF SetRolePut, At
<1>2. /\ r \in Role /\ call[c].roleMode = "write" /\ e \in RoleEntry /\ e # None
      /\ \A i \in RoleId : roleIndex[i] = r => i = e.role_id
  BY <1>0, <1>1, NoneFacts DEF Fits, RoleWriters, Knows
<1>3. role'[r] = e /\ \A q \in Role : q # r => role'[q] = role[q]
  BY <1>0, <1>1, <1>2 DEF CoreTyped
<1>4. IndexFitsRole'
  <2>1. ASSUME NEW i \in RoleId, roleIndex[i] # None
        PROVE  role'[roleIndex[i]] # None /\ role'[roleIndex[i]].role_id = i
    <3>1. roleIndex[i] \in Role
      BY <1>0, <2>1 DEF CoreTyped
    <3>2. CASE roleIndex[i] = r
      BY <1>2, <1>3, <3>2
    <3>3. CASE roleIndex[i] # r
      BY <1>3, <2>1, <3>1, <3>3 DEF RoleInv, IndexFitsRole
    <3> QED BY <3>2, <3>3
  <2> QED BY <1>1, <2>1 DEF IndexFitsRole
<1>5. RoleFree(c, r)
  BY <1>2, RoleWriterAlone
<1>6. \A q \in Role : \/ role'[q] = role[q] /\ \A i \in RoleId : roleIndex'[i] = q => roleIndex[i] = q
                      \/ RoleFree(c, q)
  BY <1>1, <1>3, <1>5
<1>7. CASE Return(c)
  <2>1. call' = [call EXCEPT ![c] = NoCall] /\ Knows(NoCall, role', roleIndex')
    BY <1>7, IdleKnows, NoCallFacts DEF Return, RoleWriters
  <2> HIDE DEF NoCall
  <2> QED BY <1>4, <1>6, <2>1, RoleMove
<1>8. CASE Goto(c, "index")
  <2> DEFINE k == [call[c] EXCEPT !.step = "index"]
  <2>1. call' = [call EXCEPT ![c] = k]
    BY <1>0, <1>8 DEF Goto, CoreTyped
  <2>2. k.step = "index" /\ k.role = r /\ k.entry = e
    BY <1>0 DEF CallRecord
  <2> HIDE DEF k
  <2>3. Knows(k, role', roleIndex')
    BY <1>3, <2>2 DEF Knows
  <2> QED BY <1>4, <1>6, <2>1, <2>3, RoleMove
<1> QED BY <1>7, <1>8 DEF SetRolePut

\* The role r, which the thread c has for writing, is indexed, and c returns.
LEMMA IndexReturn ==
    ASSUME Control, RoleInv, NEW c \in Client, Return(c), NEW r \in Role, RoleFree(c, r),
           NEW i \in RoleId, role[r] # None, role[r].role_id = i, role' = role,
           \/ roleIndex' = [roleIndex EXCEPT ![i] = r]
           \/ roleIndex' = roleIndex
    PROVE  RoleInv'
<1>0. CoreTyped
  BY CoreFacts
<1>1. /\ roleIndex'[i] = roleIndex[i] \/ roleIndex'[i] = r
      /\ \A j \in RoleId : j # i => roleIndex'[j] = roleIndex[j]
  BY <1>0 DEF CoreTyped
<1>2. IndexFitsRole'
  BY <1>1 DEF RoleInv, IndexFitsRole
<1>3. call' = [call EXCEPT ![c] = NoCall] /\ Knows(NoCall, role', roleIndex')
  BY IdleKnows, NoCallFacts DEF Return, RoleWriters
<1>4. \A q \in Role : \/ role'[q] = role[q] /\ \A j \in RoleId : roleIndex'[j] = q => roleIndex[j] = q
                      \/ RoleFree(c, q)
  BY <1>1
<1> HIDE DEF NoCall
<1> QED BY <1>2, <1>3, <1>4, RoleMove

LEMMA SetRoleIndexRole ==
    ASSUME Control, RoleInv, NEW c \in Client, SetRoleIndex(c)
    PROVE  RoleInv'
<1> DEFINE r == call[c].role
           i == call[c].entry.role_id
<1>0. Fits(call[c]) /\ Knows(call[c], role, roleIndex)
  BY DEF Control, Calls, RoleInv
<1>1. /\ call[c].step = "index" /\ roleIndex' = [roleIndex EXCEPT ![i] = r] /\ role' = role
      /\ Return(c)
  BY DEF SetRoleIndex, At
<1>2. /\ r \in Role /\ call[c].roleMode = "write" /\ i \in RoleId
      /\ role[r] # None /\ role[r].role_id = i
  BY <1>0, <1>1, NoneFacts DEF Fits, RoleWriters, Knows, RoleEntry
<1>3. RoleFree(c, r)
  BY <1>2, RoleWriterAlone
<1> HIDE DEF r, i
<1> QED BY <1>1, <1>2, <1>3, IndexReturn

\* The entry that the repair of read_role read before it gave up its lock
\* still has the role id of the role.
RepairFresh ==
    \A c \in Client : ReadRoleRepair(c) =>
       role[call[c].role] # None /\ role[call[c].role].role_id = call[c].entry.role_id

LEMMA ReadRoleRepairRole ==
    ASSUME Control, RoleInv, NEW c \in Client, ReadRoleRepair(c), RepairFresh
    PROVE  RoleInv'
<1> DEFINE r == call[c].role
           i == call[c].entry.role_id
<1>1. /\ call[c].step = "repair" /\ role' = role /\ Return(c) /\ RoleLock(c, r, "write")
      /\ roleIndex' = [roleIndex EXCEPT ![i] = IF @ = None THEN r ELSE @]
  BY DEF ReadRoleRepair, At
<1>2. r \in Role /\ i \in RoleId
  BY <1>1 DEF Control, Calls, Fits, RoleEntry
<1>3. role[r] # None /\ role[r].role_id = i
  BY DEF RepairFresh
<1>4. RoleFree(c, r)
  BY <1>1 DEF RoleLock, RoleFree, Compatible
<1>5. roleIndex' = [roleIndex EXCEPT ![i] = r] \/ roleIndex' = roleIndex
  BY <1>1, <1>2 DEF Control, TypeOK
<1> HIDE DEF r, i
<1> QED BY <1>1, <1>2, <1>3, <1>4, <1>5, IndexReturn

LEMMA FlushRoleSecretsRole ==
    ASSUME Control, RoleInv, NEW c \in Client, FlushRoleSecrets(c)
    PROVE  RoleInv'
<1>0. CoreTyped /\ call[c] \in CallRecord /\ Knows(call[c], role, roleIndex)
  BY CoreFacts DEF CoreTyped, RoleInv
<1>1. call[c].step = "flush" /\ role' = role /\ roleIndex' = roleIndex /\ role[call[c].role] # None
  BY <1>0 DEF FlushRoleSecrets, At, Knows
<1>2. ASSUME NEW k, call' = [call EXCEPT ![c] = k], k.step \in {"flush", "delete_index"},
             k.role = call[c].role
      PROVE  RoleInv'
  <2>1. Knows(k, role, roleIndex)
    BY <1>1, <1>2 DEF Knows
  <2> QED BY <1>1, <1>2, <2>1, RoleSame
<1>3. CASE Goto(c, "delete_index")
  <2> DEFINE k == [call[c] EXCEPT !.step = "delete_index"]
  <2>1. call' = [call EXCEPT ![c] = k]
    BY <1>0, <1>3 DEF Goto, CoreTyped
  <2>2. k.step = "delete_index" /\ k.role = call[c].role
    BY <1>0 DEF CallRecord
  <2> HIDE DEF k
  <2> QED BY <1>2, <2>1, <2>2
<1>4. ASSUME NEW t, NEW D, Do(c, [call[c] EXCEPT !.todo = @ \ t, !.flushed = @ \cup D])
      PROVE  RoleInv'
  <2> DEFINE k == [call[c] EXCEPT !.todo = @ \ t, !.flushed = @ \cup D]
  <2>1. call' = [call EXCEPT ![c] = k]
    BY <1>4 DEF Do
  <2>2. k.step = "flush" /\ k.role = call[c].role
    BY <1>0, <1>1 DEF CallRecord
  <2> HIDE DEF k
  <2> QED BY <1>2, <2>1, <2>2
<1> QED BY <1>3, <1>4 DEF FlushRoleSecrets

LEMMA DeleteRoleIndexRole ==
    ASSUME Control, RoleInv, NEW c \in Client, DeleteRoleIndex(c)
    PROVE  RoleInv'
<1> DEFINE k == [call[c] EXCEPT !.step = "delete_role"]
           r == call[c].role
           i == role[r].role_id
<1>0. CoreTyped /\ call[c] \in CallRecord /\ Fits(call[c]) /\ Knows(call[c], role, roleIndex)
  BY CoreFacts DEF CoreTyped, Control, Calls, RoleInv
<1>1. /\ call[c].step = "delete_index" /\ call' = [call EXCEPT ![c] = k]
      /\ roleIndex' = [roleIndex EXCEPT ![i] = None] /\ role' = role
  BY <1>0 DEF DeleteRoleIndex, At, Goto, CoreTyped
<1>2. k.step = "delete_role" /\ k.role = r
  BY <1>0 DEF CallRecord
<1> HIDE DEF k
<1>3. r \in Role /\ r # None /\ role[r] # None
  BY <1>0, <1>1, NoneFacts DEF Fits, RoleWriters, Knows
<1>i. i \in RoleId
  BY <1>0, <1>3 DEF CoreTyped, RoleEntry
<1>4. roleIndex'[i] = None /\ \A j \in RoleId : roleIndex'[j] \in {roleIndex[j], None}
  BY <1>0, <1>1, <1>i DEF CoreTyped
<1>5. IndexFitsRole'
  BY <1>1, <1>4, IndexLoses
<1>6. \A j \in RoleId : roleIndex'[j] # r
  BY <1>3, <1>4 DEF RoleInv, IndexFitsRole
<1>7. Knows(k, role', roleIndex')
  BY <1>2, <1>6 DEF Knows
<1>8. \A q \in Role : role'[q] = role[q] /\ \A j \in RoleId : roleIndex'[j] = q => roleIndex[j] = q
  BY <1>1, <1>4, NoneFacts
<1> QED BY <1>1, <1>5, <1>7, <1>8, RoleMove

LEMMA DeleteRoleEntryRole ==
    ASSUME Control, RoleInv, NEW c \in Client, DeleteRoleEntry(c)
    PROVE  RoleInv'
<1> DEFINE r == call[c].role
<1>0. CoreTyped /\ Fits(call[c]) /\ Knows(call[c], role, roleIndex)
  BY CoreFacts DEF CoreTyped, Control, Calls, RoleInv
<1>1. /\ call[c].step = "delete_role" /\ role' = [role EXCEPT ![r] = None]
      /\ roleIndex' = roleIndex /\ Return(c)
  BY DEF DeleteRoleEntry, At
<1>2. /\ r \in Role /\ call[c].roleMode = "write" /\ \A i \in RoleId : roleIndex[i] # r
  BY <1>0, <1>1 DEF Fits, RoleWriters, Knows
<1>3. \A q \in Role : q # r => role'[q] = role[q]
  BY <1>0, <1>1, <1>2 DEF CoreTyped
<1>4. IndexFitsRole'
  <2>1. ASSUME NEW i \in RoleId, roleIndex[i] # None PROVE role'[roleIndex[i]] = role[roleIndex[i]]
    BY <1>0, <1>2, <1>3, <2>1 DEF CoreTyped
  <2> QED BY <1>1, <2>1 DEF RoleInv, IndexFitsRole
<1>5. RoleFree(c, r)
  BY <1>2, RoleWriterAlone
<1>6. call' = [call EXCEPT ![c] = NoCall] /\ Knows(NoCall, role', roleIndex')
  BY <1>1, IdleKnows, NoCallFacts DEF Return, RoleWriters
<1>7. \A q \in Role : \/ role'[q] = role[q] /\ \A i \in RoleId : roleIndex'[i] = q => roleIndex[i] = q
                      \/ RoleFree(c, q)
  BY <1>1, <1>3, <1>5
<1> HIDE DEF NoCall
<1> QED BY <1>4, <1>6, <1>7, RoleMove

\* Steps that have nothing to do with roles.
RoleSteps == RoleWriters \cup {"repair"}

Aside ==
    /\ role' = role /\ roleIndex' = roleIndex
    /\ \A d \in Client : call'[d].step \notin RoleSteps \/ call'[d] = call[d]

LEMMA AsideRole == ASSUME RoleInv, Aside PROVE RoleInv'
<1>1. IndexFitsRole'
  BY DEF RoleInv, IndexFitsRole, Aside
<1>2. ASSUME NEW d \in Client PROVE Knows(call'[d], role, roleIndex)
  <2>1. CASE call'[d].step \notin RoleSteps
    BY <2>1, IdleKnows DEF RoleSteps
  <2>2. CASE call'[d] = call[d]
    BY <2>2 DEF RoleInv
  <2> QED BY <2>1, <2>2 DEF Aside
<1>3. role' = role /\ roleIndex' = roleIndex
  BY DEF Aside
<1> QED BY <1>1, <1>2, <1>3 DEF RoleInv

LEMMA AsideMove ==
    ASSUME Control, NEW c \in Client, NEW k, call' = [call EXCEPT ![c] = k],
           k.step \notin RoleSteps, role' = role, roleIndex' = roleIndex
    PROVE  Aside
BY DEF Aside, Control, TypeOK

LEMMA AsideReturn ==
    ASSUME Control, NEW c \in Client, Return(c), role' = role, roleIndex' = roleIndex
    PROVE  Aside
<1>1. call' = [call EXCEPT ![c] = NoCall] /\ NoCall.step \notin RoleSteps
  BY NoCallFacts DEF Return, RoleSteps, RoleWriters
<1> HIDE DEF NoCall
<1> QED BY <1>1, AsideMove

LEMMA SecretIdCallAside ==
    ASSUME Control, NEW c \in Client, SecretIdCall(c) PROVE Aside
<1>1. ASSUME NEW r \in Role, NEW i \in SecretId, NEW n \in Uses, NEW ttl \in Ttls,
             WriteSecretId(c, r, i, n, ttl)
      PROVE  Aside
  <2> DEFINE k == [NoCall EXCEPT !.step = "register", !.role = r, !.roleMode = "read",
                       !.slot = <<role[r].hmac_key, i>>, !.num_uses = n, !.ttl = ttl]
  <2>1. call' = [call EXCEPT ![c] = k] /\ role' = role /\ roleIndex' = roleIndex
    BY <1>1 DEF WriteSecretId, Do, storageVars
  <2>2. k.step \notin RoleSteps
    BY DEF NoCall, RoleSteps, RoleWriters
  <2> HIDE DEF k
  <2> QED BY <2>1, <2>2, AsideMove
<1>2. ASSUME NEW r \in Role, NEW i \in SecretId, LookupSecretId(c, r, i) PROVE Aside
  BY <1>2 DEF LookupSecretId, Aside
<1>3. ASSUME NEW r, NEW mode, NEW s, NEW a, Destroy(c, r, mode, s, a) PROVE Aside
  <2> DEFINE k == [NoCall EXCEPT !.step = "destroy", !.role = r, !.roleMode = mode, !.slot = s,
                       !.slotMode = "write"]
  <2>1. call' = [call EXCEPT ![c] = k] /\ role' = role /\ roleIndex' = roleIndex
    BY <1>3 DEF Destroy, Do
  <2>2. k.step \notin RoleSteps
    BY DEF NoCall, RoleSteps, RoleWriters
  <2> HIDE DEF k
  <2> QED BY <2>1, <2>2, AsideMove
<1>4. ASSUME NEW i \in RoleId, NEW s \in SecretId, Login(c, i, s) PROVE Aside
  <2> DEFINE k == [NoCall EXCEPT !.step = "login_role", !.role = roleIndex[i], !.secret = s]
  <2>1. call' = [call EXCEPT ![c] = k] /\ role' = role /\ roleIndex' = roleIndex
    BY <1>4 DEF Login, Do, storageVars
  <2>2. k.step \notin RoleSteps
    BY DEF NoCall, RoleSteps, RoleWriters
  <2> HIDE DEF k
  <2> QED BY <2>1, <2>2, AsideMove
<1> QED BY <1>1, <1>2, <1>3, <1>4 DEF SecretIdCall, DestroySecretId, DestroyAccessor

LEMMA SecretStepAside ==
    ASSUME Control, NEW c \in Client,
           \/ RegisterAccessor(c) \/ RegisterEntry(c) \/ DestroyEntry(c)
           \/ LoginRole(c) \/ LoginCheck(c) \/ LoginDrop(c) \/ LoginUse(c) \/ LoginLast(c)
           \/ Fails(c)
    PROVE  Aside
<1>0. call[c] \in CallRecord
  BY DEF Control, TypeOK
<1>1. role' = role /\ roleIndex' = roleIndex
  BY DEF RegisterAccessor, RegisterEntry, DestroyEntry, LoginRole, LoginCheck, LoginDrop,
         LoginUse, LoginLast, Fails, storageVars
<1>2. CASE Return(c)
  BY <1>1, <1>2, AsideReturn
<1>3. ASSUME NEW k, Do(c, k), k.step \notin RoleSteps PROVE Aside
  BY <1>1, <1>3, AsideMove DEF Do
<1>4. CASE RegisterAccessor(c)
  <2>1. ASSUME NEW x, Do(c, [call[c] EXCEPT !.step = "register_entry", !.slotMode = "write", !.storage = x])
        PROVE  Aside
    <3> DEFINE k == [call[c] EXCEPT !.step = "register_entry", !.slotMode = "write", !.storage = x]
    <3>1. k.step \notin RoleSteps
      BY <1>0 DEF CallRecord, RoleSteps, RoleWriters
    <3> QED BY <1>3, <2>1, <3>1
  <2> QED BY <1>2, <1>4, <2>1 DEF RegisterAccessor
<1>5. CASE LoginRole(c)
  <2>1. ASSUME NEW x, Do(c, [NoCall EXCEPT !.step = "login_check", !.slot = x]) PROVE Aside
    <3> DEFINE k == [NoCall EXCEPT !.step = "login_check", !.slot = x]
    <3>1. k.step \notin RoleSteps
      BY DEF NoCall, RoleSteps, RoleWriters
    <3> QED BY <1>3, <2>1, <3>1
  <2> QED BY <1>2, <1>5, <2>1 DEF LoginRole
<1>6. CASE LoginCheck(c)
  <2>1. CASE Do(c, [call[c] EXCEPT !.step = "login_drop", !.slotMode = "read"])
    <3>1. [call[c] EXCEPT !.step = "login_drop", !.slotMode = "read"].step \notin RoleSteps
      BY <1>0 DEF CallRecord, RoleSteps, RoleWriters
    <3> QED BY <1>3, <2>1, <3>1
  <2>2. ASSUME NEW x, Do(c, [call[c] EXCEPT !.step = "login_use", !.storage = x]) PROVE Aside
    <3>1. [call[c] EXCEPT !.step = "login_use", !.storage = x].step \notin RoleSteps
      BY <1>0 DEF CallRecord, RoleSteps, RoleWriters
    <3> QED BY <1>3, <2>2, <3>1
  <2> QED BY <1>2, <1>6, <2>1, <2>2 DEF LoginCheck, Accept, Refuse
<1>7. CASE LoginUse(c)
  <2>1. ASSUME NEW x, Do(c, [call[c] EXCEPT !.step = "login_last", !.slotMode = "write", !.storage = x])
        PROVE  Aside
    <3>1. [call[c] EXCEPT !.step = "login_last", !.slotMode = "write", !.storage = x].step \notin RoleSteps
      BY <1>0 DEF CallRecord, RoleSteps, RoleWriters
    <3> QED BY <1>3, <2>1, <3>1
  <2> QED BY <1>2, <1>7, <2>1 DEF LoginUse, Use, Accept, Refuse
<1>8. CASE RegisterEntry(c) \/ DestroyEntry(c) \/ LoginDrop(c) \/ LoginLast(c) \/ Fails(c)
  <2>1. Return(c)
    BY <1>8 DEF RegisterEntry, DestroyEntry, LoginDrop, LoginLast, Fails, Accept, Refuse
  <2> QED BY <1>2, <2>1
<1> QED BY <1>4, <1>5, <1>6, <1>7, <1>8

LEMMA OtherAside ==
    ASSUME Control, TidyStart \/ TaskStep \/ Tick \/ Crash \/ UNCHANGED vars PROVE Aside
<1>1. role' = role /\ roleIndex' = roleIndex /\ (call' = call \/ call' = [c \in Client |-> NoCall])
  <2>1. CASE TidyStart \/ Tick \/ Crash \/ UNCHANGED vars
    BY <2>1 DEF TidyStart, Tick, Crash, vars, storageVars
  <2>2. CASE TaskStep
    BY <2>2 DEF TaskStep, TidyStep, TidySpawn, TidyKeys, TidySlots, TidyClean, TidyExpired,
                TidyRelist, TidyAccessor, TidyFails, storageVars
  <2> QED BY <2>1, <2>2
<1>2. NoCall.step \notin RoleSteps
  BY NoCallFacts DEF RoleSteps, RoleWriters
<1> QED BY <1>1, <1>2 DEF Aside

RoleStep(c) ==
    \/ SetRoleUnindex(c) \/ SetRolePut(c) \/ SetRoleIndex(c) \/ ReadRoleRepair(c)
    \/ FlushRoleSecrets(c) \/ DeleteRoleIndex(c) \/ DeleteRoleEntry(c)

\* Every step is one on a role, or it has nothing to do with roles.
LEMMA RoleOrAside ==
    ASSUME Control, [Next]_vars
    PROVE  (\E c \in Admin : RoleCall(c)) \/ (\E c \in Client : RoleStep(c)) \/ Aside
<1>1. CASE Request
  BY <1>1, SecretIdCallAside, OtherAside DEF Request
<1>2. CASE \E c \in Client : Work(c)
  BY <1>2, SecretStepAside DEF Work, CallStep, RoleStep
<1>3. CASE TaskStep \/ Tick \/ Crash \/ UNCHANGED vars
  BY <1>3, OtherAside
<1> QED BY <1>1, <1>2, <1>3 DEF Next

LEMMA RoleInit == Init => RoleInv
<1> SUFFICES ASSUME Init PROVE RoleInv
  OBVIOUS
<1>1. ASSUME NEW c \in Client PROVE Knows(call[c], role, roleIndex)
  BY IdleKnows, NoCallFacts DEF Init, RoleWriters
<1> QED BY <1>1 DEF Init, RoleInv, IndexFitsRole

LEMMA RoleNext == Control /\ RoleInv /\ [Next]_vars /\ RepairFresh => RoleInv'
<1> SUFFICES ASSUME Control, RoleInv, [Next]_vars, RepairFresh PROVE RoleInv'
  OBVIOUS
<1>1. \A c \in Admin : c \in Client
  BY AdminAssumption
<1>2. ASSUME NEW c \in Client, RoleStep(c) PROVE RoleInv'
  BY <1>2, SetRoleUnindexRole, SetRolePutRole, SetRoleIndexRole, ReadRoleRepairRole,
     FlushRoleSecretsRole, DeleteRoleIndexRole, DeleteRoleEntryRole DEF RoleStep
<1> QED BY <1>1, <1>2, RoleOrAside, RoleCallRole, AsideRole

\* For any number of threads with requests on roles: wherever set_role and
\* delete_role are cut, the index leads to a role that has this role id, as
\* long as no repair of read_role writes the index of an entry that has changed
\* since it was read (path_role.rs).
THEOREM AppRoleIndexFits == Spec /\ [][RepairFresh]_vars => []IndexFitsRole
<1>1. RoleInv => IndexFitsRole
  BY DEF RoleInv
<1>2. Control /\ RoleInv /\ [Next]_vars /\ [RepairFresh]_vars => RoleInv'
  <2>1. CASE UNCHANGED vars
    <3>1. Control /\ UNCHANGED vars => Aside
      BY OtherAside
    <3> QED BY <2>1, <3>1, AsideRole
  <2>2. CASE RepairFresh
    BY <2>2, RoleNext
  <2> QED BY <2>1, <2>2
<1> QED BY ControlInit, ControlNext, RoleInit, <1>1, <1>2, PTL DEF Spec

-----------------------------------------------------------------------------
(* One thread with the requests on roles *)

OneAdmin == \A c, d \in Admin : c = d

\* Only this thread is at work on roles, and what it repairs has not changed.
AdminInv ==
    \A c \in Client :
       /\ call[c].step \in RoleSteps => c \in Admin
       /\ call[c].step = "repair" => role[call[c].role] = call[c].entry

LEMMA AdminFresh == ASSUME Control, AdminInv PROVE RepairFresh
<1>1. ASSUME NEW c \in Client, ReadRoleRepair(c)
      PROVE  role[call[c].role] # None /\ role[call[c].role].role_id = call[c].entry.role_id
  <2>1. call[c].step = "repair" /\ role[call[c].role] = call[c].entry
    BY <1>1 DEF ReadRoleRepair, At, AdminInv
  <2>2. call[c].entry \in RoleEntry
    BY <2>1 DEF Control, Calls, Fits
  <2> QED BY <2>1, <2>2, NoneFacts
<1> QED BY <1>1 DEF RepairFresh

\* A step of the thread c.
LEMMA AdminMove ==
    ASSUME Control, OneAdmin, AdminInv, NEW c \in Admin, NEW k, call' = [call EXCEPT ![c] = k],
           k.step = "repair" => role'[k.role] = k.entry
    PROVE  AdminInv'
<1>0. c \in Client
  BY AdminAssumption
<1>1. call'[c] = k /\ \A d \in Client \ {c} : call'[d] = call[d]
  BY <1>0 DEF Control, TypeOK
<1>2. ASSUME NEW d \in Client
      PROVE  /\ call'[d].step \in RoleSteps => d \in Admin
             /\ call'[d].step = "repair" => role'[call'[d].role] = call'[d].entry
  <2>1. CASE d = c
    BY <1>1, <2>1
  <2>2. CASE d # c
    <3>1. call'[d].step \notin RoleSteps
      BY <1>1, <2>2 DEF AdminInv, OneAdmin
    <3> QED BY <3>1 DEF RoleSteps
  <2> QED BY <2>1, <2>2
<1> QED BY <1>2 DEF AdminInv

LEMMA AdminNext == ASSUME Control, OneAdmin, AdminInv, [Next]_vars PROVE AdminInv'
<1>0. CoreTyped
  BY CoreFacts
<1>1. ASSUME Aside PROVE AdminInv'
  BY <1>1 DEF Aside, AdminInv, RoleSteps
<1>2. ASSUME NEW c \in Admin, RoleCall(c) PROVE AdminInv'
  <2>1. PICK r \in Role :
          \/ \E e, p : SetRole(c, r, e, p)
          \/ ReadRole(c, r)
          \/ DeleteRole(c, r)
    BY <1>2 DEF RoleCall, WriteRole, UpdateRoleField
  <2>2. ASSUME NEW e, NEW p, SetRole(c, r, e, p) PROVE AdminInv'
    <3> DEFINE k == [NoCall EXCEPT
                        !.step = IF p \in {None, e.role_id} THEN "put_role" ELSE "unindex",
                        !.role = r, !.roleMode = "write", !.entry = e,
                        !.previous = p, !.create = p # e.role_id]
    <3>1. call' = [call EXCEPT ![c] = k]
      BY <2>2 DEF SetRole, Do
    <3>2. k.step # "repair"
      BY DEF NoCall
    <3> HIDE DEF k
    <3> QED BY <3>1, <3>2, AdminMove
  <2>3. CASE ReadRole(c, r)
    <3> DEFINE k == [NoCall EXCEPT !.step = "repair", !.role = r, !.entry = role[r]]
    <3>1. call' = [call EXCEPT ![c] = k] /\ role' = role
      BY <2>3 DEF ReadRole, Do, storageVars
    <3>2. k.role = r /\ k.entry = role[r]
      BY DEF NoCall
    <3> HIDE DEF k
    <3> QED BY <3>1, <3>2, AdminMove
  <2>4. CASE DeleteRole(c, r)
    <3> DEFINE t == {s \in Slot : s[1] = role[r].hmac_key /\ secret[s] # None}
               k == [NoCall EXCEPT !.step = "flush", !.role = r, !.roleMode = "write", !.todo = t]
    <3>1. call' = [call EXCEPT ![c] = k]
      BY <2>4 DEF DeleteRole, Do
    <3>2. k.step # "repair"
      BY DEF NoCall
    <3> HIDE DEF k
    <3> QED BY <3>1, <3>2, AdminMove
  <2> QED BY <2>1, <2>2, <2>3, <2>4
<1>3. ASSUME NEW c \in Client, RoleStep(c) PROVE AdminInv'
  <2>0. call[c] \in CallRecord
    BY <1>0 DEF CoreTyped
  <2>1. call[c].step \in RoleSteps
    BY <1>3 DEF RoleStep, SetRoleUnindex, SetRolePut, SetRoleIndex, ReadRoleRepair,
                FlushRoleSecrets, DeleteRoleIndex, DeleteRoleEntry, At, RoleSteps, RoleWriters
  <2>2. c \in Admin
    BY <2>1 DEF AdminInv
  <2>3. CASE Return(c)
    BY <2>2, <2>3, AdminMove, NoCallFacts DEF Return
  <2>4. ASSUME NEW st \in RoleWriters, Goto(c, st) PROVE AdminInv'
    <3> DEFINE k == [call[c] EXCEPT !.step = st]
    <3>1. call' = [call EXCEPT ![c] = k]
      BY <1>0, <2>4 DEF Goto, CoreTyped
    <3>2. k.step # "repair"
      BY <2>0 DEF CallRecord, RoleWriters
    <3> HIDE DEF k
    <3> QED BY <2>2, <3>1, <3>2, AdminMove
  <2>5. ASSUME NEW t, NEW D, call[c].step = "flush",
               Do(c, [call[c] EXCEPT !.todo = @ \ t, !.flushed = @ \cup D])
        PROVE  AdminInv'
    <3> DEFINE k == [call[c] EXCEPT !.todo = @ \ t, !.flushed = @ \cup D]
    <3>1. call' = [call EXCEPT ![c] = k]
      BY <2>5 DEF Do
    <3>2. k.step # "repair"
      BY <2>0, <2>5 DEF CallRecord
    <3> HIDE DEF k
    <3> QED BY <2>2, <3>1, <3>2, AdminMove
  <2>6. CASE FlushRoleSecrets(c)
    BY <2>4, <2>5, <2>6 DEF FlushRoleSecrets, At, RoleWriters
  <2>7. CASE ~FlushRoleSecrets(c)
    BY <1>3, <2>3, <2>4, <2>7 DEF RoleStep, SetRoleUnindex, SetRolePut, SetRoleIndex,
                ReadRoleRepair, DeleteRoleIndex, DeleteRoleEntry, RoleWriters
  <2> QED BY <2>6, <2>7
<1> QED BY <1>1, <1>2, <1>3, RoleOrAside

\* With one thread for the requests on roles, and any number for the others,
\* the index leads to a role that has this role id: an old role id never logs
\* in (path_role.rs).
THEOREM AppRoleIndexOneAdmin == ASSUME OneAdmin PROVE Spec => []IndexFitsRole
<1>1. Init => AdminInv
  BY NoCallFacts DEF Init, AdminInv, RoleSteps, RoleWriters
<1>2. Control /\ RoleInv /\ AdminInv /\ [Next]_vars => RoleInv' /\ AdminInv'
  BY AdminFresh, AdminNext, RoleNext
<1>3. RoleInv => IndexFitsRole
  BY DEF RoleInv
<1> QED BY ControlInit, ControlNext, RoleInit, <1>1, <1>2, <1>3, PTL DEF Spec
=============================================================================
