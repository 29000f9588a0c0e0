------------------------------ MODULE AppRole ------------------------------
(***************************************************************************)
(* The AppRole method: roles, the index from role ids to roles, secret ids *)
(* and their accessors (src/src/modules/credential/approle/).              *)
(*                                                                         *)
(* Requests run on many threads, beside the task that tidies secret ids.   *)
(* A call is cut between two writes to storage and where it changes locks; *)
(* the locks it holds on its role and on a secret id are part of its       *)
(* record.  A secret id is stored under a slot: the HMAC key of the role,  *)
(* new for every role that is created, and the secret id.                  *)
(*                                                                         *)
(* Of a role entry this module keeps what login depends on; Accounts has   *)
(* the other fields.  Local secret ids are a second store of the same      *)
(* kind.  Names differ in more than case.                                  *)
(***************************************************************************)
EXTENDS Integers, FiniteSets

CONSTANTS
    Client,         \* threads that serve requests
    Admin,          \* those of them that send the requests on roles
    Role,           \* names of roles
    RoleId,
    SecretId,
    Uses,           \* the use counts that are asked for; 0: no limit
    Ttls,           \* the TTLs that are asked for; 0: none
    MaxKeys,        \* bound: how often a role is created
    MaxAccessors,   \* bound: how many secret ids are ever registered
    MaxCalls,       \* bound: how many requests are sent
    MaxTime,        \* bound: the last time the clock shows
    MaxLogins,      \* bound: how many logins one secret id serves
    None,
    StorageFaults,  \* may an operation of the storage fail?
    Crashes         \* may the process crash?

ASSUME AdminAssumption == Admin \subseteq Client
ASSUME NumbersAssumption ==
    /\ Uses \subseteq Nat /\ Ttls \subseteq Nat
    /\ MaxKeys \in Nat /\ MaxAccessors \in Nat /\ MaxCalls \in Nat
    /\ MaxTime \in Nat /\ MaxLogins \in Nat

VARIABLES
    \* storage
    role,       \* role/: the RoleEntry of each role
    roleIndex,  \* role_id/: the role of each role id
    secret,     \* secret_id/: the SecretIdStorageEntry in each slot
    accessor,   \* accessor/: the slot of each accessor
    \* memory
    call,       \* what each thread is doing
    ctxPath,    \* the path the backend's shared context names: of tidy or of another request
    guard,      \* tidy_secret_id_cas_guard
    tidy,       \* the task of tidy_secret_id
    now,
    \* history, never read by the code
    calls,      \* how many requests were sent
    keys,       \* how many HMAC keys were generated
    accessors,  \* how many accessors were generated
    granted,    \* the use count each secret id was registered with
    logins,     \* how often each was used with success
    dead        \* those whose destruction was acknowledged

storageVars == <<role, roleIndex, secret, accessor>>
historyVars == <<granted, logins, dead>>
vars == <<storageVars, call, ctxPath, guard, tidy, now, calls, keys, accessors, historyVars>>

-----------------------------------------------------------------------------
Key == 1 .. MaxKeys
Accessor == 1 .. MaxAccessors
Slot == Key \X SecretId

RoleEntry == [role_id : RoleId, hmac_key : Key, num_uses : Uses]
\* num_uses is an i64: see LoginUse.
SecretIdStorageEntry == [accessor : Accessor, num_uses : Int, expiration_time : Nat]

\* None is no entry of the storage and no name.
ASSUME NoneAssumption ==
    None \notin RoleEntry \cup SecretIdStorageEntry \cup Role \cup RoleId \cup SecretId \cup Slot
ASSUME TidyAssumption == "tidy" \notin Client

Mode == {"none", "read", "write"}
NoCall == [step |-> "idle", role |-> None, roleMode |-> "none",
           slot |-> None, slotMode |-> "none",
           entry |-> None, previous |-> None, create |-> FALSE,     \* set_role
           todo |-> {}, flushed |-> {},                             \* delete_role
           num_uses |-> 0, ttl |-> 0, storage |-> None,             \* secret ids
           secret |-> None]                                         \* login
NoTidy == [step |-> "idle", slot |-> None, slotMode |-> "none",
           listed |-> {}, skip |-> {}, keys |-> {}, todo |-> {}, slots |-> {}]

Init ==
    /\ role = [r \in Role |-> None]
    /\ roleIndex = [i \in RoleId |-> None]
    /\ secret = [s \in Slot |-> None]
    /\ accessor = [a \in Accessor |-> None]
    /\ call = [c \in Client |-> NoCall]
    /\ ctxPath = "other"
    /\ guard = 0
    /\ tidy = NoTidy
    /\ now = 0
    /\ calls = 0
    /\ keys = 0
    /\ accessors = 0
    /\ granted = [a \in Accessor |-> 0]
    /\ logins = [a \in Accessor |-> 0]
    /\ dead = {}

-----------------------------------------------------------------------------
(* Locks: many readers or one writer, per role and per slot *)

Compatible(mode, other) == other = "none" \/ (mode = "read" /\ other = "read")

RoleLock(c, r, mode) ==
    \A d \in Client \ {c} : call[d].role = r => Compatible(mode, call[d].roleMode)

SlotLock(c, s, mode) ==
    /\ \A d \in Client \ {c} : call[d].slot = s => Compatible(mode, call[d].slotMode)
    /\ c # "tidy" /\ tidy.slot = s => Compatible(mode, tidy.slotMode)

Idle(c) == call[c].step = "idle"
At(c, step) == call[c].step = step
Do(c, new) == call' = [call EXCEPT ![c] = new]
Goto(c, step) == call' = [call EXCEPT ![c].step = step]
Return(c) == call' = [call EXCEPT ![c] = NoCall]

-----------------------------------------------------------------------------
(* Roles *)

\* set_role refuses a role id that the index gives to another role.
Taken(i, r) == roleIndex[i] \notin {None, r}

\* set_role: the old index goes, the role is written, the new index follows.
\* previous is None when the caller passes no previous role id.
SetRole(c, r, entry, previous) ==
    /\ RoleLock(c, r, "write")
    /\ ~Taken(entry.role_id, r)
    /\ Do(c, [NoCall EXCEPT
                 !.step = IF previous \in {None, entry.role_id} THEN "put_role" ELSE "unindex",
                 !.role = r, !.roleMode = "write", !.entry = entry,
                 !.previous = previous, !.create = previous # entry.role_id])
    /\ UNCHANGED <<storageVars, tidy, now, accessors, historyVars>>

\* write_role and update_role_field "role_id".
WriteRole(c, r, i, n) ==
    /\ Idle(c)
    /\ LET new == role[r] = None
           key == IF new THEN keys + 1 ELSE role[r].hmac_key
       IN  /\ key <= MaxKeys
           /\ keys' = IF new THEN key ELSE keys
           /\ SetRole(c, r, [role_id |-> i, hmac_key |-> key, num_uses |-> n],
                      IF new THEN None ELSE role[r].role_id)

\* update_role_field and delete_role_field for any other field: no previous
\* role id is passed, so the index is written again.
UpdateRoleField(c, r, n) ==
    /\ Idle(c)
    /\ role[r] # None
    /\ SetRole(c, r, [role[r] EXCEPT !.num_uses = n], None)
    /\ UNCHANGED keys

\* Slip: the old index is left in place.
SetRoleKeepsIndex(c) ==
    /\ At(c, "unindex")
    /\ Goto(c, "put_role")
    /\ UNCHANGED <<storageVars, tidy, now, keys, accessors, historyVars>>

SetRoleUnindex(c) ==
    /\ At(c, "unindex")
    /\ roleIndex' = [roleIndex EXCEPT ![call[c].previous] = None]
    /\ Goto(c, "put_role")
    /\ UNCHANGED <<role, secret, accessor, tidy, now, keys, accessors, historyVars>>

SetRolePut(c) ==
    /\ At(c, "put_role")
    /\ role' = [role EXCEPT ![call[c].role] = call[c].entry]
    /\ IF call[c].create THEN Goto(c, "index") ELSE Return(c)
    /\ UNCHANGED <<roleIndex, secret, accessor, tidy, now, keys, accessors, historyVars>>

SetRoleIndex(c) ==
    /\ At(c, "index")
    /\ roleIndex' = [roleIndex EXCEPT ![call[c].entry.role_id] = call[c].role]
    /\ Return(c)
    /\ UNCHANGED <<role, secret, accessor, tidy, now, keys, accessors, historyVars>>

\* read_role: when the index is missing, the read lock is given up for a
\* write lock; the entry is the one read before.
ReadRole(c, r) ==
    /\ Idle(c)
    /\ RoleLock(c, r, "read")
    /\ role[r] # None
    /\ roleIndex[role[r].role_id] = None
    /\ Do(c, [NoCall EXCEPT !.step = "repair", !.role = r, !.entry = role[r]])
    /\ UNCHANGED <<storageVars, tidy, now, keys, accessors, historyVars>>

ReadRoleRepair(c) ==
    /\ At(c, "repair")
    /\ RoleLock(c, call[c].role, "write")
    /\ LET i == call[c].entry.role_id IN
          roleIndex' = [roleIndex EXCEPT ![i] = IF @ = None THEN call[c].role ELSE @]
    /\ Return(c)
    /\ UNCHANGED <<role, secret, accessor, tidy, now, keys, accessors, historyVars>>

\* delete_role: the secret ids that are stored now, then index and role.
DeleteRole(c, r) ==
    /\ Idle(c)
    /\ RoleLock(c, r, "write")
    /\ role[r] # None
    /\ Do(c, [NoCall EXCEPT !.step = "flush", !.role = r, !.roleMode = "write",
                 !.todo = {s \in Slot : s[1] = role[r].hmac_key /\ secret[s] # None}])
    /\ UNCHANGED <<storageVars, tidy, now, keys, accessors, historyVars>>

\* flush_role_secrets: the accessors stay.
FlushRoleSecrets(c) ==
    /\ At(c, "flush")
    /\ \/ /\ call[c].todo = {}
          /\ Goto(c, "delete_index")
          /\ UNCHANGED secret
       \/ \E s \in call[c].todo :
             /\ SlotLock(c, s, "write")
             /\ secret' = [secret EXCEPT ![s] = None]
             /\ Do(c, [call[c] EXCEPT !.todo = @ \ {s}, !.flushed =
                         @ \cup (IF secret[s] = None THEN {} ELSE {secret[s].accessor})])
    /\ UNCHANGED <<role, roleIndex, accessor, tidy, now, keys, accessors, historyVars>>

DeleteRoleIndex(c) ==
    /\ At(c, "delete_index")
    /\ roleIndex' = [roleIndex EXCEPT ![role[call[c].role].role_id] = None]
    /\ Goto(c, "delete_role")
    /\ UNCHANGED <<role, secret, accessor, tidy, now, keys, accessors, historyVars>>

DeleteRoleEntry(c) ==
    /\ At(c, "delete_role")
    /\ role' = [role EXCEPT ![call[c].role] = None]
    /\ dead' = dead \cup call[c].flushed
    /\ Return(c)
    /\ UNCHANGED <<roleIndex, secret, accessor, tidy, now, keys, accessors, granted, logins>>

-----------------------------------------------------------------------------
(* Secret ids *)

\* update_role_secret_id_common: a count above the role's is refused, and so
\* is no limit when the role has one.
CountAllowed(n, r) == role[r].num_uses > 0 => n \in 1 .. role[r].num_uses

WriteSecretId(c, r, i, n, ttl) ==
    /\ Idle(c)
    /\ accessors < MaxAccessors
    /\ RoleLock(c, r, "read")
    /\ role[r] # None
    /\ CountAllowed(n, r)
    /\ LET s == <<role[r].hmac_key, i>> IN
          /\ SlotLock(c, s, "read")
          /\ secret[s] = None
          /\ Do(c, [NoCall EXCEPT !.step = "register", !.role = r, !.roleMode = "read",
                       !.slot = s, !.num_uses = n, !.ttl = ttl])
    /\ UNCHANGED <<storageVars, tidy, now, keys, accessors, historyVars>>

\* Slip: without a TTL there is no expiration time.
RegisterAccessorUnset(c) ==
    /\ At(c, "register")
    /\ LET s == call[c].slot
           a == accessors + 1
       IN  /\ SlotLock(c, s, "write")
           /\ IF secret[s] # None \/ a > MaxAccessors
              THEN Return(c) /\ UNCHANGED <<accessor, accessors>>
              ELSE /\ accessor' = [accessor EXCEPT ![a] = s]
                   /\ accessors' = a
                   /\ Do(c, [call[c] EXCEPT !.step = "register_entry", !.slotMode = "write",
                               !.storage = [accessor |-> a, num_uses |-> call[c].num_uses,
                                            expiration_time |-> None]])
    /\ UNCHANGED <<role, roleIndex, secret, tidy, now, keys, historyVars>>

\* register_secret_id_entry under the write lock: the accessor first.  Without
\* a TTL expiration_time keeps its default, the current time.
RegisterAccessor(c) ==
    /\ At(c, "register")
    /\ LET s == call[c].slot
           a == accessors + 1
       IN  /\ SlotLock(c, s, "write")
           /\ IF secret[s] # None \/ a > MaxAccessors
              THEN Return(c) /\ UNCHANGED <<accessor, accessors>>
              ELSE /\ accessor' = [accessor EXCEPT ![a] = s]
                   /\ accessors' = a
                   /\ Do(c, [call[c] EXCEPT !.step = "register_entry", !.slotMode = "write",
                               !.storage = [accessor |-> a, num_uses |-> call[c].num_uses,
                                            expiration_time |-> now + call[c].ttl]])
    /\ UNCHANGED <<role, roleIndex, secret, tidy, now, keys, historyVars>>

RegisterEntry(c) ==
    /\ At(c, "register_entry")
    /\ secret' = [secret EXCEPT ![call[c].slot] = call[c].storage]
    /\ granted' = [granted EXCEPT ![call[c].storage.accessor] = call[c].storage.num_uses]
    /\ Return(c)
    /\ UNCHANGED <<role, roleIndex, accessor, tidy, now, keys, accessors, logins, dead>>

\* write_role_secret_id_lookup: an entry whose accessor is gone is deleted.
LookupSecretId(c, r, i) ==
    /\ Idle(c)
    /\ role[r] # None
    /\ RoleLock(c, r, "read")
    /\ LET s == <<role[r].hmac_key, i>> IN
          /\ SlotLock(c, s, "write")
          /\ secret[s] # None
          /\ accessor[secret[s].accessor] = None
          /\ secret' = [secret EXCEPT ![s] = None]
    /\ UNCHANGED <<role, roleIndex, accessor, call, tidy, now, keys, accessors, historyVars>>

\* The accessor a goes first, then the entry in slot s.
Destroy(c, r, mode, s, a) ==
    /\ RoleLock(c, r, mode)
    /\ SlotLock(c, s, "write")
    /\ secret[s] # None
    /\ accessor' = [accessor EXCEPT ![a] = None]
    /\ Do(c, [NoCall EXCEPT !.step = "destroy", !.role = r, !.roleMode = mode, !.slot = s,
                 !.slotMode = "write"])
    /\ UNCHANGED <<role, roleIndex, secret, tidy, now, keys, accessors, historyVars>>

\* delete_role_secret_id_destory.
DestroySecretId(c, r, i) ==
    /\ Idle(c)
    /\ role[r] # None
    /\ LET s == <<role[r].hmac_key, i>> IN
          secret[s] # None /\ Destroy(c, r, "read", s, secret[s].accessor)

\* delete_role_secret_id_accessor_destory: the accessor of another role leads
\* to no entry of this one.
DestroyAccessor(c, r, a) ==
    /\ Idle(c)
    /\ role[r] # None
    /\ accessor[a] # None
    /\ accessor[a][1] = role[r].hmac_key
    /\ Destroy(c, r, "write", accessor[a], a)

DestroyEntry(c) ==
    /\ At(c, "destroy")
    /\ LET s == call[c].slot IN
          /\ secret' = [secret EXCEPT ![s] = None]
          /\ dead' = dead \cup {secret[s].accessor}
    /\ Return(c)
    /\ UNCHANGED <<role, roleIndex, accessor, tidy, now, keys, accessors, granted, logins>>

-----------------------------------------------------------------------------
(* Login.  The source address is let through or refused. *)

\* The index is read without a lock.
Login(c, i, s) ==
    /\ Idle(c)
    /\ roleIndex[i] # None
    /\ Do(c, [NoCall EXCEPT !.step = "login_role", !.role = roleIndex[i], !.secret = s])
    /\ UNCHANGED <<storageVars, tidy, now, keys, accessors, historyVars>>

LoginRole(c) ==
    /\ At(c, "login_role")
    /\ LET r == call[c].role IN
          /\ RoleLock(c, r, "read")
          /\ IF role[r] = None THEN Return(c)
             ELSE Do(c, [NoCall EXCEPT !.step = "login_check",
                           !.slot = <<role[r].hmac_key, call[c].secret>>])
    /\ UNCHANGED <<storageVars, tidy, now, keys, accessors, historyVars>>

Accept(c, a) == Return(c) /\ logins' = [logins EXCEPT ![a] = @ + 1]

Refuse(c) == Return(c) /\ UNCHANGED logins

\* An entry whose accessor is gone is deleted, under the read lock.
LoginCheck(c) ==
    /\ At(c, "login_check")
    /\ LET s == call[c].slot
           e == secret[s]
       IN  /\ SlotLock(c, s, "read")
           /\ \/ e = None /\ Refuse(c)
              \/ /\ e # None /\ accessor[e.accessor] = None
                 /\ Do(c, [call[c] EXCEPT !.step = "login_drop", !.slotMode = "read"])
                 /\ UNCHANGED logins
              \/ /\ e # None /\ accessor[e.accessor] # None
                 /\ \/ /\ e.num_uses # 0
                       /\ Do(c, [call[c] EXCEPT !.step = "login_use", !.storage = e])
                       /\ UNCHANGED logins
                    \/ /\ e.num_uses = 0
                       /\ \/ logins[e.accessor] < MaxLogins /\ Accept(c, e.accessor)
                          \/ Refuse(c)
    /\ UNCHANGED <<storageVars, tidy, now, keys, accessors, granted, dead>>

LoginDrop(c) ==
    /\ At(c, "login_drop")
    /\ secret' = [secret EXCEPT ![call[c].slot] = None]
    /\ Return(c)
    /\ UNCHANGED <<role, roleIndex, accessor, tidy, now, keys, accessors, historyVars>>

\* What a login does to the entry e of slot s, which it has locked: the last
\* use takes the accessor and then the entry away, any other is counted.
Use(c, s, e) ==
    \/ /\ e.num_uses = 1
       /\ accessor' = [accessor EXCEPT ![e.accessor] = None]
       /\ Do(c, [call[c] EXCEPT !.step = "login_last", !.slotMode = "write", !.storage = e])
       /\ UNCHANGED <<secret, logins>>
    \/ /\ e.num_uses # 1
       /\ e.num_uses > -MaxLogins
       /\ secret' = [secret EXCEPT ![s] = [e EXCEPT !.num_uses = @ - 1]]
       /\ Accept(c, e.accessor) \/ Refuse(c)
       /\ UNCHANGED accessor

\* Slip: the entry that was read under the read lock is used.
LoginUseStale(c) ==
    /\ At(c, "login_use")
    /\ SlotLock(c, call[c].slot, "write")
    /\ Use(c, call[c].slot, call[c].storage)
    /\ UNCHANGED <<role, roleIndex, tidy, now, keys, accessors, granted, dead>>

\* The write lock, and the entry once more.  It may be another one by now, for
\* which 0 uses mean no limit: it is counted down all the same, below 0.
LoginUse(c) ==
    /\ At(c, "login_use")
    /\ LET s == call[c].slot IN
          /\ SlotLock(c, s, "write")
          /\ \/ /\ secret[s] = None
                /\ Refuse(c)
                /\ UNCHANGED <<secret, accessor>>
             \/ secret[s] # None /\ Use(c, s, secret[s])
    /\ UNCHANGED <<role, roleIndex, tidy, now, keys, accessors, granted, dead>>

LoginLast(c) ==
    /\ At(c, "login_last")
    /\ secret' = [secret EXCEPT ![call[c].slot] = None]
    /\ Accept(c, call[c].storage.accessor) \/ Refuse(c)
    /\ UNCHANGED <<role, roleIndex, accessor, tidy, now, keys, accessors, granted, dead>>

-----------------------------------------------------------------------------
(* The task of tidy_secret_id, one at a time *)

\* The end of the task, on every path: the guard is reset.
TidyReturn == tidy' = NoTidy /\ guard' = 0

\* handle_request has put the path into the context of the backend, which all
\* its requests share; the guard goes from 0 to 1.
TidyStart ==
    /\ ctxPath' = "tidy"
    /\ \/ /\ guard = 0
          /\ guard' = 1
          /\ tidy' = [tidy EXCEPT !.step = "spawn"]
       \/ guard = 1 /\ UNCHANGED <<guard, tidy>>
    /\ UNCHANGED <<storageVars, call, now, keys, accessors, historyVars>>

\* The handler takes the path back out of the context, and the task starts with
\* the accessors as they are now.  The path of another request has nothing to
\* start a task with: an error, and the guard stays.
TidySpawn ==
    /\ tidy.step = "spawn"
    /\ tidy' = IF ctxPath = "tidy"
               THEN [tidy EXCEPT !.step = "keys", !.skip = {},
                                 !.listed = {a \in Accessor : accessor[a] # None}]
               ELSE NoTidy
    /\ UNCHANGED <<storageVars, call, guard, now, keys, accessors, historyVars>>

\* The roles that have secret ids.
TidyKeys ==
    /\ tidy.step = "keys"
    /\ LET found == {s[1] : s \in {t \in Slot : secret[t] # None}} IN
          tidy' = [tidy EXCEPT !.step = "slots", !.keys = found, !.todo = found, !.slots = {}]
    /\ UNCHANGED <<storageVars, call, guard, now, keys, accessors, historyVars>>

\* The secret ids of the next role.
TidySlots ==
    /\ tidy.step = "slots"
    /\ tidy.slots = {}
    /\ \E k \in tidy.todo :
          tidy' = [tidy EXCEPT !.todo = @ \ {k},
                      !.slots = {s \in Slot : s[1] = k /\ secret[s] # None}]
    /\ UNCHANGED <<storageVars, call, guard, now, keys, accessors, historyVars>>

\* secret_id_cleanup_func: an entry that is gone ends the task; one without
\* accessor is deleted, one that has expired loses its accessor first.
TidyClean ==
    /\ tidy.step = "slots"
    /\ \E s \in tidy.slots :
          LET e == secret[s]
              rest == [tidy EXCEPT !.slots = @ \ {s}]
          IN  /\ SlotLock("tidy", s, "write")
              /\ \/ /\ e = None
                    /\ TidyReturn
                    /\ UNCHANGED <<secret, accessor>>
                 \/ /\ e # None /\ accessor[e.accessor] = None
                    /\ secret' = [secret EXCEPT ![s] = None]
                    /\ tidy' = rest
                    /\ UNCHANGED <<accessor, guard>>
                 \/ /\ e # None /\ accessor[e.accessor] # None
                    /\ IF now > e.expiration_time
                       THEN /\ accessor' = [accessor EXCEPT ![e.accessor] = None]
                            /\ tidy' = [rest EXCEPT !.step = "expired", !.slot = s,
                                                    !.slotMode = "write"]
                       ELSE /\ tidy' = [rest EXCEPT !.skip = @ \cup {e.accessor}]
                            /\ UNCHANGED accessor
                    /\ UNCHANGED <<secret, guard>>
    /\ UNCHANGED <<role, roleIndex, call, now, keys, accessors, historyVars>>

TidyExpired ==
    /\ tidy.step = "expired"
    /\ secret' = [secret EXCEPT ![tidy.slot] = None]
    /\ tidy' = [tidy EXCEPT !.step = "slots", !.slot = None, !.slotMode = "none"]
    /\ UNCHANGED <<role, roleIndex, accessor, call, guard, now, keys, accessors, historyVars>>

\* More accessors were listed than are in use: the secret ids once more, of
\* the roles that were listed before.
TidyRelist ==
    /\ tidy.step = "slots"
    /\ tidy.slots = {} /\ tidy.todo = {}
    /\ IF Cardinality(tidy.listed) > Cardinality(tidy.skip)
       THEN /\ tidy' = [tidy EXCEPT !.step = "accessors",
                           !.slots = {s \in Slot : s[1] \in tidy.keys /\ secret[s] # None}]
            /\ UNCHANGED guard
       ELSE TidyReturn
    /\ UNCHANGED <<storageVars, call, now, keys, accessors, historyVars>>

\* Each listed accessor that is neither in use nor leads to a listed secret
\* id is deleted.
TidyAccessor ==
    /\ tidy.step = "accessors"
    /\ \/ tidy.listed = {} /\ TidyReturn /\ UNCHANGED accessor
       \/ \E a \in tidy.listed :
             /\ tidy' = [tidy EXCEPT !.listed = @ \ {a}] /\ UNCHANGED guard
             /\ \/ /\ accessor[a] # None
                   /\ SlotLock("tidy", accessor[a], "write")
                   /\ a \notin tidy.skip /\ accessor[a] \notin tidy.slots
                   /\ accessor' = [accessor EXCEPT ![a] = None]
                \/ /\ accessor[a] = None \/ a \in tidy.skip \/ accessor[a] \in tidy.slots
                   /\ UNCHANGED accessor
    /\ UNCHANGED <<role, roleIndex, secret, call, now, keys, accessors, historyVars>>

\* Slip: an error leaves the guard set.
TidyFailsLocked ==
    /\ StorageFaults
    /\ tidy.step \notin {"idle", "spawn"}
    /\ tidy' = NoTidy
    /\ UNCHANGED <<storageVars, call, guard, now, keys, accessors, historyVars>>

\* An error of the storage ends the task, and the guard is reset.
TidyFails ==
    /\ StorageFaults
    /\ tidy.step \notin {"idle", "spawn"}
    /\ TidyReturn
    /\ UNCHANGED <<storageVars, call, now, keys, accessors, historyVars>>

-----------------------------------------------------------------------------
(* Faults and time *)

Fails(c) ==
    /\ StorageFaults
    /\ ~Idle(c)
    /\ Return(c)
    /\ UNCHANGED <<storageVars, tidy, now, keys, accessors, historyVars>>

Tick ==
    /\ now < MaxTime
    /\ now' = now + 1
    /\ UNCHANGED <<storageVars, call, guard, tidy, keys, accessors, historyVars>>

Crash ==
    /\ Crashes
    /\ call' = [c \in Client |-> NoCall]
    /\ TidyReturn
    /\ UNCHANGED <<storageVars, now, keys, accessors, historyVars>>

-----------------------------------------------------------------------------
RoleCall(c) ==
    \E r \in Role :
        \/ \E i \in RoleId, n \in Uses : WriteRole(c, r, i, n)
        \/ \E n \in Uses : UpdateRoleField(c, r, n)
        \/ ReadRole(c, r)
        \/ DeleteRole(c, r)

SecretIdCall(c) ==
    \/ \E r \in Role, i \in SecretId :
          \/ \E n \in Uses, ttl \in Ttls : WriteSecretId(c, r, i, n, ttl)
          \/ LookupSecretId(c, r, i)
          \/ DestroySecretId(c, r, i)
    \/ \E r \in Role, a \in Accessor : DestroyAccessor(c, r, a)
    \/ \E i \in RoleId, s \in SecretId : Login(c, i, s)

CallStep(c) ==
    \/ SetRoleUnindex(c) \/ SetRolePut(c) \/ SetRoleIndex(c) \/ ReadRoleRepair(c)
    \/ FlushRoleSecrets(c) \/ DeleteRoleIndex(c) \/ DeleteRoleEntry(c)
    \/ RegisterAccessor(c) \/ RegisterEntry(c) \/ DestroyEntry(c)
    \/ LoginRole(c) \/ LoginCheck(c) \/ LoginDrop(c) \/ LoginUse(c) \/ LoginLast(c)

TidyStep ==
    \/ TidySpawn \/ TidyKeys \/ TidySlots \/ TidyClean \/ TidyExpired
    \/ TidyRelist \/ TidyAccessor

\* handle_request of the backend: every request leaves its path in the context.
Request ==
    /\ calls < MaxCalls
    /\ calls' = calls + 1
    /\ \/ /\ \/ \E c \in Admin : RoleCall(c)
             \/ \E c \in Client : SecretIdCall(c)
          /\ ctxPath' = "other"
          /\ UNCHANGED guard
       \/ TidyStart

Work(c) == (CallStep(c) \/ Fails(c)) /\ UNCHANGED guard
TaskStep == TidyStep \/ TidyFails

Next ==
    \/ Request
    \/ /\ (\E c \in Client : Work(c)) \/ TaskStep \/ Tick \/ Crash
       /\ UNCHANGED <<ctxPath, calls>>

\* Threads that can go on do.
Fairness ==
    /\ WF_vars(TidyStep /\ UNCHANGED <<ctxPath, calls>>)
    /\ \A c \in Client : WF_vars(CallStep(c) /\ UNCHANGED <<guard, ctxPath, calls>>)

Spec == Init /\ [][Next]_vars
FairSpec == Spec /\ Fairness

-----------------------------------------------------------------------------
(* Properties *)

CallRecord ==
    [step : {"idle", "unindex", "put_role", "index", "repair", "flush", "delete_index",
             "delete_role", "register", "register_entry", "destroy", "login_role",
             "login_check", "login_drop", "login_use", "login_last"},
     role : Role \cup {None}, roleMode : Mode, slot : Slot \cup {None}, slotMode : Mode,
     entry : RoleEntry \cup {None}, previous : RoleId \cup {None}, create : BOOLEAN,
     todo : SUBSET Slot, flushed : SUBSET Accessor, num_uses : Nat, ttl : Nat,
     storage : SecretIdStorageEntry \cup {None}, secret : SecretId \cup {None}]
TidyRecord ==
    [step : {"idle", "spawn", "keys", "slots", "expired", "accessors"},
     slot : Slot \cup {None}, slotMode : Mode, listed : SUBSET Accessor,
     skip : SUBSET Accessor, keys : SUBSET Key, todo : SUBSET Key, slots : SUBSET Slot]

\* The types of the variables.
TypeOK ==
    /\ role \in [Role -> RoleEntry \cup {None}]
    /\ roleIndex \in [RoleId -> Role \cup {None}]
    /\ secret \in [Slot -> SecretIdStorageEntry \cup {None}]
    /\ accessor \in [Accessor -> Slot \cup {None}]
    /\ call \in [Client -> CallRecord]
    /\ tidy \in TidyRecord
    /\ guard \in {0, 1}
    /\ now \in 0 .. MaxTime
    /\ calls \in 0 .. MaxCalls
    /\ keys \in 0 .. MaxKeys
    /\ accessors \in 0 .. MaxAccessors
    /\ granted \in [Accessor -> Nat]
    /\ logins \in [Accessor -> Nat]
    /\ dead \subseteq Accessor

\* login: a secret id is never used with success more often than it was
\* granted, with logins at once, errors and crashes between any two writes.
UsesRespected == \A a \in Accessor : granted[a] > 0 => logins[a] <= granted[a]

\* Once the destruction of a secret id was acknowledged, by secret id, by
\* accessor or with its role, it is not stored again: no login that read the
\* entry before writes it back, and the repair and the tidy task do not either.
DestroyedStaysOut ==
    \A s \in Slot : secret[s] # None => secret[s].accessor \notin dead

\* set_role and delete_role order their writes so that, wherever they are cut,
\* the index leads to a role that has this role id: an old role id never logs
\* in.  (With one thread for the requests on roles: with two, the repair in
\* read_role may write the index of an entry that has changed since.)
IndexFitsRole ==
    \A i \in RoleId : roleIndex[i] # None =>
        role[roleIndex[i]] # None /\ role[roleIndex[i]].role_id = i

\* tidy_secret_id_routine: whatever the task meets, it ends and the guard goes
\* back to 0, so that tidying can be started again.
TidyEnds == (tidy.step \notin {"idle", "spawn"}) ~> (guard = 0)

-----------------------------------------------------------------------------
(* What the texts of the repository say *)

\* path_tidy_secret_id.rs: "at worst this may mean that we fail to clean up
\* something we ought to."  Tidying takes the accessor, and with it the
\* validity, from no secret id that is registered and has not expired.
TidyKeepsLive ==
    [][tidy.step = "accessors" /\ tidy' # tidy =>
          \A s \in Slot :
             secret[s] # None /\ now <= secret[s].expiration_time =>
                 accessor'[secret[s].accessor] = accessor[secret[s].accessor]]_vars
=============================================================================
