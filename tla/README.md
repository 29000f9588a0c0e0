# RustyVault in TLA+

RustyVault is a secret manager in Rust: an HTTP server whose secrets lie
encrypted in a storage backend, which opens only after enough key shares were
entered, and which routes every request to a mounted backend after checking a
token. This project models the server behind its socket, model-checks it on small
instances and proves the life cycle of the vault, its tables, tokens, leases and
several backends for every value of their constants.

Paths below are relative to `src/src/`.

## The system

| component | source | state | operations | module |
|---|---|---|---|---|
| life cycle | `core.rs` | `sealed`, `unseal_key_shares`, `core/seal-config` | init, unseal, seal, post_unseal, pre_seal, handle_request | CoreSeal, Front |
| barrier | `storage/barrier_aes_gcm.rs` | sealed flag, key, `barrier/init` | init, unseal, seal, get, put | CoreSeal |
| Shamir | `shamir.rs` | none | split, recover_secret | Shamir; CoreSeal (counts and quorums) |
| module manager | `module_manager.rs` | modules, handlers | setup, init, cleanup | CoreSeal |
| mount table | `mount.rs` | `core/mounts`, table of shared entries | mount, unmount, remount, load, persist | Mounts |
| router | `router.rs` | trie of routes, taint, login and root paths | mount, unmount, remount, taint, match | Mounts, Routes, Front |
| auth methods | `modules/auth/mod.rs` | `core/auth`, routes below `auth/` | enable, disable, remount, load, setup | AuthMounts |
| token store | `modules/auth/token_store.rs` | tokens, links parent-child | check, create, renew, revoke, post_route | Tokens, Leases, Front |
| expiration manager | `modules/auth/expiration.rs`, `logical/lease.rs` | leases, index by token, queue, one thread per unseal | register, renew, restore, revoke, expire, calculate_ttl | Tokens, Leases |
| policy store | `modules/policy/policy_store.rs` | policies, cache, types | set, get, delete, load at unseal | PolicyStore |
| ACL | `modules/policy/acl.rs`, `policy.rs` | the rules of one token | new, merge, allow_operation | Acl |
| AppRole | `modules/credential/approle/` | roles, index of role ids, secret ids, accessors, tidy guard | login, role and secret-id requests, tidy | AppRole, Accounts |
| userpass | `modules/credential/userpass/` | users | write, password, delete, login, renew | Accounts |
| cert | `modules/credential/cert/` | entries, revocation lists stored and, for all mounts in one map, in memory | write, delete, config, login, renew | Crls, CertAuth, Accounts |
| pki | `modules/pki/`, `utils/cert.rs`, `utils/key.rs` | roles, CA bundle, certificates, keys | roles, root, issue, fetch, keys | Pki, Keys |
| crypto | `modules/crypto/` | a cipher object | encrypt, decrypt, streams, tags | Ciphers |
| logical framework | `logical/` | the request | match_path, get_data, clear_secret_field | Routes, RouteTables |
| HTTP | `http/` | none of its own | path, operation, token, status | Front |
| storage | `storage/physical/file.rs`, `storage/mysql/`, `storage/barrier_view.rs` | files or rows | get, put, delete, list, get_keys, clear | Storage |
| CLI, API client, metrics | `cli/`, `api/`, `metrics/` | none of their own | | not modelled |

How they interact. A request takes a read lock on the core, is refused while
`Core::sealed` is set, passes the handlers (the token store checks the token,
the policy store the policies), is routed by the longest matching prefix, and
passes the handlers' `post_route`, where tokens and leases are made. `init`,
`unseal` and `seal` take the write lock, so requests overlap each other but not
a change of the seal. The thread of the lease checker takes neither lock: it is
the one actor that runs during a seal, and it works on the same storage. The
tidy task of AppRole runs beside requests too. Backends share nothing but the
storage below their own prefix, so each is modelled alone; what they share with
the core (routes, tokens, leases, storage) has a module of its own.

What is hard. Every operation is several writes without a transaction, so an
error or a crash between two of them is a state the next call, or the next
unseal, starts from. Requests overlap between lock sections. The checker runs
beside them, survives a seal and meets a renewal of the lease it is about to
revoke. Caches (policies, revocation lists) are filled and emptied apart from
storage. Locks are taken while others are held, or given up and taken again. The
list with lines is
"hazards" in `PROJECT.json`.

What makes each part correct:

- life cycle: requests are served only with everything in place behind them; a
  sealed barrier has no key; only a quorum of the shares handed out opens it;
  a failed unseal does not spoil the next one;
- tables and router: protected mounts stay; two paths never lead to one view;
  an acknowledged mount survives a crash, an acknowledged unmount is final;
- tokens and leases: a revocation reaches the whole tree; every lease is known
  to the checker; a token lives as long as its owner was told, and no longer;
- requests: one handler serves a path and operation, it runs for those who may
  call it, and it sees what the client sent;
- policies: an operation is allowed when a rule grants it and none denies it,
  whatever the order of the rules; what is in force is what is stored;
- logins: a secret id serves as often as it was granted and not after it was
  destroyed; a certificate logs in when an entry trusts it; an account keeps its
  settings coherent;
- pki and crypto: what was issued stands and is found; what was signed or
  encrypted verifies and decrypts, under the same name and data only;
- storage: a view gives back what was put and finds every key.

## The modules

**SealContract** is the abstract specification: what the seal promises to its
operators. A vault is set up once, hands out its shares once, and serves only
between an opening with a quorum of those shares and the next closing.

**CoreSeal** is the life cycle as the code runs it. The write lock makes init,
unseal and seal exclude each other, so one program counter `pc` is enough; a
call is cut where it writes storage or may return early, and a fault
(`StorageFaults`) or a crash (`Crashes`) may come at each cut. A share is its
x coordinate; counts are computed modulo `ByteRange`, the 256 of the code, as a
release build does. A key is one of four kinds: none, the master key, wrong
bytes, the data key. `PostSetup`, `PostMounts`, `PostAuth`, `PostPolicy` are the
steps of `post_unseal`; each may fail part-way. The barrier's own read of `barrier/init`, in
unseal and inside init, may fail before it holds a key. The panic of `cleanup` on a
token store that was never made (`SealPanics`) poisons the lock, and every later
call is refused.

**Mounts** has one call per client and cuts it where the code gives up the lock
of the table, of an entry or of the trie, and between serialising the table and
writing it. `table` is keyed as the code's map is, `entryPath` is the path
inside the entry, which a remount changes without changing the key. A path is a
sequence of names, so that one can lie below another. An unseal rebuilds table
and router from `stored`. `UnsealFails` covers what `setup_mounts` refuses: two
entries with one path always, nested paths in one of the orders in which the
code walks a hash map.

**AuthMounts** extends Mounts with what `modules/auth/mod.rs` does differently:
the check of a new path against every entry, the removal by key, the loading
that takes any error for a missing table, the set-up that taints without the
`auth/` prefix. The trie is the one the core mounts are in: `core` has the core
mounts at paths a method may have, which come and go (`CoreCall`), and `coreTaint`
those that `setup_auth` tainted; `taken` records every path a method ever had.

**Tokens** gives each thread an agenda, the operations of the code it still has
to do, each with at most one effect on storage or on the queue. Threads are the
clients and one checker for every unseal. The checker of an earlier unseal stays:
nothing stops its thread, and the manager it holds keeps the old router and token
store alive. `tree` expands into the trees of the children that are linked at
that moment and then the token; `expire`, `tree`, `revoke`, `secrets` follow
`revoke_lease_id`, `revoke_tree_salted`, `revoke_salted`, `revoke_by_token`. The
lock of a queue is `looping`: a thread that registers a lease waits for it. An
error drops the agenda, and for a checker also the lock, with the lease still in
the queue. Policies are reduced to root or not, a TTL to one value per kind.

**AppRole** has the roles, the index from role ids to roles, the secret ids and
their accessors. A call is cut between two writes to storage and where it changes
locks; the locks it holds on its role (`RoleLock`) and on a secret id
(`SlotLock`) are in its record in `calls`, and `Compatible` says who may go on.
A secret id lies under a slot, the HMAC key of its role together with the secret
id: a role that is deleted and created again has a new key, so old secret ids are
never found. The tidy task (`tidy`) is one more thread: it lists accessors, then
slots, cleans them one by one under their locks, lists again and deletes
accessors.

**RouteTables** holds the routes of the backends: patterns, fields with types and
defaults, operations and handlers, login and root paths, one definition for each
function of the code that registers them. **Routes** is what
`LogicalBackend::handle_request` does with them: first match, captures, typed
reads of fields (`ReadField` stands for whichever fields the handler reads),
clearing of secret fields. A value is abstracted to its kind: its JSON type and
what its text parses as. A field's type check and the conversion of the handler
that reads it are two things: `converts_int` has the conversion of each Int
field, many of which take serde's `as_u64` or `as_i64` and so no number in a text;
`write_config` of cert unwraps it (`panics`).

**Front** composes Routes with the router and the phases of `core.rs`: a request
enters through the sys service or the logical service, is authenticated
(`Authenticated`, `post_auth`), routed and answered, while `ReplaceMount` changes
what is mounted and `SealOrUnseal` takes the write lock between requests.

**Acl** adds rules one by one in any order (`AddRule`) and evaluates requests on the
result. A path is a sequence of segments, a segment a sequence of letters; a bitmap
is a set. A token without policies passes (`post_auth_ok`), as in the code.
**PolicyStore** has one step per access to the view, the cache or the type map,
since no lock spans them.

**Accounts** is one account of one of the three login methods, with the two names
of each setting (`token` and `plain`), whole writes, writes and deletes of single
fields, logins and renewals. **Crls** has the requests for revocation lists, of
several clients to several mounts of the cert method: each is cut at every access
to storage and to the map that all mounts share, each access may fail, and the
process may stop anywhere; `cuse` records which mount used the map, and whether
requests ever overlapped. **CertAuth** extends it with the decision on a certificate: a
certificate is the record of what the code reads, a glob is the set of names it
matches. Chains are OpenSSL's; `Signers` is what a chain may consist of.

**Pki** has two clients and one step for each read or write of storage; a
certificate is the record of what later code compares, a key pair a number. **Keys**
has the named keys and several clients: the check of a name and the write of the key
are two steps, and a check that fails passes for a free name. `kdoubt` records the
names to which that, or a second write on its way, happened. **Ciphers** has an
object that encrypts and one that decrypts what it is handed, whole or changed; a
tag is what it covers.

**Storage** puts the view on either backend. Segments are sequences of characters
because the file backend tells entries from directories by a leading underscore,
and drops empty and "." segments (`PathNames`), so that "a", "a/" and "./a" are one
file. What the barrier stores is bound to the key it was stored under (`Sealed`,
`barrier_get`: the key is the additional data of the cipher), so a get of another
spelling is an error and never the other key's value. `srespelt` records the keys
whose file another spelling has touched.
**Shamir** computes in GF(256) with the tables of the code. **Leases** is the
arithmetic of lifetimes, with durations of a few seconds and a clock: a token, a
login or a secret with the terms of its last grant. `login_renew` sets period, ttl
and maximum from the account as it is then (`RenewalTerms`), and the answer to a
renewal makes one more token whose lease starts anew.

**MCBackends** puts the parts that share no state side by side: the first state
picks the one that moves. **MCCore** does the same for CoreSeal, Ciphers, Storage and
Shamir, **MCTables** for the two tables.

History variables (`delivered`, `quorum`, `acked`, `gone`, `held`, `revoked`,
`granted`, `logins`, `dead`, `sknown`, `srespelt`, `added`, `taken`, `cuse`,
`kresults`, `kdoubt`, ...) record what callers were told; no guard of an operation
of the code reads them, except to choose inputs a client can send.

Each slip (`RecoverUnchecked`, `merge_plain`, `ClearCrls_kept`, ...) is the code
with one plausible mistake and stands before the definition it imitates. No
specification uses them; each one makes a property fail when it takes the place
of the definition after it, which shows that the property depends on that line.

## The runs

Each is `tlc -config X.cfg M`.

| run | instance | shows |
|---|---|---|
| `Core.cfg` | u8 of 6 values, one forged key, faults, crashes; Ciphers, Storage and Shamir in turn | the invariants of CoreSeal, that it implements SealContract, CipherHonest, StoreFaithful, SharesHonest |
| `CoreSealInit.cfg` | no fault, no crash | violation: a legal init whose shares open nothing |
| `Mounts.cfg` | one client, four uuids, faults, crashes | RoutesSound, AckedStored, GoneStaysGone |
| `TablesConcurrent.cfg` | two clients, nested paths, either table, core mounts beside the methods | MethodRoutesSound: RoutesSound for overlapping calls, and the core mounts spared |
| `Tokens.cfg` | one client (requests do not overlap), two checkers, faults, crashes | ParentLinked, RevokedTreeGone, LeaseScheduled, CheckerOnTime |
| `TokensSecrets.cfg` | one client, a leased secret, fair | ExpiredTokensGo |
| `TokensChecker.cfg` | a leased secret, fair | violation: the checker waits for its own lock |
| `AppRole.cfg` | two threads and the tidy task, faults, crashes, fair | UsesRespected, DestroyedStaysOut, IndexFitsRole, TidyEnds |
| `AppRoleTidy.cfg` | one thread and the tidy task, no fault | violation: tidy takes the accessor of a live secret id |
| `PolicyRace.cfg` | two clients on one policy | violation: a deleted policy stays in force |
| `CrlRestart.cfg` | one restart | violation: a revoked certificate logs in |
| `Backends.cfg` | the other parts, each in turn | the thirteen invariants and the action property of Routes to Leases |

The violations are disagreements between the code and a text of the repository,
quoted under "findings" in `PROJECT.json`. The models reach more that reads like
a mistake, without a text that a run could hold it against or as a consequence of
the same line: a seal request keeps the shares collected so far; an auth method
that was moved keeps its old key, so it cannot be disabled for good and enabling
at the old path drops it; the token that `auth/token/create` returns is not the
child that is linked to its creator; a checker of an earlier unseal ends a token
that was renewed since; an error between tidy's guard and its task leaves the
guard set; two blocks for one path in one policy keep the first one's
capabilities; a tainted method taints the core mount that has its name, so that a
method moved to `auth/sys` and left tainted cuts off `sys/` at the next unseal
(`auth/mod.rs:295`), or else fails the unseal; a text with a number passes the check of
`ocsp_cache_size` and panics in its handler (`cert/path_config.rs:109`);
`token_explicit_max_ttl` and `token_period` of an account never reach a login
(`token_util.rs:198-204`), though `token_util.rs:90` promises the first, and the
period comes in with the first renewal, after which the maximum no longer holds; every
renewal returns one more token with a fresh start; a leaf for servers only logs in
under an authority's entry and its serial is looked up in no list
(`cert/path_login.rs:355-358`), though `cert/mod.rs:1-3` speaks of client
certificates; requests for lists that overlap, or that go to two mounts, leave a part
of the lists in memory; a key is overwritten after a failed look-up of its name; keys
that differ in empty or "." segments overwrite each other's file.

What the properties say:

- *UnsealedMeansReady*: `handle_request` looks at one flag; whenever it says
  unsealed, barrier, mounts, token store and handlers are all there.
- *SealedHoldsNoDataKey*, *OpenedByQuorum*: through every error path of init and
  unseal.
- *SharesFitConfig*: the shares in the operators' hands fit the stored
  configuration, whatever inits were refused, failed or crashed.
- *RegistrationsClean*: `post_unseal` never meets what an earlier one left.
- *RoutesSound* (protected mounts stay, no two paths to one mount): for
  overlapping calls too. *MethodRoutesSound* adds, for the auth methods, that the
  bare taint at unseal meets no core mount but one whose path a method once had.
  *AckedStored* and *GoneStaysGone* are claimed for calls that do not overlap
  (`alone`) and for mounts no remount touched: the code breaks them otherwise, see
  the hazards.
- *ParentLinked*: a stored child is linked however a call was cut. *RevokedTreeGone*:
  as long as no two requests overlap (`OneRequest`, a hypothesis of the formula), an
  acknowledged revocation is complete and final, whatever the checkers do, and
  however calls fail and crash. With two requests at once it is false: the one may
  write back a token, or write a child, that the other has revoked.
- *LeaseScheduled*: the newest checker knows every stored lease and will handle it
  no later than it ends. It is checked with faults but without secrets: an error
  between the lease of a secret and its index leaves a lease that only the next
  unseal finds.
- *CheckerOnTime*: the newest checker ends no token before the time its owner was
  told. For older checkers this is false.
- *ExpiredTokensGo*: a token whose lease ended goes away, unless the vault is
  sealed or the checker blocks itself (`TokensChecker.cfg`).
- *UsesRespected*, *DestroyedStaysOut*: logins, destructions and the tidy task
  against each other, at the switch from the read to the write lock.
  *IndexFitsRole*: wherever set_role and delete_role are cut; for one thread that
  writes roles, since the repair in read_role goes on, after a switch of locks,
  with the entry it read before.
  *TidyEnds*: a task that was spawned gives the guard back.
- *RouteUnambiguous*, *UnauthIsPublic*: over the routes of all backends at once.
  *FieldsFit*: a captured name is never replaced by the body, and a value that passes
  its type check fails in the handler only if it is a negative number or a number in
  a text: the two differ for every Int field that is read with `as_u64` or `as_i64`.
  *FrontSound*: the same from the socket; its exception is the mount that is replaced
  between check and routing.
- *AclOrderFree*, *AllowedIsGranted*: the ACL is a function of the set of rules,
  and nothing is allowed but where a rule for the deciding path has the capability of
  the operation (for a write, update or create) and none denies.
- *CacheFollowsStore*: for requests one at a time, with errors; for overlapping
  ones it is false (`PolicyRace.cfg`).
- *AccountsCoherent*: the two names of a setting agree in storage.
  *GrantsFollowAccount*: a login or a renewal leaves a client with the policies its
  account gives at that time, under whichever name they were rewritten.
- *CrlCacheWhole*: while the requests for lists since the start came one at a time and
  to one mount, the lists in memory are all of that mount's or none, after every error
  and stop. *LoginGrounded*: an accepted certificate has not expired, meets every
  list of names and every extension of the very entry it is accepted for, is trusted
  by that entry, and no serial that the acceptance rests on is on a list in memory.
- *IssuedStands*: with two clients that replace the CA, issue and fetch: a
  certificate that was returned is found, signed by the CA returned with it, and
  within its time; it is found as long as a CA is configured, which the fetch asks
  for. *KeyResultsStand*: with two clients, except for names to which a failed
  look-up or two writes at once happened (`kdoubt`).
- *CipherHonest*: what an AEAD object opens was sealed with the same additional
  data. *SharesHonest*: any threshold recovers the secret, fewer leave every byte
  possible.
- *StoreFaithful*: a get never gives another value than the last one put under this
  very key, and a walk finds every key. The exceptions are in the formula: a put that
  was cut, a key whose other spelling was used since, directories with a leading
  underscore, and keys that `list` hides ("." in files, a row that repeats its prefix).
- *LeaseBounded*: however often and late a lease is renewed and however its account
  changes, it keeps to the terms of its last grant: without a period it ends within
  all maxima counted from its start, with one within that period of the renewal.

### Bounds

`ByteRange = 6` gives counts 0 to 5: thresholds 0, 1, 2 and more, equal to and below
the number of shares, and the wrap at the largest count. `MaxMounts = 4` is the
default mount and three more: one to keep, one to remove, one to mount again at a
path that was used; with two clients three, and two auth methods (`MaxMethods`), are
enough for every pair of calls to overlap. The paths are a protected one, `a` and
`a/b` below it. `MaxTokens = 3` is root, a child and the token `post_route` adds, or
two logins; every id is new, so a bound on their number is what makes the model
finite. `Ttl = 1` and `MaxTime = 2` let a token expire, or be renewed and expire; a
`SecretTtl` of 2 lets a secret outlive its token. `MaxManagers = 2` is one checker
that is current and one that is old. The Tokens runs allow a stop (`CHECK_DEADLOCK
FALSE`): when the last unseal is used up and time is over nothing need happen.
Tokens has one client in its runs: clients interleave with the checkers, and two
clients on one token are a hazard without a run (the use count).

AppRole: one role, since roles share nothing but the index, two role ids (one to
change to), one secret id that may be registered twice (`MaxAccessors`), a role
that may be created twice (`MaxKeys`), two uses, so that a count goes 2, 1, gone
under two logins at once, and five requests (`MaxCalls`): enough for register,
two logins, a destruction and a tidy run to overlap. One thread sends everything,
the other logins and secret ids.

Backends: Routes tries names that look like the fixed words of the patterns
("password", "crl", "secret-id"), where patterns overlap. Acl has six rule paths
that overlap at every level of precedence, and up to three rules out of four
kinds. Accounts has each half of a pair of names missing, set, and set to the
value that stands for "unset". CertAuth has two entries, two lists and
certificates that differ in each thing the decision reads. Crls has two clients and
two mounts; once requests were mixed only a restart follows (`ListsFirst`), since
nothing is claimed before it. Pki has two clients, two serials and bundles that are
complete, mismatched, or no CA; its role is made before the CA (`RolesFirst`), since a
call keeps the role its first step read. Keys has two clients and two keys
(`MaxKeyIds`). The two clients are the same in the three parts, and are permuted
(`MCSymmetry`). Leases has durations
below, at and above the maximum, a huge one for a negative ttl, and a clock that
outlives two renewals. The parts of Backends stop when an answer is given or a
bound is met, hence `CHECK_DEADLOCK FALSE`.

Under the core, Ciphers has two chunks, two texts (`MaxKept`) and one opened text
(`MaxOpened`). Storage has a key, keys below it, other spellings of it, and one that
looks like another one's file, with at most two of them stored at once
(`FewStored`). Shamir has 3 and 254 shares, both sides of where the field's exponents
wrap. These three stop at their bounds and may then stutter; for the seal deadlock is
checked.

### Fairness

Tokens and AppRole have liveness, under their `FairSpec`. Tokens: weak fairness
of each checker's steps (a thread woken every 200 ms, `expiration.rs:438`), of
the steps of a request that was started (its thread runs), and of the clock.
AppRole: weak fairness of the tidy task and of the requests that were started;
the locks are held for a few steps only, so weak fairness is enough. New
requests, seal, unseal, crashes and faults are not fair. Weak fairness does not
help a thread that waits for a lock it holds.

## The proofs

The theorems hold for every value of the constants: any number of clients, paths,
tokens, names or lists, any bound, with or without errors and crashes. Their
assumptions are the named `ASSUME`s of the modules, which TLC evaluates in the
runs. Each safety theorem goes through an inductive invariant with one lemma per
action; the invariants below were checked by TLC on the instances of the runs
before they were proved.

**CoreSealProofs.** `TypeCorrect`, `ReadyWhenUnsealed`, `NoDataKeyWhenSealed`,
`QuorumNeeded`, `CleanStart`, `SharesAlwaysFit`, and `Refinement`, that the life
cycle implements SealContract; for every `ByteRange` above 1 and every set of
forged keys. None of the invariants is inductive alone. That an open vault is
ready needs to know what is registered at each step of `post_unseal`
(`RegistrationInv`), and that a sealed vault someone can open has nothing
registered. That a quorum opened it needs the origin of the collected shares
(`DeliveryInv`) and which storage entries exist at which step (`ControlInv`,
`BarrierInv`). `IInv` is their conjunction; `SharesAlwaysFit` adds the size of what
split returns (`EnoughShares`); the refinement maps every action to a step of the
contract or a stutter (`StepContract`).

**MountsProofs.** `MountsTyped`, `MountsRoutesSound` and, for the auth methods,
`AuthRoutesSound`: any number of clients, any finite set of paths, calls that
overlap. For the methods the theorem is MethodRoutesSound: every path that is
tainted in a table that is stored, or about to be, is one a method had. RoutesSound
needs that what is stored, or serialised and waiting to be written, can be loaded
(`Loadable`: the protected mounts are in it, no mount is twice in it), that table
and trie are one-to-one (`MemoryInv`), and that a call is where its operation takes
it and has nothing to do with a protected mount (`CallOK`).

**MountsAloneProofs.** `MountsAckedStored` and `MountsGoneStaysGone`, which speak of
calls one at a time: `AloneInv` says where the one call is, which of table, entry,
trie and storage it has changed already, and that all others agree.

**SecretsProofs.** `LeasesBounded`: LeaseBounded is inductive with the order of the
three times of a lease; the argument is the branches of `calculate_ttl`, for
whatever terms a renewal finds. `KeyResultsStay`: a key is never replaced while a
result made with it is out, unless its name is in `kdoubt`; a call on its way to
write has found the name free and is the only one to write it (`KeysInv`).
`CiphersHonest`: the contexts keep the additional data of their object, and a tag is
the one of a text that was encrypted (`CipherInv`), for streams of any length.
`PkiIssuedStands`: any number of clients; no serial number is used twice
(`NumbersApart`), and what a call is about to store or return was signed by the CA
it read (`IssuedSigned`, `IssuedInTime`).

**AccessProofs.** `PolicyCacheFollows`, under the hypothesis that requests do not
overlap (`OneAtATime`; `PolicyRace.cfg` shows that it is needed): at every step of a
request the cache and the type map are what the writes so far make of them
(`CallFits`). `CertCrlWhole`: any number of clients and mounts; `CrlInv` says, for a
request that is alone, what of its mount's lists is in the map at each of its steps.
`CertLoginGrounded`: for all entries, certificates and lists. `AccountsStayCoherent`
and `GrantsAreTheAccounts`: for all bodies of a write and all three kinds of
account. In `AccountInv` a stored entry has the fields of its kind and each setting
equals its older name, so that `get_role`, `get_user` and `get_cert` return what is
stored (`GetEntrySame`) and every write starts from an entry whose names agree.
`AclOrderFreeHolds` and `AllowedIsGrantedHolds`: for every set of rules, in whatever
order they are added. `AclInv` gives the bitmap of each path in terms of the set of
rules alone (`Merged`): only deny if one of them denies, else their union, and the
same for the parameters. `OnlyServer` and `PublicMatch` speak of every backend and
of every path, not only of the paths Routes tries: no two routes of a backend take
one path, whatever the words are, and the keys of the radix tree (exact paths,
prefixes) cover the paths of the public patterns and no others.
`RouteUnambiguousHolds` and `UnauthIsPublicHolds` follow for RouteSpec;
`FieldsFitHolds` needs that what a pattern captures is never absent, so that the
body is not asked, and goes through the conversions type by type. `FrontSoundHolds`,
for every set of mounted backends and paths: `FrontInv` says, phase by phase, that a
request beyond pre_route was unauthenticated at what was mounted then or carries an
admitted token, and that a mount that is no longer that one is recorded in
`fchanged`; for the sys service, that every resource leads to a route of the system
backend with its operation.

**TokensProofs.** `TokensTyped`, and `TokensLeaseScheduled`: with any number of
clients, checkers, seals, crashes and errors, every stored lease is in the queue of
the newest manager no later than it ends, or a request is about to put it there. The
hypothesis `TieHolds` excludes one error, that of `create_index_by_token`, whose
effect the comment at LeaseScheduled describes. The invariant `LeaseInv` is about the
agendas: an entry that is to be written is the next thing its thread does (`Placed`),
a lease that is put at priority 0 is dropped before (`QueueFits`), and what the newest
checker is about to pop it has dropped or somebody announces again (`PopFits`).

**TokensTreeProofs.** `TokensParentLinked`: with any number of clients, every stored
child is linked to its parent. The hypothesis `UseKept` is that `use_token`, which
writes the entry that was read before, does not write a token that was revoked in
between: two requests with one token of limited use can do that, and then the token
comes back without its link (see the hazards). The invariant `TreeInv` says that a
child that is about to be written is linked, or its link is the next write of the
same thread (`PutPlaced`), that no two threads write one child (`PutOnce`), and that a
link is only about to go when the token has gone (`NotThere`). `TokensCheckerOnTime`,
under the hypothesis that no two requests renew one token at the same time
(`OneRenewal`): each of two such requests writes its expiry and then its priority, and
the earlier priority may be written last. With two clients and without the hypothesis
TLC finds the checker too early. In `OnTimeInv` a token that has, had or is about to
have a lease is no one's child, so that a checker ends it only for its own lease
(`LeasedApart`); what the owner was told is not after the lease and not after the
priority in the newest queue (`ToldFits`); a new priority is the next thing its request
does, and no answer tells more than it (`ClientFits`); and what a checker is about to
end never had a lease or was due in its queue, whose lock it holds (`CheckerFits`).

`TokensRevokedTreeGone`, for requests that do not overlap (`OneRequest`), with any
number of tokens, trees of any depth, faults, crashes and all checkers beside the
requests: the tree of an acknowledged revocation is gone for good. With two overlapping
requests TLC finds it back: one has linked a child and not yet written it, the other
revokes the parent meanwhile. The invariant has two halves. `KinInv` (on top of
`TreeInv` and `OnTimeInv`) says who can be disturbed by a checker: what it works on has
a lease, and then neither a parent nor a child whose id a client knows (`Tame`: only
root chooses ids, and `post_route` makes no root), or is such a child, whose id no
client will ever know, and then it has no children (`Sterile`); only a held token
without a use count has children (`ParentsHeld`). Every step is reduced to what it adds
to one agenda and what it writes (`StepOf`), and `KinStep` shows once that this keeps
`KinInv`. The other half is about the agenda of the revocation (`Sweeps`): each stored
token of its tree is named by a task before the answer or is below a token that a
`tree` task names; what is stored below a token about to be deleted is covered by
earlier tasks; and when a link is about to go, nothing is stored below it. `Below` is
the least set closed under the links, so that taking such a link away loses nothing
that is stored (`LinkGone`) without an induction along the tree. After the answer the
tokens cannot come back, since nobody is about to write one of them (`GoneForGood`).

**AppRoleProofs.** Any number of threads, roles and secret ids. `AppRoleTyped` rests
on the locks: two calls that hold one role or one slot exclude each other, and so
does the tidy task, and an entry that is about to be destroyed or used for the last
time is still there (`Control`). `AppRoleUsesRespected` and
`AppRoleDestroyedStaysOut` share `SecretInv`: an accessor names at most one entry,
stored or about to be; what an entry has left and what it has served never exceed
what it was granted; nothing stored is destroyed or among what a delete_role has
flushed. `AppRoleIndexFits` and `AppRoleIndexOneAdmin`: at each step of `set_role`
and `delete_role` the call knows which role ids can still lead to its role
(`Knows`). The repair in `read_role` gives up its lock before it writes the index:
the first theorem assumes that the role it repairs still has its id (`RepairFresh`),
the second derives this from a single thread for the requests on roles (`AdminInv`).

Only model-checked: liveness, which is out of the prover's reach; StoreFaithful of
Storage and SharesHonest of Shamir, which are about what recursive functions compute
(the keys of a path, polynomials over the field of 256 elements) and would need an
induction over data that the provers cannot instantiate.

## Not modelled

- The command line, the API client and the metrics: no state of the server.
- Encryption of entries, JSON, TLS, HCL, X.509 encodings and chain building:
  external libraries, seen by what the code does with their results.
- `sys/renew`, revoke by prefix and raw storage of the system backend: routes in
  RouteTables, handlers without a model of their own.
- The HMAC of a mount entry (off by default) and `mount_update`.
- Nested read locks on the core and on the barrier: whether they block depends on
  the lock implementation of the platform.
- Two clients in the runs of Tokens (the theorems are about any number): the use
  count is read and written apart, so two requests may spend one use; the instance
  with both checkers is at the limit of what can be explored.

## Plan

Every module and every theorem that was planned is there. Worth adding next: overlapping
requests in a smaller instance of Tokens, with the races of the token store (a use that
is written back, a child that is linked before it is written) stated as action
properties.
