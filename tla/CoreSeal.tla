------------------------------ MODULE CoreSeal ------------------------------
(***************************************************************************)
(* The life cycle of a vault: Core::init, Core::unseal, Core::seal,        *)
(* Core::handle_request (src/src/core.rs), the AES-GCM barrier they drive  *)
(* (src/src/storage/barrier_aes_gcm.rs) and the splitting of the master    *)
(* key (src/src/shamir.rs).                                                *)
(*                                                                         *)
(* init, unseal and seal run under the write lock of the core, so they     *)
(* exclude each other and every request; what interleaves with them is a   *)
(* crash of the process, and what interrupts them is an error of the       *)
(* storage backend.  Each is therefore a chain of steps, cut where the     *)
(* code writes storage or may return early: pc is the step the call that   *)
(* holds the lock takes next, "idle" when the lock is free.                *)
(***************************************************************************)
EXTENDS Naturals, FiniteSets

CONSTANTS
    ByteRange,      \* the number of values of a u8: the counts wrap at it
    Forged,         \* keys of a legal length that split did not produce
    NoConfig,       \* no entry at core/seal-config
    StorageFaults,  \* may an operation of the physical backend fail?
    Crashes         \* may the process crash (and restart)?

ASSUME ByteRangeAssumption == ByteRange \in Nat \ {0, 1}
ASSUME ForgedAssumption == Forged \cap Nat = {}
ASSUME NoConfigAssumption ==
    NoConfig \notin [secret_shares : Nat, secret_threshold : Nat]
ASSUME EnvironmentAssumption == StorageFaults \in BOOLEAN /\ Crashes \in BOOLEAN

VARIABLES
    \* storage: what survives a crash
    sealConfig,     \* the entry at core/seal-config
    barrierInit,    \* the entry at barrier/init exists
    rootToken,      \* the root token is stored
    \* struct Core
    coreSealed,     \* Core::sealed
    keyShares,      \* Core::unseal_key_shares
    backends,       \* registered backends: of the modules, of the token store
    mounted,        \* the mount table is loaded and its entries are routed
    tokenStore,     \* AuthModule::token_store is Some
    handlers,       \* handlers added by the modules' init
    poisoned,       \* a panic poisoned the core's lock
    \* struct AESGCMBarrier
    barrierSealed,  \* BarrierInfo::sealed
    barrierKey,     \* BarrierInfo::key
    \* the call that holds the write lock
    pc,
    caller,         \* whose post_unseal runs: "init" or "unseal"
    initShares,     \* InitResult::secret_shares of the init in progress
    reply,          \* the last answer: <<call, result>>
    \* what the operators know and did (history, never read by the code)
    delivered,      \* the shares init returned
    quorum          \* the shares whose combination opened the barrier

storageVars == <<sealConfig, barrierInit, rootToken>>
moduleVars  == <<backends, mounted, tokenStore, handlers>>
coreVars    == <<coreSealed, keyShares, moduleVars, poisoned>>
barrierVars == <<barrierSealed, barrierKey>>
callVars    == <<pc, caller, initShares, reply>>
historyVars == <<delivered, quorum>>
vars == <<storageVars, coreVars, barrierVars, callVars, historyVars>>

-----------------------------------------------------------------------------
Byte == 0 .. ByteRange - 1
SealConfig == [secret_shares : Byte, secret_threshold : Byte]

\* A share is named by its x coordinate, the last byte get_share appends.
GenuineShare == Byte \ {0}
Share == GenuineShare \cup Forged

\* "kek": the master key.  "wrong": bytes that do not decrypt barrier/init.
\* "data": the key inside barrier/init, which encrypts every other entry.
BarrierKey == {"none", "kek", "wrong", "data"}

PostUnsealSteps == {"setup", "mounts", "auth", "policy"}
InitSteps == {"init_barrier", "init_split", "root_token", "init_done"}
Steps == {"idle"} \cup PostUnsealSteps \cup InitSteps

\* SealConfig::validate.
Valid(c) == c.secret_threshold <= c.secret_shares

\* Slip: the shares are numbered from 0, the coordinate of the secret.
SplitFromZero(c) == 0 .. ((c.secret_shares + 1) % ByteRange) - 1

\* ShamirSecret::split as init calls it: part + 1 is computed in a u8, so in
\* a release build the loop over 1..(part + 1) is empty for the largest part.
\* An empty set of outcomes: the call returns an error.
Split(c) == 1 .. ((c.secret_shares + 1) % ByteRange) - 1

\* The shares init means to return, or no outcome when split refuses.
InitSharesOutcomes(c) ==
    IF c.secret_shares = 1 THEN {{1}}
    ELSE IF c.secret_threshold < 2 THEN {}
    ELSE {Split(c)}

\* Slip: the master key is taken as it comes, barrier/init is not decrypted
\* to check it.
RecoverUnchecked(S, c) == {"kek"}

\* The master key unseal computes from the collected shares.  With threshold
\* 1 it is the share itself.  Otherwise combine interpolates: it needs two
\* shares of equal length and distinct coordinates, and only a threshold of
\* genuine shares gives the master key.
Recover(S, c) ==
    IF c.secret_threshold = 1
    THEN {IF S \subseteq GenuineShare THEN "kek" ELSE "wrong"}
    ELSE IF Cardinality(S) < 2 THEN {"none"}
    ELSE IF S \subseteq GenuineShare
         THEN {IF Cardinality(S) >= c.secret_threshold THEN "kek" ELSE "wrong"}
         ELSE {"none", "wrong"}

-----------------------------------------------------------------------------
\* A new process: Core::default and AESGCMBarrier::new.
FreshProcess ==
    /\ coreSealed' = TRUE
    /\ keyShares' = {}
    /\ backends' = {}
    /\ mounted' = FALSE
    /\ tokenStore' = FALSE
    /\ handlers' = {}
    /\ poisoned' = FALSE
    /\ barrierSealed' = TRUE
    /\ barrierKey' = "none"
    /\ pc' = "idle"
    /\ caller' = "none"
    /\ initShares' = {}
    /\ reply' = <<"none", "none">>

Init ==
    /\ sealConfig = NoConfig
    /\ barrierInit = FALSE
    /\ rootToken = FALSE
    /\ coreSealed = TRUE
    /\ keyShares = {}
    /\ backends = {}
    /\ mounted = FALSE
    /\ tokenStore = FALSE
    /\ handlers = {}
    /\ poisoned = FALSE
    /\ barrierSealed = TRUE
    /\ barrierKey = "none"
    /\ pc = "idle"
    /\ caller = "none"
    /\ initShares = {}
    /\ reply = <<"none", "none">>
    /\ delivered = {}
    /\ quorum = {}

\* The write lock is free and not poisoned.
Idle == pc = "idle" /\ ~poisoned

Return(call, result) ==
    /\ pc' = "idle"
    /\ caller' = "none"
    /\ initShares' = {}
    /\ reply' = <<call, result>>

Goto(step) ==
    /\ pc' = step
    /\ UNCHANGED <<caller, initShares, reply>>

\* Every entry point fails on a poisoned lock.
CallPoisoned(call) ==
    /\ poisoned
    /\ Return(call, "poisoned")
    /\ UNCHANGED <<storageVars, coreVars, barrierVars, historyVars>>

-----------------------------------------------------------------------------
(* Core::init *)

\* Slip: the seal-config is stored before inited() is looked at.
InitCallUnguarded(c) ==
    /\ Idle
    /\ Valid(c)
    /\ sealConfig' = c
    /\ IF barrierInit THEN Return("init", "err") ELSE Goto("init_barrier")
    /\ UNCHANGED <<barrierInit, rootToken, coreVars, barrierVars, historyVars>>

\* inited() and validate() come before the first write.
InitCall(c) ==
    /\ Idle
    /\ ~barrierInit
    /\ Valid(c)
    /\ sealConfig' = c
    /\ Goto("init_barrier")
    /\ UNCHANGED <<barrierInit, rootToken, coreVars, barrierVars, historyVars>>

InitRefused(c) ==
    /\ Idle
    /\ barrierInit \/ ~Valid(c)
    /\ Return("init", "err")
    /\ UNCHANGED <<storageVars, coreVars, barrierVars, historyVars>>

\* barrier.init: init_cipher(kek), one put, reset_cipher.
InitBarrier ==
    /\ pc = "init_barrier"
    /\ barrierInit' = TRUE
    /\ barrierKey' = "none"
    /\ Goto("init_split")
    /\ UNCHANGED <<sealConfig, rootToken, coreVars, barrierSealed, historyVars>>

\* The put fails: the early return skips reset_cipher.
InitBarrierFails ==
    /\ StorageFaults
    /\ pc = "init_barrier"
    /\ barrierKey' = "kek"
    /\ Return("init", "err")
    /\ UNCHANGED <<storageVars, coreVars, barrierSealed, historyVars>>

\* Split the master key, open the barrier with it, start post_unseal.
InitSplit ==
    /\ pc = "init_split"
    /\ initShares' \in InitSharesOutcomes(sealConfig)
    /\ barrierKey' = "data"
    /\ barrierSealed' = FALSE
    /\ pc' = "setup"
    /\ caller' = "init"
    /\ UNCHANGED <<storageVars, coreVars, reply, historyVars>>

\* The split refuses, or barrier.unseal cannot read barrier/init back: the
\* master key is dropped with the call and no share is handed out.
InitSplitFails ==
    /\ pc = "init_split"
    /\ InitSharesOutcomes(sealConfig) = {} \/ StorageFaults
    /\ Return("init", "err")
    /\ UNCHANGED <<storageVars, coreVars, barrierVars, historyVars>>

\* token_store.root_token().
RootToken ==
    /\ pc = "root_token"
    /\ rootToken' = TRUE
    /\ Goto("init_done")
    /\ UNCHANGED <<sealConfig, barrierInit, coreVars, barrierVars, historyVars>>

\* Slip: the flag is set but the cipher is not reset.
BarrierSealKeepsKey == barrierSealed' = TRUE /\ UNCHANGED barrierKey

\* The deferred barrier.seal() runs on every return from here on; pre_seal
\* does not.
BarrierSeal == barrierSealed' = TRUE /\ barrierKey' = "none"

RootTokenFails ==
    /\ StorageFaults
    /\ pc = "root_token"
    /\ BarrierSeal
    /\ Return("init", "err")
    /\ UNCHANGED <<storageVars, coreVars, historyVars>>

\* Slip: the modules' cleanup forgets their handlers.
PreSealKeepsHandlers ==
    /\ backends' = {}
    /\ mounted' = FALSE
    /\ UNCHANGED <<handlers, tokenStore>>

\* pre_seal: the modules' cleanup, then unload_mounts.
PreSeal ==
    /\ backends' = {}
    /\ handlers' = {}
    /\ mounted' = FALSE
    /\ UNCHANGED tokenStore

InitDone ==
    /\ pc = "init_done"
    /\ PreSeal
    /\ BarrierSeal
    /\ delivered' = initShares
    /\ Return("init", "ok")
    /\ UNCHANGED <<storageVars, coreSealed, keyShares, poisoned, quorum>>

-----------------------------------------------------------------------------
(* Core::post_unseal, for init and for unseal *)

\* An error returns from the caller: init re-seals the barrier (defer),
\* unseal leaves it open.
PostUnsealFails ==
    /\ IF caller = "init" THEN BarrierSeal ELSE UNCHANGED barrierVars
    /\ Return(caller, "err")
    /\ UNCHANGED <<storageVars, coreSealed, keyShares, poisoned, historyVars>>

\* module_manager.setup: every module registers its backend, which fails if
\* an earlier registration was never cleaned up.
PostSetup ==
    /\ pc = "setup"
    /\ IF "module" \in backends
       THEN PostUnsealFails /\ UNCHANGED moduleVars
       ELSE /\ backends' = backends \cup {"module"}
            /\ Goto("mounts")
            /\ UNCHANGED <<storageVars, coreSealed, keyShares, mounted, tokenStore,
                           handlers, poisoned, barrierVars, historyVars>>

\* derive_hmac_key, load_or_default and setup_mounts.
PostMounts ==
    /\ pc = "mounts"
    /\ \/ /\ mounted' = TRUE
          /\ Goto("auth")
          /\ UNCHANGED <<storageVars, coreSealed, keyShares, backends, tokenStore,
                         handlers, poisoned, barrierVars, historyVars>>
       \/ /\ StorageFaults
          /\ PostUnsealFails
          /\ UNCHANGED moduleVars

\* AuthModule::init: the managers are created first, the handler is added
\* last; in between the auth table and the leases are read.
PostAuth ==
    /\ pc = "auth"
    /\ \/ /\ "token" \notin backends
          /\ "token" \notin handlers
          /\ tokenStore' = TRUE
          /\ backends' = backends \cup {"token"}
          /\ handlers' = handlers \cup {"token"}
          /\ Goto("policy")
          /\ UNCHANGED <<storageVars, coreSealed, keyShares, mounted, poisoned,
                         barrierVars, historyVars>>
       \/ /\ StorageFaults \/ "token" \in backends \/ "token" \in handlers
          /\ \/ UNCHANGED <<tokenStore, backends>>
             \/ tokenStore' = TRUE /\ backends' = backends \cup {"token"}
          /\ PostUnsealFails
          /\ UNCHANGED <<mounted, handlers>>

\* PolicyModule::init and the other modules; the end of post_unseal.
PostPolicy ==
    /\ pc = "policy"
    /\ \/ /\ "policy" \notin handlers
          /\ handlers' = handlers \cup {"policy"}
          /\ IF caller = "init"
             THEN Goto("root_token") /\ UNCHANGED coreSealed
             ELSE Return("unseal", "ok") /\ coreSealed' = FALSE
          /\ UNCHANGED <<storageVars, keyShares, backends, mounted, tokenStore,
                         poisoned, barrierVars, historyVars>>
       \/ /\ StorageFaults \/ "policy" \in handlers
          /\ PostUnsealFails
          /\ UNCHANGED moduleVars

-----------------------------------------------------------------------------
(* Core::unseal *)

\* A key whose length the barrier does not accept.
UnsealMalformed ==
    /\ Idle
    /\ Return("unseal", "err")
    /\ UNCHANGED <<storageVars, coreVars, barrierVars, historyVars>>

UnsealRefused(key) ==
    /\ Idle
    /\ ~barrierInit \/ ~barrierSealed
    /\ Return("unseal", "err")
    /\ UNCHANGED <<storageVars, coreVars, barrierVars, historyVars>>

\* A share that was already given, or one that does not complete the set.
UnsealProgress(key) ==
    /\ Idle
    /\ barrierInit /\ barrierSealed
    /\ \/ key \in keyShares
       \/ Cardinality(keyShares \cup {key}) < sealConfig.secret_threshold
    /\ keyShares' = keyShares \cup {key}
    /\ Return("unseal", "progress")
    /\ UNCHANGED <<storageVars, coreSealed, moduleVars, poisoned, barrierVars,
                   historyVars>>

\* The last share: the shares are dropped whatever they combine to.
\* barrier.unseal reads barrier/init, which may fail, then sets the recovered
\* key before it tries to decrypt what it read, and keeps it when that fails.
UnsealLast(key) ==
    /\ Idle
    /\ barrierInit /\ barrierSealed
    /\ key \notin keyShares
    /\ Cardinality(keyShares \cup {key}) >= sealConfig.secret_threshold
    /\ keyShares' = {}
    /\ \E k \in Recover(keyShares \cup {key}, sealConfig) :
          \/ /\ k = "none" \/ StorageFaults
             /\ Return("unseal", "err")
             /\ UNCHANGED <<barrierVars, quorum>>
          \/ /\ k = "wrong"
             /\ barrierKey' = "wrong"
             /\ Return("unseal", "err")
             /\ UNCHANGED <<barrierSealed, quorum>>
          \/ /\ k = "kek"
             /\ barrierKey' = "data"
             /\ barrierSealed' = FALSE
             /\ quorum' = keyShares \cup {key}
             /\ pc' = "setup"
             /\ caller' = "unseal"
             /\ UNCHANGED <<initShares, reply>>
    /\ UNCHANGED <<storageVars, coreSealed, moduleVars, poisoned, delivered>>

-----------------------------------------------------------------------------
(* Core::seal, Core::handle_request, the process *)

SealRefused ==
    /\ Idle
    /\ ~barrierInit \/ barrierSealed
    /\ Return("seal", "err")
    /\ UNCHANGED <<storageVars, coreVars, barrierVars, historyVars>>

\* Slip: the barrier is sealed, the core's flag is not.
SealCallKeepsFlag ==
    /\ Idle
    /\ barrierInit /\ ~barrierSealed
    /\ tokenStore
    /\ PreSeal
    /\ BarrierSeal
    /\ quorum' = {}
    /\ Return("seal", "ok")
    /\ UNCHANGED <<storageVars, coreSealed, keyShares, poisoned, delivered>>

SealCall ==
    /\ Idle
    /\ barrierInit /\ ~barrierSealed
    /\ tokenStore
    /\ PreSeal
    /\ coreSealed' = TRUE
    /\ BarrierSeal
    /\ quorum' = {}
    /\ Return("seal", "ok")
    /\ UNCHANGED <<storageVars, keyShares, poisoned, delivered>>

\* AuthModule::cleanup unwraps token_store: with none the call panics while
\* it holds the write lock.  That kv and system are already cleaned up, and
\* the modules after auth are not, nobody can see: every later call fails on
\* the lock.
SealPanics ==
    /\ Idle
    /\ barrierInit /\ ~barrierSealed
    /\ ~tokenStore
    /\ poisoned' = TRUE
    /\ Return("seal", "panic")
    /\ UNCHANGED <<storageVars, coreSealed, keyShares, moduleVars, barrierVars,
                   historyVars>>

Request ==
    /\ Idle
    /\ Return("request", IF coreSealed THEN "err" ELSE "ok")
    /\ UNCHANGED <<storageVars, coreVars, barrierVars, historyVars>>

Crash ==
    /\ Crashes
    /\ FreshProcess
    /\ quorum' = {}
    /\ UNCHANGED <<storageVars, delivered>>

-----------------------------------------------------------------------------
\* Operators type the shares they were given, or something else.
Call ==
    \/ \E c \in SealConfig : InitCall(c) \/ InitRefused(c)
    \/ \E key \in delivered \cup Forged :
          UnsealRefused(key) \/ UnsealProgress(key) \/ UnsealLast(key)
    \/ UnsealMalformed
    \/ SealRefused \/ SealCall \/ SealPanics \/ Request
    \/ \E call \in {"init", "unseal", "seal", "request"} : CallPoisoned(call)

Step ==
    \/ InitBarrier \/ InitBarrierFails \/ InitSplit \/ InitSplitFails
    \/ RootToken \/ RootTokenFails \/ InitDone
    \/ PostSetup \/ PostMounts \/ PostAuth \/ PostPolicy

Next == Call \/ Step \/ Crash

Spec == Init /\ [][Next]_vars

-----------------------------------------------------------------------------
(* Properties *)

\* The types of the variables.
TypeOK ==
    /\ sealConfig \in SealConfig \cup {NoConfig}
    /\ barrierInit \in BOOLEAN
    /\ rootToken \in BOOLEAN
    /\ coreSealed \in BOOLEAN
    /\ keyShares \in SUBSET Share
    /\ backends \in SUBSET {"module", "token"}
    /\ mounted \in BOOLEAN
    /\ tokenStore \in BOOLEAN
    /\ handlers \in SUBSET {"token", "policy"}
    /\ poisoned \in BOOLEAN
    /\ barrierSealed \in BOOLEAN
    /\ barrierKey \in BarrierKey
    /\ pc \in Steps
    /\ caller \in {"none", "init", "unseal"}
    /\ initShares \in SUBSET GenuineShare
    /\ reply \in {"none", "init", "unseal", "seal", "request"}
               \X {"none", "ok", "err", "progress", "panic", "poisoned"}
    /\ delivered \in SUBSET GenuineShare
    /\ quorum \in SUBSET Share

\* Core::handle_request only looks at Core::sealed.  Whenever that says the
\* vault is open, everything a request goes through is really there: the
\* barrier is open with the data key, the mounts are routed, the token store
\* and the policy store take part in every request.
UnsealedMeansReady ==
    ~coreSealed => /\ ~barrierSealed /\ barrierKey = "data"
                   /\ backends = {"module", "token"}
                   /\ mounted
                   /\ tokenStore
                   /\ handlers = {"token", "policy"}

\* A sealed barrier holds no key that decrypts data, however it was sealed:
\* by seal, by init's deferred seal after an error, or because an unseal
\* failed half way through AESGCMBarrier::unseal.
SealedHoldsNoDataKey == barrierSealed <=> barrierKey # "data"

\* Outside of init the barrier is open only because at least a threshold of
\* the shares init returned, and nothing else, was given to this process.
OpenedByQuorum ==
    ~barrierSealed /\ caller # "init" /\ pc \notin InitSteps =>
        /\ quorum # {}
        /\ quorum \subseteq delivered
        /\ Cardinality(quorum) >= sealConfig.secret_threshold

\* The shares the operators hold fit the seal-config in storage, whatever
\* inits were refused, failed or crashed before and after: there are enough
\* of them and every threshold-sized subset gives the master key.  (A
\* threshold of 0 passes validate; the run on init shows what it does.)
SharesFitConfig ==
    delivered # {} /\ sealConfig.secret_threshold >= 1 =>
        /\ Cardinality(delivered) >= sealConfig.secret_threshold
        /\ \A S \in SUBSET delivered :
              Cardinality(S) = sealConfig.secret_threshold =>
                  Recover(S, sealConfig) = {"kek"}

\* post_unseal never trips over what an earlier, failed or finished,
\* post_unseal registered: add_logical_backend, add_auth_backend,
\* add_handler and router.mount all refuse what is already there.
RegistrationsClean ==
    pc = "setup" => backends = {} /\ handlers = {} /\ ~mounted

\* The inductive invariant behind the properties above.  Control: which
\* storage entries exist at which step, and which call a step belongs to.
ControlInv ==
    /\ sealConfig # NoConfig => Valid(sealConfig)
    /\ barrierInit => sealConfig # NoConfig
    /\ pc = "init_barrier" => ~barrierInit /\ sealConfig # NoConfig
    /\ pc \in {"init_split"} \cup PostUnsealSteps \cup {"root_token", "init_done"} =>
           barrierInit
    /\ caller = "none" => pc \in {"idle", "init_barrier", "init_split"}
    /\ caller = "init" => pc \in PostUnsealSteps \cup {"root_token", "init_done"}
    /\ caller = "unseal" => pc \in PostUnsealSteps
    /\ poisoned => pc = "idle"

\* Shares exist only once an init ran to its end, and are its shares.
DeliveryInv ==
    /\ delivered # {} => barrierInit /\ delivered \in InitSharesOutcomes(sealConfig)
    /\ pc \in InitSteps \/ caller = "init" => delivered = {} /\ coreSealed
    /\ caller = "init" => initShares \in InitSharesOutcomes(sealConfig)
    /\ keyShares \subseteq delivered \cup Forged

BarrierInv ==
    /\ SealedHoldsNoDataKey
    /\ ~barrierSealed => barrierInit
    /\ caller # "none" => ~barrierSealed /\ coreSealed
    /\ pc \in {"init_barrier", "init_split"} => barrierSealed
    /\ ~coreSealed => pc = "idle"

Clean == backends = {} /\ handlers = {} /\ ~mounted

\* What is registered at each step of post_unseal.  A sealed vault that an
\* operator can still open, or still initialise, has nothing registered.
RegistrationInv ==
    /\ barrierSealed /\ (~barrierInit \/ pc = "init_split" \/ delivered # {}) => Clean
    /\ pc = "setup" => Clean
    /\ pc = "mounts" => backends = {"module"} /\ handlers = {} /\ ~mounted
    /\ pc = "auth" => backends = {"module"} /\ handlers = {} /\ mounted
    /\ pc = "policy" => /\ backends = {"module", "token"}
                        /\ handlers = {"token"}
                        /\ mounted
                        /\ tokenStore

IInv ==
    /\ TypeOK
    /\ ControlInv
    /\ DeliveryInv
    /\ BarrierInv
    /\ RegistrationInv
    /\ OpenedByQuorum
    /\ UnsealedMeansReady

\* The life cycle implements the operators' contract.
Contract == INSTANCE SealContract
    WITH inited <- barrierInit,
         shares <- delivered,
         threshold <- IF barrierInit THEN sealConfig.secret_threshold ELSE 0,
         serving <- ~coreSealed,
         quorum <- IF coreSealed THEN {} ELSE quorum

ImplementsContract == Contract!ContractSpec

\* operator_init.rs says of -key-threshold only that it "must be less than or
\* equal to -key-shares": once init answers for such a (positive) threshold,
\* with no error of the storage and no crash, a vault that now counts as
\* initialised is one the returned shares open.
InitKeepsMasterKey ==
    pc = "idle" /\ reply[1] = "init" /\ barrierInit /\ sealConfig.secret_threshold >= 1 =>
        \E S \in (SUBSET delivered) \ {{}} : "kek" \in Recover(S, sealConfig)
=============================================================================
