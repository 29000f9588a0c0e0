--------------------------- MODULE CoreSealProofs ---------------------------
(* Proofs about CoreSeal, for every width of a byte and every set of forged *)
(* keys.                                                                    *)
EXTENDS CoreSeal, FiniteSetTheorems, TLAPS

USE ByteRangeAssumption, ForgedAssumption, NoConfigAssumption

LEMMA ConfigFacts ==
    /\ NoConfig \notin SealConfig
    /\ \A c \in SealConfig : c.secret_shares \in Byte /\ c.secret_threshold \in Byte
    /\ Byte \subseteq Nat
    /\ GenuineShare \cap Forged = {}
  BY DEF SealConfig, Byte, GenuineShare

\* Whatever shares init computes are genuine ones.
LEMMA OutcomesGenuine ==
  ASSUME NEW c \in SealConfig, NEW S \in InitSharesOutcomes(c)
  PROVE  S \subseteq GenuineShare
<1>1. c.secret_shares \in Nat
  BY DEF SealConfig, Byte
<1>2. CASE c.secret_shares = 1
  <2>1. c.secret_shares \in Byte
    BY DEF SealConfig
  <2>2. S = {1}
    BY <1>2 DEF InitSharesOutcomes
  <2> QED BY <2>1, <2>2, <1>2 DEF GenuineShare, Byte
<1>3. CASE c.secret_shares # 1
  <2>1. S = Split(c)
    BY <1>3 DEF InitSharesOutcomes
  <2>2. (c.secret_shares + 1) % ByteRange \in 0 .. ByteRange - 1
    BY <1>1
  <2> QED BY <2>1, <2>2 DEF Split, GenuineShare, Byte
<1> QED BY <1>2, <1>3

\* Only genuine shares give the master key.
LEMMA RecoverGenuine ==
  ASSUME NEW c, NEW S, "kek" \in Recover(S, c)
  PROVE  S \subseteq GenuineShare
  BY DEF Recover

LEMMA InitIInv == Init => IInv
<1> SUFFICES ASSUME Init PROVE IInv
  OBVIOUS
<1> USE DEF Init
<1>1. TypeOK
  BY DEF TypeOK, Steps, BarrierKey
<1>2. ControlInv
  BY DEF ControlInv, PostUnsealSteps
<1>3. DeliveryInv
  BY DEF DeliveryInv, InitSteps
<1>4. BarrierInv
  BY DEF BarrierInv, SealedHoldsNoDataKey
<1>5. RegistrationInv
  BY DEF RegistrationInv, Clean
<1>6. OpenedByQuorum
  BY DEF OpenedByQuorum
<1>7. UnsealedMeansReady
  BY DEF UnsealedMeansReady
<1> QED BY <1>1, <1>2, <1>3, <1>4, <1>5, <1>6, <1>7 DEF IInv
-----------------------------------------------------------------------------
(* Each action preserves the inductive invariant. *)

LEMMA InitCallIInv ==
  ASSUME IInv, NEW c \in SealConfig, InitCall(c)
  PROVE  IInv'
<1> USE DEF IInv, InitCall, Idle, Goto, storageVars, moduleVars, coreVars, barrierVars, historyVars
<1>1. TypeOK'
  BY DEF TypeOK, Steps, PostUnsealSteps, InitSteps, BarrierKey, Share
<1>2. ControlInv'
  BY ConfigFacts DEF ControlInv, PostUnsealSteps, TypeOK
<1>3. DeliveryInv'
  BY ConfigFacts DEF DeliveryInv, InitSteps, BarrierInv, SealedHoldsNoDataKey, UnsealedMeansReady
<1>4. BarrierInv'
  BY ConfigFacts DEF BarrierInv, SealedHoldsNoDataKey, UnsealedMeansReady
<1>5. RegistrationInv'
  BY DEF RegistrationInv, Clean
<1>6. OpenedByQuorum'
  BY DEF OpenedByQuorum, InitSteps
<1>7. UnsealedMeansReady'
  BY DEF UnsealedMeansReady
<1> QED BY <1>1, <1>2, <1>3, <1>4, <1>5, <1>6, <1>7

LEMMA InitBarrierIInv ==
  ASSUME IInv, InitBarrier
  PROVE  IInv'
<1> USE DEF IInv, InitBarrier, Goto, storageVars, moduleVars, coreVars, barrierVars, historyVars
<1>1. TypeOK'
  BY DEF TypeOK, Steps, PostUnsealSteps, InitSteps, BarrierKey, Share
<1>2. ControlInv'
  BY DEF ControlInv, PostUnsealSteps
<1>3. DeliveryInv'
  BY DEF DeliveryInv, InitSteps
<1>4. BarrierInv'
  BY DEF BarrierInv, SealedHoldsNoDataKey
<1>5. RegistrationInv'
  BY ConfigFacts DEF RegistrationInv, Clean, ControlInv, PostUnsealSteps, TypeOK
<1>6. OpenedByQuorum'
  BY DEF OpenedByQuorum, InitSteps
<1>7. UnsealedMeansReady'
  BY ConfigFacts DEF UnsealedMeansReady, BarrierInv, SealedHoldsNoDataKey
<1> QED BY <1>1, <1>2, <1>3, <1>4, <1>5, <1>6, <1>7

LEMMA InitBarrierFailsIInv ==
  ASSUME IInv, InitBarrierFails
  PROVE  IInv'
<1> USE DEF IInv, InitBarrierFails, Return, storageVars, moduleVars, coreVars, barrierVars, historyVars
<1>1. TypeOK'
  BY DEF TypeOK, Steps, PostUnsealSteps, InitSteps, BarrierKey, Share
<1>2. ControlInv'
  BY DEF ControlInv, PostUnsealSteps
<1>3. DeliveryInv'
  BY DEF DeliveryInv, InitSteps
<1>4. BarrierInv'
  BY DEF BarrierInv, SealedHoldsNoDataKey
<1>5. RegistrationInv'
  BY DEF RegistrationInv, Clean
<1>6. OpenedByQuorum'
  BY ConfigFacts DEF OpenedByQuorum, InitSteps, BarrierInv, SealedHoldsNoDataKey, UnsealedMeansReady
<1>7. UnsealedMeansReady'
  BY ConfigFacts DEF UnsealedMeansReady, BarrierInv, SealedHoldsNoDataKey
<1> QED BY <1>1, <1>2, <1>3, <1>4, <1>5, <1>6, <1>7

LEMMA InitSplitIInv ==
  ASSUME IInv, InitSplit
  PROVE  IInv'
<1> USE DEF IInv, InitSplit, storageVars, moduleVars, coreVars, barrierVars, historyVars
<1>1. TypeOK'
  <2>1. sealConfig \in SealConfig
    BY DEF ControlInv, TypeOK
  <2>2. initShares' \in SUBSET GenuineShare
    BY <2>1, OutcomesGenuine
  <2> QED BY <2>2 DEF TypeOK, Steps, PostUnsealSteps, BarrierKey
<1>2. ControlInv'
  BY DEF ControlInv, PostUnsealSteps
<1>3. DeliveryInv'
  BY DEF DeliveryInv, InitSteps
<1>4. BarrierInv'
  BY ConfigFacts DEF BarrierInv, SealedHoldsNoDataKey, ControlInv, PostUnsealSteps, TypeOK
<1>5. RegistrationInv'
  BY ConfigFacts DEF RegistrationInv, Clean, BarrierInv, SealedHoldsNoDataKey, UnsealedMeansReady
<1>6. OpenedByQuorum'
  BY DEF OpenedByQuorum, InitSteps
<1>7. UnsealedMeansReady'
  BY DEF UnsealedMeansReady
<1> QED BY <1>1, <1>2, <1>3, <1>4, <1>5, <1>6, <1>7

LEMMA InitSplitFailsIInv ==
  ASSUME IInv, InitSplitFails
  PROVE  IInv'
<1> USE DEF IInv, InitSplitFails, Return, storageVars, moduleVars, coreVars, barrierVars, historyVars
<1>1. TypeOK'
  BY DEF TypeOK, Steps, PostUnsealSteps, InitSteps, BarrierKey, Share
<1>2. ControlInv'
  BY DEF ControlInv, PostUnsealSteps
<1>3. DeliveryInv'
  BY DEF DeliveryInv, InitSteps
<1>4. BarrierInv'
  BY DEF BarrierInv, SealedHoldsNoDataKey
<1>5. RegistrationInv'
  BY DEF RegistrationInv, Clean
<1>6. OpenedByQuorum'
  BY ConfigFacts DEF OpenedByQuorum, InitSteps, BarrierInv, SealedHoldsNoDataKey, UnsealedMeansReady
<1>7. UnsealedMeansReady'
  BY DEF UnsealedMeansReady
<1> QED BY <1>1, <1>2, <1>3, <1>4, <1>5, <1>6, <1>7

LEMMA RootTokenIInv ==
  ASSUME IInv, RootToken
  PROVE  IInv'
<1> USE DEF IInv, RootToken, Goto, storageVars, moduleVars, coreVars, barrierVars, historyVars
<1>1. TypeOK'
  BY DEF TypeOK, Steps, PostUnsealSteps, InitSteps, BarrierKey, Share
<1>2. ControlInv'
  BY DEF ControlInv, PostUnsealSteps
<1>3. DeliveryInv'
  BY DEF DeliveryInv, InitSteps
<1>4. BarrierInv'
  BY DEF BarrierInv, SealedHoldsNoDataKey
<1>5. RegistrationInv'
  BY DEF RegistrationInv, Clean
<1>6. OpenedByQuorum'
  BY DEF OpenedByQuorum, InitSteps
<1>7. UnsealedMeansReady'
  BY DEF UnsealedMeansReady
<1> QED BY <1>1, <1>2, <1>3, <1>4, <1>5, <1>6, <1>7

LEMMA RootTokenFailsIInv ==
  ASSUME IInv, RootTokenFails
  PROVE  IInv'
<1> USE DEF IInv, RootTokenFails, Return, BarrierSeal, storageVars, moduleVars, coreVars, barrierVars, historyVars
<1>1. TypeOK'
  BY DEF TypeOK, Steps, PostUnsealSteps, InitSteps, BarrierKey, Share
<1>2. ControlInv'
  BY DEF ControlInv, PostUnsealSteps
<1>3. DeliveryInv'
  BY DEF DeliveryInv, InitSteps
<1>4. BarrierInv'
  BY DEF BarrierInv, SealedHoldsNoDataKey
<1>5. RegistrationInv'
  BY DEF RegistrationInv, Clean, ControlInv, DeliveryInv, InitSteps
<1>6. OpenedByQuorum'
  BY DEF OpenedByQuorum, InitSteps
<1>7. UnsealedMeansReady'
  BY ConfigFacts DEF UnsealedMeansReady, BarrierInv, SealedHoldsNoDataKey
<1> QED BY <1>1, <1>2, <1>3, <1>4, <1>5, <1>6, <1>7

LEMMA InitDoneIInv ==
  ASSUME IInv, InitDone
  PROVE  IInv'
<1> USE DEF IInv, InitDone, Return, PreSeal, BarrierSeal, storageVars, moduleVars, coreVars, barrierVars, historyVars
<1>1. TypeOK'
  BY DEF TypeOK, Steps, PostUnsealSteps, InitSteps, BarrierKey, Share
<1>2. ControlInv'
  BY DEF ControlInv, PostUnsealSteps
<1>3. DeliveryInv'
  BY ConfigFacts DEF DeliveryInv, InitSteps, ControlInv, PostUnsealSteps, TypeOK
<1>4. BarrierInv'
  BY DEF BarrierInv, SealedHoldsNoDataKey
<1>5. RegistrationInv'
  BY DEF RegistrationInv, Clean
<1>6. OpenedByQuorum'
  BY DEF OpenedByQuorum, InitSteps
<1>7. UnsealedMeansReady'
  BY ConfigFacts DEF UnsealedMeansReady, BarrierInv, SealedHoldsNoDataKey
<1> QED BY <1>1, <1>2, <1>3, <1>4, <1>5, <1>6, <1>7

LEMMA UnsealProgressIInv ==
  ASSUME IInv, NEW key \in delivered \cup Forged, UnsealProgress(key)
  PROVE  IInv'
<1> USE DEF IInv, UnsealProgress, Idle, Return, storageVars, moduleVars, coreVars, barrierVars, historyVars
<1>1. TypeOK'
  BY DEF TypeOK, Steps, PostUnsealSteps, InitSteps, BarrierKey, Share
<1>2. ControlInv'
  BY DEF ControlInv, PostUnsealSteps
<1>3. DeliveryInv'
  BY DEF DeliveryInv, InitSteps
<1>4. BarrierInv'
  BY DEF BarrierInv, SealedHoldsNoDataKey
<1>5. RegistrationInv'
  BY DEF RegistrationInv, Clean
<1>6. OpenedByQuorum'
  BY DEF OpenedByQuorum, InitSteps
<1>7. UnsealedMeansReady'
  BY DEF UnsealedMeansReady
<1> QED BY <1>1, <1>2, <1>3, <1>4, <1>5, <1>6, <1>7

LEMMA SealCallIInv ==
  ASSUME IInv, SealCall
  PROVE  IInv'
<1> USE DEF IInv, SealCall, Idle, Return, PreSeal, BarrierSeal, storageVars, moduleVars, coreVars, barrierVars, historyVars
<1>1. TypeOK'
  BY DEF TypeOK, Steps, PostUnsealSteps, InitSteps, BarrierKey, Share
<1>2. ControlInv'
  BY DEF ControlInv, PostUnsealSteps
<1>3. DeliveryInv'
  BY DEF DeliveryInv, InitSteps
<1>4. BarrierInv'
  BY DEF BarrierInv, SealedHoldsNoDataKey
<1>5. RegistrationInv'
  BY DEF RegistrationInv, Clean
<1>6. OpenedByQuorum'
  BY DEF OpenedByQuorum, InitSteps
<1>7. UnsealedMeansReady'
  BY DEF UnsealedMeansReady
<1> QED BY <1>1, <1>2, <1>3, <1>4, <1>5, <1>6, <1>7

LEMMA SealPanicsIInv ==
  ASSUME IInv, SealPanics
  PROVE  IInv'
<1> USE DEF IInv, SealPanics, Idle, Return, storageVars, moduleVars, coreVars, barrierVars, historyVars
<1>1. TypeOK'
  BY DEF TypeOK, Steps, PostUnsealSteps, InitSteps, BarrierKey, Share
<1>2. ControlInv'
  BY DEF ControlInv, PostUnsealSteps
<1>3. DeliveryInv'
  BY DEF DeliveryInv, InitSteps
<1>4. BarrierInv'
  BY DEF BarrierInv, SealedHoldsNoDataKey
<1>5. RegistrationInv'
  BY DEF RegistrationInv, Clean
<1>6. OpenedByQuorum'
  BY ConfigFacts DEF OpenedByQuorum, InitSteps, ControlInv, PostUnsealSteps, TypeOK
<1>7. UnsealedMeansReady'
  BY DEF UnsealedMeansReady
<1> QED BY <1>1, <1>2, <1>3, <1>4, <1>5, <1>6, <1>7

LEMMA CrashIInv ==
  ASSUME IInv, Crash
  PROVE  IInv'
<1> USE DEF IInv, Crash, FreshProcess, storageVars, moduleVars, coreVars, barrierVars, historyVars
<1>1. TypeOK'
  BY DEF TypeOK, Steps, PostUnsealSteps, InitSteps, BarrierKey, Share
<1>2. ControlInv'
  BY DEF ControlInv, PostUnsealSteps
<1>3. DeliveryInv'
  BY DEF DeliveryInv, InitSteps
<1>4. BarrierInv'
  BY DEF BarrierInv, SealedHoldsNoDataKey
<1>5. RegistrationInv'
  BY DEF RegistrationInv, Clean
<1>6. OpenedByQuorum'
  BY DEF OpenedByQuorum, InitSteps
<1>7. UnsealedMeansReady'
  BY DEF UnsealedMeansReady
<1> QED BY <1>1, <1>2, <1>3, <1>4, <1>5, <1>6, <1>7

\* An error in post_unseal, whatever the step has registered by then.
LEMMA PostUnsealFailsIInv ==
  ASSUME IInv, pc \in PostUnsealSteps, PostUnsealFails,
         backends' \in SUBSET {"module", "token"}, mounted' \in BOOLEAN,
         tokenStore' \in BOOLEAN, handlers' \in SUBSET {"token", "policy"}
  PROVE  IInv'
<1> USE DEF IInv, PostUnsealFails, Return, BarrierSeal, storageVars, barrierVars, historyVars
<1>0. caller \in {"init", "unseal"} /\ coreSealed /\ ~barrierSealed /\ barrierInit
  BY DEF TypeOK, ControlInv, BarrierInv, PostUnsealSteps
<1>1. TypeOK'
  <2>1. reply' \in {"none", "init", "unseal", "seal", "request"}
                   \X {"none", "ok", "err", "progress", "panic", "poisoned"}
    BY <1>0
  <2>2. barrierSealed' \in BOOLEAN /\ barrierKey' \in BarrierKey
    BY DEF TypeOK, BarrierKey
  <2> QED BY <2>1, <2>2 DEF TypeOK, Steps
<1>2. ControlInv'
  BY <1>0 DEF ControlInv, PostUnsealSteps
<1>3. DeliveryInv'
  BY DEF DeliveryInv, InitSteps
<1>4. BarrierInv'
  BY <1>0 DEF BarrierInv, SealedHoldsNoDataKey
<1>5. RegistrationInv'
  BY <1>0 DEF RegistrationInv, DeliveryInv
<1>6. OpenedByQuorum'
  BY <1>0 DEF OpenedByQuorum, PostUnsealSteps, InitSteps
<1>7. UnsealedMeansReady'
  BY <1>0 DEF UnsealedMeansReady
<1> QED BY <1>1, <1>2, <1>3, <1>4, <1>5, <1>6, <1>7

LEMMA PostSetupIInv ==
  ASSUME IInv, PostSetup
  PROVE  IInv'
<1> USE DEF IInv, PostSetup, Goto, storageVars, moduleVars, coreVars, barrierVars, historyVars
<1>0. "module" \notin backends
  BY DEF RegistrationInv, Clean
<1>1. TypeOK'
  BY <1>0 DEF TypeOK, Steps, PostUnsealSteps
<1>2. ControlInv'
  BY <1>0 DEF ControlInv, PostUnsealSteps
<1>3. DeliveryInv'
  BY <1>0 DEF DeliveryInv, InitSteps
<1>4. BarrierInv'
  BY <1>0 DEF BarrierInv, SealedHoldsNoDataKey, ControlInv
<1>5. RegistrationInv'
  BY <1>0 DEF RegistrationInv, Clean, BarrierInv, ControlInv
<1>6. OpenedByQuorum'
  BY <1>0 DEF OpenedByQuorum, InitSteps
<1>7. UnsealedMeansReady'
  BY <1>0 DEF UnsealedMeansReady, BarrierInv
<1> QED BY <1>1, <1>2, <1>3, <1>4, <1>5, <1>6, <1>7

LEMMA PostMountsIInv ==
  ASSUME IInv, PostMounts
  PROVE  IInv'
<1> USE DEF IInv, Goto, storageVars, moduleVars, coreVars, barrierVars, historyVars
<1>0. pc = "mounts"
  BY DEF PostMounts
<1>1. CASE PostUnsealFails /\ UNCHANGED moduleVars
  BY <1>0, <1>1, PostUnsealFailsIInv DEF TypeOK, PostUnsealSteps
<1>2. CASE /\ mounted' = TRUE
           /\ Goto("auth")
           /\ UNCHANGED <<storageVars, coreSealed, keyShares, backends, tokenStore,
                          handlers, poisoned, barrierVars, historyVars>>
  <2>1. TypeOK'
    BY <1>0, <1>2 DEF TypeOK, Steps, PostUnsealSteps, InitSteps
  <2>2. ControlInv'
    BY <1>0, <1>2 DEF ControlInv, PostUnsealSteps
  <2>3. DeliveryInv'
    BY <1>0, <1>2 DEF DeliveryInv, InitSteps
  <2>4. BarrierInv'
    BY <1>0, <1>2 DEF BarrierInv, SealedHoldsNoDataKey, ControlInv
  <2>5. RegistrationInv'
    BY <1>0, <1>2 DEF RegistrationInv, Clean, BarrierInv, ControlInv
  <2>6. OpenedByQuorum'
    BY <1>0, <1>2 DEF OpenedByQuorum, InitSteps
  <2>7. UnsealedMeansReady'
    BY <1>0, <1>2 DEF UnsealedMeansReady, BarrierInv
  <2> QED BY <2>1, <2>2, <2>3, <2>4, <2>5, <2>6, <2>7
<1> QED BY <1>1, <1>2 DEF PostMounts

LEMMA PostAuthIInv ==
  ASSUME IInv, PostAuth
  PROVE  IInv'
<1> USE DEF IInv, Goto, storageVars, moduleVars, coreVars, barrierVars, historyVars
<1>0. pc = "auth"
  BY DEF PostAuth
<1>1. CASE /\ \/ UNCHANGED <<tokenStore, backends>>
              \/ tokenStore' = TRUE /\ backends' = backends \cup {"token"}
           /\ PostUnsealFails
           /\ UNCHANGED <<mounted, handlers>>
  BY <1>0, <1>1, PostUnsealFailsIInv DEF TypeOK, PostUnsealSteps
<1>2. CASE /\ tokenStore' = TRUE
           /\ backends' = backends \cup {"token"}
           /\ handlers' = handlers \cup {"token"}
           /\ Goto("policy")
           /\ UNCHANGED <<storageVars, coreSealed, keyShares, mounted, poisoned,
                          barrierVars, historyVars>>
  <2>1. TypeOK'
    BY <1>0, <1>2 DEF TypeOK, Steps, PostUnsealSteps, InitSteps
  <2>2. ControlInv'
    BY <1>0, <1>2 DEF ControlInv, PostUnsealSteps
  <2>3. DeliveryInv'
    BY <1>0, <1>2 DEF DeliveryInv, InitSteps
  <2>4. BarrierInv'
    BY <1>0, <1>2 DEF BarrierInv, SealedHoldsNoDataKey, ControlInv
  <2>5. RegistrationInv'
    BY <1>0, <1>2 DEF RegistrationInv, Clean, BarrierInv, ControlInv
  <2>6. OpenedByQuorum'
    BY <1>0, <1>2 DEF OpenedByQuorum, InitSteps
  <2>7. UnsealedMeansReady'
    BY <1>0, <1>2 DEF UnsealedMeansReady, BarrierInv
  <2> QED BY <2>1, <2>2, <2>3, <2>4, <2>5, <2>6, <2>7
<1> QED BY <1>1, <1>2 DEF PostAuth

LEMMA PostPolicyIInv ==
  ASSUME IInv, PostPolicy
  PROVE  IInv'
<1> USE DEF IInv, storageVars, moduleVars, coreVars, barrierVars, historyVars
<1>0. pc = "policy"
  BY DEF PostPolicy
<1>1. CASE PostUnsealFails /\ UNCHANGED moduleVars
  BY <1>0, <1>1, PostUnsealFailsIInv DEF TypeOK, PostUnsealSteps
<1>2. CASE /\ handlers' = handlers \cup {"policy"}
           /\ caller = "init" /\ Goto("root_token") /\ UNCHANGED coreSealed
           /\ UNCHANGED <<storageVars, keyShares, backends, mounted, tokenStore,
                          poisoned, barrierVars, historyVars>>
  <2> USE DEF Goto
  <2>1. TypeOK'
    BY <1>0, <1>2 DEF TypeOK, Steps, PostUnsealSteps, InitSteps
  <2>2. ControlInv'
    BY <1>0, <1>2 DEF ControlInv, PostUnsealSteps
  <2>3. DeliveryInv'
    BY <1>0, <1>2 DEF DeliveryInv, InitSteps
  <2>4. BarrierInv'
    BY <1>0, <1>2 DEF BarrierInv, SealedHoldsNoDataKey, ControlInv
  <2>5. RegistrationInv'
    BY <1>0, <1>2 DEF RegistrationInv, Clean, BarrierInv, ControlInv
  <2>6. OpenedByQuorum'
    BY <1>0, <1>2 DEF OpenedByQuorum, InitSteps
  <2>7. UnsealedMeansReady'
    BY <1>0, <1>2 DEF UnsealedMeansReady, BarrierInv
  <2> QED BY <2>1, <2>2, <2>3, <2>4, <2>5, <2>6, <2>7
<1>3. CASE /\ handlers' = handlers \cup {"policy"}
           /\ caller # "init" /\ Return("unseal", "ok") /\ coreSealed' = FALSE
           /\ UNCHANGED <<storageVars, keyShares, backends, mounted, tokenStore,
                          poisoned, barrierVars, historyVars>>
  <2> USE DEF Return
  <2>1. TypeOK'
    BY <1>0, <1>3 DEF TypeOK, Steps, PostUnsealSteps, InitSteps
  <2>2. ControlInv'
    BY <1>0, <1>3 DEF ControlInv, PostUnsealSteps
  <2>3. DeliveryInv'
    BY <1>0, <1>3 DEF DeliveryInv, InitSteps
  <2>4. BarrierInv'
    BY <1>0, <1>3 DEF BarrierInv, SealedHoldsNoDataKey, ControlInv, TypeOK
  <2>5. RegistrationInv'
    BY <1>0, <1>3 DEF RegistrationInv, Clean, BarrierInv, ControlInv, TypeOK
  <2>6. OpenedByQuorum'
    BY <1>0, <1>3 DEF OpenedByQuorum, InitSteps
  <2>7. UnsealedMeansReady'
    BY <1>0, <1>3 DEF UnsealedMeansReady, BarrierInv, SealedHoldsNoDataKey, TypeOK, ControlInv, RegistrationInv
  <2> QED BY <2>1, <2>2, <2>3, <2>4, <2>5, <2>6, <2>7
<1> QED BY <1>1, <1>2, <1>3 DEF PostPolicy

\* The last share.  If the barrier opens, every collected share was genuine,
\* so the shares were handed out by an init that finished, and that init or
\* the seal after it left nothing registered.
LEMMA UnsealLastIInv ==
  ASSUME IInv, NEW key \in delivered \cup Forged, UnsealLast(key)
  PROVE  IInv'
<1> USE DEF IInv, storageVars, moduleVars, coreVars, barrierVars, historyVars
<1>0. /\ pc = "idle" /\ caller = "none" /\ ~poisoned /\ coreSealed
      /\ barrierInit /\ barrierSealed /\ sealConfig \in SealConfig
      /\ keyShares' = {}
      /\ UNCHANGED <<storageVars, coreSealed, moduleVars, poisoned, delivered>>
  BY DEF UnsealLast, Idle, TypeOK, ControlInv, PostUnsealSteps, UnsealedMeansReady
<1>1. CASE Return("unseal", "err") /\ UNCHANGED <<barrierSealed, quorum>>
           /\ barrierKey' \in {barrierKey, "wrong"}
  <2> USE DEF Return
  <2>1. TypeOK'
    BY <1>0, <1>1 DEF TypeOK, Steps, BarrierKey
  <2>2. ControlInv'
    BY <1>0, <1>1 DEF ControlInv, PostUnsealSteps
  <2>3. DeliveryInv'
    BY <1>0, <1>1 DEF DeliveryInv, InitSteps
  <2>4. BarrierInv'
    BY <1>0, <1>1 DEF BarrierInv, SealedHoldsNoDataKey, ControlInv
  <2>5. RegistrationInv'
    BY <1>0, <1>1 DEF RegistrationInv, Clean
  <2>6. OpenedByQuorum'
    BY <1>0, <1>1 DEF OpenedByQuorum, InitSteps
  <2>7. UnsealedMeansReady'
    BY <1>0, <1>1 DEF UnsealedMeansReady, BarrierInv
  <2> QED BY <2>1, <2>2, <2>3, <2>4, <2>5, <2>6, <2>7
<1>2. CASE /\ "kek" \in Recover(keyShares \cup {key}, sealConfig)
           /\ barrierKey' = "data"
           /\ barrierSealed' = FALSE
           /\ quorum' = keyShares \cup {key}
           /\ pc' = "setup"
           /\ caller' = "unseal"
           /\ UNCHANGED <<initShares, reply>>
  <2>0. quorum' \subseteq delivered /\ quorum' \subseteq GenuineShare /\ quorum' # {}
    <3>1. quorum' \subseteq GenuineShare
      BY <1>2, RecoverGenuine
    <3>2. keyShares \cup {key} \subseteq delivered \cup Forged
      BY DEF DeliveryInv
    <3> QED BY <1>2, <3>1, <3>2, ConfigFacts
  <2>1. TypeOK'
    BY <1>0, <1>2, <2>0 DEF TypeOK, Steps, PostUnsealSteps, BarrierKey, Share
  <2>2. ControlInv'
    BY <1>0, <1>2 DEF ControlInv, PostUnsealSteps
  <2>3. DeliveryInv'
    BY <1>0, <1>2 DEF DeliveryInv, InitSteps
  <2>4. BarrierInv'
    BY <1>0, <1>2 DEF BarrierInv, SealedHoldsNoDataKey
  <2>5. RegistrationInv'
    BY <1>0, <1>2, <2>0 DEF RegistrationInv, Clean
  <2>6. OpenedByQuorum'
    BY <1>0, <1>2, <2>0 DEF OpenedByQuorum, UnsealLast
  <2>7. UnsealedMeansReady'
    BY <1>0 DEF UnsealedMeansReady
  <2> QED BY <2>1, <2>2, <2>3, <2>4, <2>5, <2>6, <2>7
<1> QED BY <1>1, <1>2 DEF UnsealLast

\* Calls that only answer.
LEMMA AnswerIInv ==
  ASSUME IInv, pc = "idle",
         NEW call \in {"init", "unseal", "seal", "request"},
         NEW result \in {"ok", "err", "poisoned"},
         Return(call, result),
         UNCHANGED <<storageVars, coreVars, barrierVars, historyVars>>
  PROVE  IInv'
<1> USE DEF IInv, Return, storageVars, moduleVars, coreVars, barrierVars, historyVars
<1>0. caller = "none"
  BY DEF TypeOK, ControlInv, PostUnsealSteps
<1>1. TypeOK'
  BY DEF TypeOK, Steps
<1>2. ControlInv'
  BY DEF ControlInv, PostUnsealSteps
<1>3. DeliveryInv'
  BY DEF DeliveryInv, InitSteps
<1>4. BarrierInv'
  BY DEF BarrierInv, SealedHoldsNoDataKey
<1>5. RegistrationInv'
  BY DEF RegistrationInv, Clean
<1>6. OpenedByQuorum'
  BY <1>0 DEF OpenedByQuorum, InitSteps
<1>7. UnsealedMeansReady'
  BY DEF UnsealedMeansReady
<1> QED BY <1>1, <1>2, <1>3, <1>4, <1>5, <1>6, <1>7

LEMMA StutterIInv == IInv /\ UNCHANGED vars => IInv'
<1> SUFFICES ASSUME IInv, UNCHANGED vars PROVE IInv'
  OBVIOUS
<1> USE DEF IInv, vars, callVars, storageVars, moduleVars, coreVars, barrierVars, historyVars
<1>1. TypeOK' /\ ControlInv' /\ DeliveryInv'
  BY DEF TypeOK, ControlInv, DeliveryInv
<1>2. BarrierInv' /\ RegistrationInv' /\ OpenedByQuorum' /\ UnsealedMeansReady'
  BY DEF BarrierInv, SealedHoldsNoDataKey, RegistrationInv, Clean, OpenedByQuorum,
         UnsealedMeansReady
<1> QED BY <1>1, <1>2

LEMMA CallIInv == IInv /\ Call => IInv'
<1> SUFFICES ASSUME IInv, Call PROVE IInv'
  OBVIOUS
<1>0. poisoned => pc = "idle"
  BY DEF IInv, ControlInv
<1>1. ASSUME NEW c \in SealConfig, InitCall(c) \/ InitRefused(c) PROVE IInv'
  BY <1>1, InitCallIInv, AnswerIInv DEF InitRefused, Idle
<1>2. ASSUME NEW key \in delivered \cup Forged,
             UnsealRefused(key) \/ UnsealProgress(key) \/ UnsealLast(key)
      PROVE  IInv'
  BY <1>2, UnsealProgressIInv, UnsealLastIInv, AnswerIInv DEF UnsealRefused, Idle
<1>3. CASE UnsealMalformed \/ SealRefused \/ Request
  BY <1>3, AnswerIInv DEF UnsealMalformed, SealRefused, Request, Idle
<1>4. CASE SealCall \/ SealPanics
  BY <1>4, SealCallIInv, SealPanicsIInv
<1>5. ASSUME NEW call \in {"init", "unseal", "seal", "request"}, CallPoisoned(call)
      PROVE  IInv'
  BY <1>0, <1>5, AnswerIInv DEF CallPoisoned
<1> QED BY <1>1, <1>2, <1>3, <1>4, <1>5 DEF Call

LEMMA NextIInv == IInv /\ [Next]_vars => IInv'
<1>1. IInv /\ Step => IInv'
  BY InitBarrierIInv, InitBarrierFailsIInv, InitSplitIInv, InitSplitFailsIInv,
     RootTokenIInv, RootTokenFailsIInv, InitDoneIInv, PostSetupIInv, PostMountsIInv,
     PostAuthIInv, PostPolicyIInv DEF Step
<1>2. IInv /\ Crash => IInv'
  BY CrashIInv
<1> QED BY <1>1, <1>2, CallIInv, StutterIInv DEF Next

-----------------------------------------------------------------------------
(* The theorems. *)

\* The inductive invariant holds in every state of every behaviour.
THEOREM Invariance == Spec => []IInv
  BY InitIInv, NextIInv, PTL DEF Spec

\* The variables always have their types.
THEOREM TypeCorrect == Spec => []TypeOK
<1>1. IInv => TypeOK
  BY DEF IInv
<1> QED BY <1>1, Invariance, PTL

\* A request that gets past Core::sealed finds the barrier open and every
\* module in place, after any sequence of calls, storage errors and crashes.
THEOREM ReadyWhenUnsealed == Spec => []UnsealedMeansReady
<1>1. IInv => UnsealedMeansReady
  BY DEF IInv
<1> QED BY <1>1, Invariance, PTL

\* A sealed barrier never holds the key of the data.
THEOREM NoDataKeyWhenSealed == Spec => []SealedHoldsNoDataKey
<1>1. IInv => SealedHoldsNoDataKey
  BY DEF IInv, BarrierInv
<1> QED BY <1>1, Invariance, PTL

\* The barrier is opened by a threshold of delivered shares and nothing less.
THEOREM QuorumNeeded == Spec => []OpenedByQuorum
<1>1. IInv => OpenedByQuorum
  BY DEF IInv
<1> QED BY <1>1, Invariance, PTL

\* post_unseal always starts with nothing registered.
THEOREM CleanStart == Spec => []RegistrationsClean
<1>1. IInv => RegistrationsClean
  BY DEF IInv, RegistrationInv, Clean, RegistrationsClean
<1> QED BY <1>1, Invariance, PTL

\* The interval Split returns has as many members as its upper bound.
LEMMA IntervalSize ==
  ASSUME NEW n \in Nat
  PROVE  Cardinality(1 .. n) = n
<1>1. Cardinality(1 .. n) = IF 1 > n THEN 0 ELSE n - 1 + 1
  BY FS_Interval
<1> QED BY <1>1

\* There are at least a threshold of shares among those init returns, if any.
LEMMA EnoughShares ==
  ASSUME NEW c \in SealConfig, Valid(c), NEW D \in InitSharesOutcomes(c), D # {}
  PROVE  Cardinality(D) >= c.secret_threshold
<1>1. c.secret_shares \in Byte /\ c.secret_threshold \in Byte /\ Byte \subseteq Nat
  BY ConfigFacts
<1>2. CASE c.secret_shares = 1
  <2>1. D = {1}
    BY <1>2 DEF InitSharesOutcomes
  <2>2. Cardinality(D) = 1
    BY <2>1, FS_Singleton
  <2> QED BY <1>1, <1>2, <2>2 DEF Valid
<1>3. CASE c.secret_shares # 1
  <2>1. D = Split(c)
    BY <1>3 DEF InitSharesOutcomes
  <2>2. c.secret_shares + 1 # ByteRange
    <3> SUFFICES ASSUME c.secret_shares + 1 = ByteRange PROVE FALSE
      OBVIOUS
    <3>1. (c.secret_shares + 1) % ByteRange = 0
      BY Z3
    <3> QED BY <2>1, <3>1 DEF Split
  <2>3. c.secret_shares + 1 \in 1 .. ByteRange - 1
    BY <1>1, <2>2 DEF Byte
  <2>4. (c.secret_shares + 1) % ByteRange = c.secret_shares + 1
    BY <2>3
  <2>5. D = 1 .. c.secret_shares
    <3>1. c.secret_shares \in Nat
      BY <1>1
    <3>2. (c.secret_shares + 1) - 1 = c.secret_shares
      BY <3>1
    <3> QED BY <2>1, <2>4, <3>2 DEF Split
  <2>6. Cardinality(D) = c.secret_shares
    <3>1. c.secret_shares \in Nat
      BY <1>1
    <3> QED BY <2>5, <3>1, IntervalSize
  <2> QED BY <1>1, <2>6 DEF Valid
<1> QED BY <1>2, <1>3

\* The shares in the operators' hands always fit the stored seal-config.
THEOREM SharesAlwaysFit == Spec => []SharesFitConfig
<1>1. IInv => SharesFitConfig
  <2> SUFFICES ASSUME IInv, delivered # {}, sealConfig.secret_threshold >= 1
               PROVE  /\ Cardinality(delivered) >= sealConfig.secret_threshold
                      /\ \A S \in SUBSET delivered :
                            Cardinality(S) = sealConfig.secret_threshold =>
                                Recover(S, sealConfig) = {"kek"}
    BY DEF SharesFitConfig
  <2>1. /\ sealConfig \in SealConfig /\ Valid(sealConfig)
        /\ delivered \in InitSharesOutcomes(sealConfig)
        /\ delivered \subseteq GenuineShare
    BY DEF IInv, TypeOK, ControlInv, DeliveryInv
  <2>2. sealConfig.secret_threshold \in Nat
    BY <2>1, ConfigFacts
  <2>3. ASSUME NEW S \in SUBSET delivered, Cardinality(S) = sealConfig.secret_threshold
        PROVE  Recover(S, sealConfig) = {"kek"}
    BY <2>1, <2>2, <2>3 DEF Recover
  <2> QED BY <2>1, <2>3, EnoughShares
<1> QED BY <1>1, Invariance, PTL

-----------------------------------------------------------------------------
(* CoreSeal implements SealContract. *)

LEMMA InitContract == Init => Contract!ContractInit
  BY DEF Init, Contract!ContractInit

LEMMA StepContract == IInv /\ [Next]_vars => [Contract!ContractNext]_(Contract!contractVars)
<1> SUFFICES ASSUME IInv, [Next]_vars
             PROVE  [Contract!ContractNext]_(Contract!contractVars)
  OBVIOUS
<1> USE DEF storageVars, moduleVars, coreVars, barrierVars, historyVars, Contract!contractVars
<1>1. CASE InitBarrier
  <2>1. ~barrierInit /\ sealConfig \in SealConfig
    BY <1>1 DEF InitBarrier, IInv, ControlInv, TypeOK
  <2>2. sealConfig.secret_threshold \in Nat
    BY <2>1, ConfigFacts
  <2>3. Contract!SetUp
    BY <1>1, <2>1, <2>2 DEF InitBarrier, Contract!SetUp
  <2> QED BY <2>3 DEF Contract!ContractNext
<1>2. CASE InitDone
  <2>1. delivered = {} /\ coreSealed /\ barrierInit /\ initShares \subseteq GenuineShare
    BY <1>2 DEF InitDone, IInv, DeliveryInv, InitSteps, ControlInv, TypeOK
  <2>2. Contract!HandOut
    BY <1>2, <2>1 DEF InitDone, Contract!HandOut, Share
  <2> QED BY <2>2 DEF Contract!ContractNext
<1>3. CASE PostPolicy /\ coreSealed' # coreSealed
  <2>1. /\ caller = "unseal" /\ coreSealed /\ coreSealed' = FALSE /\ barrierInit
        /\ pc = "policy" /\ ~barrierSealed
        /\ UNCHANGED <<storageVars, historyVars>>
    BY <1>3 DEF PostPolicy, PostUnsealFails, IInv, TypeOK, ControlInv, BarrierInv
  <2>2. quorum \in (SUBSET delivered) \ {{}}
        /\ Cardinality(quorum) >= sealConfig.secret_threshold
    BY <2>1 DEF IInv, OpenedByQuorum, InitSteps
  <2>3. (IF coreSealed' THEN {} ELSE quorum') = quorum
    BY <2>1
  <2>4. (IF barrierInit THEN sealConfig.secret_threshold ELSE 0) = sealConfig.secret_threshold
    BY <2>1
  <2>5. (IF barrierInit' THEN sealConfig'.secret_threshold ELSE 0)
            = (IF barrierInit THEN sealConfig.secret_threshold ELSE 0)
    BY <2>1
  <2>6. barrierInit' = barrierInit /\ delivered' = delivered
    BY <2>1
  <2>7. Contract!Open
    <3>1. barrierInit /\ ~~coreSealed /\ (~coreSealed') = TRUE
      BY <2>1
    <3>2. (IF coreSealed' THEN {} ELSE quorum') \in (SUBSET delivered) \ {{}}
      BY <2>2, <2>3
    <3>3. Cardinality(IF coreSealed' THEN {} ELSE quorum')
              >= (IF barrierInit THEN sealConfig.secret_threshold ELSE 0)
      BY <2>2, <2>3, <2>4
    <3>4. ASSUME NEW S PROVE Contract!Cardinality(S) = Cardinality(S)
      BY DEF Contract!Cardinality, Cardinality
    <3> QED BY <3>1, <3>2, <3>3, <3>4, <2>5, <2>6, Zenon DEF Contract!Open
  <2> QED BY <2>7 DEF Contract!ContractNext
<1>4. CASE SealCall \/ Crash
  <2>1. /\ coreSealed' = TRUE /\ quorum' = {}
        /\ UNCHANGED <<storageVars, delivered>>
    BY <1>4 DEF SealCall, Crash, FreshProcess
  <2>2. coreSealed \in BOOLEAN
    BY DEF IInv, TypeOK
  <2>3. CASE coreSealed
    BY <2>1, <2>3
  <2>4. CASE ~coreSealed
    BY <2>1, <2>4 DEF Contract!Close, Contract!ContractNext
  <2> QED BY <2>2, <2>3, <2>4
<1>5. CASE /\ UNCHANGED <<barrierInit, delivered, coreSealed>>
           /\ sealConfig' = sealConfig \/ ~barrierInit
           /\ quorum' = quorum \/ coreSealed
  BY <1>5
<1>6. ASSUME NEW key \in delivered \cup Forged, UnsealLast(key)
      PROVE  coreSealed /\ UNCHANGED <<storageVars, delivered, coreSealed>>
  BY <1>6 DEF UnsealLast, IInv, UnsealedMeansReady
<1>7. CASE UNCHANGED vars
  BY <1>5, <1>7 DEF vars
<1>8. CASE Call /\ ~SealCall
  BY <1>5, <1>6, <1>8
     DEF Call, InitCall, InitRefused, UnsealRefused, UnsealProgress, UnsealMalformed,
         SealRefused, SealPanics, Request, CallPoisoned
<1>9. CASE Step /\ ~InitBarrier /\ ~InitDone /\ ~(PostPolicy /\ coreSealed' # coreSealed)
  BY <1>5, <1>9
     DEF Step, InitBarrierFails, InitSplit, InitSplitFails, RootToken, RootTokenFails,
         PostSetup, PostMounts, PostAuth, PostPolicy, PostUnsealFails
<1> QED BY <1>1, <1>2, <1>3, <1>4, <1>7, <1>8, <1>9 DEF Next

\* The calls of core.rs, with every error path and every crash, implement the
\* contract: set up once, serve only when opened by a quorum.
THEOREM Refinement == Spec => ImplementsContract
  BY InitContract, StepContract, Invariance, PTL
     DEF Spec, ImplementsContract, Contract!ContractSpec
=============================================================================
