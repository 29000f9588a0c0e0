---------------------------- MODULE SealContract ----------------------------
(***************************************************************************)
(* What the seal of a vault promises to its operators, with nothing of how *)
(* core.rs and the barrier keep the promise.                               *)
(*                                                                         *)
(* A vault is set up at most once.  Setting it up hands out shares.  From  *)
(* then on it serves requests only while it is open, it opens only with a  *)
(* quorum of the shares that were handed out, and closing it (a seal       *)
(* request, a crash) makes the next opening need a quorum again.           *)
(***************************************************************************)
EXTENDS Naturals, FiniteSets

CONSTANTS Share       \* everything an operator could be handed

VARIABLES inited,     \* the barrier exists in storage
          shares,     \* the shares the operators were handed
          threshold,  \* how many of them open the vault
          serving,    \* requests are served
          quorum      \* the shares that were presented to open it

contractVars == <<inited, shares, threshold, serving, quorum>>

ContractInit ==
    /\ inited = FALSE
    /\ shares = {}
    /\ threshold = 0
    /\ serving = FALSE
    /\ quorum = {}

\* The one setup.  It may be cut short after the barrier is written: then
\* the vault is inited and the shares are never handed out.
SetUp ==
    /\ ~inited
    /\ inited' = TRUE
    /\ threshold' \in Nat
    /\ UNCHANGED <<shares, serving, quorum>>

\* The shares of that setup reach the operators, once.
HandOut ==
    /\ inited
    /\ shares = {}
    /\ ~serving
    /\ shares' \in SUBSET Share
    /\ UNCHANGED <<inited, threshold, serving, quorum>>

Open ==
    /\ inited
    /\ ~serving
    /\ serving' = TRUE
    /\ quorum' \in (SUBSET shares) \ {{}}
    /\ Cardinality(quorum') >= threshold
    /\ UNCHANGED <<inited, shares, threshold>>

Close ==
    /\ serving
    /\ serving' = FALSE
    /\ quorum' = {}
    /\ UNCHANGED <<inited, shares, threshold>>

ContractNext == SetUp \/ HandOut \/ Open \/ Close

ContractSpec == ContractInit /\ [][ContractNext]_contractVars
=============================================================================
