------------------------------ MODULE MCTokens ------------------------------
(* An instance of Tokens for TLC. *)
EXTENDS Tokens

\* A child token, a token with two uses and an id of its own, a root token.
MCTokenReq ==
    {[id |-> FALSE, num_uses |-> 0, root |-> FALSE, no_parent |-> FALSE],
     [id |-> TRUE, num_uses |-> 2, root |-> FALSE, no_parent |-> FALSE],
     [id |-> TRUE, num_uses |-> 0, root |-> TRUE, no_parent |-> FALSE]}
=============================================================================
