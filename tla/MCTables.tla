------------------------------ MODULE MCTables ------------------------------
(* The table of mounts and the table of auth methods side by side: the      *)
(* first state picks the table, and <<"std">> is the path of its protected  *)
(* default mount, sys/ or token/.  Values of the constants for TLC.         *)
EXTENDS AuthMounts

VARIABLE kind  \* the table

MCPath == {<<"std">>, <<"a">>, <<"a", "b">>}
MCProtected == {<<"std">>}
MCDefaults == << <<"std">> >>
MCCorePath == {<<"a", "b">>}
MCSymmetry == Permutations(Client)

\* Bound on the auth methods, token/ included: with more, disabling and moving
\* make too many states.
MaxMethods == 2

TablesInit == kind \in {"core", "auth"} /\ AuthInit /\ (kind = "core" => core = {})

TablesNext ==
    \/ kind = "core" /\ Next /\ UNCHANGED <<core, coreTaint, taken, kind>>
    \/ kind = "auth" /\ AuthNext /\ issued' <= MaxMethods /\ UNCHANGED kind

TablesSpec == TablesInit /\ [][TablesNext]_<<authVars, kind>>
=============================================================================
