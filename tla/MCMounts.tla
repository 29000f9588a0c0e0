------------------------------ MODULE MCMounts ------------------------------
(* Values of the constants of Mounts for TLC. *)
EXTENDS Mounts

MCPath == {<<"sys">>, <<"a">>, <<"a", "b">>}
MCProtected == {<<"sys">>}
MCDefaults == << <<"sys">> >>
MCSymmetry == Permutations(Client)
=============================================================================
