------------------------------- MODULE MCCore -------------------------------
(* The core's life cycle and the parts it keeps keys and values with, which *)
(* share no state in the models: the first state picks the part that moves. *)
(* Values of their constants for TLC.                                       *)
EXTENDS CoreSeal, Ciphers, Storage, Shamir

VARIABLE moving  \* the part that moves

-----------------------------------------------------------------------------
\* Ciphers: modes with and without a tag, keys of both lengths.
Alg(kind, bits, mode) == [kind |-> kind, bits |-> bits, mode |-> mode]
MCAlgs == {Alg("AES", 128, "CBC"), Alg("AES", 128, "GCM"), Alg("AES", 256, "GCM"),
           Alg("AES", 128, "CCM"), Alg("SM4", 128, "GCM")}

\* Storage: a key, the same with a "/" behind it, two keys that LIKE
\* takes for one another, one that repeats the prefix of the view, one without a
\* name, and two that are refused.
MCStoreKeys ==
    {<<<<"a">>>>, <<<<"a">>, <<>>>>, <<<<"_", "a">>, <<"b">>>>, <<<<"b", "a">>, <<"b">>>>,
     <<<<"v">>, <<"b">>>>, <<<<".">>>>, <<<<"a", ".", ".">>>>, <<<<>>, <<"a">>>>}
MCView == <<<<"v">>>>
FewStored == Cardinality(DOMAIN sfiles') <= 2

\* Shamir
MCSecrets == {<<0, 83>>, <<255, 1>>}

-----------------------------------------------------------------------------
\* Where a part has several first states, the idle one keeps to the first.
CoreInit ==
    /\ moving \in {"seal", "ciphers", "storage", "shamir"}
    /\ Init /\ CipherInit /\ StoreInit /\ ShamirInit
    /\ moving # "ciphers" => enc = NewCipher(Alg("AES", 128, "CBC"))
    /\ moving # "storage" => sbackend = "mysql"

\* Only the seal always has something to do; the bounds end the other parts.
CoreNext ==
    /\ UNCHANGED moving
    /\ \/ moving = "seal" /\ Next /\ UNCHANGED <<cipherVars, storeVars, shamirVars>>
       \/ moving = "ciphers" /\ CipherNext /\ UNCHANGED <<vars, storeVars, shamirVars>>
       \/ moving = "storage" /\ StoreNext /\ FewStored /\ UNCHANGED <<vars, cipherVars, shamirVars>>
       \/ moving = "shamir" /\ ShamirNext /\ UNCHANGED <<vars, cipherVars, storeVars>>
       \/ moving # "seal" /\ UNCHANGED <<vars, cipherVars, storeVars, shamirVars>>

CoreSpec == CoreInit /\ [][CoreNext]_<<moving, vars, cipherVars, storeVars, shamirVars>>
=============================================================================
