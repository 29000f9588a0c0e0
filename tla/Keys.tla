-------------------------------- MODULE Keys --------------------------------
(***************************************************************************)
(* The named keys of the pki backend: generate, import, sign, verify,      *)
(* encrypt and decrypt (src/src/modules/pki/path_keys.rs, utils/key.rs).   *)
(*                                                                         *)
(* A key bundle is written once its name was found free, in two steps of   *)
(* storage that nothing holds together.  A signature or a ciphertext is    *)
(* the record of what made it; a text is [body, zero]: `zero` is a null    *)
(* byte within it.                                                         *)
(***************************************************************************)
EXTENDS Naturals

CONSTANTS
    KeyClients,   \* who sends requests
    KeyNames,
    KeyKinds,     \* [type, bits]: what generate is asked for, the type lowered
    KeyImports,   \* [type, pem, hex, iv]: the bits of each bundle, 0 for none
    KeyTexts, KeyAads,
    MaxKeyIds     \* bound on the keys that are made

VARIABLES
    keys,      \* config/key/<name>
    kcalls,    \* of each client, the generate or import in progress
    kids,      \* the last key that was drawn or imported
    kresults,  \* history: the signatures and ciphertexts that were returned
    kdoubt     \* history: the names whose check failed or overlapped another's write

keyVars == <<keys, kcalls, kids, kresults, kdoubt>>

NoKey == [type |-> "none"]
KeyIdle == [pc |-> "idle"]

AesTypes == {"aes-gcm", "aes-cbc", "aes-ecb"}
PemTypes == {"rsa", "ec"}

KeysInit ==
    /\ keys = [n \in KeyNames |-> NoKey]
    /\ kcalls = [c \in KeyClients |-> KeyIdle]
    /\ kids = 0
    /\ kresults = {}
    /\ kdoubt = {}

fetch_key(name) == keys[name]

-----------------------------------------------------------------------------
(* Making keys *)

\* key_bits_default, the sm types of the other build included.
key_bits_default(type) ==
    CASE type = "rsa" -> 2048
      [] type \in {"ec", "sm2"} \cup AesTypes \cup {"sm4-gcm", "sm4-ccm"} -> 256
      [] OTHER -> 0

\* cipher_from_key_type_and_bits
HasCipher(type, bits) == type \in AesTypes /\ bits \in {128, 192, 256}

\* KeyBundle::generate makes these; every AES key but an ecb one gets an iv.
Generates(type, bits) ==
    \/ type = "rsa" /\ bits \in {2048, 3072, 4096}
    \/ type = "ec" /\ bits \in {224, 256, 384, 521}
    \/ HasCipher(type, bits)

NewBundle(type, bits, iv) ==
    [type |-> type, bits |-> bits, key |-> kids + 1, iv |-> iv]

\* Slip: a name that is taken is taken again.
NameFree_any(name, failed) == TRUE

\* Only a bundle that was read takes a name: an error of storage, or in what it
\* gave, counts like none.
NameFree(name, failed) == failed \/ fetch_key(name) = NoKey

Writing(c, name) == kcalls[c] # KeyIdle /\ kcalls[c].name = name

WriteLater(c, name, bundle) ==
    /\ kcalls[c] = KeyIdle
    /\ kids < MaxKeyIds
    /\ kids' = kids + 1
    /\ kcalls' = [kcalls EXCEPT ![c] = [pc |-> "write", name |-> name, bundle |-> bundle]]
    /\ \E failed \in BOOLEAN :
          /\ NameFree(name, failed)
          /\ kdoubt' = IF failed \/ \E d \in KeyClients : Writing(d, name)
                       THEN kdoubt \cup {name} ELSE kdoubt
    /\ UNCHANGED <<keys, kresults>>

generate_key(c, name, kind) ==
    LET bits == IF kind.bits = 0 THEN key_bits_default(kind.type) ELSE kind.bits
    IN  /\ Generates(kind.type, bits)
        /\ WriteLater(c, name, NewBundle(kind.type, bits,
                                      IF kind.type \in {"aes-gcm", "aes-cbc"} THEN "full" ELSE "none"))

\* The bits come from the key; a pem is for rsa, ec and sm2, which this build can
\* not use afterwards, hex for the ciphers, so a request with both fails.  The iv
\* of a cipher that needs one may be left empty.
import_key(c, name, given) ==
    /\ given.pem # 0 \/ given.hex # 0
    /\ given.pem # 0 => given.type \in PemTypes \cup {"sm2"}
    /\ given.hex # 0 => given.hex \in {128, 192, 256} /\ given.type \in AesTypes
    /\ WriteLater(c, name, NewBundle(given.type, IF given.hex # 0 THEN given.hex ELSE given.pem,
                                  IF given.type \in {"aes-gcm", "aes-cbc"} THEN given.iv ELSE "none"))

write_key(c) ==
    /\ kcalls[c].pc = "write"
    /\ keys' = [keys EXCEPT ![kcalls[c].name] = kcalls[c].bundle]
    /\ kcalls' = [kcalls EXCEPT ![c] = KeyIdle]
    /\ UNCHANGED <<kids, kresults, kdoubt>>

\* storage_put fails, or the process stops: nothing was written.
KeyCallFails(c) ==
    /\ kcalls[c] # KeyIdle
    /\ kcalls' = [kcalls EXCEPT ![c] = KeyIdle]
    /\ UNCHANGED <<keys, kids, kresults, kdoubt>>

-----------------------------------------------------------------------------
(* Using keys *)

Refused == [body |-> "refused", zero |-> FALSE]

Signs(bundle) == bundle.type \in PemTypes
sign_result(bundle, text) == [op |-> "sign", key |-> bundle.key, text |-> text, aad |-> "none"]

\* KeyBundle::verify: TRUE for a signature of this text with this key.
verify_signature(bundle, text, sig) ==
    Signs(bundle) /\ sig.key = bundle.key /\ sig.text = text

\* OpenSSL takes gcm with any iv but an empty one, cbc with a whole one.
IvFits(bundle) ==
    CASE bundle.type = "aes-gcm" -> bundle.iv # "empty"
      [] bundle.type = "aes-cbc" -> bundle.iv = "full"
      [] OTHER -> TRUE

\* KeyBundle::encrypt: the additional data counts for gcm, and rsa uses the
\* private key, since the handlers hand over additional data and no flag.
Encrypts(bundle) ==
    \/ HasCipher(bundle.type, bundle.bits) /\ IvFits(bundle)
    \/ bundle.type = "rsa"

encrypt_result(bundle, text, aad) ==
    [op |-> "encrypt", key |-> bundle.key, text |-> text,
     aad |-> IF bundle.type = "aes-gcm" THEN aad ELSE "none"]

\* KeyBundle::decrypt: the tag is the last 16 bytes; an rsa text is cut at its
\* first null byte.
decrypt_result(bundle, made, aad) ==
    IF ~Encrypts(bundle) \/ made.key # bundle.key
       \/ (bundle.type = "aes-gcm" /\ made.aad # aad) THEN Refused
    ELSE IF bundle.type = "rsa" /\ made.text.zero THEN [body |-> "cut", zero |-> FALSE]
    ELSE made.text

Returned(name, made) ==
    /\ kresults' = kresults \cup {[name |-> name, made |-> made]}
    /\ UNCHANGED <<keys, kcalls, kids, kdoubt>>

key_sign(name, text) ==
    /\ fetch_key(name) # NoKey
    /\ Signs(fetch_key(name))
    /\ Returned(name, sign_result(fetch_key(name), text))

key_encrypt(name, text, aad) ==
    /\ fetch_key(name) # NoKey
    /\ Encrypts(fetch_key(name))
    /\ Returned(name, encrypt_result(fetch_key(name), text, aad))

\* key_verify and key_decrypt answer from the key that the name has now.
key_verify(name, text, sig) == verify_signature(fetch_key(name), text, sig)
key_decrypt(name, made, aad) == decrypt_result(fetch_key(name), made, aad)

KeysNext ==
    \/ \E c \in KeyClients :
          \/ \E n \in KeyNames, kind \in KeyKinds : generate_key(c, n, kind)
          \/ \E n \in KeyNames, given \in KeyImports : import_key(c, n, given)
          \/ write_key(c)
          \/ KeyCallFails(c)
    \/ \E n \in KeyNames, text \in KeyTexts : key_sign(n, text)
    \/ \E n \in KeyNames, text \in KeyTexts, aad \in KeyAads : key_encrypt(n, text, aad)

KeysSpec == KeysInit /\ [][KeysNext]_keyVars

-----------------------------------------------------------------------------
\* Whatever is generated, imported or refused afterwards, a signature that was
\* returned verifies under the name it was made with, for its text only, and a
\* ciphertext decrypts to its text with its additional data only; rsa keeps texts
\* without a null byte.  Two cases are excepted, in which path_keys.rs does replace
\* a key: a check of the name that failed, which passes for a free name, and two
\* generates or imports of one name at once, both of which find it free
\* (path_keys.rs:228-231, 283-286; utils/key.rs:130-259).
KeyResultsStand ==
    \A r \in {s \in kresults : s.name \notin kdoubt} :
        \/ /\ r.made.op = "sign"
           /\ \A text \in KeyTexts : key_verify(r.name, text, r.made) <=> (text = r.made.text)
        \/ /\ r.made.op = "encrypt"
           /\ \/ key_decrypt(r.name, r.made, r.made.aad) = r.made.text
              \/ keys[r.name].type = "rsa" /\ r.made.text.zero
           /\ keys[r.name].type = "aes-gcm" =>
                \A aad \in KeyAads \ {r.made.aad} : key_decrypt(r.name, r.made, aad) = Refused
=============================================================================
