------------------------------ MODULE Ciphers ------------------------------
(***************************************************************************)
(* The cipher objects of the crypto module, AES and SM4, one-shot and as   *)
(* streams (src/src/modules/crypto/).  One object encrypts, another with   *)
(* the same key and iv decrypts what it is handed, whole or tampered with. *)
(*                                                                         *)
(* Callers keep to the order the traits document: additional data before   *)
(* the first update, no update after the end.  OpenSSL's Crypter and AEAD  *)
(* are external: a tag is the additional data and the text it covers.      *)
(***************************************************************************)
EXTENDS Naturals, Sequences

CONSTANTS
    Algs,       \* [kind, bits, mode]
    Chunks,     \* pieces of text
    Aads,       \* additional data
    MaxPieces,  \* bound on the pieces of one stream
    MaxKept,    \* bound on the encryptions
    MaxOpened   \* bound on the decryptions

VARIABLES
    enc, dec,   \* the objects: AES or SM4
    ckept,      \* history: the encryptions that ended well, newest last
    copened     \* history: the decryptions that ended well

cipherVars == <<enc, dec, ckept, copened>>

NoAad == "none"
NoTag == [aad |-> "none", text |-> <<>>]
NoCtx == [state |-> "none", aad |-> NoAad, text |-> <<>>]
Tampered == "tampered"

\* common_aes_new, with a key and an iv of the caller's or generated.
aes_new(alg) == [alg |-> alg, aad |-> NoAad, tag |-> NoTag, ctx |-> NoCtx]
\* SM4::new
sm4_new(alg) == [alg |-> alg, aad |-> NoAad, tag |-> NoTag, ctx |-> NoCtx]

NewCipher(alg) == IF alg.kind = "AES" THEN aes_new(alg) ELSE sm4_new(alg)

CipherInit ==
    /\ \E alg \in Algs : enc = NewCipher(alg) /\ dec = NewCipher(alg)
    /\ ckept = <<>>
    /\ copened = <<>>

-----------------------------------------------------------------------------
(* What an algorithm supports *)

IsAead(alg) == alg.mode \in {"GCM", "CCM"}

\* common_internal_get_cipher_alg
aes_one_shot(alg) == alg.bits \in {128, 192, 256} /\ alg.mode \in {"CBC", "GCM"}
\* The match of common_aes_encrypt_update and common_aes_decrypt_update.
aes_stream(alg) == alg.bits = 128 /\ alg.mode \in {"CBC", "GCM"}
\* The match of SM4::encrypt and SM4::decrypt, and of their updates.
sm4_modes(alg) == alg.mode \in {"CBC", "GCM"}

OneShot(alg) == IF alg.kind = "AES" THEN aes_one_shot(alg) ELSE sm4_modes(alg)
Streams(alg) == IF alg.kind = "AES" THEN aes_stream(alg) ELSE sm4_modes(alg)

TagOf(aad, text) == [aad |-> aad, text |-> text]

-----------------------------------------------------------------------------
(* Encrypting *)

set_aad(o, aad) == [o EXCEPT !.aad = aad]

EncAad(aad) ==
    /\ enc.ctx = NoCtx
    /\ enc' = set_aad(enc, aad)
    /\ UNCHANGED <<dec, ckept, copened>>

\* common_aes_encrypt, SM4::encrypt: an AEAD mode unwraps the additional data.
encrypt(text) ==
    /\ OneShot(enc.alg)
    /\ IsAead(enc.alg) => enc.aad # NoAad
    /\ enc' = [enc EXCEPT !.tag = IF IsAead(enc.alg) THEN TagOf(enc.aad, text) ELSE @]
    /\ ckept' = Append(ckept, TagOf(enc.aad, text))
    /\ UNCHANGED <<dec, copened>>

\* Slip: the additional data never reaches the cipher.
StreamUpdate_no_aad(o, chunk) ==
    [o EXCEPT !.ctx = [state |-> "open", aad |-> NoAad, text |-> Append(@.text, chunk)]]

\* The context is made by the first update, and takes the additional data if it
\* has none yet and the mode is an AEAD one.
StreamUpdate(o, chunk) ==
    [o EXCEPT !.ctx =
        [state |-> "open",
         aad |-> IF IsAead(o.alg) /\ @.aad = NoAad THEN o.aad ELSE @.aad,
         text |-> Append(@.text, chunk)]]

\* common_aes_encrypt_update
aes_encrypt_update(chunk) == aes_stream(enc.alg) /\ enc' = StreamUpdate(enc, chunk)
\* SM4::encrypt_update
sm4_encrypt_update(chunk) == sm4_modes(enc.alg) /\ enc' = StreamUpdate(enc, chunk)

EncUpdate(chunk) ==
    /\ enc.ctx.state # "final"
    /\ Len(enc.ctx.text) < MaxPieces
    /\ IF enc.alg.kind = "AES" THEN aes_encrypt_update(chunk) ELSE sm4_encrypt_update(chunk)
    /\ UNCHANGED <<dec, ckept, copened>>

\* The end of a stream: the context is finalised first; with a tag already there
\* the call fails then, and the tag is left as it was.
StreamFinal(o) ==
    [o EXCEPT !.ctx.state = "final",
              !.tag = IF o.alg.mode = "GCM" /\ @ = NoTag THEN TagOf(o.ctx.aad, o.ctx.text) ELSE @]

\* common_aes_encrypt_final and SM4::encrypt_final are one and the same.
encrypt_final ==
    /\ enc.ctx.state = "open"
    /\ enc' = StreamFinal(enc)
    /\ ckept' = IF enc.alg.mode = "GCM" /\ enc.tag # NoTag THEN ckept
                ELSE Append(ckept, TagOf(enc.ctx.aad, enc.ctx.text))
    /\ UNCHANGED <<dec, copened>>

\* get_tag of the encrypting object, none when there is none.
get_tag == enc.tag

-----------------------------------------------------------------------------
(* Decrypting: the text handed over is one that was encrypted, or a changed one *)

DecAad(aad) ==
    /\ dec.ctx = NoCtx
    /\ dec' = set_aad(dec, aad)
    /\ UNCHANGED <<enc, ckept, copened>>

\* set_tag, with the tag of the encrypting object.
set_tag ==
    /\ get_tag # NoTag
    /\ dec.ctx.state # "final"
    /\ dec' = [dec EXCEPT !.tag = get_tag]
    /\ UNCHANGED <<enc, ckept, copened>>

Handed == {ckept[i].text : i \in DOMAIN ckept} \cup {<<Tampered>>}

\* common_aes_decrypt, SM4::decrypt: both are unwrapped, and the tag must fit.
\* Without one CBC gives back what it was handed.
decrypt(text) ==
    /\ OneShot(dec.alg)
    /\ IsAead(dec.alg) => dec.aad # NoAad /\ dec.tag = TagOf(dec.aad, text)
    /\ copened' = Append(copened, [aad |-> dec.aad, text |-> text])
    /\ UNCHANGED <<enc, dec, ckept>>

\* common_aes_decrypt_update
aes_decrypt_update(chunk) == aes_stream(dec.alg) /\ dec' = StreamUpdate(dec, chunk)
\* SM4::decrypt_update
sm4_decrypt_update(chunk) == sm4_modes(dec.alg) /\ dec' = StreamUpdate(dec, chunk)

DecUpdate(chunk) ==
    /\ dec.ctx.state # "final"
    /\ Len(dec.ctx.text) < MaxPieces
    /\ IF dec.alg.kind = "AES" THEN aes_decrypt_update(chunk) ELSE sm4_decrypt_update(chunk)
    /\ UNCHANGED <<enc, ckept, copened>>

\* common_aes_decrypt_final and SM4::decrypt_final: GCM needs a tag, and it must fit.
decrypt_final ==
    LET fits == dec.alg.mode # "GCM" \/ dec.tag = TagOf(dec.ctx.aad, dec.ctx.text)
    IN  /\ dec.ctx.state = "open"
        /\ dec.alg.mode = "GCM" => dec.tag # NoTag
        /\ dec' = [dec EXCEPT !.ctx.state = "final"]
        /\ copened' = IF fits THEN Append(copened, [aad |-> dec.aad, text |-> dec.ctx.text])
                      ELSE copened
        /\ UNCHANGED <<enc, ckept>>

CipherNext ==
    \/ \E aad \in Aads : EncAad(aad) \/ DecAad(aad)
    \/ Len(ckept) < MaxKept /\ \E chunk \in Chunks : encrypt(<<chunk>>)
    \/ \E chunk \in Chunks : EncUpdate(chunk)
    \/ Len(ckept) < MaxKept /\ encrypt_final
    \/ set_tag
    \/ Len(copened) < MaxOpened /\ \E text \in Handed : decrypt(text)
    \/ \E chunk \in Chunks \cup {Tampered} : DecUpdate(chunk)
    \/ Len(copened) < MaxOpened /\ decrypt_final

CipherSpec == CipherInit /\ [][CipherNext]_cipherVars

-----------------------------------------------------------------------------
\* What an AEAD object decrypts, at once or as a stream, is a whole text that was
\* encrypted with the additional data the decrypting side set, however one-shot
\* calls, streams and tags of several encryptions are mixed; and the tag that
\* get_tag returns is that of the last encryption that ended well
\* (crypto_adaptors/common.rs:128-330, tongsuo_adaptor.rs:122-336).
CipherHonest ==
    IsAead(enc.alg) =>
        /\ \A i \in DOMAIN copened : \E k \in DOMAIN ckept : copened[i] = ckept[k]
        /\ ckept # <<>> => get_tag = ckept[Len(ckept)]
=============================================================================
