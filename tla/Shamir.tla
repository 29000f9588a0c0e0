-------------------------------- MODULE Shamir --------------------------------
(***************************************************************************)
(* The secret sharing of shamir.rs: the arithmetic of GF(256) by its two   *)
(* tables, the shares of a secret as values of one polynomial per byte,    *)
(* and the Lagrange interpolation that recovers it.  CoreSeal uses shares  *)
(* as opaque values; this module is what that stands on.  A dealer splits  *)
(* a secret with coefficients the random generator may yield, and holders  *)
(* hand in shares one at a time, in any order.                             *)
(***************************************************************************)
EXTENDS Integers, Sequences, FiniteSets, SequencesExt

CONSTANTS Secrets,     \* secrets, sequences of bytes of one length
          Coefficients,\* what the random generator may yield
          Thresholds, Parts,
          Holders      \* numbers of the shares that are handed in

VARIABLES hdeal,  \* the split in force, or NoDeal
          hgiven  \* numbers of the shares handed in, in order

shamirVars == <<hdeal, hgiven>>

-----------------------------------------------------------------------------
(* GF(256) *)

\* Indexed from 1.
GF256_EXP == <<
    1, 229, 76, 181, 251, 159, 252, 18, 3, 52, 212, 196, 22, 186, 31, 54, 5, 92, 103, 87, 58,
    213, 33, 90, 15, 228, 169, 249, 78, 100, 99, 238, 17, 55, 224, 16, 210, 172, 165, 41, 51,
    89, 59, 48, 109, 239, 244, 123, 85, 235, 77, 80, 183, 42, 7, 141, 255, 38, 215, 240, 194,
    126, 9, 140, 26, 106, 98, 11, 93, 130, 27, 143, 46, 190, 166, 29, 231, 157, 45, 138, 114,
    217, 241, 39, 50, 188, 119, 133, 150, 112, 8, 105, 86, 223, 153, 148, 161, 144, 24, 187,
    250, 122, 176, 167, 248, 171, 40, 214, 21, 142, 203, 242, 19, 230, 120, 97, 63, 137, 70, 13,
    53, 49, 136, 163, 65, 128, 202, 23, 95, 83, 131, 254, 195, 155, 69, 57, 225, 245, 158, 25,
    94, 182, 207, 75, 56, 4, 185, 43, 226, 193, 74, 221, 72, 12, 208, 125, 61, 88, 222, 124,
    216, 20, 107, 135, 71, 232, 121, 132, 115, 60, 189, 146, 201, 35, 139, 151, 149, 68, 220,
    173, 64, 101, 134, 162, 164, 204, 127, 236, 192, 175, 145, 253, 247, 79, 129, 47, 91, 234,
    168, 28, 2, 209, 152, 113, 237, 37, 227, 36, 6, 104, 179, 147, 44, 111, 62, 108, 10, 184,
    206, 174, 116, 177, 66, 180, 30, 211, 73, 233, 156, 200, 198, 199, 34, 110, 219, 32, 191,
    67, 81, 82, 102, 178, 118, 96, 218, 197, 243, 246, 170, 205, 154, 160, 117, 84, 14, 1 >>

GF256_LOG == <<
    0, 255, 200, 8, 145, 16, 208, 54, 90, 62, 216, 67, 153, 119, 254, 24, 35, 32, 7, 112, 161,
    108, 12, 127, 98, 139, 64, 70, 199, 75, 224, 14, 235, 22, 232, 173, 207, 205, 57, 83, 106,
    39, 53, 147, 212, 78, 72, 195, 43, 121, 84, 40, 9, 120, 15, 33, 144, 135, 20, 42, 169, 156,
    214, 116, 180, 124, 222, 237, 177, 134, 118, 164, 152, 226, 150, 143, 2, 50, 28, 193, 51,
    238, 239, 129, 253, 48, 92, 19, 157, 41, 23, 196, 17, 68, 140, 128, 243, 115, 66, 30, 29,
    181, 240, 18, 209, 91, 65, 162, 215, 44, 233, 213, 89, 203, 80, 168, 220, 252, 242, 86, 114,
    166, 101, 47, 159, 155, 61, 186, 125, 194, 69, 130, 167, 87, 182, 163, 122, 117, 79, 174,
    63, 55, 109, 71, 97, 190, 171, 211, 95, 176, 88, 175, 202, 94, 250, 133, 228, 77, 138, 5,
    251, 96, 183, 123, 184, 38, 74, 103, 198, 26, 248, 105, 37, 179, 219, 189, 102, 221, 241,
    210, 223, 3, 141, 52, 217, 146, 13, 99, 85, 170, 73, 236, 188, 149, 60, 132, 11, 245, 230,
    231, 229, 172, 126, 110, 185, 249, 218, 142, 154, 201, 36, 225, 10, 21, 107, 58, 160, 81,
    244, 234, 178, 151, 158, 93, 34, 136, 148, 206, 25, 1, 113, 76, 165, 227, 197, 49, 187, 204,
    31, 45, 59, 82, 111, 246, 46, 137, 247, 192, 104, 27, 100, 4, 6, 191, 131, 56 >>

Exp(i) == GF256_EXP[i + 1]
Log(a) == GF256_LOG[a + 1]

\* Exclusive or of four bits.
Xor4 == [a, b \in 0..15 |->
    LET bit(n, w) == (n \div w) % 2
        x(w) == w * ((bit(a, w) + bit(b, w)) % 2)
    IN  x(1) + x(2) + x(4) + x(8)]

gf256_add(a, b) == 16 * Xor4[a \div 16, b \div 16] + Xor4[a % 16, b % 16]
gf256_sub(a, b) == gf256_add(a, b)

\* Slip: the logarithms are added modulo 256.
gf256_mul_256(a, b) ==
    IF a = 0 \/ b = 0 THEN 0 ELSE Exp((Log(a) + Log(b)) % 256)

gf256_mul(a, b) ==
    IF a = 0 \/ b = 0 THEN 0 ELSE Exp((Log(a) + Log(b)) % 255)

\* Of a by b, which is not 0 where it is used.
gf256_checked_div(a, b) ==
    IF a = 0 THEN 0
    ELSE LET diff == Log(a) - Log(b) IN
         Exp((IF diff < 0 THEN diff + 255 ELSE diff) % 255)

-----------------------------------------------------------------------------
(* Polynomials, the constant term first *)

\* (The empty prefix makes TLC evaluate the terms once.)
add_polynomials(a, b) ==
    LET at(p, i) == IF i <= Len(p) THEN p[i] ELSE 0
        longer == IF Len(a) < Len(b) THEN Len(b) ELSE Len(a)
    IN  <<>> \o [i \in 1..longer |-> gf256_add(at(a, i), at(b, i))]

multiply_polynomials(a, b) ==
    FoldLeftDomain(
        LAMBDA sum, j : add_polynomials(sum,
            [i \in 1..(j - 1 + Len(a)) |-> IF i < j THEN 0 ELSE gf256_mul(a[i - j + 1], b[j])]),
        <<>>, b)

\* accumulate_share_bytes: the value at id, and the power of id.
accumulate_share_bytes(id, coefficients) ==
    FoldLeft(LAMBDA acc, c : [sum |-> gf256_add(acc.sum, gf256_mul(c, acc.x)),
                              x |-> gf256_mul(acc.x, id)],
             [sum |-> 0, x |-> 1], coefficients).sum

\* The polynomial through the points (xs[i], fxs[i]).
full_lagrange(xs, fxs) ==
    LET term(i) ==
          FoldLeftDomain(
            LAMBDA p, j :
               IF j = i THEN p
               ELSE LET d == gf256_sub(xs[i], xs[j]) IN
                    multiply_polynomials(p, <<gf256_checked_div(xs[j], d), gf256_checked_div(1, d)>>),
            <<1>>, xs)
    IN  FoldLeftDomain(
          LAMBDA sum, i : add_polynomials(sum, multiply_polynomials(term(i), <<fxs[i]>>)),
          <<>>, xs)

-----------------------------------------------------------------------------
(* Shares *)

NoDeal == [secret |-> <<>>]
NoSecret == <<>>

\* with_secret: the byte and threshold - 1 random coefficients for each byte.
with_secret(secret, random) == [b \in DOMAIN secret |-> <<secret[b]>> \o random[b]]

\* get_share: the values at id, then id.
get_share(polynomials, id) ==
    Append([b \in DOMAIN polynomials |-> accumulate_share_bytes(id, polynomials[b])], id)

\* recover_secret: two shares at least, of one length, with different numbers.
recover_secret(shares) ==
    LET xs == <<>> \o [i \in DOMAIN shares |-> Last(shares[i])]
        byte(b) == full_lagrange(xs, <<>> \o [i \in DOMAIN shares |-> shares[i][b]])[1]
    IN  IF Len(shares) < 2 \/ ~IsInjective(xs)
           \/ \E i \in DOMAIN shares : Len(shares[i]) # Len(shares[1])
        THEN NoSecret
        ELSE [b \in 1..(Len(shares[1]) - 1) |-> byte(b)]

ShamirInit == hdeal = NoDeal /\ hgiven = <<>>

\* split.  (Of 255 parts none is made: 1..(part + 1) is empty in a u8.)
split(secret, part, threshold, random) ==
    /\ hdeal = NoDeal
    /\ part >= threshold /\ threshold >= 2
    /\ hdeal' = [secret |-> secret, part |-> part, threshold |-> threshold,
                 polynomials |-> with_secret(secret, random)]
    /\ UNCHANGED hgiven

HandIn(id) ==
    /\ hdeal # NoDeal
    /\ id <= hdeal.part /\ id \notin Range(hgiven)
    /\ hgiven' = Append(hgiven, id)
    /\ UNCHANGED hdeal

ShamirNext ==
    \/ \E secret \in Secrets, part \in Parts, t \in Thresholds :
          \E random \in [DOMAIN secret -> [1..(t - 1) -> Coefficients]] : split(secret, part, t, random)
    \/ \E id \in Holders : HandIn(id)

ShamirSpec == ShamirInit /\ [][ShamirNext]_shamirVars

-----------------------------------------------------------------------------
Given == [i \in DOMAIN hgiven |-> get_share(hdeal.polynomials, hgiven[i])]

\* A polynomial of the dealer's degree that has v for the byte of the secret and
\* takes the values that were handed in.
Explains(b, v) ==
    LET given == Given
        p == full_lagrange(<<0>> \o hgiven, <<v>> \o [i \in DOMAIN given |-> given[i][b]])
    IN  /\ p[1] = v /\ Len(p) <= hdeal.threshold
        /\ \A i \in DOMAIN given : accumulate_share_bytes(hgiven[i], p) = given[i][b]

\* Any threshold of the shares, whichever they are, in whatever order, and with
\* any number of further ones, recovers the secret; fewer than that leave every
\* value of every byte of the secret possible.  It needs the tables, the
\* interpolation and the degree of the polynomials to fit together.
SharesHonest ==
    hdeal # NoDeal =>
        IF Len(hgiven) >= hdeal.threshold THEN recover_secret(Given) = hdeal.secret
        ELSE \A b \in DOMAIN hdeal.secret, v \in {0, 1, 77, 255} : Explains(b, v)
===============================================================================
