--------------------------- MODULE SecretsProofs ---------------------------
(* Proofs about what the vault hands out: leases (Leases), the named keys   *)
(* of pki (Keys), the cipher objects (Ciphers) and certificates (Pki).      *)
EXTENDS Leases, Keys, Ciphers, Pki, TLAPS

-----------------------------------------------------------------------------
(* Leases *)

LeaseEntries ==
    [kind : {"token", "login", "secret"}, issue : Nat, granted : Nat, expire : Nat,
     period : Nat, max : Nat, explicit : Nat]

\* LeaseBounded is inductive once a lease is known to be an entry that was
\* granted after it was issued and before now.
LeaseInv ==
    /\ lnow \in Nat
    /\ lease # NoLease => /\ lease \in LeaseEntries
                          /\ lease.issue <= lease.granted
                          /\ lease.granted <= lnow
    /\ LeaseBounded

\* What is left under two limits, each of which counts if it is positive.
LEMMA CappedFacts ==
    ASSUME NEW ttl \in Nat, NEW limit \in Nat
    PROVE  /\ Capped(ttl, limit) \in Nat
           /\ Capped(ttl, limit) <= ttl
           /\ limit > 0 => Capped(ttl, limit) <= limit
           /\ ttl > 0 => Capped(ttl, limit) > 0
BY SMT DEF Capped

LEMMA ClampedFacts ==
    ASSUME NEW ttl \in Nat
    PROVE  Clamped(ttl) \in 1..MAX_LEASE_TTL
BY LeaseConstants, SMT DEF Clamped, Capped

\* calculate_ttl at the given time.
TtlAt(now, increment, period, ttl, max, explicit, start) ==
    LET max_ttl == Capped(Capped(MAX_LEASE_TTL, max), explicit)
        wanted == IF increment > 0 THEN increment ELSE IF ttl > 0 THEN ttl ELSE DEFAULT_LEASE_TTL
        left(limit) == start + limit - now
        until(t, limit) == IF left(limit) <= 0 THEN 0 ELSE Capped(t, left(limit))
    IN  IF period = 0 THEN until(wanted, max_ttl)
        ELSE IF explicit = 0 THEN Capped(period, max_ttl)
        ELSE until(Capped(period, max_ttl), explicit)

\* calculate_ttl never grants more than the system's maximum, more than is left
\* of the maxima without a period, or more than is left of the explicit maximum
\* with one; at the start of a lease it does not fail.
LEMMA CalculateTtlFacts ==
    ASSUME NEW increment \in Nat, NEW period \in Nat, NEW ttl \in Nat,
           NEW max \in Nat, NEW explicit \in Nat, NEW start \in Nat,
           NEW now \in Nat, start <= now,
           NEW r, r = TtlAt(now, increment, period, ttl, max, explicit, start)
    PROVE  /\ r \in Nat
           /\ r <= MAX_LEASE_TTL
           /\ r > 0 /\ period = 0 =>
                 now + r <= start + Capped(Capped(MAX_LEASE_TTL, max), explicit)
           /\ r > 0 /\ explicit > 0 => now + r <= start + explicit
           /\ start = now => r > 0
<1> DEFINE most == Capped(Capped(MAX_LEASE_TTL, max), explicit)
           wanted == IF increment > 0 THEN increment ELSE IF ttl > 0 THEN ttl ELSE DEFAULT_LEASE_TTL
           left(limit) == start + limit - now
           until(t, limit) == IF left(limit) <= 0 THEN 0 ELSE Capped(t, left(limit))
<1>0. MAX_LEASE_TTL \in Nat /\ MAX_LEASE_TTL > 0 /\ DEFAULT_LEASE_TTL \in Nat /\ DEFAULT_LEASE_TTL > 0
  BY LeaseConstants
<1>1. /\ Capped(MAX_LEASE_TTL, max) \in Nat
      /\ Capped(MAX_LEASE_TTL, max) <= MAX_LEASE_TTL
      /\ Capped(MAX_LEASE_TTL, max) > 0
  BY <1>0, CappedFacts
<1>2. /\ most \in Nat /\ most > 0 /\ most <= MAX_LEASE_TTL
      /\ explicit > 0 => most <= explicit
  BY <1>0, <1>1, SMT DEF Capped
<1>3. wanted \in Nat /\ wanted > 0
  BY <1>0
<1> HIDE DEF most, wanted
<1>4. ASSUME NEW t \in Nat, t > 0, NEW limit \in Nat, limit > 0
      PROVE  /\ until(t, limit) \in Nat
             /\ until(t, limit) <= limit
             /\ until(t, limit) <= t
             /\ until(t, limit) > 0 => now + until(t, limit) <= start + limit
             /\ start = now => until(t, limit) > 0
  BY <1>4, SMT DEF Capped
<1>5. Capped(period, most) \in Nat /\ Capped(period, most) <= most /\ Capped(period, most) <= period
      /\ (period > 0 => Capped(period, most) > 0)
  BY <1>2, SMT DEF Capped
<1>6. r =
        IF period = 0 THEN until(wanted, most)
        ELSE IF explicit = 0 THEN Capped(period, most)
        ELSE until(Capped(period, most), explicit)
  BY DEF TtlAt, most, wanted
<1> HIDE DEF until
<1>7. CASE period = 0
  <2>1. r = until(wanted, most)
    BY <1>6, <1>7
  <2> QED BY <2>1, <1>0, <1>2, <1>3, <1>4, <1>7, SMT DEF most
<1>8. CASE period # 0 /\ explicit = 0
  <2>1. r = Capped(period, most)
    BY <1>6, <1>8
  <2> QED BY <2>1, <1>0, <1>2, <1>5, <1>8, SMT DEF most
<1>9. CASE period # 0 /\ explicit # 0
  <2>1. r = until(Capped(period, most), explicit)
    BY <1>6, <1>9
  <2>2. Capped(period, most) > 0 /\ explicit > 0
    BY <1>5, <1>9
  <2> DEFINE g == Capped(period, most)
  <2>3. g \in Nat /\ g > 0 /\ g <= most /\ g <= period BY <2>2, <1>5
  <2> HIDE DEF g
  <2>4. /\ until(g, explicit) \in Nat
        /\ until(g, explicit) <= g
        /\ until(g, explicit) > 0 => now + until(g, explicit) <= start + explicit
        /\ start = now => until(g, explicit) > 0
    BY <2>2, <2>3, <1>4
  <2>5. r = until(g, explicit)
    BY <2>1 DEF g
  <2> QED BY <2>3, <2>4, <2>5, <1>0, <1>2, <1>9, SMT DEF most
<1> QED BY <1>7, <1>8, <1>9

\* Nor more than the period.
LEMMA CalculateTtlPeriod ==
    ASSUME NEW increment \in Nat, NEW period \in Nat, NEW ttl \in Nat,
           NEW max \in Nat, NEW explicit \in Nat, NEW start \in Nat,
           NEW now \in Nat,
           NEW r, r = TtlAt(now, increment, period, ttl, max, explicit, start), period > 0
    PROVE  r <= period
<1> DEFINE most == Capped(Capped(MAX_LEASE_TTL, max), explicit)
           g == Capped(period, most)
           left == start + explicit - now
<1>1. MAX_LEASE_TTL \in Nat
  BY LeaseConstants
<1>2. most \in Nat
  BY <1>1, CappedFacts
<1> HIDE DEF most
<1>3. g \in Nat /\ g <= period
  BY <1>2, CappedFacts
<1>4. r = IF explicit = 0 THEN g ELSE IF left <= 0 THEN 0 ELSE Capped(g, left)
  BY DEF TtlAt, most
<1> HIDE DEF g
<1>5. Capped(g, left) <= g
  BY <1>3, SMT DEF Capped
<1>6. Capped(g, left) \in Int
  BY <1>3, SMT DEF Capped
<1> HIDE DEF left
<1> QED BY <1>3, <1>4, <1>5, <1>6

\* An entry that register_auth or register_secret writes keeps LeaseInv.
LEMMA RegisterKeeps ==
    ASSUME LeaseInv, NEW kind \in {"token", "login", "secret"}, NEW ttl \in Nat,
           NEW period \in Nat, NEW max \in Nat, NEW explicit \in Nat,
           Register(kind, ttl, period, max, explicit), lnow' = lnow,
           ttl > 0, ttl <= MAX_LEASE_TTL,
           period = 0 => ttl <= Capped(Capped(MAX_LEASE_TTL, max), explicit),
           period > 0 => ttl <= period,
           explicit > 0 => ttl <= explicit
    PROVE  LeaseInv'
<1>1. lnow \in Nat /\ MAX_LEASE_TTL \in Nat
  BY LeaseConstants DEF LeaseInv
<1>2. lease' \in LeaseEntries
  BY <1>1 DEF Register, LeaseEntries
<1>3. /\ lease'.issue = lnow /\ lease'.granted = lnow /\ lease'.expire = lnow + ttl
      /\ lease'.period = period /\ lease'.max = max /\ lease'.explicit = explicit
  BY DEF Register
<1>4. Capped(Capped(MAX_LEASE_TTL, max), explicit) \in Nat
  BY <1>1, CappedFacts
<1>5. LeaseBounded'
  BY <1>1, <1>3, <1>4, SMT DEF LeaseBounded
<1> QED BY <1>1, <1>2, <1>3, <1>5 DEF LeaseInv

LEMMA LeaseStep == LeaseInv /\ [LeaseNext]_leaseVars => LeaseInv'
<1> SUFFICES ASSUME LeaseInv, [LeaseNext]_leaseVars PROVE LeaseInv'
  OBVIOUS
<1>0. lnow \in Nat /\ MAX_LEASE_TTL \in Nat /\ MAX_LEASE_TTL > 0
      /\ Durations \subseteq Nat /\ Huge \in Nat /\ KV_DEFAULT_TTL \in Nat /\ Increments \subseteq Nat
  BY LeaseConstants DEF LeaseInv
<1>1. ASSUME NEW ttl \in Durations, NEW period \in Durations, NEW explicit \in Durations,
             CreateToken(ttl, period, explicit)
      PROVE  LeaseInv'
  <2> DEFINE first == TtlAt(lnow, 0, period, ttl, 0, explicit, lnow)
             second == TtlAt(lnow, 0, period, Clamped(first), 0, explicit, lnow)
  <2>1. ttl \in Nat /\ period \in Nat /\ explicit \in Nat /\ lnow <= lnow /\ 0 \in Nat
    BY <1>0
  <2>2. Register("token", second, period, 0, explicit) /\ lnow' = lnow
    BY <1>1 DEF CreateToken, calculate_ttl, TtlAt
  <2>3. /\ first = TtlAt(lnow, 0, period, ttl, 0, explicit, lnow)
        /\ second = TtlAt(lnow, 0, period, Clamped(first), 0, explicit, lnow)
    OBVIOUS
  <2> HIDE DEF first, second
  <2>4. first \in Nat
    BY <1>0, <2>1, <2>3, CalculateTtlFacts, Zenon
  <2>5. Clamped(first) \in Nat
    BY <2>4, ClampedFacts, <1>0
  <2>6. /\ second \in Nat /\ second <= MAX_LEASE_TTL
        /\ lnow = lnow => second > 0
        /\ second > 0 /\ period = 0 =>
              lnow + second <= lnow + Capped(Capped(MAX_LEASE_TTL, 0), explicit)
        /\ second > 0 /\ explicit > 0 => lnow + second <= lnow + explicit
    BY <1>0, <2>1, <2>3, <2>5, CalculateTtlFacts, Zenon
  <2>7. Capped(Capped(MAX_LEASE_TTL, 0), explicit) \in Nat
    BY <1>0, <2>1, CappedFacts
  <2>8. /\ second > 0
        /\ period = 0 => second <= Capped(Capped(MAX_LEASE_TTL, 0), explicit)
        /\ explicit > 0 => second <= explicit
    BY <1>0, <2>1, <2>6, <2>7
  <2>9. period > 0 => second <= period
    BY <1>0, <2>1, <2>3, <2>5, CalculateTtlPeriod
  <2> QED BY <2>1, <2>2, <2>6, <2>8, <2>9, RegisterKeeps
<1>2. ASSUME NEW ttl \in Durations, NEW max \in Durations, LoginLease(ttl, max)
      PROVE  LeaseInv'
  <2> DEFINE granted == TtlAt(lnow, 0, 0, Clamped(ttl), max, 0, lnow)
  <2>1. ttl \in Nat /\ max \in Nat /\ lnow <= lnow /\ 0 \in Nat
    BY <1>0
  <2>2. Clamped(ttl) \in Nat
    BY <2>1, ClampedFacts, <1>0
  <2>3. Register("login", granted, 0, max, 0) /\ lnow' = lnow
    BY <1>2 DEF LoginLease, calculate_ttl, TtlAt
  <2>4. granted = TtlAt(lnow, 0, 0, Clamped(ttl), max, 0, lnow)
    OBVIOUS
  <2> HIDE DEF granted
  <2>5. /\ granted \in Nat /\ granted <= MAX_LEASE_TTL
        /\ lnow = lnow => granted > 0
        /\ granted > 0 /\ 0 = 0 =>
              lnow + granted <= lnow + Capped(Capped(MAX_LEASE_TTL, max), 0)
    BY <1>0, <2>1, <2>2, <2>4, CalculateTtlFacts, Zenon
  <2>6. Capped(Capped(MAX_LEASE_TTL, max), 0) \in Nat
    BY <1>0, <2>1, CappedFacts
  <2>7. granted > 0 /\ granted <= Capped(Capped(MAX_LEASE_TTL, max), 0)
    BY <1>0, <2>5, <2>6
  <2> QED BY <2>1, <2>3, <2>5, <2>7, RegisterKeeps
<1>3. ASSUME NEW ttl \in SecretTtls, SecretLease(ttl)
      PROVE  LeaseInv'
  <2>1. ttl \in Nat
    BY <1>0, SMT DEF SecretTtls, Unsigned
  <2>2. Clamped(ttl) \in Nat /\ Clamped(ttl) > 0 /\ Clamped(ttl) <= MAX_LEASE_TTL
    BY <2>1, ClampedFacts, <1>0
  <2>3. Capped(Capped(MAX_LEASE_TTL, 0), 0) = MAX_LEASE_TTL
    BY DEF Capped
  <2>4. Register("secret", Clamped(ttl), 0, 0, 0) /\ lnow' = lnow
    BY <1>3 DEF SecretLease
  <2> QED BY <2>2, <2>3, <2>4, RegisterKeeps
<1>4. ASSUME NEW increment \in Increments \cup {-1}, RenewLease(increment)
      PROVE  LeaseInv'
  <2>1. lease # NoLease
    BY <1>4 DEF RenewLease, renewable, NoLease
  <2>2. /\ lease \in LeaseEntries /\ lease.issue <= lease.granted /\ lease.granted <= lnow
        /\ lease.expire > lease.granted
    BY <2>1 DEF LeaseInv, LeaseBounded
  <2>3. /\ lease.issue \in Nat /\ lease.granted \in Nat /\ lease.expire \in Nat
        /\ lease.period \in Nat /\ lease.explicit \in Nat
    BY <2>2 DEF LeaseEntries
  <2>4. Unsigned(increment) \in Nat
    BY <1>0, SMT DEF Unsigned
  <2>5. lease.issue <= lnow
    BY <1>0, <2>2, <2>3
  <2>6. PICK t \in RenewalTerms :
          LET ttl == calculate_ttl(Unsigned(increment), t.period, t.ttl, t.max, lease.explicit, lease.issue)
              more == calculate_ttl(0, t.period, Clamped(ttl), t.max, lease.explicit, lnow)
          IN  /\ ttl > 0
              /\ \/ lease' = [lease EXCEPT !.granted = lnow, !.expire = lnow + ttl,
                                            !.period = t.period, !.max = t.max]
                 \/ Register("token", more, t.period, t.max, lease.explicit)
    BY <1>4 DEF RenewLease
  <2>7. t.ttl \in Nat /\ t.period \in Nat /\ t.max \in Nat
    <3>1. CASE lease.kind = "login"
      BY <1>0, <3>1 DEF RenewalTerms
    <3>2. CASE lease.kind # "login"
      <4>1. t.ttl = lease.expire - lease.granted /\ t.period = lease.period /\ t.max = 0
        BY <3>2 DEF RenewalTerms
      <4> QED BY <2>2, <2>3, <4>1
    <3> QED BY <3>1, <3>2
  <2> DEFINE ttl == TtlAt(lnow, Unsigned(increment), t.period, t.ttl, t.max, lease.explicit, lease.issue)
             more == TtlAt(lnow, 0, t.period, Clamped(ttl), t.max, lease.explicit, lnow)
             most == Capped(Capped(MAX_LEASE_TTL, t.max), lease.explicit)
  <2>8. /\ ttl > 0
        /\ \/ lease' = [lease EXCEPT !.granted = lnow, !.expire = lnow + ttl,
                                      !.period = t.period, !.max = t.max]
           \/ Register("token", more, t.period, t.max, lease.explicit)
    <3>1. ttl = calculate_ttl(Unsigned(increment), t.period, t.ttl, t.max, lease.explicit, lease.issue)
      BY DEF calculate_ttl, TtlAt
    <3>2. more = calculate_ttl(0, t.period, Clamped(ttl), t.max, lease.explicit, lnow)
      BY DEF calculate_ttl, TtlAt
    <3> HIDE DEF ttl, more
    <3> QED BY <2>6, <3>1, <3>2
  <2>9. /\ ttl = TtlAt(lnow, Unsigned(increment), t.period, t.ttl, t.max, lease.explicit, lease.issue)
        /\ more = TtlAt(lnow, 0, t.period, Clamped(ttl), t.max, lease.explicit, lnow)
        /\ most = Capped(Capped(MAX_LEASE_TTL, t.max), lease.explicit)
    OBVIOUS
  <2>10. lnow' = lnow
    BY <1>4 DEF RenewLease
  <2>11. most \in Nat
    BY <1>0, <2>3, <2>7, CappedFacts
  <2> HIDE DEF ttl, more, most
  <2>12. /\ ttl \in Nat /\ ttl <= MAX_LEASE_TTL
         /\ ttl > 0 /\ t.period = 0 =>
               lnow + ttl <= lease.issue + Capped(Capped(MAX_LEASE_TTL, t.max), lease.explicit)
         /\ ttl > 0 /\ lease.explicit > 0 => lnow + ttl <= lease.issue + lease.explicit
    BY <1>0, <2>3, <2>4, <2>5, <2>7, <2>9, CalculateTtlFacts, Zenon
  <2>15. t.period > 0 => ttl <= t.period
    BY <1>0, <2>3, <2>4, <2>7, <2>9, CalculateTtlPeriod
  <2>13. CASE lease' = [lease EXCEPT !.granted = lnow, !.expire = lnow + ttl,
                                     !.period = t.period, !.max = t.max]
    <3>1. lnow + ttl \in Nat
      BY <1>0, <2>12
    <3>2. /\ lease' \in LeaseEntries
          /\ lease'.issue = lease.issue /\ lease'.granted = lnow /\ lease'.expire = lnow + ttl
          /\ lease'.period = t.period /\ lease'.max = t.max
          /\ lease'.explicit = lease.explicit
      BY <1>0, <2>2, <2>7, <2>13, <3>1 DEF LeaseEntries
    <3>3. LeaseBounded'
      BY <1>0, <2>3, <2>7, <2>8, <2>11, <2>12, <2>15, <3>2, SMT DEF LeaseBounded, most
    <3> QED BY <1>0, <2>5, <2>10, <3>2, <3>3 DEF LeaseInv
  <2>14. CASE Register("token", more, t.period, t.max, lease.explicit)
    <3>1. Clamped(ttl) \in Nat /\ 0 \in Nat /\ lnow <= lnow
      BY <1>0, <2>12, ClampedFacts
    <3>2. /\ more \in Nat /\ more <= MAX_LEASE_TTL
          /\ lnow = lnow => more > 0
          /\ more > 0 /\ t.period = 0 =>
                lnow + more <= lnow + Capped(Capped(MAX_LEASE_TTL, t.max), lease.explicit)
          /\ more > 0 /\ lease.explicit > 0 => lnow + more <= lnow + lease.explicit
      BY <1>0, <2>3, <2>7, <2>9, <3>1, CalculateTtlFacts, Zenon
    <3>3. /\ more > 0
          /\ t.period = 0 => more <= Capped(Capped(MAX_LEASE_TTL, t.max), lease.explicit)
          /\ lease.explicit > 0 => more <= lease.explicit
      BY <1>0, <2>3, <2>7, <2>11, <3>2 DEF most
    <3>4. t.period > 0 => more <= t.period
      BY <1>0, <2>3, <2>7, <2>9, <3>1, CalculateTtlPeriod
    <3> QED BY <2>3, <2>7, <2>10, <2>14, <3>2, <3>3, <3>4, RegisterKeeps
  <2> QED BY <2>8, <2>13, <2>14
<1>5. CASE LeaseExpires
  BY <1>0, <1>5 DEF LeaseInv, LeaseBounded, LeaseExpires
<1>6. CASE LeaseTick
  <2>1. lease' = lease /\ lnow' = lnow + 1
    BY <1>6 DEF LeaseTick
  <2>2. lease # NoLease => lease.granted \in Nat
    BY DEF LeaseInv, LeaseEntries
  <2> QED BY <1>0, <2>1, <2>2 DEF LeaseInv, LeaseBounded
<1>7. CASE UNCHANGED leaseVars
  BY <1>7 DEF LeaseInv, LeaseBounded, leaseVars
<1> QED BY <1>1, <1>2, <1>3, <1>4, <1>5, <1>6, <1>7 DEF LeaseNext

\* However often and late a lease is renewed, whatever durations are asked for
\* and however the account of a login is rewritten, it ends within the terms of
\* its last grant: the maxima counted from its start, or the period counted from
\* the renewal (logical/lease.rs calculate_ttl, expiration.rs renew_token,
\* login_renew).
THEOREM LeasesBounded == LeaseSpec => []LeaseBounded
<1>1. LeaseInit => LeaseInv
  BY DEF LeaseInit, LeaseInv, LeaseBounded
<1>2. LeaseInv => LeaseBounded
  BY DEF LeaseInv
<1> QED BY <1>1, <1>2, LeaseStep, PTL DEF LeaseSpec

-----------------------------------------------------------------------------
(* Named keys *)

\* A result was made with the bundle b.
MadeWith(b, made) ==
    \/ \E text \in KeyTexts : Signs(b) /\ made = sign_result(b, text)
    \/ \E text \in KeyTexts, aad \in KeyAads : Encrypts(b) /\ made = encrypt_result(b, text, aad)

\* A name that is not in doubt gets a key once: the call that is about to write
\* it found it free and no other call is about to, so it still is; and what a
\* result was made with stays.
KeysInv ==
    /\ keys \in [KeyNames -> {keys[n] : n \in KeyNames}]
    /\ kcalls \in [KeyClients -> {kcalls[c] : c \in KeyClients}]
    /\ \A c \in KeyClients : kcalls[c] # KeyIdle =>
          /\ kcalls[c].pc = "write" /\ kcalls[c].name \in KeyNames
          /\ kcalls[c].name \notin kdoubt =>
                /\ keys[kcalls[c].name] = NoKey
                /\ \A d \in KeyClients \ {c} : ~Writing(d, kcalls[c].name)
    /\ \A r \in kresults : /\ r.name \in KeyNames
                           /\ r.name \notin kdoubt => /\ keys[r.name] # NoKey
                                                      /\ MadeWith(keys[r.name], r.made)

LEMMA WriteLaterKeeps ==
    ASSUME KeysInv, NEW c \in KeyClients, NEW name \in KeyNames, NEW bundle, WriteLater(c, name, bundle)
    PROVE  KeysInv'
<1> DEFINE e == [pc |-> "write", name |-> name, bundle |-> bundle]
<1>1. /\ keys' = keys /\ kresults' = kresults /\ kcalls[c] = KeyIdle
      /\ kcalls' = [kcalls EXCEPT ![c] = e]
  BY DEF WriteLater
<1>2. PICK failed \in BOOLEAN :
          /\ NameFree(name, failed)
          /\ kdoubt' = IF failed \/ \E d \in KeyClients : Writing(d, name)
                       THEN kdoubt \cup {name} ELSE kdoubt
  BY DEF WriteLater
<1>3. e.pc = "write" /\ e.name = name /\ e # KeyIdle
  BY DEF KeyIdle
<1> HIDE DEF e
<1>4. kcalls'[c] = e /\ \A d \in KeyClients \ {c} : kcalls'[d] = kcalls[d]
  BY <1>1 DEF KeysInv
<1>5. kcalls' \in [KeyClients -> {kcalls'[d] : d \in KeyClients}]
  BY <1>1 DEF KeysInv
<1>6. kdoubt \subseteq kdoubt'
  BY <1>2
<1>7. name \notin kdoubt' => keys[name] = NoKey /\ \A d \in KeyClients : ~Writing(d, name)
  BY <1>2 DEF NameFree, fetch_key
<1>8. ASSUME NEW d \in KeyClients, kcalls'[d] # KeyIdle
      PROVE  /\ kcalls'[d].pc = "write" /\ kcalls'[d].name \in KeyNames
             /\ kcalls'[d].name \notin kdoubt' =>
                   /\ keys[kcalls'[d].name] = NoKey
                   /\ \A f \in KeyClients \ {d} :
                         ~(kcalls'[f] # KeyIdle /\ kcalls'[f].name = kcalls'[d].name)
  <2>1. CASE d = c
    BY <2>1, <1>3, <1>4, <1>7 DEF Writing
  <2>2. CASE d # c
    <3>1. kcalls'[d] = kcalls[d] /\ kcalls[d] # KeyIdle
      BY <2>2, <1>4, <1>8
    <3>2. kcalls[d].name = name => name \in kdoubt'
      BY <3>1, <1>7 DEF Writing
    <3>3. /\ kcalls[d].pc = "write" /\ kcalls[d].name \in KeyNames
          /\ kcalls[d].name \notin kdoubt' =>
                /\ keys[kcalls[d].name] = NoKey
                /\ \A f \in KeyClients \ {d} : ~Writing(f, kcalls[d].name)
      BY <3>1, <1>6 DEF KeysInv
    <3> QED BY <3>1, <3>2, <3>3, <1>3, <1>4 DEF Writing
  <2> QED BY <2>1, <2>2
<1>9. \A r \in kresults : /\ r.name \in KeyNames
                          /\ r.name \notin kdoubt' => /\ keys[r.name] # NoKey
                                                      /\ MadeWith(keys[r.name], r.made)
  BY <1>6 DEF KeysInv
<1>10. keys \in [KeyNames -> {keys[n] : n \in KeyNames}]
  BY DEF KeysInv
<1> QED BY <1>1, <1>5, <1>8, <1>9, <1>10 DEF KeysInv, Writing

LEMMA ReturnedKeeps ==
    ASSUME KeysInv, NEW name \in KeyNames, NEW made, keys[name] # NoKey,
           MadeWith(keys[name], made), Returned(name, made)
    PROVE  KeysInv'
<1> DEFINE new == [name |-> name, made |-> made]
<1>1. /\ keys' = keys /\ kcalls' = kcalls /\ kdoubt' = kdoubt
      /\ kresults' = kresults \cup {new}
  BY DEF Returned
<1>2. new.name = name /\ new.made = made
  OBVIOUS
<1> HIDE DEF new
<1>3. ASSUME NEW r \in kresults'
      PROVE  /\ r.name \in KeyNames
             /\ r.name \notin kdoubt => keys[r.name] # NoKey /\ MadeWith(keys[r.name], r.made)
  <2>1. CASE r \in kresults
    BY <2>1 DEF KeysInv
  <2>2. CASE r = new
    BY <2>2, <1>2
  <2> QED BY <1>1, <2>1, <2>2
<1> QED BY <1>1, <1>3 DEF KeysInv, Writing

\* A call ends, its key written or not.
LEMMA KeyCallEnds ==
    ASSUME KeysInv, NEW c \in KeyClients, kcalls[c] # KeyIdle,
           kcalls' = [kcalls EXCEPT ![c] = KeyIdle], kresults' = kresults, kdoubt' = kdoubt,
           keys' \in {keys, [keys EXCEPT ![kcalls[c].name] = kcalls[c].bundle]}
    PROVE  KeysInv'
<1> DEFINE n == kcalls[c].name
<1>1. n \in KeyNames /\ (n \notin kdoubt => keys[n] = NoKey /\ \A d \in KeyClients \ {c} : ~Writing(d, n))
  BY DEF KeysInv
<1>2. kcalls'[c] = KeyIdle /\ \A d \in KeyClients \ {c} : kcalls'[d] = kcalls[d]
  BY DEF KeysInv
<1>3. kcalls' \in [KeyClients -> {kcalls'[d] : d \in KeyClients}]
  BY DEF KeysInv
<1>4. \A o \in KeyNames \ {n} : keys'[o] = keys[o]
  BY <1>1 DEF KeysInv
<1>5. keys' \in [KeyNames -> {keys'[o] : o \in KeyNames}]
  BY <1>1 DEF KeysInv
<1> HIDE DEF n
<1>6. ASSUME NEW d \in KeyClients, kcalls'[d] # KeyIdle
      PROVE  /\ kcalls'[d].pc = "write" /\ kcalls'[d].name \in KeyNames
             /\ kcalls'[d].name \notin kdoubt =>
                   /\ keys'[kcalls'[d].name] = NoKey
                   /\ \A f \in KeyClients \ {d} :
                         ~(kcalls'[f] # KeyIdle /\ kcalls'[f].name = kcalls'[d].name)
  <2>1. d # c /\ kcalls'[d] = kcalls[d] /\ kcalls[d] # KeyIdle
    BY <1>2, <1>6
  <2>2. /\ kcalls[d].pc = "write" /\ kcalls[d].name \in KeyNames
        /\ kcalls[d].name \notin kdoubt =>
              /\ keys[kcalls[d].name] = NoKey
              /\ \A f \in KeyClients \ {d} : ~Writing(f, kcalls[d].name)
    BY <2>1 DEF KeysInv
  <2>3. kcalls[d].name \notin kdoubt => kcalls[d].name # n
    BY <1>1, <2>1 DEF Writing
  <2> QED BY <2>1, <2>2, <2>3, <1>2, <1>4 DEF Writing
<1>7. ASSUME NEW r \in kresults
      PROVE  /\ r.name \in KeyNames
             /\ r.name \notin kdoubt => keys'[r.name] # NoKey /\ MadeWith(keys'[r.name], r.made)
  <2>1. /\ r.name \in KeyNames
        /\ r.name \notin kdoubt => keys[r.name] # NoKey /\ MadeWith(keys[r.name], r.made)
    BY DEF KeysInv
  <2>2. r.name \notin kdoubt => r.name # n
    BY <1>1, <2>1
  <2>3. r.name # n => keys'[r.name] = keys[r.name]
    BY <1>4, <2>1
  <2> QED BY <2>1, <2>2, <2>3
<1> QED BY <1>3, <1>5, <1>6, <1>7 DEF KeysInv, Writing

LEMMA KeysStep == KeysInv /\ [KeysNext]_keyVars => KeysInv'
<1> SUFFICES ASSUME KeysInv, [KeysNext]_keyVars PROVE KeysInv'
  OBVIOUS
<1>1. ASSUME NEW c \in KeyClients, NEW n \in KeyNames, NEW kind \in KeyKinds, generate_key(c, n, kind)
      PROVE  KeysInv'
  BY <1>1, WriteLaterKeeps DEF generate_key
<1>2. ASSUME NEW c \in KeyClients, NEW n \in KeyNames, NEW given \in KeyImports,
             import_key(c, n, given)
      PROVE  KeysInv'
  BY <1>2, WriteLaterKeeps DEF import_key
<1>3. ASSUME NEW c \in KeyClients, write_key(c) PROVE KeysInv'
  <2>1. kcalls[c] # KeyIdle
    BY <1>3 DEF write_key, KeyIdle
  <2> QED BY <1>3, <2>1, KeyCallEnds DEF write_key
<1>4. ASSUME NEW c \in KeyClients, KeyCallFails(c) PROVE KeysInv'
  BY <1>4, KeyCallEnds DEF KeyCallFails
<1>5. ASSUME NEW n \in KeyNames, NEW text \in KeyTexts, key_sign(n, text)
      PROVE  KeysInv'
  <2>1. /\ keys[n] # NoKey /\ Signs(keys[n])
        /\ Returned(n, sign_result(keys[n], text))
    BY <1>5 DEF key_sign, fetch_key
  <2>2. MadeWith(keys[n], sign_result(keys[n], text))
    BY <2>1 DEF MadeWith
  <2> QED BY <2>1, <2>2, ReturnedKeeps
<1>6. ASSUME NEW n \in KeyNames, NEW text \in KeyTexts, NEW aad \in KeyAads, key_encrypt(n, text, aad)
      PROVE  KeysInv'
  <2>1. /\ keys[n] # NoKey /\ Encrypts(keys[n])
        /\ Returned(n, encrypt_result(keys[n], text, aad))
    BY <1>6 DEF key_encrypt, fetch_key
  <2>2. MadeWith(keys[n], encrypt_result(keys[n], text, aad))
    BY <2>1 DEF MadeWith
  <2> QED BY <2>1, <2>2, ReturnedKeeps
<1>7. CASE UNCHANGED keyVars
  BY <1>7 DEF keyVars, KeysInv, Writing
<1> QED BY <1>1, <1>2, <1>3, <1>4, <1>5, <1>6, <1>7 DEF KeysNext

\* A result made with a bundle verifies or decrypts under it, for its own text and
\* its own additional data only.
LEMMA MadeStands ==
    ASSUME NEW b, NEW made, MadeWith(b, made)
    PROVE  \/ /\ made.op = "sign"
              /\ \A text \in KeyTexts : verify_signature(b, text, made) <=> (text = made.text)
           \/ /\ made.op = "encrypt"
              /\ \/ decrypt_result(b, made, made.aad) = made.text
                 \/ b.type = "rsa" /\ made.text.zero
              /\ b.type = "aes-gcm" =>
                   \A aad \in KeyAads \ {made.aad} : decrypt_result(b, made, aad) = Refused
<1>1. ASSUME NEW text \in KeyTexts, Signs(b), made = sign_result(b, text)
      PROVE  /\ made.op = "sign"
             /\ \A t \in KeyTexts : verify_signature(b, t, made) <=> (t = made.text)
  BY <1>1 DEF sign_result, verify_signature
<1>2. ASSUME NEW text \in KeyTexts, NEW aad \in KeyAads, Encrypts(b),
             made = encrypt_result(b, text, aad)
      PROVE  /\ made.op = "encrypt"
             /\ \/ decrypt_result(b, made, made.aad) = made.text
                \/ b.type = "rsa" /\ made.text.zero
             /\ b.type = "aes-gcm" =>
                  \A other \in KeyAads \ {made.aad} : decrypt_result(b, made, other) = Refused
  <2>1. made.op = "encrypt" /\ made.key = b.key /\ made.text = text
    BY <1>2 DEF encrypt_result
  <2>2. decrypt_result(b, made, made.aad) = made.text \/ (b.type = "rsa" /\ made.text.zero)
    BY <1>2, <2>1 DEF decrypt_result
  <2>3. b.type = "aes-gcm" =>
           \A other \in KeyAads \ {made.aad} : decrypt_result(b, made, other) = Refused
    BY DEF decrypt_result
  <2> QED BY <2>1, <2>2, <2>3
<1> QED BY <1>1, <1>2 DEF MadeWith

\* A signature or a ciphertext that path_keys.rs returned stays good under the
\* name it was made with, whatever is generated, imported, refused or fails
\* afterwards, as long as no check of that name failed and no two calls made it
\* at once: for any clients, names, kinds of keys, texts and additional data.
THEOREM KeyResultsStay == KeysSpec => []KeyResultsStand
<1>1. KeysInit => KeysInv
  BY DEF KeysInit, KeysInv
<1>2. KeysInv => KeyResultsStand
  <2> SUFFICES ASSUME KeysInv, NEW r \in kresults, r.name \notin kdoubt
               PROVE  \/ /\ r.made.op = "sign"
                         /\ \A text \in KeyTexts : key_verify(r.name, text, r.made) <=> (text = r.made.text)
                      \/ /\ r.made.op = "encrypt"
                         /\ \/ key_decrypt(r.name, r.made, r.made.aad) = r.made.text
                            \/ keys[r.name].type = "rsa" /\ r.made.text.zero
                         /\ keys[r.name].type = "aes-gcm" =>
                              \A aad \in KeyAads \ {r.made.aad} : key_decrypt(r.name, r.made, aad) = Refused
    BY DEF KeyResultsStand
  <2>1. MadeWith(keys[r.name], r.made)
    BY DEF KeysInv
  <2> QED BY <2>1, MadeStands DEF key_verify, key_decrypt, fetch_key
<1> QED BY <1>1, <1>2, KeysStep, PTL DEF KeysSpec

-----------------------------------------------------------------------------
(* Cipher objects *)

CipherAads == Aads \cup {NoAad}
CipherTexts == Seq(Chunks \cup {Tampered})
CipherTags == [aad : CipherAads, text : CipherTexts]
CipherCtxs == [state : {"none", "open", "final"}, aad : CipherAads, text : CipherTexts]
CipherObjects == [alg : Algs, aad : CipherAads, tag : CipherTags, ctx : CipherCtxs]

\* A context of an AEAD mode took the additional data of its object and has
\* text; streams and one-shot calls exist for GCM only.
CtxInv(o) ==
    IsAead(o.alg) /\ o.ctx # NoCtx => /\ o.alg.mode = "GCM"
                                      /\ o.ctx.aad = o.aad
                                      /\ o.ctx.text # <<>>

\* The tag of the encrypting object is that of the newest encryption, the tag
\* of the decrypting one that of some encryption.
CipherInv ==
    /\ enc \in CipherObjects /\ dec \in CipherObjects /\ enc.alg = dec.alg
    /\ ckept \in Seq(CipherTags) /\ copened \in Seq(CipherTags)
    /\ CtxInv(enc) /\ CtxInv(dec)
    /\ IsAead(enc.alg) =>
         /\ \A i \in DOMAIN copened : \E k \in DOMAIN ckept : copened[i] = ckept[k]
         /\ ckept # <<>> => enc.tag = ckept[Len(ckept)]
         /\ ckept = <<>> => enc.tag = NoTag
         /\ dec.tag # NoTag => \E k \in DOMAIN ckept : dec.tag = ckept[k]

LEMMA StreamUpdateFacts ==
    ASSUME NEW o \in CipherObjects, NEW chunk \in Chunks \cup {Tampered}, CtxInv(o),
           o.alg.mode \in {"CBC", "GCM"}
    PROVE  /\ StreamUpdate(o, chunk) \in CipherObjects
           /\ StreamUpdate(o, chunk).alg = o.alg
           /\ StreamUpdate(o, chunk).tag = o.tag
           /\ CtxInv(StreamUpdate(o, chunk))
<1> DEFINE ctx == [state |-> "open",
                   aad |-> IF IsAead(o.alg) /\ o.ctx.aad = NoAad THEN o.aad ELSE o.ctx.aad,
                   text |-> Append(o.ctx.text, chunk)]
<1>1. o.ctx \in CipherCtxs /\ o.aad \in CipherAads /\ o.ctx.aad \in CipherAads /\ o.ctx.text \in CipherTexts
  BY DEF CipherObjects, CipherCtxs
<1>2. Append(o.ctx.text, chunk) \in CipherTexts /\ Append(o.ctx.text, chunk) # <<>>
  BY <1>1 DEF CipherTexts
<1>3. ctx \in CipherCtxs
  BY <1>1, <1>2 DEF CipherCtxs
<1>4. ctx.text # <<>>
  BY <1>2
<1>5. IsAead(o.alg) => ctx.aad = o.aad
  <2>1. CASE o.ctx = NoCtx
    BY <2>1 DEF NoCtx, NoAad
  <2>2. CASE o.ctx # NoCtx
    BY <2>2 DEF CtxInv
  <2> QED BY <2>1, <2>2
<1>6. StreamUpdate(o, chunk) = [o EXCEPT !.ctx = ctx]
  BY DEF StreamUpdate
<1> HIDE DEF ctx
<1>7. /\ StreamUpdate(o, chunk) \in CipherObjects
      /\ StreamUpdate(o, chunk).alg = o.alg
      /\ StreamUpdate(o, chunk).aad = o.aad
      /\ StreamUpdate(o, chunk).tag = o.tag
      /\ StreamUpdate(o, chunk).ctx = ctx
  BY <1>3, <1>6 DEF CipherObjects
<1> QED BY <1>4, <1>5, <1>7 DEF CtxInv, IsAead

\* A decryption that ends well, of what is among the encryptions.
LEMMA OpenedKeeps ==
    ASSUME CipherInv, NEW item \in CipherTags, enc' = enc, ckept' = ckept,
           dec' \in CipherObjects, dec'.alg = dec.alg, dec'.tag = dec.tag, CtxInv(dec'),
           copened' = Append(copened, item),
           IsAead(enc.alg) => \E k \in DOMAIN ckept : item = ckept[k]
    PROVE  CipherInv'
<1>1. copened' \in Seq(CipherTags)
  BY DEF CipherInv
<1>2. ASSUME IsAead(enc.alg), NEW i \in DOMAIN copened'
      PROVE  \E k \in DOMAIN ckept : copened'[i] = ckept[k]
  <2>1. i \in DOMAIN copened \/ copened'[i] = item
    BY DEF CipherInv
  <2>2. i \in DOMAIN copened => copened'[i] = copened[i]
    BY DEF CipherInv
  <2> QED BY <1>2, <2>1, <2>2 DEF CipherInv
<1> QED BY <1>1, <1>2 DEF CipherInv

\* An encryption that ends well: an AEAD object has its tag afterwards.
LEMMA KeptKeeps ==
    ASSUME CipherInv, NEW item \in CipherTags, dec' = dec, copened' = copened,
           enc' \in CipherObjects, enc'.alg = enc.alg, CtxInv(enc'),
           ckept' = Append(ckept, item), IsAead(enc.alg) => enc'.tag = item
    PROVE  CipherInv'
<1>1. /\ ckept' \in Seq(CipherTags) /\ ckept' # <<>> /\ ckept'[Len(ckept')] = item
      /\ \A k \in DOMAIN ckept : k \in DOMAIN ckept' /\ ckept'[k] = ckept[k]
  BY DEF CipherInv
<1>2. IsAead(enc.alg) =>
        /\ \A i \in DOMAIN copened : \E k \in DOMAIN ckept' : copened[i] = ckept'[k]
        /\ dec.tag # NoTag => \E k \in DOMAIN ckept' : dec.tag = ckept'[k]
  BY <1>1 DEF CipherInv
<1> QED BY <1>1, <1>2 DEF CipherInv

LEMMA CipherStep == CipherInv /\ [CipherNext]_cipherVars => CipherInv'
<1> SUFFICES ASSUME CipherInv, [CipherNext]_cipherVars PROVE CipherInv'
  OBVIOUS
<1>0. /\ enc \in CipherObjects /\ dec \in CipherObjects /\ enc.alg = dec.alg
      /\ ckept \in Seq(CipherTags) /\ copened \in Seq(CipherTags)
      /\ enc.ctx \in CipherCtxs /\ dec.ctx \in CipherCtxs
      /\ enc.aad \in CipherAads /\ dec.aad \in CipherAads
      /\ CtxInv(enc) /\ CtxInv(dec)
  BY DEF CipherInv, CipherObjects
<1>1. ASSUME NEW aad \in Aads, EncAad(aad)
      PROVE  CipherInv'
  <2>1. /\ enc' = [enc EXCEPT !.aad = aad] /\ enc.ctx = NoCtx
        /\ dec' = dec /\ ckept' = ckept /\ copened' = copened
    BY <1>1 DEF EncAad, set_aad
  <2>2. /\ enc' \in CipherObjects /\ enc'.alg = enc.alg /\ enc'.tag = enc.tag /\ enc'.ctx = NoCtx
    BY <1>0, <2>1 DEF CipherObjects, CipherAads
  <2> QED BY <1>0, <2>1, <2>2 DEF CipherInv, CtxInv
<1>2. ASSUME NEW aad \in Aads, DecAad(aad)
      PROVE  CipherInv'
  <2>1. /\ dec' = [dec EXCEPT !.aad = aad] /\ dec.ctx = NoCtx
        /\ enc' = enc /\ ckept' = ckept /\ copened' = copened
    BY <1>2 DEF DecAad, set_aad
  <2>2. /\ dec' \in CipherObjects /\ dec'.alg = dec.alg /\ dec'.tag = dec.tag /\ dec'.ctx = NoCtx
    BY <1>0, <2>1 DEF CipherObjects, CipherAads
  <2> QED BY <1>0, <2>1, <2>2 DEF CipherInv, CtxInv
<1>3. ASSUME NEW chunk \in Chunks, encrypt(<<chunk>>)
      PROVE  CipherInv'
  <2> DEFINE item == TagOf(enc.aad, <<chunk>>)
             tag == IF IsAead(enc.alg) THEN item ELSE enc.tag
  <2>1. item \in CipherTags
    BY <1>0 DEF TagOf, CipherTags, CipherTexts
  <2>2. /\ enc' = [enc EXCEPT !.tag = tag] /\ ckept' = Append(ckept, item)
        /\ dec' = dec /\ copened' = copened
    BY <1>3 DEF encrypt
  <2>3. tag \in CipherTags
    BY <1>0, <2>1 DEF CipherObjects
  <2> HIDE DEF tag, item
  <2>4. /\ enc' \in CipherObjects /\ enc'.alg = enc.alg /\ enc'.tag = tag
        /\ enc'.ctx = enc.ctx /\ enc'.aad = enc.aad
    BY <1>0, <2>2, <2>3 DEF CipherObjects
  <2>5. CtxInv(enc')
    BY <1>0, <2>4 DEF CtxInv
  <2>6. IsAead(enc.alg) => enc'.tag = item
    BY <2>4 DEF tag
  <2> QED BY <2>1, <2>2, <2>4, <2>5, <2>6, KeptKeeps
<1>4. ASSUME NEW chunk \in Chunks, EncUpdate(chunk)
      PROVE  CipherInv'
  <2>1. /\ enc.alg.mode \in {"CBC", "GCM"} /\ enc' = StreamUpdate(enc, chunk)
        /\ dec' = dec /\ ckept' = ckept /\ copened' = copened
    BY <1>4 DEF EncUpdate, aes_encrypt_update, sm4_encrypt_update, aes_stream, sm4_modes
  <2>2. enc' \in CipherObjects /\ enc'.alg = enc.alg /\ enc'.tag = enc.tag /\ CtxInv(enc')
    BY <1>0, <2>1, StreamUpdateFacts
  <2> QED BY <1>0, <2>1, <2>2 DEF CipherInv
<1>5. CASE encrypt_final
  <2> DEFINE item == TagOf(enc.ctx.aad, enc.ctx.text)
             over == enc.alg.mode = "GCM" /\ enc.tag # NoTag
             tag == IF enc.alg.mode = "GCM" /\ enc.tag = NoTag THEN item ELSE enc.tag
  <2>1. /\ enc.ctx.state = "open" /\ dec' = dec /\ copened' = copened
        /\ enc' = [enc EXCEPT !.ctx.state = "final", !.tag = tag]
        /\ ckept' = IF over THEN ckept ELSE Append(ckept, item)
    BY <1>5 DEF encrypt_final, StreamFinal
  <2>2. item \in CipherTags
    BY <1>0 DEF TagOf, CipherTags, CipherCtxs
  <2>3. tag \in CipherTags
    BY <1>0, <2>2 DEF CipherObjects
  <2>4. IsAead(enc.alg) /\ ~over => tag = item
    BY <1>0, <2>1 DEF CtxInv, NoCtx
  <2>5. over => tag = enc.tag
    OBVIOUS
  <2> HIDE DEF tag, item
  <2>6. /\ enc' \in CipherObjects /\ enc'.alg = enc.alg /\ enc'.tag = tag /\ enc'.aad = enc.aad
        /\ enc'.ctx.aad = enc.ctx.aad /\ enc'.ctx.text = enc.ctx.text
    BY <1>0, <2>1, <2>3 DEF CipherObjects, CipherCtxs
  <2>7. CtxInv(enc')
    <3>1. enc.ctx # NoCtx
      BY <2>1 DEF NoCtx
    <3> QED BY <1>0, <2>6, <3>1 DEF CtxInv
  <2>8. CASE over
    <3>1. ckept' = ckept /\ enc'.tag = enc.tag
      BY <2>1, <2>5, <2>6, <2>8
    <3> QED BY <1>0, <2>1, <2>6, <2>7, <3>1 DEF CipherInv
  <2>9. CASE ~over
    <3>1. ckept' = Append(ckept, item)
      BY <2>1, <2>9
    <3> QED BY <2>1, <2>2, <2>4, <2>6, <2>7, <2>9, <3>1, KeptKeeps
  <2> QED BY <2>8, <2>9
<1>6. CASE set_tag
  <2>1. /\ enc.tag # NoTag /\ dec' = [dec EXCEPT !.tag = enc.tag]
        /\ enc' = enc /\ ckept' = ckept /\ copened' = copened
    BY <1>6 DEF set_tag, get_tag
  <2>2. enc.tag \in CipherTags
    BY <1>0 DEF CipherObjects
  <2>3. /\ dec' \in CipherObjects /\ dec'.alg = dec.alg /\ dec'.tag = enc.tag
        /\ dec'.ctx = dec.ctx /\ dec'.aad = dec.aad
    BY <1>0, <2>1, <2>2 DEF CipherObjects
  <2>4. CtxInv(dec')
    BY <1>0, <2>3 DEF CtxInv
  <2>5. IsAead(enc.alg) => \E k \in DOMAIN ckept : enc.tag = ckept[k]
    <3> SUFFICES ASSUME IsAead(enc.alg) PROVE \E k \in DOMAIN ckept : enc.tag = ckept[k]
      OBVIOUS
    <3>1. ckept # <<>> /\ enc.tag = ckept[Len(ckept)]
      BY <2>1 DEF CipherInv
    <3> QED BY <1>0, <3>1
  <2> QED BY <1>0, <2>1, <2>3, <2>4, <2>5 DEF CipherInv
<1>7. ASSUME NEW text \in Handed, decrypt(text)
      PROVE  CipherInv'
  <2> DEFINE item == [aad |-> dec.aad, text |-> text]
  <2>1. text \in CipherTexts
    <3>1. ASSUME NEW i \in DOMAIN ckept
          PROVE  ckept[i].text \in CipherTexts
      <4>1. ckept[i] \in CipherTags
        BY <1>0
      <4> QED BY <4>1 DEF CipherTags
    <3>2. <<Tampered>> \in CipherTexts
      BY DEF CipherTexts
    <3> QED BY <3>1, <3>2 DEF Handed
  <2>2. item \in CipherTags
    BY <1>0, <2>1 DEF CipherTags
  <2>3. enc' = enc /\ dec' = dec /\ ckept' = ckept /\ copened' = Append(copened, item)
    BY <1>7 DEF decrypt
  <2>4. ASSUME IsAead(enc.alg)
        PROVE  \E k \in DOMAIN ckept : item = ckept[k]
    <3>1. dec.aad # NoAad /\ dec.tag = item
      BY <1>0, <1>7, <2>4 DEF decrypt, TagOf
    <3>2. dec.tag # NoTag
      BY <3>1 DEF NoTag, NoAad
    <3> QED BY <2>4, <3>1, <3>2 DEF CipherInv
  <2> HIDE DEF item
  <2> QED BY <1>0, <2>2, <2>3, <2>4, OpenedKeeps
<1>8. ASSUME NEW chunk \in Chunks \cup {Tampered}, DecUpdate(chunk)
      PROVE  CipherInv'
  <2>1. /\ dec.alg.mode \in {"CBC", "GCM"} /\ dec' = StreamUpdate(dec, chunk)
        /\ enc' = enc /\ ckept' = ckept /\ copened' = copened
    BY <1>8 DEF DecUpdate, aes_decrypt_update, sm4_decrypt_update, aes_stream, sm4_modes
  <2>2. dec' \in CipherObjects /\ dec'.alg = dec.alg /\ dec'.tag = dec.tag /\ CtxInv(dec')
    BY <1>0, <2>1, StreamUpdateFacts
  <2> QED BY <1>0, <2>1, <2>2 DEF CipherInv
<1>9. CASE decrypt_final
  <2> DEFINE item == [aad |-> dec.aad, text |-> dec.ctx.text]
             fits == dec.alg.mode # "GCM" \/ dec.tag = TagOf(dec.ctx.aad, dec.ctx.text)
  <2>1. /\ dec.ctx.state = "open" /\ enc' = enc /\ ckept' = ckept
        /\ dec.alg.mode = "GCM" => dec.tag # NoTag
        /\ dec' = [dec EXCEPT !.ctx.state = "final"]
        /\ copened' = IF fits THEN Append(copened, item) ELSE copened
    BY <1>9 DEF decrypt_final
  <2>2. item \in CipherTags
    BY <1>0 DEF CipherTags, CipherCtxs
  <2>3. /\ dec' \in CipherObjects /\ dec'.alg = dec.alg /\ dec'.tag = dec.tag /\ dec'.aad = dec.aad
        /\ dec'.ctx.aad = dec.ctx.aad /\ dec'.ctx.text = dec.ctx.text
    BY <1>0, <2>1 DEF CipherObjects, CipherCtxs
  <2>4. dec.ctx # NoCtx
    BY <2>1 DEF NoCtx
  <2>5. CtxInv(dec')
    BY <1>0, <2>3, <2>4 DEF CtxInv
  <2>6. CASE fits
    <3>1. ASSUME IsAead(enc.alg)
          PROVE  \E k \in DOMAIN ckept : item = ckept[k]
      <4>1. dec.alg.mode = "GCM" /\ dec.ctx.aad = dec.aad
        BY <1>0, <2>4, <3>1 DEF CtxInv
      <4>2. dec.tag = item /\ dec.tag # NoTag
        BY <2>1, <2>6, <4>1 DEF TagOf
      <4> QED BY <3>1, <4>2 DEF CipherInv
    <3>2. copened' = Append(copened, item)
      BY <2>1, <2>6
    <3> HIDE DEF item
    <3> QED BY <2>1, <2>2, <2>3, <2>5, <3>1, <3>2, OpenedKeeps
  <2>7. CASE ~fits
    <3>1. copened' = copened
      BY <2>1, <2>7
    <3> QED BY <1>0, <2>1, <2>3, <2>5, <3>1 DEF CipherInv
  <2> QED BY <2>6, <2>7
<1>10. CASE UNCHANGED cipherVars
  BY <1>10 DEF cipherVars, CipherInv
<1> QED BY <1>1, <1>2, <1>3, <1>4, <1>5, <1>6, <1>7, <1>8, <1>9, <1>10 DEF CipherNext

\* What an AEAD object opens is a whole text that was encrypted with the
\* additional data of the decrypting side, and get_tag returns the tag of the last
\* encryption (crypto_adaptors/common.rs, tongsuo_adaptor.rs): for every sequence
\* of calls, any algorithms, pieces of text and additional data, and streams of
\* any length.
THEOREM CiphersHonest == CipherSpec => []CipherHonest
<1>1. CipherInit => CipherInv
  <2> SUFFICES ASSUME CipherInit PROVE CipherInv
    OBVIOUS
  <2>1. PICK alg \in Algs : enc = NewCipher(alg) /\ dec = NewCipher(alg)
    BY DEF CipherInit
  <2>2. enc = [alg |-> alg, aad |-> NoAad, tag |-> NoTag, ctx |-> NoCtx] /\ dec = enc
    BY <2>1 DEF NewCipher, aes_new, sm4_new
  <2>3. <<>> \in CipherTexts /\ NoAad \in CipherAads
    BY DEF CipherTexts, CipherAads
  <2>4. NoTag \in CipherTags /\ NoCtx \in CipherCtxs
    BY <2>3 DEF NoTag, NoCtx, CipherTags, CipherCtxs, NoAad
  <2>5. enc \in CipherObjects /\ enc.tag = NoTag /\ enc.ctx = NoCtx
    BY <2>2, <2>3, <2>4 DEF CipherObjects
  <2>6. ckept = <<>> /\ copened = <<>>
    BY DEF CipherInit
  <2> QED BY <2>2, <2>5, <2>6 DEF CipherInv, CtxInv
<1>2. CipherInv => CipherHonest
  BY DEF CipherInv, CipherHonest, get_tag
<1> QED BY <1>1, <1>2, CipherStep, PTL DEF CipherSpec

-----------------------------------------------------------------------------
(* Certificates *)

\* A CA's bundle as it is stored: its key is the certificate's.
CaBundle(b) ==
    b.private_key = b.certificate.key /\ b.certificate.is_ca /\ b.serial_number.n \in Nat

\* A certificate of issue_cert and the CA it goes with, for a call with this ttl.
MadeOk(made, ttl) ==
    /\ made.certificate.serial \in Nat \ {0}
    /\ made.certificate.not_after \in Int
    /\ made.serial_number.n = made.certificate.serial
    /\ made.certificate.signed_by = made.ca_chain[1].key
    /\ made.ca_chain[1].is_ca
    /\ ttl # 0 => made.certificate.not_after <= made.ca_chain[1].not_after

PkiCallOk(call) ==
    /\ call.pc \in {"idle", "bundle", "pem", "cert", "crl", "uncert", "unbundle",
                    "sign", "store", "answer"}
    /\ call.pc \in {"bundle", "pem", "cert"} =>
         /\ call = [pc |-> call.pc, bundle |-> call.bundle, then |-> call.then]
         /\ CaBundle(call.bundle)
    /\ call.pc = "uncert" => call.serial.n \in Nat
    /\ call.pc = "sign" => call.ttl \in Nat
    /\ call.pc \in {"store", "answer"} =>
         /\ call = [pc |-> call.pc, made |-> call.made, role |-> call.role, ttl |-> call.ttl]
         /\ MadeOk(call.made, call.ttl)

\* The number under which a call stores or deletes the certificate of a CA.
CallsCa(call, m) ==
    \/ call.pc \in {"bundle", "pem", "cert"} /\ call.bundle.serial_number.n = m
    \/ call.pc = "uncert" /\ call.serial.n = m

\* The number of the certificate that a call has made and not yet returned.
CallsLeaf(call, m) == call.pc \in {"store", "answer"} /\ call.made.certificate.serial = m

CaNumber(m) ==
    \/ pkca # NoBundle /\ pkca.serial_number.n = m
    \/ \E c \in PkiClients : CallsCa(pkcalls[c], m)

KeptAs(certs, x) ==
    /\ Spelled(x.serial, "-", FALSE) \in DOMAIN certs
    /\ certs[Spelled(x.serial, "-", FALSE)] = x

PkiTyped ==
    /\ pkserial \in Nat /\ pkclock \in Nat
    /\ pkcalls \in [PkiClients -> {pkcalls[c] : c \in PkiClients}]
    /\ \A c \in PkiClients : PkiCallOk(pkcalls[c])
    /\ pkca # NoBundle => CaBundle(pkca)

\* A number belongs to one certificate: that of a CA, that of one call, or
\* one that was returned.
NumbersApart ==
    /\ \A m \in Nat : CaNumber(m) => m <= pkserial
    /\ \A c \in PkiClients, m \in Nat : CallsLeaf(pkcalls[c], m) => m <= pkserial /\ ~CaNumber(m)
    /\ \A c, d \in PkiClients, m \in Nat :
         CallsLeaf(pkcalls[c], m) /\ CallsLeaf(pkcalls[d], m) => c = d
    /\ \A i \in pkissued : /\ i.cert.serial \in Nat \ {0}
                           /\ i.cert.serial <= pkserial
                           /\ ~CaNumber(i.cert.serial)
                           /\ \A c \in PkiClients : ~CallsLeaf(pkcalls[c], i.cert.serial)

\* What has to be stored is stored.
CertsKept ==
    /\ \A i \in pkissued : i.stored => KeptAs(pkcerts, i.cert)
    /\ \A c \in PkiClients :
         pkcalls[c].pc = "answer" /\ ~pkcalls[c].role.no_store
            => KeptAs(pkcerts, pkcalls[c].made.certificate)

PkiInv == PkiTyped /\ NumbersApart /\ CertsKept /\ IssuedSigned /\ IssuedInTime

\* Storing or deleting the certificate under number m leaves the others.
LEMMA StoreLeaves ==
    ASSUME NEW text, NEW x509, store_cert(text, x509), NEW x, x.serial # text.n, KeptAs(pkcerts, x)
    PROVE  KeptAs(pkcerts', x)
<1> DEFINE key == serial_number_hex(text)
           k == Spelled(x.serial, "-", FALSE)
<1>1. key # k
  BY DEF serial_number_hex, Spelled
<1>2. pkcerts' = [j \in DOMAIN pkcerts \cup {key} |-> IF j = key THEN x509 ELSE pkcerts[j]]
  BY DEF store_cert
<1>3. k \in DOMAIN pkcerts /\ pkcerts[k] = x
  BY DEF KeptAs
<1> HIDE DEF key, k
<1>4. k \in DOMAIN pkcerts' /\ pkcerts'[k] = x
  BY <1>1, <1>2, <1>3
<1> QED BY <1>4 DEF KeptAs, k

LEMMA StoreStores ==
    ASSUME NEW text, NEW x, store_cert(text, x), x.serial = text.n
    PROVE  KeptAs(pkcerts', x)
<1> DEFINE key == serial_number_hex(text)
<1>1. key = Spelled(x.serial, "-", FALSE)
  BY DEF serial_number_hex
<1>2. pkcerts' = [j \in DOMAIN pkcerts \cup {key} |-> IF j = key THEN x ELSE pkcerts[j]]
  BY DEF store_cert
<1> HIDE DEF key
<1>3. key \in DOMAIN pkcerts' /\ pkcerts'[key] = x
  BY <1>2
<1> QED BY <1>1, <1>3 DEF KeptAs

\* A number that this step draws.
Fresh(m) == pkserial' = pkserial + 1 /\ m = pkserial'

\* The numbers of the call are its own, the CA's or new ones.
NumbersFit(c, new) ==
    /\ \A m \in Nat : CallsCa(new, m) => CaNumber(m) \/ m = 0 \/ Fresh(m)
    /\ \A m \in Nat : CallsLeaf(new, m) => CallsLeaf(pkcalls[c], m) \/ Fresh(m)

\* The bundle that is stored is the one that was, or the one of a call.
CaFits == pkca' # NoBundle => CaBundle(pkca') /\ CaNumber(pkca'.serial_number.n)

\* What is neither a CA's nor the call's own stays stored.
OthersLeft(c) ==
    \A x : (/\ KeptAs(pkcerts, x) /\ x.serial \in Nat
            /\ ~CaNumber(x.serial) /\ ~CallsLeaf(pkcalls[c], x.serial))
           => KeptAs(pkcerts', x)

\* A step in which one call goes on leaves the numbers apart.
LEMMA CallMoves ==
    ASSUME PkiInv, NEW c \in PkiClients, NEW new, PkiCallOk(new),
           pkcalls' = [pkcalls EXCEPT ![c] = new],
           pkserial' = pkserial \/ pkserial' = pkserial + 1, pkclock' \in Nat, pkissued' = pkissued,
           NumbersFit(c, new), CaFits
    PROVE  /\ PkiTyped' /\ NumbersApart' /\ IssuedSigned' /\ IssuedInTime'
           /\ \A d \in PkiClients : pkcalls'[d] = IF d = c THEN new ELSE pkcalls[d]
<1>0. /\ \A m \in Nat : CallsCa(new, m) => CaNumber(m) \/ m = 0 \/ Fresh(m)
      /\ \A m \in Nat : CallsLeaf(new, m) => CallsLeaf(pkcalls[c], m) \/ Fresh(m)
      /\ pkca' # NoBundle => CaBundle(pkca') /\ CaNumber(pkca'.serial_number.n)
  BY DEF NumbersFit, CaFits
<1>1. /\ \A d \in PkiClients : pkcalls'[d] = IF d = c THEN new ELSE pkcalls[d]
      /\ pkcalls' \in [PkiClients -> {pkcalls'[d] : d \in PkiClients}]
  BY DEF PkiInv, PkiTyped
<1>2. pkserial \in Nat /\ pkserial' \in Nat /\ pkserial <= pkserial'
  BY DEF PkiInv, PkiTyped
<1>3. PkiTyped'
  BY <1>0, <1>1, <1>2 DEF PkiInv, PkiTyped
<1>4. ASSUME NEW m \in Nat, CaNumber(m)'
      PROVE  CaNumber(m) \/ m = 0 \/ Fresh(m)
  <2>1. CASE pkca' # NoBundle /\ pkca'.serial_number.n = m
    BY <1>0, <2>1
  <2>2. ASSUME NEW d \in PkiClients, CallsCa(pkcalls'[d], m)
        PROVE  CaNumber(m) \/ m = 0 \/ Fresh(m)
    <3>1. CASE d = c
      BY <1>0, <1>1, <2>2, <3>1
    <3>2. CASE d # c
      BY <1>1, <2>2, <3>2 DEF CaNumber
    <3> QED BY <3>1, <3>2
  <2> QED BY <1>4, <2>1, <2>2 DEF CaNumber
<1>5. ASSUME NEW d \in PkiClients, NEW m \in Nat, CallsLeaf(pkcalls'[d], m)
      PROVE  \/ CallsLeaf(pkcalls[d], m)
             \/ d = c /\ Fresh(m)
  BY <1>0, <1>1, <1>5
<1>6. \A m \in Nat : CaNumber(m) => m <= pkserial
  BY DEF PkiInv, NumbersApart
<1>7. \A d \in PkiClients, m \in Nat : CallsLeaf(pkcalls[d], m) => m <= pkserial /\ ~CaNumber(m) /\ m # 0
  <2>1. ASSUME NEW d \in PkiClients, NEW m \in Nat, CallsLeaf(pkcalls[d], m)
        PROVE  m # 0
    BY <2>1 DEF PkiInv, PkiTyped, PkiCallOk, MadeOk, CallsLeaf
  <2> QED BY <2>1 DEF PkiInv, NumbersApart
<1>8. ASSUME NEW m \in Nat, CaNumber(m)' PROVE m <= pkserial'
  BY <1>2, <1>4, <1>6, <1>8 DEF Fresh
<1>9. ASSUME NEW d \in PkiClients, NEW m \in Nat, CallsLeaf(pkcalls'[d], m)
      PROVE  m <= pkserial' /\ ~CaNumber(m)'
  <2>1. CASE CallsLeaf(pkcalls[d], m)
    BY <1>2, <1>4, <1>7, <2>1 DEF Fresh
  <2>2. CASE ~CallsLeaf(pkcalls[d], m)
    <3>1. d = c /\ Fresh(m) /\ CallsLeaf(new, m)
      BY <1>1, <1>5, <1>9, <2>2
    <3>2. ~CallsCa(new, m)
      BY <3>1 DEF CallsLeaf, CallsCa
    <3>3. ~CaNumber(m)
      BY <1>2, <1>6, <3>1 DEF Fresh
    <3>4. ~(pkca' # NoBundle /\ pkca'.serial_number.n = m)
      BY <1>0, <3>3
    <3>5. ASSUME NEW e \in PkiClients PROVE ~CallsCa(pkcalls'[e], m)
      BY <1>1, <3>2, <3>3 DEF CaNumber
    <3> QED BY <1>2, <3>1, <3>4, <3>5 DEF CaNumber, Fresh
  <2> QED BY <2>1, <2>2
<1>10. ASSUME NEW d \in PkiClients, NEW e \in PkiClients, NEW m \in Nat,
              CallsLeaf(pkcalls'[d], m), CallsLeaf(pkcalls'[e], m)
       PROVE  d = e
  <2>1. CASE CallsLeaf(pkcalls[d], m) /\ CallsLeaf(pkcalls[e], m)
    BY <2>1 DEF PkiInv, NumbersApart
  <2>2. CASE ~(CallsLeaf(pkcalls[d], m) /\ CallsLeaf(pkcalls[e], m))
    BY <1>2, <1>5, <1>7, <1>10, <2>2 DEF Fresh
  <2> QED BY <2>1, <2>2
<1>11. ASSUME NEW i \in pkissued
       PROVE  /\ i.cert.serial \in Nat \ {0}
              /\ i.cert.serial <= pkserial'
              /\ ~CaNumber(i.cert.serial)'
              /\ \A d \in PkiClients : ~CallsLeaf(pkcalls'[d], i.cert.serial)
  <2> DEFINE m == i.cert.serial
  <2>1. /\ m \in Nat /\ m # 0 /\ m <= pkserial /\ ~CaNumber(m)
        /\ \A d \in PkiClients : ~CallsLeaf(pkcalls[d], m)
    BY DEF PkiInv, NumbersApart
  <2>2. m <= pkserial' /\ ~Fresh(m)
    BY <1>2, <2>1 DEF Fresh
  <2>3. \A d \in PkiClients : ~CallsLeaf(pkcalls'[d], m)
    BY <1>5, <2>1, <2>2
  <2>4. ASSUME NEW k \in Nat, k = m PROVE ~CaNumber(k)'
    BY <1>4, <2>1, <2>2, <2>4
  <2>5. ~(pkca' # NoBundle /\ pkca'.serial_number.n = m)
    BY <2>1, <2>4 DEF CaNumber
  <2>6. \A d \in PkiClients : ~CallsCa(pkcalls'[d], m)
    BY <2>1, <2>4 DEF CaNumber
  <2> QED BY <2>1, <2>2, <2>3, <2>5, <2>6 DEF CaNumber
<1>12. NumbersApart'
  BY <1>8, <1>9, <1>10, <1>11 DEF NumbersApart
<1>13. IssuedSigned' /\ IssuedInTime'
  BY DEF PkiInv, IssuedSigned, IssuedInTime
<1> QED BY <1>1, <1>3, <1>12, <1>13

\* The same with what is stored: the step leaves every certificate that is neither
\* a CA's nor the call's own.
LEMMA CallKeeps ==
    ASSUME PkiInv, NEW c \in PkiClients, NEW new, PkiCallOk(new),
           pkcalls' = [pkcalls EXCEPT ![c] = new],
           pkserial' = pkserial \/ pkserial' = pkserial + 1, pkclock' \in Nat, pkissued' = pkissued,
           NumbersFit(c, new), CaFits, OthersLeft(c),
           new.pc = "answer" /\ ~new.role.no_store => KeptAs(pkcerts', new.made.certificate)
    PROVE  PkiInv'
<1>1. /\ PkiTyped' /\ NumbersApart' /\ IssuedSigned' /\ IssuedInTime'
      /\ \A d \in PkiClients : pkcalls'[d] = IF d = c THEN new ELSE pkcalls[d]
  BY CallMoves
<1>2. ASSUME NEW i \in pkissued, i.stored
      PROVE  KeptAs(pkcerts', i.cert)
  <2>1. /\ KeptAs(pkcerts, i.cert) /\ i.cert.serial \in Nat /\ ~CaNumber(i.cert.serial)
        /\ ~CallsLeaf(pkcalls[c], i.cert.serial)
    BY <1>2 DEF PkiInv, NumbersApart, CertsKept
  <2> QED BY <2>1 DEF OthersLeft
<1>3. ASSUME NEW d \in PkiClients, pkcalls'[d].pc = "answer", ~pkcalls'[d].role.no_store
      PROVE  KeptAs(pkcerts', pkcalls'[d].made.certificate)
  <2>1. CASE d = c
    BY <1>1, <1>3, <2>1
  <2>2. CASE d # c
    <3> DEFINE x == pkcalls[d].made.certificate
    <3>1. pkcalls'[d] = pkcalls[d] /\ KeptAs(pkcerts, x)
      BY <1>1, <1>3, <2>2 DEF PkiInv, CertsKept
    <3>2. x.serial \in Nat /\ CallsLeaf(pkcalls[d], x.serial)
      BY <1>3, <3>1 DEF PkiInv, PkiTyped, PkiCallOk, MadeOk, CallsLeaf
    <3>3. ~CaNumber(x.serial) /\ ~CallsLeaf(pkcalls[c], x.serial)
      BY <2>2, <3>2 DEF PkiInv, NumbersApart
    <3> HIDE DEF x
    <3>4. KeptAs(pkcerts', x)
      BY <3>1, <3>2, <3>3 DEF OthersLeft
    <3> QED BY <3>1, <3>4 DEF x
  <2> QED BY <2>1, <2>2
<1>4. CertsKept'
  BY <1>2, <1>3 DEF CertsKept
<1> QED BY <1>1, <1>4 DEF PkiInv

\* A call that ends, or that goes on without a certificate at hand.
LEMMA CallRests ==
    ASSUME PkiInv, NEW c \in PkiClients, NEW new, pkcalls' = [pkcalls EXCEPT ![c] = new],
           new.pc \in {"idle", "crl", "unbundle"},
           pkserial' = pkserial, pkclock' = pkclock, pkissued' = pkissued,
           pkca' = pkca \/ pkca' = NoBundle, OthersLeft(c)
    PROVE  PkiInv'
<1>1. PkiCallOk(new) /\ \A m : ~CallsCa(new, m) /\ ~CallsLeaf(new, m)
  BY DEF PkiCallOk, CallsCa, CallsLeaf
<1>2. NumbersFit(c, new)
  BY <1>1 DEF NumbersFit
<1>3. CaFits
  BY DEF PkiInv, PkiTyped, CaNumber, CaFits
<1>4. pkclock' \in Nat
  BY DEF PkiInv, PkiTyped
<1>5. new.pc # "answer"
  OBVIOUS
<1> QED BY <1>1, <1>2, <1>3, <1>4, <1>5, CallKeeps

\* The certificate of a CA is stored under its own number.
LEMMA StoreCaLeaves ==
    ASSUME NEW text, NEW x509, store_cert(text, x509), CaNumber(text.n),
           NEW x, KeptAs(pkcerts, x), ~CaNumber(x.serial)
    PROVE  KeptAs(pkcerts', x)
<1>1. x.serial # text.n
  OBVIOUS
<1> QED BY <1>1, StoreLeaves

LEMMA RootSteps ==
    ASSUME PkiInv, NEW c \in PkiClients,
           \/ \E life \in RootLives, type \in {"rsa", "ec"}, bits \in {0, 512} :
                generate_root(c, type, bits, life)
           \/ \E pem \in PemBundles : write_path_ca(c, pem)
           \/ PutBundle(c) \/ PutPem(c) \/ PutCaCert(c) \/ PutCrl(c)
           \/ delete_root(c) \/ delete_cert(c) \/ delete_ca_bundle(c)
    PROVE  PkiInv'
<1>0. /\ pkserial \in Nat /\ pkclock \in Nat /\ PkiCallOk(pkcalls[c])
      /\ pkca # NoBundle => CaBundle(pkca) /\ CaNumber(pkca.serial_number.n)
  BY DEF PkiInv, PkiTyped, CaNumber
<1>1. ASSUME NEW bundle, NEW then, CaBundle(bundle), StoreCaBundle(c, bundle, then),
             \/ pkserial' = pkserial /\ bundle.serial_number.n = 0
             \/ pkserial' = pkserial + 1 /\ bundle.serial_number.n = pkserial + 1,
             pkca' = pkca /\ pkcerts' = pkcerts /\ pkclock' = pkclock /\ pkissued' = pkissued
      PROVE  PkiInv'
  <2> DEFINE new == [pc |-> "bundle", bundle |-> bundle, then |-> then]
  <2>1. pkcalls' = [pkcalls EXCEPT ![c] = new]
    BY <1>1 DEF StoreCaBundle, PkiGoto
  <2>2. new.pc = "bundle" /\ new.bundle = bundle /\ new.then = then
        /\ new = [pc |-> new.pc, bundle |-> new.bundle, then |-> new.then]
    OBVIOUS
  <2> HIDE DEF new
  <2>3. PkiCallOk(new)
    BY <1>1, <2>2 DEF PkiCallOk
  <2>4. \A m \in Nat : CallsCa(new, m) => m = 0 \/ Fresh(m)
    BY <1>1, <2>2 DEF CallsCa, Fresh
  <2>5. \A m \in Nat : ~CallsLeaf(new, m)
    BY <2>2 DEF CallsLeaf
  <2>6. new.pc # "answer"
    BY <2>2
  <2>7. NumbersFit(c, new)
    BY <2>4, <2>5 DEF NumbersFit
  <2>8. CaFits /\ OthersLeft(c) /\ pkclock' \in Nat
    BY <1>0, <1>1 DEF CaFits, OthersLeft
  <2> QED BY <1>0, <1>1, <2>1, <2>3, <2>6, <2>7, <2>8, CallKeeps
<1>2. ASSUME NEW life \in RootLives, NEW type, NEW bits, generate_root(c, type, bits, life)
      PROVE  PkiInv'
  <2>1. PICK not_after :
           /\ StoreCaBundle(c, to_cert_bundle(NoBundle, TRUE, not_after), "idle")
           /\ pkserial' = pkserial + 1 /\ pkca' = pkca /\ pkcerts' = pkcerts /\ pkclock' = pkclock /\ pkissued' = pkissued
    BY <1>2 DEF generate_root
  <2> DEFINE b == to_cert_bundle(NoBundle, TRUE, not_after)
  <2>2. CaBundle(b) /\ b.serial_number.n = pkserial + 1
    BY <1>0 DEF to_cert_bundle, to_x509, CaBundle, Spelled
  <2> HIDE DEF b
  <2>3. StoreCaBundle(c, b, "idle")
    BY <2>1 DEF b
  <2> QED BY <1>1, <2>1, <2>2, <2>3
<1>3. ASSUME NEW pem \in PemBundles, write_path_ca(c, pem)
      PROVE  PkiInv'
  <2> DEFINE b == [certificate |-> pem.certs[1], private_key |-> pem.keys[1],
                   ca_chain |-> Tail(pem.certs), serial_number |-> Spelled(0, ":", FALSE)]
  <2>1. verify(b) /\ StoreCaBundle(c, b, "crl") /\ pkserial' = pkserial
        /\ pkca' = pkca /\ pkcerts' = pkcerts /\ pkclock' = pkclock /\ pkissued' = pkissued
    BY <1>3 DEF write_path_ca
  <2>2. pem.certs[1].is_ca
    <3>1. Len(pem.certs) > 0 /\ \A i \in DOMAIN pem.certs : pem.certs[i].is_ca
      BY <1>3 DEF write_path_ca
    <3>2. 1 \in DOMAIN pem.certs
      BY <3>1, PkiConstants
    <3> QED BY <3>1, <3>2
  <2>3. b.private_key = b.certificate.key
    BY <2>1 DEF verify
  <2>4. b.certificate = pem.certs[1] /\ b.serial_number.n = 0
    BY DEF Spelled
  <2> HIDE DEF b
  <2>5. CaBundle(b)
    BY <2>2, <2>3, <2>4 DEF CaBundle
  <2> QED BY <1>1, <2>1, <2>4, <2>5
<1>4. CASE PutBundle(c)
  <2> DEFINE new == [pkcalls[c] EXCEPT !.pc = "pem"]
  <2>1. /\ pkcalls[c].pc = "bundle" /\ pkca' = pkcalls[c].bundle
        /\ pkcalls' = [pkcalls EXCEPT ![c] = new]
        /\ pkcerts' = pkcerts /\ pkserial' = pkserial /\ pkclock' = pkclock /\ pkissued' = pkissued
    BY <1>4 DEF PutBundle, PkiAt, PkiGoto
  <2>2. /\ CaBundle(pkcalls[c].bundle)
        /\ pkcalls[c] = [pc |-> pkcalls[c].pc, bundle |-> pkcalls[c].bundle, then |-> pkcalls[c].then]
    BY <1>0, <2>1 DEF PkiCallOk
  <2>3. CaNumber(pkcalls[c].bundle.serial_number.n)
    BY <2>1 DEF CaNumber, CallsCa
  <2>4. new = [pc |-> "pem", bundle |-> pkcalls[c].bundle, then |-> pkcalls[c].then]
    BY <2>2
  <2>5. /\ new.pc = "pem" /\ new.bundle = pkcalls[c].bundle
        /\ new = [pc |-> new.pc, bundle |-> new.bundle, then |-> new.then]
    BY <2>4
  <2> HIDE DEF new
  <2>6. PkiCallOk(new)
    BY <2>2, <2>5 DEF PkiCallOk
  <2>7. \A m \in Nat : CallsCa(new, m) => CaNumber(m)
    BY <2>3, <2>5 DEF CallsCa
  <2>8. \A m \in Nat : ~CallsLeaf(new, m)
    BY <2>5 DEF CallsLeaf
  <2>9. new.pc # "answer"
    BY <2>5
  <2>10. NumbersFit(c, new)
    BY <2>7, <2>8 DEF NumbersFit
  <2>11. CaFits /\ OthersLeft(c) /\ pkclock' \in Nat
    BY <1>0, <2>1, <2>2, <2>3 DEF CaFits, OthersLeft
  <2> QED BY <2>1, <2>6, <2>9, <2>10, <2>11, CallKeeps
<1>5. CASE PutPem(c)
  <2> DEFINE new == [pkcalls[c] EXCEPT !.pc = "cert"]
  <2>1. /\ pkcalls[c].pc = "pem" /\ pkca' = pkca
        /\ pkcalls' = [pkcalls EXCEPT ![c] = new]
        /\ pkcerts' = pkcerts /\ pkserial' = pkserial /\ pkclock' = pkclock /\ pkissued' = pkissued
    BY <1>5 DEF PutPem, PkiAt, PkiGoto
  <2>2. /\ CaBundle(pkcalls[c].bundle)
        /\ pkcalls[c] = [pc |-> pkcalls[c].pc, bundle |-> pkcalls[c].bundle, then |-> pkcalls[c].then]
    BY <1>0, <2>1 DEF PkiCallOk
  <2>3. CaNumber(pkcalls[c].bundle.serial_number.n)
    BY <2>1 DEF CaNumber, CallsCa
  <2>4. new = [pc |-> "cert", bundle |-> pkcalls[c].bundle, then |-> pkcalls[c].then]
    BY <2>2
  <2>5. /\ new.pc = "cert" /\ new.bundle = pkcalls[c].bundle
        /\ new = [pc |-> new.pc, bundle |-> new.bundle, then |-> new.then]
    BY <2>4
  <2> HIDE DEF new
  <2>6. PkiCallOk(new)
    BY <2>2, <2>5 DEF PkiCallOk
  <2>7. \A m \in Nat : CallsCa(new, m) => CaNumber(m)
    BY <2>3, <2>5 DEF CallsCa
  <2>8. \A m \in Nat : ~CallsLeaf(new, m)
    BY <2>5 DEF CallsLeaf
  <2>9. new.pc # "answer"
    BY <2>5
  <2>10. NumbersFit(c, new)
    BY <2>7, <2>8 DEF NumbersFit
  <2>11. CaFits /\ OthersLeft(c) /\ pkclock' \in Nat
    BY <1>0, <2>1 DEF CaFits, OthersLeft
  <2> QED BY <2>1, <2>6, <2>9, <2>10, <2>11, CallKeeps
<1>6. CASE PutCaCert(c)
  <2>1. /\ pkcalls[c].pc = "cert" /\ pkca' = pkca /\ pkserial' = pkserial /\ pkclock' = pkclock /\ pkissued' = pkissued
        /\ store_cert(pkcalls[c].bundle.serial_number, pkcalls[c].bundle.certificate)
    BY <1>6 DEF PutCaCert, PkiAt
  <2>2. PICK new : pkcalls' = [pkcalls EXCEPT ![c] = new] /\ new.pc \in {"idle", "crl"}
    <3> DEFINE crl == [pc |-> "crl"]
    <3>1. \/ pkcalls' = [pkcalls EXCEPT ![c] = crl]
          \/ pkcalls' = [pkcalls EXCEPT ![c] = PkiIdle]
      BY <1>6 DEF PutCaCert, PkiGoto, PkiReturn
    <3>2. crl.pc = "crl" /\ PkiIdle.pc = "idle"
      BY DEF PkiIdle
    <3> HIDE DEF crl
    <3> QED BY <3>1, <3>2
  <2>3. CaNumber(pkcalls[c].bundle.serial_number.n)
    BY <2>1 DEF CaNumber, CallsCa
  <2>4. \A x : KeptAs(pkcerts, x) /\ ~CaNumber(x.serial) => KeptAs(pkcerts', x)
    BY <2>1, <2>3, StoreCaLeaves
  <2>5. OthersLeft(c)
    BY <2>4 DEF OthersLeft
  <2>6. new.pc \in {"idle", "crl", "unbundle"}
    BY <2>2
  <2> QED BY <2>1, <2>2, <2>5, <2>6, CallRests
<1>7. CASE PutCrl(c)
  <2>1. /\ pkcalls' = [pkcalls EXCEPT ![c] = PkiIdle] /\ PkiIdle.pc = "idle"
        /\ pkca' = pkca /\ pkcerts' = pkcerts /\ pkserial' = pkserial /\ pkclock' = pkclock /\ pkissued' = pkissued
    BY <1>7 DEF PutCrl, PkiReturn, PkiGoto, PkiIdle
  <2>2. OthersLeft(c)
    BY <2>1 DEF OthersLeft
  <2>3. PkiIdle.pc \in {"idle", "crl", "unbundle"}
    BY <2>1
  <2> QED BY <2>1, <2>2, <2>3, CallRests
<1>8. CASE delete_root(c)
  <2> DEFINE new == [pc |-> "uncert", serial |-> pkca.serial_number]
  <2>1. /\ pkca # NoBundle /\ pkcalls' = [pkcalls EXCEPT ![c] = new]
        /\ pkca' = pkca /\ pkcerts' = pkcerts /\ pkserial' = pkserial /\ pkclock' = pkclock /\ pkissued' = pkissued
    BY <1>8 DEF delete_root, PkiGoto
  <2>2. new.pc = "uncert" /\ new.serial = pkca.serial_number
    OBVIOUS
  <2> HIDE DEF new
  <2>3. PkiCallOk(new)
    BY <1>0, <2>1, <2>2 DEF PkiCallOk, CaBundle
  <2>4. \A m \in Nat : CallsCa(new, m) => CaNumber(m)
    BY <1>0, <2>1, <2>2 DEF CallsCa
  <2>5. \A m \in Nat : ~CallsLeaf(new, m)
    BY <2>2 DEF CallsLeaf
  <2>6. new.pc # "answer"
    BY <2>2
  <2>7. NumbersFit(c, new)
    BY <2>4, <2>5 DEF NumbersFit
  <2>8. CaFits /\ OthersLeft(c) /\ pkclock' \in Nat
    BY <1>0, <2>1 DEF CaFits, OthersLeft
  <2> QED BY <2>1, <2>3, <2>6, <2>7, <2>8, CallKeeps
<1>9. CASE delete_cert(c)
  <2> DEFINE key == serial_number_hex(pkcalls[c].serial)
             new == [pc |-> "unbundle"]
  <2>1. /\ pkcalls[c].pc = "uncert"
        /\ pkcerts' = [k \in DOMAIN pkcerts \ {key} |-> pkcerts[k]]
        /\ pkcalls' = [pkcalls EXCEPT ![c] = new]
        /\ pkca' = pkca /\ pkserial' = pkserial /\ pkclock' = pkclock /\ pkissued' = pkissued
    BY <1>9 DEF delete_cert, PkiAt, PkiGoto
  <2>2. CaNumber(pkcalls[c].serial.n)
    BY <2>1 DEF CaNumber, CallsCa
  <2>3. ASSUME NEW x, KeptAs(pkcerts, x), ~CaNumber(x.serial)
        PROVE  KeptAs(pkcerts', x)
    <3> DEFINE k == Spelled(x.serial, "-", FALSE)
    <3>1. x.serial # pkcalls[c].serial.n
      BY <2>2, <2>3
    <3>2. k # key
      BY <3>1 DEF serial_number_hex, Spelled
    <3>3. k \in DOMAIN pkcerts /\ pkcerts[k] = x
      BY <2>3 DEF KeptAs
    <3> HIDE DEF k, key
    <3>4. k \in DOMAIN pkcerts' /\ pkcerts'[k] = x
      BY <2>1, <3>2, <3>3
    <3> QED BY <3>4 DEF KeptAs, k
  <2>4. new.pc \in {"idle", "crl", "unbundle"}
    OBVIOUS
  <2> HIDE DEF new, key
  <2>5. OthersLeft(c)
    BY <2>3 DEF OthersLeft
  <2> QED BY <2>1, <2>4, <2>5, CallRests
<1>10. CASE delete_ca_bundle(c)
  <2>1. /\ pkcalls' = [pkcalls EXCEPT ![c] = PkiIdle] /\ PkiIdle.pc = "idle"
        /\ pkca' = NoBundle /\ pkcerts' = pkcerts /\ pkserial' = pkserial /\ pkclock' = pkclock /\ pkissued' = pkissued
    BY <1>10 DEF delete_ca_bundle, PkiReturn, PkiGoto, PkiIdle
  <2>2. OthersLeft(c)
    BY <2>1 DEF OthersLeft
  <2>3. PkiIdle.pc \in {"idle", "crl", "unbundle"}
    BY <2>1
  <2> QED BY <2>1, <2>2, <2>3, CallRests
<1> QED BY <1>2, <1>3, <1>4, <1>5, <1>6, <1>7, <1>8, <1>9, <1>10


LEMMA IssueSteps ==
    ASSUME PkiInv, NEW c \in PkiClients,
           \/ \E r \in PkiRoles, ttl \in IssueTtls : issue_cert(c, r, ttl)
           \/ IssueSign(c) \/ IssueStore(c)
    PROVE  PkiInv'
<1>0. /\ pkserial \in Nat /\ pkclock \in Nat /\ PkiCallOk(pkcalls[c])
      /\ pkca # NoBundle => CaBundle(pkca) /\ CaNumber(pkca.serial_number.n)
      /\ DefaultLife \in Nat /\ IssueTtls \subseteq Nat
  BY PkiConstants DEF PkiInv, PkiTyped, CaNumber
<1>1. ASSUME NEW r \in PkiRoles, NEW ttl \in IssueTtls, issue_cert(c, r, ttl)
      PROVE  PkiInv'
  <2> DEFINE new == [pc |-> "sign", role |-> get_role(r), ttl |-> ttl]
  <2>1. /\ pkcalls' = [pkcalls EXCEPT ![c] = new] /\ pkca' = pkca /\ pkcerts' = pkcerts
        /\ pkserial' = pkserial /\ pkclock' = pkclock /\ pkissued' = pkissued
    BY <1>1 DEF issue_cert, PkiGoto
  <2>2. new.pc = "sign" /\ new.ttl = ttl /\ ttl \in Nat
    BY <1>0
  <2> HIDE DEF new
  <2>3. PkiCallOk(new)
    BY <2>2 DEF PkiCallOk
  <2>4. NumbersFit(c, new)
    BY <2>2 DEF NumbersFit, CallsCa, CallsLeaf
  <2>5. CaFits /\ OthersLeft(c) /\ pkclock' \in Nat /\ new.pc # "answer"
    BY <1>0, <2>1, <2>2 DEF CaFits, OthersLeft
  <2> QED BY <2>1, <2>3, <2>4, <2>5, CallKeeps
<1>2. CASE IssueSign(c)
  <2> DEFINE call == pkcalls[c]
             life == IF call.ttl = 0 THEN pkclock - 1 + DefaultLife ELSE pkclock + call.ttl
             made == to_cert_bundle(pkca, FALSE, life)
             pc == IF call.role.no_store THEN "answer" ELSE "store"
             new == [pc |-> pc, made |-> made, role |-> call.role, ttl |-> call.ttl]
  <2>1. /\ call.pc = "sign" /\ pkca # NoBundle
        /\ call.ttl # 0 => pkclock + call.ttl <= pkca.certificate.not_after
        /\ pkserial' = pkserial + 1
        /\ pkcalls' = [pkcalls EXCEPT ![c] = new]
        /\ pkca' = pkca /\ pkcerts' = pkcerts /\ pkclock' = pkclock /\ pkissued' = pkissued
    BY <1>2 DEF IssueSign, PkiAt, PkiGoto, TtlFits
  <2>2. call.ttl \in Nat
    BY <1>0, <2>1 DEF PkiCallOk
  <2>3. life \in Int /\ (call.ttl # 0 => life <= pkca.certificate.not_after)
    BY <1>0, <2>1, <2>2
  <2> HIDE DEF life
  <2>4. /\ made.certificate.serial = pkserial + 1 /\ made.certificate.not_after = life
        /\ made.serial_number.n = pkserial + 1
        /\ made.certificate.signed_by = pkca.private_key
        /\ made.ca_chain[1] = pkca.certificate
    BY <2>1 DEF to_cert_bundle, to_x509, Spelled
  <2> HIDE DEF made
  <2>5. MadeOk(made, call.ttl)
    BY <1>0, <2>1, <2>3, <2>4 DEF MadeOk, CaBundle
  <2>6. /\ new.pc = pc /\ new.made = made /\ new.role = call.role /\ new.ttl = call.ttl
        /\ new = [pc |-> new.pc, made |-> new.made, role |-> new.role, ttl |-> new.ttl]
    OBVIOUS
  <2>7. /\ new.pc \in {"store", "answer"}
        /\ ~(new.pc = "answer" /\ ~new.role.no_store)
    <3>1. CASE call.role.no_store
      BY <3>1
    <3>2. CASE ~call.role.no_store
      BY <3>2
    <3> QED BY <3>1, <3>2
  <2> HIDE DEF new, pc
  <2>8. PkiCallOk(new)
    BY <2>5, <2>6, <2>7 DEF PkiCallOk
  <2>9. NumbersFit(c, new)
    BY <2>1, <2>4, <2>6, <2>7 DEF NumbersFit, CallsCa, CallsLeaf, Fresh
  <2>10. CaFits /\ OthersLeft(c) /\ pkclock' \in Nat
    BY <1>0, <2>1 DEF CaFits, OthersLeft
  <2> QED BY <2>1, <2>7, <2>8, <2>9, <2>10, CallKeeps
<1>3. CASE IssueStore(c)
  <2> DEFINE call == pkcalls[c]
             new == [call EXCEPT !.pc = "answer"]
  <2>1. /\ call.pc = "store" /\ store_cert(call.made.serial_number, call.made.certificate)
        /\ pkcalls' = [pkcalls EXCEPT ![c] = new]
        /\ pkca' = pkca /\ pkserial' = pkserial /\ pkclock' = pkclock /\ pkissued' = pkissued
    BY <1>3 DEF IssueStore, PkiAt, PkiGoto
  <2>2. /\ call = [pc |-> call.pc, made |-> call.made, role |-> call.role, ttl |-> call.ttl]
        /\ MadeOk(call.made, call.ttl)
    BY <1>0, <2>1 DEF PkiCallOk
  <2>3. new = [pc |-> "answer", made |-> call.made, role |-> call.role, ttl |-> call.ttl]
    BY <2>2
  <2>4. /\ new.pc = "answer" /\ new.made = call.made /\ new.ttl = call.ttl
        /\ new = [pc |-> new.pc, made |-> new.made, role |-> new.role, ttl |-> new.ttl]
    BY <2>3
  <2> HIDE DEF new
  <2>5. PkiCallOk(new)
    BY <2>2, <2>4 DEF PkiCallOk
  <2>6. CallsLeaf(call, call.made.certificate.serial)
    BY <2>1 DEF CallsLeaf
  <2>7. NumbersFit(c, new)
    <3>1. \A m \in Nat : ~CallsCa(new, m)
      BY <2>4 DEF CallsCa
    <3>2. \A m \in Nat : CallsLeaf(new, m) => CallsLeaf(call, m)
      BY <2>1, <2>4 DEF CallsLeaf
    <3> QED BY <3>1, <3>2 DEF NumbersFit
  <2>8. call.made.serial_number.n = call.made.certificate.serial
    BY <2>2 DEF MadeOk
  <2>9. KeptAs(pkcerts', call.made.certificate)
    BY <2>1, <2>8, StoreStores
  <2>10. ASSUME NEW x, KeptAs(pkcerts, x), ~CallsLeaf(pkcalls[c], x.serial)
         PROVE  KeptAs(pkcerts', x)
    <3>1. x.serial # call.made.serial_number.n
      BY <2>1, <2>8, <2>10 DEF CallsLeaf
    <3> QED BY <2>1, <2>10, <3>1, StoreLeaves
  <2>11. OthersLeft(c)
    BY <2>10 DEF OthersLeft
  <2>12. CaFits /\ pkclock' \in Nat
    BY <1>0, <2>1 DEF CaFits
  <2>13. KeptAs(pkcerts', new.made.certificate)
    BY <2>4, <2>9
  <2> QED BY <2>1, <2>5, <2>7, <2>11, <2>12, <2>13, CallKeeps
<1> QED BY <1>1, <1>2, <1>3

\* The certificate of a call becomes one that was returned.
LEMMA AnswerStep ==
    ASSUME PkiInv, NEW c \in PkiClients, IssueAnswer(c)
    PROVE  PkiInv'
<1> DEFINE call == pkcalls[c]
           x == call.made.certificate
           ends == IF call.role.generate_lease THEN pkclock + (x.not_after - pkclock) ELSE 0
           answer == [cert |-> x, issuing_ca |-> call.made.ca_chain[1],
                      stored |-> ~call.role.no_store, asked |-> call.ttl # 0, ends |-> ends]
<1>1. /\ call.pc = "answer" /\ pkissued' = pkissued \cup {answer}
      /\ pkcalls' = [pkcalls EXCEPT ![c] = PkiIdle]
      /\ pkca' = pkca /\ pkcerts' = pkcerts /\ pkserial' = pkserial /\ pkclock' = pkclock
  BY DEF IssueAnswer, PkiAt, PkiReturn, PkiGoto
<1>2. pkserial \in Nat /\ pkclock \in Nat /\ PkiCallOk(call)
      /\ (pkca # NoBundle => CaBundle(pkca))
  BY DEF PkiInv, PkiTyped
<1>3. MadeOk(call.made, call.ttl)
  BY <1>1, <1>2 DEF PkiCallOk
<1>4. /\ answer.cert = x /\ answer.issuing_ca = call.made.ca_chain[1] /\ answer.ends = ends
      /\ answer.asked = (call.ttl # 0) /\ answer.stored = ~call.role.no_store
  OBVIOUS
<1>5. ends \in {0, x.not_after}
  BY <1>2, <1>3 DEF MadeOk
<1>6. CallsLeaf(call, x.serial) /\ x.serial \in Nat \ {0}
  BY <1>1, <1>3 DEF CallsLeaf, MadeOk
<1>7. ~call.role.no_store => KeptAs(pkcerts, x)
  BY <1>1 DEF PkiInv, CertsKept
<1> HIDE DEF answer, ends
<1>8. /\ PkiIdle.pc = "idle" /\ \A m : ~CallsCa(PkiIdle, m) /\ ~CallsLeaf(PkiIdle, m)
      /\ PkiCallOk(PkiIdle)
  BY DEF PkiIdle, CallsCa, CallsLeaf, PkiCallOk
<1>9. /\ \A d \in PkiClients : pkcalls'[d] = IF d = c THEN PkiIdle ELSE pkcalls[d]
      /\ pkcalls' \in [PkiClients -> {pkcalls'[d] : d \in PkiClients}]
  BY <1>1 DEF PkiInv, PkiTyped
<1>10. PkiTyped'
  BY <1>1, <1>2, <1>8, <1>9 DEF PkiInv, PkiTyped
<1>11. \A m : CaNumber(m)' => CaNumber(m)
  <2> SUFFICES ASSUME NEW m, CaNumber(m)' PROVE CaNumber(m)
    OBVIOUS
  <2>1. CASE pkca' # NoBundle /\ pkca'.serial_number.n = m
    BY <1>1, <2>1 DEF CaNumber
  <2>2. ASSUME NEW d \in PkiClients, CallsCa(pkcalls'[d], m) PROVE CaNumber(m)
    BY <1>8, <1>9, <2>2 DEF CaNumber
  <2> QED BY <2>1, <2>2 DEF CaNumber
<1>12. \A d \in PkiClients : \A m :
          CallsLeaf(pkcalls'[d], m) => d # c /\ CallsLeaf(pkcalls[d], m)
  BY <1>8, <1>9
<1>13. ASSUME NEW i \in pkissued'
       PROVE  /\ i.cert.serial \in Nat \ {0}
              /\ i.cert.serial <= pkserial'
              /\ ~CaNumber(i.cert.serial)'
              /\ \A d \in PkiClients : ~CallsLeaf(pkcalls'[d], i.cert.serial)
  <2>1. CASE i \in pkissued
    BY <1>1, <1>11, <1>12, <2>1 DEF PkiInv, NumbersApart
  <2>2. CASE i = answer
    <3>1. i.cert.serial = x.serial
      BY <1>4, <2>2
    <3>2. x.serial <= pkserial /\ ~CaNumber(x.serial)
      BY <1>6 DEF PkiInv, NumbersApart
    <3>3. ASSUME NEW d \in PkiClients, CallsLeaf(pkcalls'[d], x.serial) PROVE FALSE
      <4>1. d # c /\ CallsLeaf(pkcalls[d], x.serial)
        BY <1>12, <3>3
      <4> QED BY <1>6, <4>1 DEF PkiInv, NumbersApart
    <3> HIDE DEF x
    <3> QED BY <1>1, <1>6, <1>11, <3>1, <3>2, <3>3
  <2> QED BY <1>1, <2>1, <2>2
<1>14. NumbersApart'
  <2>1. \A m \in Nat : CaNumber(m)' => m <= pkserial'
    BY <1>1, <1>11 DEF PkiInv, NumbersApart
  <2>2. \A d \in PkiClients, m \in Nat : CallsLeaf(pkcalls'[d], m) => m <= pkserial' /\ ~CaNumber(m)'
    BY <1>1, <1>11, <1>12 DEF PkiInv, NumbersApart
  <2>3. \A d, e \in PkiClients, m \in Nat :
           CallsLeaf(pkcalls'[d], m) /\ CallsLeaf(pkcalls'[e], m) => d = e
    BY <1>12 DEF PkiInv, NumbersApart
  <2> QED BY <1>13, <2>1, <2>2, <2>3 DEF NumbersApart
<1>15. CertsKept'
  <2>1. ASSUME NEW i \in pkissued', i.stored PROVE KeptAs(pkcerts', i.cert)
    <3>1. CASE i \in pkissued
      BY <1>1, <2>1, <3>1 DEF PkiInv, CertsKept
    <3>2. CASE i = answer
      BY <1>1, <1>4, <1>7, <2>1, <3>2
    <3> QED BY <1>1, <3>1, <3>2
  <2>2. ASSUME NEW d \in PkiClients, pkcalls'[d].pc = "answer", ~pkcalls'[d].role.no_store
        PROVE  KeptAs(pkcerts', pkcalls'[d].made.certificate)
    <3>1. d # c
      BY <1>8, <1>9, <2>2
    <3> QED BY <1>1, <1>9, <2>2, <3>1 DEF PkiInv, CertsKept
  <2> QED BY <2>1, <2>2 DEF CertsKept
<1>16. ASSUME NEW i \in pkissued'
       PROVE  /\ i.cert.signed_by = i.issuing_ca.key /\ i.issuing_ca.is_ca
              /\ i.asked => i.cert.not_after <= i.issuing_ca.not_after
              /\ i.ends \in {0, i.cert.not_after}
  <2>1. CASE i \in pkissued
    BY <2>1 DEF PkiInv, IssuedSigned, IssuedInTime
  <2>2. CASE i = answer
    BY <1>3, <1>4, <1>5, <2>2 DEF MadeOk
  <2> QED BY <1>1, <2>1, <2>2
<1> QED BY <1>10, <1>14, <1>15, <1>16 DEF PkiInv, IssuedSigned, IssuedInTime

LEMMA PkiStays ==
    ASSUME PkiInv, pkca' = pkca, pkcerts' = pkcerts, pkcalls' = pkcalls, pkserial' = pkserial,
           pkclock' \in Nat, pkissued' = pkissued
    PROVE  PkiInv'
BY DEF PkiInv, PkiTyped, NumbersApart, CaNumber, CertsKept, IssuedSigned, IssuedInTime

LEMMA PkiNextKeeps == PkiInv /\ [PkiNext]_pkiVars => PkiInv'
<1> SUFFICES ASSUME PkiInv, [PkiNext]_pkiVars PROVE PkiInv'
  OBVIOUS
<1>0. pkclock \in Nat
  BY DEF PkiInv, PkiTyped
<1>1. CASE PkiTick \/ NothingDone \/ UNCHANGED pkiVars
  <2>1. /\ pkca' = pkca /\ pkcerts' = pkcerts /\ pkcalls' = pkcalls /\ pkserial' = pkserial
        /\ pkissued' = pkissued /\ pkclock' \in Nat
    BY <1>0, <1>1 DEF PkiTick, NothingDone, pkiVars
  <2> QED BY <2>1, PkiStays
<1>2. ASSUME NEW c \in PkiClients, PkiStep(c)
      PROVE  PkiInv'
  <2>1. CASE \/ \E r \in PkiRoles, body \in RoleBodies : create_path_role(c, r, body)
             \/ \E r \in PkiRoles : delete_path_role(c, r)
    <3>1. /\ pkca' = pkca /\ pkcerts' = pkcerts /\ pkcalls' = pkcalls /\ pkserial' = pkserial
          /\ pkissued' = pkissued /\ pkclock' = pkclock
      BY <2>1 DEF create_path_role, delete_path_role
    <3> QED BY <1>0, <3>1, PkiStays
  <2>2. CASE PkiFails(c)
    <3>1. /\ pkcalls' = [pkcalls EXCEPT ![c] = PkiIdle] /\ PkiIdle.pc \in {"idle", "crl", "unbundle"}
          /\ pkca' = pkca /\ pkcerts' = pkcerts /\ pkserial' = pkserial
          /\ pkclock' = pkclock /\ pkissued' = pkissued
      BY <2>2 DEF PkiFails, PkiReturn, PkiGoto, PkiIdle
    <3>2. OthersLeft(c)
      BY <3>1 DEF OthersLeft
    <3> QED BY <3>1, <3>2, CallRests
  <2>3. CASE IssueAnswer(c)
    BY <2>3, AnswerStep
  <2>4. CASE ~(IssueAnswer(c) \/ PkiFails(c))
    BY <1>2, <2>1, <2>4, RootSteps, IssueSteps DEF PkiStep
  <2> QED BY <2>2, <2>3, <2>4
<1> QED BY <1>1, <1>2 DEF PkiNext

\* A certificate that issue_cert returned is found under its number while there
\* is a CA, was signed by the CA that was returned with it, and ends as was
\* checked (path_issue.rs, path_root.rs, path_fetch.rs): for any number of calls
\* at the same time, that fail at any step, and any CAs that are generated,
\* imported and deleted meanwhile.
THEOREM PkiIssuedStands == PkiSpec => []IssuedStands
<1>1. PkiInit => PkiInv
  <2> SUFFICES ASSUME PkiInit PROVE PkiInv
    OBVIOUS
  <2>1. /\ pkca = NoBundle /\ pkcalls = [c \in PkiClients |-> PkiIdle] /\ pkissued = {}
        /\ pkserial = 0 /\ pkclock = 1
    BY DEF PkiInit
  <2>2. /\ PkiIdle.pc = "idle" /\ \A m : ~CallsCa(PkiIdle, m) /\ ~CallsLeaf(PkiIdle, m)
        /\ PkiCallOk(PkiIdle)
    BY DEF PkiIdle, CallsCa, CallsLeaf, PkiCallOk
  <2>3. \A c \in PkiClients : pkcalls[c] = PkiIdle
    BY <2>1
  <2>4. PkiTyped
    BY <2>1, <2>2, <2>3 DEF PkiTyped
  <2>5. \A m : ~CaNumber(m)
    BY <2>1, <2>2, <2>3 DEF CaNumber
  <2> QED BY <2>1, <2>2, <2>3, <2>4, <2>5 DEF PkiInv, NumbersApart, CertsKept, IssuedSigned,
                                                IssuedInTime
<1>2. PkiInv => IssuedStands
  <2> SUFFICES ASSUME PkiInv, NEW i \in pkissued, NEW text \in Spellings_of(i.cert.serial),
                      i.stored, pkca # NoBundle
               PROVE  read_path_fetch_cert(text) = i.cert
    BY DEF IssuedStands, IssuedFound, PkiInv
  <2>1. serial_number_hex(text) = Spelled(i.cert.serial, "-", FALSE)
    <3>1. PICK sep, capitals : text = Spelled(i.cert.serial, sep, capitals)
      BY DEF Spellings_of
    <3>2. text.n = i.cert.serial
      BY <3>1 DEF Spelled
    <3> QED BY <3>2 DEF serial_number_hex
  <2>2. KeptAs(pkcerts, i.cert)
    BY DEF PkiInv, CertsKept
  <2> QED BY <2>1, <2>2 DEF read_path_fetch_cert, KeptAs
<1> QED BY <1>1, <1>2, PkiNextKeeps, PTL DEF PkiSpec
=============================================================================
