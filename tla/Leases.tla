-------------------------------- MODULE Leases --------------------------------
(***************************************************************************)
(* How long a lease lives: calculate_ttl (logical/lease.rs) and its        *)
(* callers - the creation of a token, a login and the renewal of either    *)
(* (token_store.rs, expiration.rs) - and the lease of a secret that kv     *)
(* returns (kv/mod.rs, register_secret).  Tokens has the queue and the     *)
(* checker; here a lease has its times.  Time is in seconds, which is what *)
(* calculate_ttl truncates to.                                             *)
(***************************************************************************)
EXTENDS Integers

CONSTANTS MAX_LEASE_TTL, DEFAULT_LEASE_TTL,
          Durations,   \* ttl, period and maxima that a request or an account gives, 0 for none
          Increments,  \* of renewals, beside a negative one
          Huge,        \* what a negative number is cast to
          KV_DEFAULT_TTL, \* of a secret without a ttl
          MaxNow       \* bound of the clock

ASSUME LeaseConstants ==
    /\ MAX_LEASE_TTL \in Nat \ {0} /\ DEFAULT_LEASE_TTL \in 1..MAX_LEASE_TTL
    /\ Durations \subseteq Nat /\ Increments \subseteq Nat /\ Huge \in Nat /\ KV_DEFAULT_TTL \in Nat \ {0} /\ MaxNow \in Nat

VARIABLES lnow,  \* the clock
          lease  \* the lease entry, with the token or account it belongs to

leaseVars == <<lnow, lease>>

NoLease == [kind |-> "none"]

LeaseInit == lnow = 0 /\ lease = NoLease

-----------------------------------------------------------------------------
\* What a positive limit leaves of ttl.
Capped(ttl, limit) == IF limit > 0 /\ limit < ttl THEN limit ELSE ttl

\* Slip: the maximum counts from now instead of from the start of the lease.
calculate_ttl_from_now(increment, period, ttl, max, explicit, start) ==
    LET max_ttl == Capped(Capped(MAX_LEASE_TTL, max), explicit)
        wanted == IF increment > 0 THEN increment ELSE IF ttl > 0 THEN ttl ELSE DEFAULT_LEASE_TTL
    IN  IF period > 0 THEN Capped(period, max_ttl) ELSE Capped(wanted, max_ttl)

\* calculate_ttl, with the limits of the system; 0 where it fails: at the end
\* of the lease with an error, after it with an underflow of the subtraction.
calculate_ttl(increment, period, ttl, max, explicit, start) ==
    LET max_ttl == Capped(Capped(MAX_LEASE_TTL, max), explicit)
        wanted == IF increment > 0 THEN increment ELSE IF ttl > 0 THEN ttl ELSE DEFAULT_LEASE_TTL
        left(limit) == start + limit - lnow
        until(t, limit) == IF left(limit) <= 0 THEN 0 ELSE Capped(t, left(limit))
    IN  IF period = 0 THEN until(wanted, max_ttl)
        ELSE IF explicit = 0 THEN Capped(period, max_ttl)
        ELSE until(Capped(period, max_ttl), explicit)

\* post_route and register_secret: no ttl becomes the default, a long one the
\* maximum.
Clamped(ttl) == Capped(IF ttl = 0 THEN DEFAULT_LEASE_TTL ELSE ttl, MAX_LEASE_TTL)

\* register_auth or register_secret of ttl from now; period, max and explicit are
\* the terms of the grant.
Register(kind, ttl, period, max, explicit) ==
    lease' = [kind |-> kind, issue |-> lnow, granted |-> lnow, expire |-> lnow + ttl,
              period |-> period, max |-> max, explicit |-> explicit]

\* handle_create computes a ttl, post_route another one from it.
CreateToken(ttl, period, explicit) ==
    LET first == calculate_ttl(0, period, ttl, 0, explicit, lnow)
        second == calculate_ttl(0, period, Clamped(first), 0, explicit, lnow)
    IN  /\ lease = NoLease
        /\ first > 0 /\ second > 0
        /\ Register("token", second, period, 0, explicit)
        /\ UNCHANGED lnow

\* A login carries the ttl and the maximum of the account; populate_token_auth
\* leaves out its token_period and its token_explicit_max_ttl.
LoginLease(ttl, max) ==
    /\ lease = NoLease
    /\ Register("login", calculate_ttl(0, 0, Clamped(ttl), max, 0, lnow), 0, max, 0)
    /\ UNCHANGED lnow

Unsigned(n) == IF n < 0 THEN Huge ELSE n

\* handle_read of kv: the ttl in the data, a number of either sign, if there is one.
SecretTtls == {KV_DEFAULT_TTL} \cup {Unsigned(n) : n \in Durations \cup {-1}}

SecretLease(ttl) ==
    /\ lease = NoLease
    /\ Register("secret", Clamped(ttl), 0, 0, 0)
    /\ UNCHANGED lnow

\* LeaseEntry::renewable.
renewable == lease.kind \in {"token", "login"} /\ lease.expire >= lnow

\* The terms a renewal computes with.  login_renew of userpass and cert takes
\* period, ttl and maximum of the account as it is now; auth_renew of the token
\* store the ttl of the last grant - the maximum is not stored - and the period
\* of the token's entry.
RenewalTerms ==
    IF lease.kind = "login" THEN [ttl : Durations, period : Durations, max : Durations]
    ELSE {[ttl |-> lease.expire - lease.granted, period |-> lease.period, max |-> 0]}

\* handle_renew and renew_token.  The lease of the token gets its new times; the
\* answer holds an auth, for which post_route creates one more token, with a
\* lease that starts now.  The model goes on with either of the two.
RenewLease(increment) ==
    /\ renewable
    /\ \E t \in RenewalTerms :
          LET ttl == calculate_ttl(Unsigned(increment), t.period, t.ttl, t.max, lease.explicit, lease.issue)
              more == calculate_ttl(0, t.period, Clamped(ttl), t.max, lease.explicit, lnow)
          IN  /\ ttl > 0
              /\ \/ lease' = [lease EXCEPT !.granted = lnow, !.expire = lnow + ttl,
                                            !.period = t.period, !.max = t.max]
                 \/ Register("token", more, t.period, t.max, lease.explicit)
    /\ UNCHANGED lnow

\* The checker, at the expiry or later.
LeaseExpires == lease # NoLease /\ lease.expire <= lnow /\ lease' = NoLease /\ UNCHANGED lnow

LeaseTick == lnow < MaxNow /\ lnow' = lnow + 1 /\ UNCHANGED lease

LeaseNext ==
    \/ \E ttl, period, explicit \in Durations : CreateToken(ttl, period, explicit)
    \/ \E ttl, max \in Durations : LoginLease(ttl, max)
    \/ \E ttl \in SecretTtls : SecretLease(ttl)
    \/ \E increment \in Increments \cup {-1} : RenewLease(increment)
    \/ LeaseExpires
    \/ LeaseTick

LeaseSpec == LeaseInit /\ [][LeaseNext]_leaseVars

-----------------------------------------------------------------------------
\* However often and late a lease is renewed, whatever is asked for and however
\* the account of a login is rewritten meanwhile, the lease keeps to the terms of
\* its last grant: without a period it ends within the smallest of the system's
\* and the account's maximum and the token's explicit one, counted from its
\* start, not from the renewal; with a period, which a login takes on at its
\* first renewal, it ends within that period of the renewal; within an explicit
\* maximum of the token's own it ends in any case, and no grant is for longer
\* than the system's maximum.  The bounds survive the two computations at
\* creation and the loss of the maximum in storage (lease.rs calculate_ttl,
\* token_store.rs, expiration.rs renew_token, login_renew).
LeaseBounded ==
    lease # NoLease =>
      /\ lease.expire > lease.granted
      /\ lease.expire <= lease.granted + MAX_LEASE_TTL
      /\ lease.period = 0 =>
            lease.expire <= lease.issue + Capped(Capped(MAX_LEASE_TTL, lease.max), lease.explicit)
      /\ lease.period > 0 => lease.expire <= lease.granted + lease.period
      /\ lease.explicit > 0 => lease.expire <= lease.issue + lease.explicit
===============================================================================
