----------------------------- MODULE Authentication ------------------------------
(***************************************************************************)
(* Who a request comes from.  First part: the tokens of one merchant,      *)
(* AuthService.login and logout, and JwtStrategy.validate with its blacklist*)
(* and session cache in Redis; tokens are signed without a jti, so both keys*)
(* are the merchant's id.  Second part: the second factor of AdminService, the*)
(* base32 text a secret is shown in and the codes accepted around the current*)
(* step.  JavaScript keeps the bit buffer in a word of WordBits (32) bits; a*)
(* code is modelled by the step it belongs to (the HMAC is external and taken*)
(* as injective).                                                          *)
(***************************************************************************)
EXTENDS Integers, Sequences, SequencesExt

CONSTANTS
    Validations,    \* requests being validated at the same time
    TokenLife,      \* seconds a token lives
    MaxSessionTime  \* bound

ASSUME SessionAssumption == TokenLife \in Nat \ {0} /\ MaxSessionTime \in Nat

VARIABLES
    sessionClock,
    issued,        \* the times at which tokens were issued
    accountThere,  \* the merchant's row exists
    blacklist,     \* session:blacklist:<id> is set until then
    session,       \* session:<id> is set until then
    validating,    \* the step of each validation, its token and when it began
    revoked,       \* history: tokens that were logged out, and when
    shortened      \* history: a logout of an older token shortened the shared entry

sessionVars == <<sessionClock, issued, accountThere, blacklist, session, validating, revoked, shortened>>

ExpiryOf(token) == token + TokenLife
NotValidating == [pc |-> "idle", token |-> 0, since |-> 0]

SessionInit ==
    /\ sessionClock = 0 /\ issued = {} /\ accountThere = TRUE /\ blacklist = 0 /\ session = 0
    /\ validating = [v \in Validations |-> NotValidating] /\ revoked = {} /\ shortened = FALSE

SessionTick ==
    /\ sessionClock < MaxSessionTime /\ sessionClock' = sessionClock + 1
    /\ UNCHANGED <<issued, accountThere, blacklist, session, validating, revoked, shortened>>

\* login signs a token for a merchant it finds.
login ==
    /\ accountThere
    /\ issued' = issued \cup {sessionClock}
    /\ UNCHANGED <<sessionClock, accountThere, blacklist, session, validating, revoked, shortened>>

\* logout blacklists the key for what is left of the token's life (ttlSeconds);
\* the service offers it, no route of the controller calls it yet.
logout(token) ==
    /\ sessionClock < ExpiryOf(token)
    /\ blacklist' = ExpiryOf(token)
    /\ revoked' = revoked \cup {[token |-> token, at |-> sessionClock]}
    /\ shortened' = (shortened \/ ExpiryOf(token) < blacklist)
    /\ UNCHANGED <<sessionClock, issued, accountThere, session, validating>>

RemoveMerchant ==
    /\ accountThere /\ accountThere' = FALSE
    /\ UNCHANGED <<sessionClock, issued, blacklist, session, validating, revoked, shortened>>

At(v, pc) == validating' = [validating EXCEPT ![v].pc = pc]

\* Mutant: the session cache is asked first.
CacheFirst(v, token) ==
    /\ validating[v].pc \in {"idle", "accepted", "refused"} /\ sessionClock < ExpiryOf(token)
    /\ validating' = [validating EXCEPT ![v] =
           [pc |-> IF sessionClock < session THEN "accepted"
                   ELSE IF sessionClock < blacklist THEN "refused" ELSE "cache",
            token |-> token, since |-> sessionClock]]
    /\ UNCHANGED <<sessionClock, issued, accountThere, blacklist, session, revoked, shortened>>

\* The signature and the expiry were checked; then the blacklist is read.
CheckBlacklist(v, token) ==
    /\ validating[v].pc \in {"idle", "accepted", "refused"} /\ sessionClock < ExpiryOf(token)
    /\ validating' = [validating EXCEPT ![v] =
           [pc |-> IF sessionClock < blacklist THEN "refused" ELSE "cache",
            token |-> token, since |-> sessionClock]]
    /\ UNCHANGED <<sessionClock, issued, accountThere, blacklist, session, revoked, shortened>>

ReadSession(v) ==
    /\ validating[v].pc = "cache"
    /\ At(v, IF sessionClock < session THEN "accepted" ELSE "database")
    /\ UNCHANGED <<sessionClock, issued, accountThere, blacklist, session, revoked, shortened>>

FindMerchant(v) ==
    /\ validating[v].pc = "database"
    /\ At(v, IF accountThere THEN "store" ELSE "refused")
    /\ UNCHANGED <<sessionClock, issued, accountThere, blacklist, session, revoked, shortened>>

\* The result is cached for what is left of the token, when something is left.
StoreSession(v) ==
    /\ validating[v].pc = "store"
    /\ session' = IF sessionClock < ExpiryOf(validating[v].token) THEN ExpiryOf(validating[v].token) ELSE session
    /\ At(v, "accepted")
    /\ UNCHANGED <<sessionClock, issued, accountThere, blacklist, revoked, shortened>>

SessionNext ==
    \/ SessionTick \/ login \/ RemoveMerchant
    \/ \E t \in issued : logout(t) \/ \E v \in Validations : CheckBlacklist(v, t)
    \/ \E v \in Validations : ReadSession(v) \/ FindMerchant(v) \/ StoreSession(v)

--------------------------------------------------------------------------------
(* Properties                                                              *)

\* A request that begins after its token was logged out is not accepted, although
\* the session of that merchant is still cached.  The tokens share one
\* blacklist entry, which a later logout of an older token shortens.
RevokedRefused ==
    ~shortened =>
        \A v \in Validations : validating[v].pc = "accepted" =>
            ~ \E r \in revoked : r.token = validating[v].token /\ r.at < validating[v].since

--------------------------------------------------------------------------------
(* The second factor                                                       *)

CONSTANTS
    WordBits,           \* 32; kept small for TLC
    SecretBytes,        \* the bytes secrets are made of
    MaxSecretLen, StepSeconds, \* bytes in a secret; seconds a code lasts (30)
    MaxTotpTime         \* bound

ASSUME TotpAssumption ==
    /\ WordBits \in 16 .. 32 /\ SecretBytes \subseteq 0 .. 255 /\ MaxSecretLen \in Nat
    /\ StepSeconds \in Nat \ {0} /\ MaxTotpTime \in Nat

VARIABLES
    secretBytes,  \* the bytes drawn
    shown,        \* the text the administrator copies, and what it decodes to
    totpClock,    \* seconds
    code,         \* time at which the shown code was made, 0 before
    verdict       \* the answer of the last verification and its time

totpVars == <<secretBytes, shown, totpClock, code, verdict>>

Pow2(n) == 2 ^ n
Shl(v, n) == (v * Pow2(n)) % Pow2(WordBits)
Shr(v, n) == v \div Pow2(n)

\* Mutant: the letters left over at the end are dropped.
NoPadding(st) == st.out

\* The last letter is filled up with zero bits.
PadEnd(st) == IF st.bits > 0 THEN Append(st.out, Shl(st.val, 5 - st.bits) % 32) ELSE st.out

\* One byte into the buffer, and one or two letters (0 .. 31) out of it.
EncodeByte(st, byte) ==
    LET val == (Shl(st.val, 8) + byte) % Pow2(WordBits)
        bits == st.bits + 8
        first == Append(st.out, Shr(val, bits - 5) % 32)
    IN  IF bits - 5 >= 5
        THEN [val |-> val, bits |-> bits - 10, out |-> Append(first, Shr(val, bits - 10) % 32)]
        ELSE [val |-> val, bits |-> bits - 5, out |-> first]

base32Encode(buf) ==
    PadEnd(FoldLeft(EncodeByte, [val |-> 0, bits |-> 0, out |-> << >>], buf))

DecodeLetter(st, idx) ==
    LET val == (Shl(st.val, 5) + idx) % Pow2(WordBits)
        bits == st.bits + 5
    IN  IF bits >= 8 THEN [val |-> val, bits |-> bits - 8, out |-> Append(st.out, Shr(val, bits - 8) % 256)]
        ELSE [val |-> val, bits |-> bits, out |-> st.out]

base32Decode(str) ==
    FoldLeft(DecodeLetter, [val |-> 0, bits |-> 0, out |-> << >>], str).out

totpCode(time) == time \div StepSeconds

verifyTotpToken(token) == \E w \in {-1, 0, 1} : totpCode(totpClock + w * StepSeconds) = token

TotpInit ==
    /\ secretBytes \in UNION {[1 .. n -> SecretBytes] : n \in 1 .. MaxSecretLen}
    /\ shown = [text |-> << >>, bytes |-> << >>]
    /\ totpClock = 0 /\ code = 0 /\ verdict = [ok |-> FALSE, at |-> 0]

setupSecret ==
    /\ shown.text = << >>
    /\ shown' = [text |-> base32Encode(secretBytes), bytes |-> base32Decode(base32Encode(secretBytes))]
    /\ UNCHANGED <<secretBytes, totpClock, code, verdict>>

TotpTick ==
    /\ shown.text # << >> /\ totpClock < MaxTotpTime
    /\ totpClock' = totpClock + 1
    /\ UNCHANGED <<secretBytes, shown, code, verdict>>

\* The administrator's device, whose clock may be ahead or behind by a step.
ReadCode ==
    /\ shown.text # << >> /\ code = 0
    /\ \E skew \in {-StepSeconds, 0, StepSeconds} : totpClock + skew > 0 /\ code' = totpClock + skew
    /\ UNCHANGED <<secretBytes, shown, totpClock, verdict>>

VerifyCode ==
    /\ code # 0 /\ verdict.at = 0 /\ totpClock > 0
    /\ verdict' = [ok |-> verifyTotpToken(totpCode(code)), at |-> totpClock]
    /\ UNCHANGED <<secretBytes, shown, totpClock, code>>

TotpNext == setupSecret \/ TotpTick \/ ReadCode \/ VerifyCode

--------------------------------------------------------------------------------
(* Properties                                                              *)

\* The text shown decodes to the secret, whatever its length.
SecretRoundTrips == shown.text # << >> => shown.bytes = secretBytes

\* A code is accepted up to a step after and before the time on it, and refused
\* from two steps on.
CodesLastAStep ==
    verdict.at # 0 =>
        /\ (verdict.at - code <= StepSeconds /\ code - verdict.at <= StepSeconds) => verdict.ok
        /\ (verdict.at - code >= 2 * StepSeconds \/ code - verdict.at >= 2 * StepSeconds) => ~verdict.ok
==================================================================================
