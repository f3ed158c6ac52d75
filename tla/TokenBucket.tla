----------------------------- MODULE TokenBucket -----------------------------
(***************************************************************************)
(* The Redis token bucket behind every rate limit: the Lua script that     *)
(* token_bucket_many runs atomically over a set of keys, the expiry of its *)
(* keys, and the answers its callers act on.                               *)
(*                                                                         *)
(* In the code each caller reads its own clock before it calls the script, *)
(* and keys expire by the clock of Redis.  One clock stands for all of     *)
(* them here: the properties are about clocks that agree and calls that    *)
(* take no time.                                                           *)
(***************************************************************************)
EXTENDS Integers, FiniteSetsExt

CONSTANTS
    Keys,        \* rate-limit keys
    MaxTokens,   \* max_tokens
    Interval,    \* interval between two refills
    RefillRate,  \* tokens added by a refill
    MaxNow       \* bound: the last instant modelled

ASSUME TokenBucketAssumption ==
    /\ MaxTokens \in Nat \ {0}
    /\ Interval \in Nat \ {0}
    /\ RefillRate \in Nat \ {0}
    /\ MaxNow \in Nat

VARIABLES
    now,      \* the clock of every caller and of Redis
    hash,     \* hash[k]: fields refilledAt and tokens, and the time PEXPIRE set
    answer,   \* answer[k]: the last (remaining, reset) returned for k
    grants    \* history: grants[k][i], the requests for k granted at instant i

vars == <<now, hash, answer, grants>>

\* A key that was never written, and one whose PEXPIRE has passed, read alike.
Expired(k) == now >= hash[k].expiresAt

CeilDiv(a, b) == (a + b - 1) \div b

\* The refill at the start of the script.
Refilled(b) ==
    LET numRefills == (now - b.refilledAt) \div Interval IN
    IF now >= b.refilledAt + Interval
    THEN [refilledAt |-> b.refilledAt + numRefills * Interval,
          tokens     |-> Min({MaxTokens, b.tokens + numRefills * RefillRate})]
    ELSE b

\* What the script finds under the key: HMGET, the defaults, the refill.
Current(k) ==
    Refilled(IF Expired(k)
             THEN [refilledAt |-> now, tokens |-> MaxTokens]
             ELSE [refilledAt |-> hash[k].refilledAt, tokens |-> hash[k].tokens])

\* Mutant: rounded down, a key expires before its bucket would be full.
ExpireAfterRoundedDown(remaining) == ((MaxTokens - remaining) \div RefillRate) * Interval

\* The PEXPIRE argument for a bucket left with `remaining` tokens.
ExpireAfter(remaining) == CeilDiv(MaxTokens - remaining, RefillRate) * Interval

\* Mutants: the bucket is written although it is empty, and HSET keeps the
\* refilledAt that was read.
TakenUnchecked(k) ==
    LET b == Current(k) IN
    [refilledAt |-> b.refilledAt,
     tokens     |-> b.tokens - 1,
     expiresAt  |-> now + ExpireAfter(b.tokens - 1)]

TakenKeepsRefilledAt(k) ==
    LET b == Current(k) IN
    IF b.tokens = 0
    THEN hash[k]
    ELSE [refilledAt |-> IF Expired(k) THEN now ELSE hash[k].refilledAt,
          tokens     |-> b.tokens - 1,
          expiresAt  |-> now + ExpireAfter(b.tokens - 1)]

\* HSET and PEXPIRE of a bucket from which a token is taken; no write without one.
Taken(k) ==
    LET b == Current(k) IN
    IF b.tokens = 0
    THEN hash[k]
    ELSE [refilledAt |-> b.refilledAt,
          tokens     |-> b.tokens - 1,
          expiresAt  |-> now + ExpireAfter(b.tokens - 1)]

\* The pair (remaining, reset) of the result; -1 when rate limited.
Result(k) ==
    LET b == Current(k) IN
    [remaining |-> b.tokens - 1, reset |-> b.refilledAt + Interval]

Granted(k) == Result(k).remaining >= 0

TypeOK ==
    /\ now \in 0..MaxNow
    /\ hash \in [Keys -> [refilledAt : Nat, tokens : 0..MaxTokens, expiresAt : Nat]]
    /\ answer \in [Keys -> [remaining : -1..MaxTokens-1, reset : Nat]]
    /\ grants \in [Keys -> [0..MaxNow -> 0..MaxTokens]]

Init ==
    /\ now = 0
    /\ hash = [k \in Keys |-> [refilledAt |-> 0, tokens |-> 0, expiresAt |-> 0]]
    /\ answer = [k \in Keys |-> [remaining |-> MaxTokens - 1, reset |-> 0]]
    /\ grants = [k \in Keys |-> [i \in 0..MaxNow |-> 0]]

\* One invocation of the script for the keys K, which callers read as
\* granted unless remaining is negative.
TokenBucketMany(K) ==
    /\ K # {}
    /\ hash' = [k \in Keys |-> IF k \in K THEN Taken(k) ELSE hash[k]]
    /\ answer' = [k \in Keys |-> IF k \in K THEN Result(k) ELSE answer[k]]
    /\ grants' = [k \in Keys |->
                    IF k \in K /\ Granted(k) THEN [grants[k] EXCEPT ![now] = @ + 1] ELSE grants[k]]
    /\ UNCHANGED now

Tick ==
    /\ now < MaxNow
    /\ now' = now + 1
    /\ UNCHANGED <<hash, answer, grants>>

Next == Tick \/ \E K \in SUBSET Keys : TokenBucketMany(K)

Spec == Init /\ [][Next]_vars

-----------------------------------------------------------------------------
(* Properties.                                                             *)

\* The requests for k granted from a to b.
GrantedFrom(k, a, b) == MapThenSumSet(LAMBDA i : grants[k][i], a..b)

\* The rate limit: in any window of time, at most a full bucket and one refill
\* per interval begun are granted, although an expired key comes back full and
\* with its refills at other instants than before (PEXPIRE in token_bucket.lua).
WithinRate ==
    \A k \in Keys : \A a, b \in 0..now :
        a <= b => GrantedFrom(k, a, b) <= MaxTokens + RefillRate * ((b - a) \div Interval + 1)

\* What the answer for k says is left.
Left(k) == IF answer[k].remaining < 0 THEN 0 ELSE answer[k].remaining

\* The answer (remaining, reset) can be relied on until the next request: before
\* reset exactly `remaining` tokens are there, none if rate limited, and from
\* reset on there is at least one more ("Reset is the time at which there will
\* be 1 more token than before", token_bucket_many), key expiry included.
ResetIsExact ==
    \A k \in Keys :
        answer[k].reset # 0 =>
            IF now < answer[k].reset THEN Current(k).tokens = Left(k)
                                     ELSE Current(k).tokens >= Left(k) + 1

\* What both rest on.  A key that was never asked for has no bucket and no grants.
\* The bucket of any other is the one its last answer tells of, and does not expire
\* before it would be full; nothing was granted since its next refill.
BucketInv ==
    \A k \in Keys :
        /\ hash[k].refilledAt <= now
        /\ answer[k].reset = 0 =>
              hash[k].expiresAt = 0 /\ \A i \in 0..MaxNow : grants[k][i] = 0
        /\ answer[k].reset # 0 =>
              /\ answer[k].reset = hash[k].refilledAt + Interval
              /\ hash[k].tokens = Left(k) /\ hash[k].tokens < MaxTokens
              /\ hash[k].expiresAt >= hash[k].refilledAt + ExpireAfter(hash[k].tokens)
        /\ \A i \in 0..MaxNow : grants[k][i] # 0 => i <= now /\ i < hash[k].refilledAt + Interval

\* What was granted since a and what the bucket still holds: at most a full bucket
\* and the refills, m of them being as many as fit between a and the last one.
SpentInv ==
    \A k \in Keys : \A a \in 0..now : \A m \in 0..MaxNow+1 :
        hash[k].refilledAt <= a + m * Interval =>
            GrantedFrom(k, a, now) + hash[k].tokens <= MaxTokens + RefillRate * m

\* The inductive invariant.
RateLimitInv == TypeOK /\ BucketInv /\ SpentInv /\ WithinRate
=============================================================================
