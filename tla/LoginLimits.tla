----------------------------- MODULE LoginLimits -----------------------------
(***************************************************************************)
(* What stands before AllureDeck's login: a token bucket per client        *)
(* address and a failure counter per account. Both live in memory, under a *)
(* mutex each, and a goroutine removes what it takes for forgotten.        *)
(*                                                                         *)
(* An attempt passes the bucket, then Check, then the password is compared *)
(* outside the mutex, then the result is recorded; other attempts on the   *)
(* same account run in between. Time is discrete; instants are kept as     *)
(* ages and remaining times.                                               *)
(***************************************************************************)
EXTENDS Naturals, FiniteSets

CONSTANTS
    Accounts,     \* normalised usernames
    Attempts,     \* login requests in flight
    Window,       \* window of the failure counter
    Threshold,    \* lockoutThreshold
    LockTime,     \* lockoutDuration, which ends no earlier than the window it counts in
    Rate,         \* tokens the bucket gains in a unit of time
    Burst,        \* its capacity
    IdleTime,     \* ttl of a bucket
    NoAccount

Assumption ==
    /\ {Window, Threshold, LockTime, Rate, Burst, IdleTime} \subseteq Nat \ {0}
    /\ Rate * IdleTime >= Burst
    /\ IsFiniteSet(Attempts)
    /\ NoAccount \notin Accounts

VARIABLES
    entries,   \* accounts: AccountThrottler.entries
    bucket,    \* the bucket of the one address
    attempt,   \* requests in flight: the account, once Check let it pass
    kept,      \* history: entries, had Cleanup never run
    keptBucket \* history: bucket, had Cleanup never run

vars == <<entries, bucket, attempt, kept, keptBucket>>

(* An age is capped one past the limit it is compared with. *)
Age(limit) == 0 .. limit + 1

NoEntry == [count |-> 0, first |-> 0, last |-> 0, lock |-> 0]
Fresh   == [count |-> 1, first |-> 0, last |-> 0, lock |-> 0]

(* Failures are counted up to one more than GuessesBounded admits. *)
MaxCount == Threshold + Cardinality(Attempts)

Entry  == [count : 0 .. MaxCount, first : Age(Window), last : Age(Window), lock : 0 .. LockTime]
Bucket == [tokens : 0 .. Burst, idle : Age(IdleTime), known : BOOLEAN]

FullBucket == [tokens |-> Burst, idle |-> 0, known |-> FALSE]

TypeOK ==
    /\ entries \in [Accounts -> Entry]
    /\ bucket \in Bucket
    /\ attempt \in [Attempts -> Accounts \union {NoAccount}]
    /\ kept \in [Accounts -> Entry]
    /\ keptBucket \in Bucket

Init ==
    /\ entries = [u \in Accounts |-> NoEntry]
    /\ bucket = FullBucket
    /\ attempt = [a \in Attempts |-> NoAccount]
    /\ kept = entries
    /\ keptBucket = bucket

-----------------------------------------------------------------------------
(* IPRateLimiter.Allow. The refill since the last request is computed when *)
(* the next one comes.                                                     *)

Least(m, n) == IF m < n THEN m ELSE n

Refilled(b) ==
    IF b.known THEN Least(Burst, b.tokens + b.idle * Rate) ELSE Burst

Taken(b) ==
    [tokens |-> IF Refilled(b) >= 1 THEN Refilled(b) - 1 ELSE 0, idle |-> 0, known |-> TRUE]

Allowed(b) == Refilled(b) >= 1

-----------------------------------------------------------------------------
(* AccountThrottler.Check: a lock comes before the window. *)

Locked(e) == e.lock > 0

(* No failures, or the window since the first one has passed. *)
Stale(e) == e.count = 0 \/ e.first > Window

CheckResult(e) ==
    [allowed |-> ~Locked(e),
     count   |-> IF Locked(e) \/ ~Stale(e) THEN e.count ELSE 0]

(* RecordFailure: a fresh start, or one more; the threshold locks. *)
Counted(e) ==
    LET f == IF Stale(e) THEN Fresh
             ELSE [e EXCEPT !.count = Least(@ + 1, MaxCount), !.last = 0]
    IN  IF f.count >= Threshold THEN [f EXCEPT !.lock = LockTime] ELSE f

(* Mutant: Check comes after the password. *)
AttemptUnchecked(a, u) ==
    /\ attempt[a] = NoAccount
    /\ bucket' = Taken(bucket)
    /\ keptBucket' = Taken(keptBucket)
    /\ attempt' = IF Allowed(bucket) THEN [attempt EXCEPT ![a] = u] ELSE attempt
    /\ UNCHANGED <<entries, kept>>

(* A request comes from the address for an account; the bucket and Check   *)
(* decide whether its password is compared.                                *)
Attempt(a, u) ==
    /\ attempt[a] = NoAccount
    /\ bucket' = Taken(bucket)
    /\ keptBucket' = Taken(keptBucket)
    /\ attempt' = IF Allowed(bucket) /\ CheckResult(entries[u]).allowed
                  THEN [attempt EXCEPT ![a] = u] ELSE attempt
    /\ UNCHANGED <<entries, kept>>

RecordFailure(a) ==
    LET u == attempt[a] IN
    /\ u # NoAccount
    /\ entries' = [entries EXCEPT ![u] = Counted(entries[u])]
    /\ kept' = [kept EXCEPT ![u] = Counted(kept[u])]
    /\ attempt' = [attempt EXCEPT ![a] = NoAccount]
    /\ UNCHANGED <<bucket, keptBucket>>

RecordSuccess(a) ==
    LET u == attempt[a] IN
    /\ u # NoAccount
    /\ entries' = [entries EXCEPT ![u] = NoEntry]
    /\ kept' = [kept EXCEPT ![u] = NoEntry]
    /\ attempt' = [attempt EXCEPT ![a] = NoAccount]
    /\ UNCHANGED <<bucket, keptBucket>>

-----------------------------------------------------------------------------
(* Every five minutes both maps are cleaned. *)

(* Mutant: a lock does not keep its entry. *)
ForgottenLocked(e) == e.last > Window

Forgotten(e) == ~Locked(e) /\ e.last > Window

CleanupAccounts ==
    /\ entries' = [u \in Accounts |-> IF Forgotten(entries[u]) THEN NoEntry ELSE entries[u]]
    /\ UNCHANGED <<bucket, attempt, kept, keptBucket>>

CleanupBuckets ==
    /\ bucket' = IF bucket.known /\ bucket.idle > IdleTime THEN FullBucket ELSE bucket
    /\ UNCHANGED <<entries, attempt, kept, keptBucket>>

Older(n, limit) == IF n > limit THEN n ELSE n + 1

Aged(e) ==
    IF e.count = 0 THEN e
    ELSE [e EXCEPT !.first = Older(@, Window), !.last = Older(@, Window),
                   !.lock = IF @ > 0 THEN @ - 1 ELSE 0]

AgedBucket(b) == IF b.known THEN [b EXCEPT !.idle = Older(@, IdleTime)] ELSE b

(* A request let through may sleep a back-off of up to a minute and then   *)
(* waits for the database: the clock may move on any number of times       *)
(* before its result is recorded.                                          *)
Tick ==
    /\ entries' = [u \in Accounts |-> Aged(entries[u])]
    /\ kept' = [u \in Accounts |-> Aged(kept[u])]
    /\ bucket' = AgedBucket(bucket)
    /\ keptBucket' = AgedBucket(keptBucket)
    /\ UNCHANGED attempt

Next ==
    \/ \E a \in Attempts : \/ \E u \in Accounts : Attempt(a, u)
                           \/ RecordFailure(a) \/ RecordSuccess(a)
    \/ CleanupAccounts \/ CleanupBuckets
    \/ Tick

Spec == Init /\ [][Next]_vars

-----------------------------------------------------------------------------
(* What Cleanup drops makes no difference to any later request: whether an *)
(* account is refused, the count it reports and the entry that the next    *)
(* failure leaves, and whether the address is refused, are what they would *)
(* be had nothing ever been removed (account_throttle.go Cleanup,          *)
(* ratelimit.go Cleanup).                                                  *)
CleanupInvisible ==
    /\ \A u \in Accounts : /\ CheckResult(entries[u]) = CheckResult(kept[u])
                            /\ Counted(entries[u]) = Counted(kept[u])
    /\ Refilled(bucket) = Refilled(keptBucket)

(* Between the first failure of a window and the end of the lock it brings *)
(* at most Threshold - 1 passwords fail and one more for every request in  *)
(* flight: Check and RecordFailure are two critical sections (auth.go      *)
(* Login), and nothing is refused in between.                              *)
GuessesBounded ==
    \A u \in Accounts : entries[u].count <= Threshold - 1 + Cardinality(Attempts)

(* The limits before the login are what they would be without a clean-up   *)
(* and are exceeded by the requests in flight at most.                     *)
LimitsHold == GuessesBounded /\ CleanupInvisible

(* docs/security.md: a lockout lasts LockTime from the failure that        *)
(* crossed the threshold. Short of a success it is shortened by the clock  *)
(* alone, a unit at a time.                                                *)
LockHolds ==
    [][\A u \in Accounts :
          Locked(entries[u]) => \/ entries'[u].count = 0
                               \/ entries'[u].lock >= entries[u].lock - 1]_vars
=============================================================================
