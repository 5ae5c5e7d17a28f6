--------------------------- MODULE Safety_proofs ---------------------------
(***************************************************************************)
(* Proofs about LoginLimits, Staging, Batches and ActiveCache, for every   *)
(* value of their constants, as parts of MCSafety.                         *)
(***************************************************************************)
EXTENDS MCSafety, FiniteSetTheorems, TLAPS

-----------------------------------------------------------------------------
(* LoginLimits: the inductive invariant.                                   *)

\* The requests that were let through to an account and have not been counted.
InFlight(u) == {a \in Attempts : attempt[a] = u}

MostFailures == Threshold - 1 + Cardinality(Attempts)

\* No more failures are counted in a window than are allowed, with what is on
\* its way (k requests); the lock outlasts the window.
Bounded(e, k) ==
  /\ e \in L!Entry
  /\ e.count <= MostFailures
  /\ e.last <= e.first
  /\ e.count = 0 => e = L!NoEntry
  /\ ~L!Stale(e) =>
       /\ e.count + k <= MostFailures
       /\ e.count >= Threshold => e.lock + e.first > Window

\* An entry and what it would be had nothing been removed: the same, or one
\* that any request would take for no entry.
SameEntry(e, f) ==
  \/ e = f
  \/ e = L!NoEntry /\ f \in L!Entry /\ f.lock = 0 /\ f.last > Window /\ f.first > Window

SameBucket(b, c) ==
  b = c \/ (b = L!FullBucket /\ c \in L!Bucket /\ c.known /\ c.idle > IdleTime)

LimitsInv ==
  /\ L!TypeOK
  /\ \A u \in Accounts : /\ Bounded(entries[u], Cardinality(InFlight(u)))
                         /\ SameEntry(entries[u], kept[u])
  /\ SameBucket(bucket, keptBucket)

\* The lock of an account lasts longer than the window its failures were
\* counted in (both are 15 minutes in main.go, and the failure that locks comes
\* after the first one).
LockOutlastsWindow == LockTime > Window

LEMMA LimitConstants ==
  /\ {Window, Threshold, LockTime, Rate, Burst, IdleTime} \subseteq Nat \ {0}
  /\ Cardinality(Attempts) \in Nat /\ IsFiniteSet(Attempts)
  /\ NoAccount \notin Accounts
  /\ MostFailures \in Nat /\ L!MaxCount = MostFailures + 1
<1>1. {Window, Threshold, LockTime, Rate, Burst, IdleTime} \subseteq Nat \ {0}
      /\ IsFiniteSet(Attempts) /\ NoAccount \notin Accounts
  BY SafetyAssumption DEF SafetyAssumption, L!Assumption, L!IsFiniteSet, IsFiniteSet
<1>2. Cardinality(Attempts) \in Nat
  BY <1>1, FS_CardinalityType
<1>3. QED
  BY <1>1, <1>2 DEF MostFailures, L!MaxCount, L!Cardinality, Cardinality

LEMMA PartOfAttempts ==
  ASSUME NEW T \in SUBSET Attempts
  PROVE  IsFiniteSet(T) /\ Cardinality(T) \in 0 .. Cardinality(Attempts)
<1>1. IsFiniteSet(T) /\ Cardinality(T) <= Cardinality(Attempts)
  BY LimitConstants, FS_Subset
<1>2. Cardinality(T) \in Nat
  BY <1>1, FS_CardinalityType
<1>3. QED
  BY <1>1, <1>2, LimitConstants

-----------------------------------------------------------------------------
(* What is done to one entry.                                              *)

LEMMA NoEntryBounded ==
  ASSUME NEW k \in 0 .. Cardinality(Attempts)
  PROVE  Bounded(L!NoEntry, k)
  BY LimitConstants DEF Bounded, L!NoEntry, L!Entry, L!Age, L!Stale

\* RecordFailure counts one of the requests on their way.
LEMMA CountedBounded ==
  ASSUME LockOutlastsWindow, NEW k \in 1 .. Cardinality(Attempts), NEW e, Bounded(e, k)
  PROVE  Bounded(L!Counted(e), k - 1)
<1>1. CASE L!Stale(e)
  <2>1. L!Counted(e) = IF 1 >= Threshold THEN [L!Fresh EXCEPT !.lock = LockTime] ELSE L!Fresh
    BY <1>1 DEF L!Counted, L!Fresh
  <2>2. QED
    BY <1>1, <2>1, LimitConstants
       DEF Bounded, MostFailures, LockOutlastsWindow, L!Fresh, L!Entry, L!Age, L!Stale
<1>2. CASE ~L!Stale(e)
  <2>1. e.count + k <= MostFailures /\ e.count \in Nat /\ e.first \in L!Age(Window)
        /\ e.lock \in 0 .. LockTime /\ e.last \in L!Age(Window)
    BY <1>2 DEF Bounded, L!Entry
  <2>2. L!Least(e.count + 1, L!MaxCount) = e.count + 1
    BY <2>1, LimitConstants DEF L!Least
  <2>3. L!Counted(e) = [count |-> e.count + 1, first |-> e.first, last |-> 0,
                        lock |-> IF e.count + 1 >= Threshold THEN LockTime ELSE e.lock]
    BY <1>2, <2>2 DEF Bounded, L!Counted, L!Entry
  <2>4. QED
    BY <1>2, <2>1, <2>3, LimitConstants
       DEF Bounded, LockOutlastsWindow, L!Entry, L!Age, L!Stale
<1>3. QED
  BY <1>1, <1>2

LEMMA AgedBounded ==
  ASSUME NEW k \in 0 .. Cardinality(Attempts), NEW e, Bounded(e, k)
  PROVE  Bounded(L!Aged(e), k)
<1>1. CASE e.count = 0
  BY <1>1 DEF L!Aged
<1>2. CASE e.count # 0
  <2>1. e.count \in Nat /\ e.first \in 0 .. Window + 1 /\ e.last \in 0 .. Window + 1
        /\ e.lock \in 0 .. LockTime
    BY DEF Bounded, L!Entry, L!Age
  <2>2. L!Aged(e) = [count |-> e.count,
                     first |-> IF e.first > Window THEN e.first ELSE e.first + 1,
                     last  |-> IF e.last > Window THEN e.last ELSE e.last + 1,
                     lock  |-> IF e.lock > 0 THEN e.lock - 1 ELSE 0]
    BY <1>2 DEF Bounded, L!Aged, L!Older, L!Entry
  <2>3. QED
    BY <1>2, <2>1, <2>2, LimitConstants DEF Bounded, L!Entry, L!Age, L!Stale
<1>3. QED
  BY <1>1, <1>2

\* Check lets a request through: the account is not locked.
LEMMA PassedBounded ==
  ASSUME NEW k \in 0 .. Cardinality(Attempts), NEW m \in 0 .. Cardinality(Attempts),
         NEW e, Bounded(e, k), ~L!Locked(e)
  PROVE  Bounded(e, m)
  BY LimitConstants DEF Bounded, MostFailures, L!Locked, L!Stale, L!Entry, L!Age

\* Fewer requests are on their way.
LEMMA FewerBounded ==
  ASSUME NEW k \in 0 .. Cardinality(Attempts), NEW m \in 0 .. k, NEW e, Bounded(e, k)
  PROVE  Bounded(e, m)
  BY LimitConstants DEF Bounded, L!Entry

\* What was removed is taken for no entry by every operation.
LEMMA SameEntryThroughout ==
  ASSUME NEW e, NEW f, SameEntry(e, f)
  PROVE  /\ L!CheckResult(e) = L!CheckResult(f) /\ L!Counted(e) = L!Counted(f)
         /\ SameEntry(L!Aged(e), L!Aged(f))
<1>1. CASE e = f
  BY <1>1 DEF SameEntry
<1>2. CASE e # f
  <2>1. /\ e = L!NoEntry /\ f \in L!Entry
        /\ f.lock = 0 /\ f.last > Window /\ f.first > Window
    BY <1>2 DEF SameEntry
  <2>2. L!Stale(e) /\ L!Stale(f) /\ ~L!Locked(e) /\ ~L!Locked(f)
    BY <2>1 DEF L!Stale, L!Locked, L!NoEntry, L!Entry
  <2>3. L!CheckResult(e) = L!CheckResult(f)
    BY <2>2 DEF L!CheckResult
  <2>4. L!Counted(e) = L!Counted(f)
    BY <2>2 DEF L!Counted
  <2>5. L!Aged(e) = e
    BY <2>1 DEF L!Aged, L!NoEntry
  <2>6. L!Aged(f) = f
    <3>1. CASE f.count = 0
      BY <3>1 DEF L!Aged
    <3>2. CASE f.count # 0
      <4>1. /\ L!Older(f.first, Window) = f.first /\ L!Older(f.last, Window) = f.last
            /\ (IF f.lock > 0 THEN f.lock - 1 ELSE 0) = f.lock
        BY <2>1 DEF L!Older
      <4>2. L!Aged(f) = [f EXCEPT !.first = f.first, !.last = f.last, !.lock = f.lock]
        BY <3>2, <4>1 DEF L!Aged
      <4>3. QED
        BY <2>1, <4>2 DEF L!Entry
    <3>3. QED
      BY <3>1, <3>2
  <2>7. QED
    BY <2>3, <2>4, <2>5, <2>6
<1>3. QED
  BY <1>1, <1>2

\* CleanupAccounts removes nothing else.
LEMMA ForgottenIsSame ==
  ASSUME NEW e, NEW f, NEW k, Bounded(e, k), SameEntry(e, f), L!Forgotten(e)
  PROVE  SameEntry(L!NoEntry, f)
<1>1. e.lock = 0 /\ e.last > Window /\ e.first > Window /\ e \in L!Entry
  BY LimitConstants DEF Bounded, L!Forgotten, L!Locked, L!Entry, L!Age
<1>2. e # L!NoEntry
  BY <1>1, LimitConstants DEF L!NoEntry
<1>3. QED
  BY <1>1, <1>2 DEF SameEntry

-----------------------------------------------------------------------------
(* The bucket.                                                             *)

LEMMA RefilledBucket ==
  ASSUME NEW b \in L!Bucket
  PROVE  L!Refilled(b) \in 0 .. Burst
<1>1. b.tokens + b.idle * Rate \in Nat
  BY LimitConstants DEF L!Bucket, L!Age
<1>2. QED
  BY <1>1, LimitConstants DEF L!Bucket, L!Refilled, L!Least

LEMMA TakenBucket ==
  ASSUME NEW b \in L!Bucket
  PROVE  L!Taken(b) \in L!Bucket
  BY RefilledBucket, LimitConstants DEF L!Taken, L!Bucket, L!Age

LEMMA AgedBucketType ==
  ASSUME NEW b \in L!Bucket
  PROVE  L!AgedBucket(b) \in L!Bucket
  BY LimitConstants DEF L!AgedBucket, L!Bucket, L!Age, L!Older

\* A bucket that was idle for its time to live is full, as a new one is.
LEMMA SameBucketThroughout ==
  ASSUME NEW b \in L!Bucket, NEW c \in L!Bucket, SameBucket(b, c)
  PROVE  /\ L!Refilled(b) = L!Refilled(c) /\ L!Taken(b) = L!Taken(c)
         /\ SameBucket(L!AgedBucket(b), L!AgedBucket(c))
<1>1. CASE b = c
  BY <1>1 DEF SameBucket
<1>2. CASE b # c
  <2>1. b = L!FullBucket /\ c.known /\ c.idle = IdleTime + 1
    BY <1>2, LimitConstants DEF SameBucket, L!Bucket, L!Age
  <2>2. c.idle * Rate >= Burst
    <3>1. Rate * IdleTime >= Burst
      BY SafetyAssumption DEF SafetyAssumption, L!Assumption
    <3>2. c.idle * Rate = Rate * IdleTime + Rate
      BY <2>1, LimitConstants
    <3>3. Rate * IdleTime \in Nat
      BY LimitConstants
    <3>4. QED
      BY <3>1, <3>2, <3>3, LimitConstants
  <2>3. c.tokens \in 0 .. Burst /\ c.idle * Rate \in Nat
    BY <2>1, LimitConstants DEF L!Bucket
  <2>4. L!Refilled(c) = Burst
    BY <2>1, <2>2, <2>3, LimitConstants DEF L!Refilled, L!Least
  <2>5. L!Refilled(b) = Burst
    BY <2>1 DEF L!Refilled, L!FullBucket
  <2>6. L!AgedBucket(b) = b
    BY <2>1 DEF L!AgedBucket, L!FullBucket
  <2>7. L!AgedBucket(c) = c
    BY <2>1, LimitConstants DEF L!AgedBucket, L!Older, L!Bucket
  <2>8. QED
    BY <2>4, <2>5, <2>6, <2>7 DEF L!Taken
<1>3. QED
  BY <1>1, <1>2

-----------------------------------------------------------------------------
(* The inductive invariant is kept.                                        *)

LEMMA InFlightSize ==
  /\ \A u : IsFiniteSet(InFlight(u)) /\ Cardinality(InFlight(u)) \in 0 .. Cardinality(Attempts)
  /\ \A u : IsFiniteSet(InFlight(u)') /\ Cardinality(InFlight(u)') \in 0 .. Cardinality(Attempts)
  BY PartOfAttempts DEF InFlight

LEMMA BoundedType ==
  ASSUME NEW e, NEW k, NEW f, Bounded(e, k), SameEntry(e, f)
  PROVE  e \in L!Entry /\ f \in L!Entry
  BY DEF Bounded, SameEntry

LEMMA LimitsInit == L!Init => LimitsInv
<1>1. ASSUME L!Init
      PROVE  LimitsInv
  <2>1. \A u \in Accounts : Bounded(L!NoEntry, Cardinality(InFlight(u)))
    BY NoEntryBounded, InFlightSize
  <2>2. L!NoEntry \in L!Entry
    BY LimitConstants DEF L!NoEntry, L!Entry, L!Age
  <2>3. L!FullBucket \in L!Bucket
    BY LimitConstants DEF L!FullBucket, L!Bucket, L!Age
  <2>4. QED
    BY <1>1, <2>1, <2>2, <2>3 DEF L!Init, LimitsInv, L!TypeOK, SameEntry, SameBucket
<1>2. QED
  BY <1>1

\* A request that is let through, or refused.
LEMMA AttemptKeeps ==
  ASSUME LimitsInv, NEW a \in Attempts, NEW u \in Accounts, L!Attempt(a, u)
  PROVE  LimitsInv'
<1>1. SameBucket(bucket, keptBucket)' /\ bucket' \in L!Bucket /\ keptBucket' \in L!Bucket
  BY SameBucketThroughout, TakenBucket DEF LimitsInv, L!TypeOK, L!Attempt, SameBucket
<1>2. attempt' \in [Attempts -> Accounts \union {NoAccount}]
  BY DEF LimitsInv, L!TypeOK, L!Attempt
<1>3. ASSUME NEW v \in Accounts
      PROVE  Bounded(entries[v], Cardinality(InFlight(v)'))
  <2>1. Bounded(entries[v], Cardinality(InFlight(v)))
    BY <1>3 DEF LimitsInv
  <2>2. CASE attempt' = [attempt EXCEPT ![a] = u] /\ v = u /\ ~L!Locked(entries[u])
    BY <2>1, <2>2, PassedBounded, InFlightSize
  <2>3. CASE attempt' = attempt \/ (attempt' = [attempt EXCEPT ![a] = u] /\ v # u)
    <3>1. attempt[a] = NoAccount
      BY DEF L!Attempt
    <3>2. InFlight(v)' = InFlight(v)
      BY <2>3, <3>1, LimitConstants DEF InFlight, LimitsInv, L!TypeOK
    <3>3. QED
      BY <2>1, <3>2
  <2>4. QED
    BY <2>2, <2>3 DEF L!Attempt, L!CheckResult
<1>4. QED
  BY <1>1, <1>2, <1>3 DEF LimitsInv, L!TypeOK, L!Attempt

\* A request leaves with its result.
LEMMA ResultLeaves ==
  ASSUME L!TypeOK, NEW a \in Attempts, NEW u \in Accounts, attempt[a] = u,
         attempt' = [attempt EXCEPT ![a] = NoAccount]
  PROVE  /\ attempt' \in [Attempts -> Accounts \union {NoAccount}]
         /\ Cardinality(InFlight(u)) \in 1 .. Cardinality(Attempts)
         /\ Cardinality(InFlight(u)') = Cardinality(InFlight(u)) - 1
         /\ \A v \in Accounts : v # u => InFlight(v)' = InFlight(v)
<1>1. attempt \in [Attempts -> Accounts \union {NoAccount}]
  BY DEF L!TypeOK
<1>2. /\ \A c \in Attempts \ {a} : attempt'[c] = attempt[c]
      /\ attempt'[a] = NoAccount
  BY <1>1
<1>3. InFlight(u)' = InFlight(u) \ {a} /\ a \in InFlight(u)
  BY <1>2, LimitConstants DEF InFlight
<1>4. ASSUME NEW v \in Accounts, v # u
      PROVE  InFlight(v)' = InFlight(v)
  BY <1>2, <1>4, LimitConstants DEF InFlight
<1>5. Cardinality(InFlight(u)') = Cardinality(InFlight(u)) - 1
  BY <1>3, InFlightSize, FS_RemoveElement
<1>6. Cardinality(InFlight(u)) \in 1 .. Cardinality(Attempts)
  BY <1>5, InFlightSize, LimitConstants
<1>7. QED
  BY <1>1, <1>4, <1>5, <1>6

\* RecordFailure and RecordSuccess write the entry of one account.
LEMMA ResultKeeps ==
  ASSUME LimitsInv, NEW a \in Attempts, NEW u \in Accounts, attempt[a] = u,
         attempt' = [attempt EXCEPT ![a] = NoAccount],
         NEW e, NEW f, Bounded(e, Cardinality(InFlight(u)')), SameEntry(e, f),
         entries' = [entries EXCEPT ![u] = e], kept' = [kept EXCEPT ![u] = f],
         UNCHANGED <<bucket, keptBucket>>
  PROVE  LimitsInv'
<1>1. L!TypeOK /\ e \in L!Entry /\ f \in L!Entry
  BY BoundedType DEF LimitsInv
<1>2. ASSUME NEW v \in Accounts
      PROVE  Bounded(entries'[v], Cardinality(InFlight(v)')) /\ SameEntry(entries'[v], kept'[v])
  <2>1. CASE v # u
    <3>1. InFlight(v)' = InFlight(v) /\ entries'[v] = entries[v] /\ kept'[v] = kept[v]
      BY <1>1, <2>1, ResultLeaves DEF L!TypeOK
    <3>2. QED
      BY <3>1 DEF LimitsInv
  <2>2. CASE v = u
    BY <1>1, <2>2 DEF L!TypeOK
  <2>3. QED
    BY <2>1, <2>2
<1>3. QED
  BY <1>1, <1>2, ResultLeaves DEF LimitsInv, L!TypeOK

LEMMA FailureKeeps ==
  ASSUME LockOutlastsWindow, LimitsInv, NEW a \in Attempts, L!RecordFailure(a)
  PROVE  LimitsInv'
<1>1. PICK u \in Accounts : attempt[a] = u
  BY DEF LimitsInv, L!TypeOK, L!RecordFailure
<1>2. /\ attempt' = [attempt EXCEPT ![a] = NoAccount]
      /\ entries' = [entries EXCEPT ![u] = L!Counted(entries[u])]
      /\ kept' = [kept EXCEPT ![u] = L!Counted(kept[u])]
      /\ UNCHANGED <<bucket, keptBucket>>
  BY <1>1 DEF L!RecordFailure
<1>3. Bounded(L!Counted(entries[u]), Cardinality(InFlight(u)'))
  BY <1>1, <1>2, ResultLeaves, CountedBounded DEF LimitsInv
<1>4. SameEntry(L!Counted(entries[u]), L!Counted(kept[u]))
  BY SameEntryThroughout DEF LimitsInv, SameEntry
<1>5. QED
  BY <1>1, <1>2, <1>3, <1>4, ResultKeeps

LEMMA SuccessKeeps ==
  ASSUME LimitsInv, NEW a \in Attempts, L!RecordSuccess(a)
  PROVE  LimitsInv'
<1>1. PICK u \in Accounts : attempt[a] = u
  BY DEF LimitsInv, L!TypeOK, L!RecordSuccess
<1>2. /\ attempt' = [attempt EXCEPT ![a] = NoAccount]
      /\ entries' = [entries EXCEPT ![u] = L!NoEntry]
      /\ kept' = [kept EXCEPT ![u] = L!NoEntry]
      /\ UNCHANGED <<bucket, keptBucket>>
  BY <1>1 DEF L!RecordSuccess
<1>3. Bounded(L!NoEntry, Cardinality(InFlight(u)')) /\ SameEntry(L!NoEntry, L!NoEntry)
  BY NoEntryBounded, InFlightSize DEF SameEntry
<1>4. QED
  BY <1>1, <1>2, <1>3, ResultKeeps

LEMMA CleanupsKeep ==
  ASSUME LimitsInv, L!CleanupAccounts \/ L!CleanupBuckets
  PROVE  LimitsInv'
<1>1. CASE L!CleanupAccounts
  <2>1. ASSUME NEW v \in Accounts
        PROVE  /\ Bounded(entries'[v], Cardinality(InFlight(v)'))
               /\ SameEntry(entries'[v], kept'[v]) /\ entries'[v] \in L!Entry
    <3>1. /\ Bounded(entries[v], Cardinality(InFlight(v))) /\ SameEntry(entries[v], kept[v])
          /\ InFlight(v)' = InFlight(v) /\ kept'[v] = kept[v]
      BY <1>1, <2>1 DEF LimitsInv, L!CleanupAccounts, InFlight
    <3>2. CASE L!Forgotten(entries[v])
      <4>1. entries'[v] = L!NoEntry
        BY <1>1, <3>2 DEF L!CleanupAccounts
      <4>2. QED
        BY <3>1, <3>2, <4>1, ForgottenIsSame, NoEntryBounded, InFlightSize, BoundedType
    <3>3. CASE ~L!Forgotten(entries[v])
      BY <1>1, <3>1, <3>3, BoundedType DEF L!CleanupAccounts
    <3>4. QED
      BY <3>2, <3>3
  <2>2. QED
    BY <1>1, <2>1 DEF LimitsInv, L!TypeOK, L!CleanupAccounts
<1>2. CASE L!CleanupBuckets
  <2>1. \A u : InFlight(u)' = InFlight(u)
    BY <1>2 DEF L!CleanupBuckets, InFlight
  <2>2. bucket' \in L!Bucket /\ SameBucket(bucket', keptBucket')
    <3>1. bucket \in L!Bucket /\ keptBucket \in L!Bucket /\ SameBucket(bucket, keptBucket)
          /\ keptBucket' = keptBucket
      BY <1>2 DEF LimitsInv, L!TypeOK, L!CleanupBuckets
    <3>2. CASE bucket.known /\ bucket.idle > IdleTime
      <4>1. bucket' = L!FullBucket
        BY <1>2, <3>2 DEF L!CleanupBuckets
      <4>2. bucket = keptBucket
        BY <3>1, <3>2 DEF SameBucket, L!FullBucket
      <4>3. L!FullBucket \in L!Bucket
        BY LimitConstants DEF L!FullBucket, L!Bucket, L!Age
      <4>4. QED
        BY <3>1, <3>2, <4>1, <4>2, <4>3 DEF SameBucket
    <3>3. CASE ~(bucket.known /\ bucket.idle > IdleTime)
      BY <1>2, <3>1, <3>3 DEF L!CleanupBuckets
    <3>4. QED
      BY <3>2, <3>3
  <2>3. QED
    BY <1>2, <2>1, <2>2 DEF LimitsInv, L!TypeOK, L!CleanupBuckets
<1>3. QED
  BY <1>1, <1>2

LEMMA TickKeeps ==
  ASSUME LimitsInv, L!Tick
  PROVE  LimitsInv'
<1>1. ASSUME NEW v \in Accounts
      PROVE  /\ Bounded(entries'[v], Cardinality(InFlight(v)'))
             /\ SameEntry(entries'[v], kept'[v])
             /\ entries'[v] \in L!Entry /\ kept'[v] \in L!Entry
  <2>1. /\ Bounded(entries[v], Cardinality(InFlight(v))) /\ SameEntry(entries[v], kept[v])
        /\ InFlight(v)' = InFlight(v)
        /\ entries'[v] = L!Aged(entries[v]) /\ kept'[v] = L!Aged(kept[v])
    BY <1>1 DEF LimitsInv, L!Tick, InFlight
  <2>2. Bounded(L!Aged(entries[v]), Cardinality(InFlight(v)))
    BY <2>1, AgedBounded, InFlightSize
  <2>3. SameEntry(L!Aged(entries[v]), L!Aged(kept[v]))
    BY <2>1, SameEntryThroughout
  <2>4. QED
    BY <2>1, <2>2, <2>3, BoundedType
<1>2. bucket' \in L!Bucket /\ keptBucket' \in L!Bucket /\ SameBucket(bucket', keptBucket')
  BY AgedBucketType, SameBucketThroughout DEF LimitsInv, L!TypeOK, L!Tick
<1>3. QED
  BY <1>1, <1>2 DEF LimitsInv, L!TypeOK, L!Tick

LEMMA LimitsStep ==
  ASSUME LockOutlastsWindow, LimitsInv, [L!Next]_limitVars
  PROVE  LimitsInv'
<1>1. CASE UNCHANGED limitVars
  BY <1>1 DEF limitVars, LimitsInv, L!TypeOK, InFlight
<1>2. QED
  BY <1>1, AttemptKeeps, FailureKeeps, SuccessKeeps, CleanupsKeep, TickKeeps DEF L!Next

LEMMA LimitsAreHeld == LimitsInv => LimitsHold
<1>1. ASSUME LimitsInv
      PROVE  L!GuessesBounded
  <2>1. L!Cardinality(Attempts) = Cardinality(Attempts)
    BY DEF L!Cardinality, Cardinality
  <2>2. QED
    BY <1>1, <2>1 DEF LimitsInv, Bounded, MostFailures, L!GuessesBounded
<1>2. ASSUME LimitsInv
      PROVE  L!CleanupInvisible
  BY <1>2, SameEntryThroughout, SameBucketThroughout DEF LimitsInv, L!TypeOK, L!CleanupInvisible
<1>3. QED
  BY <1>1, <1>2 DEF LimitsHold, L!LimitsHold

LEMMA LimitsSteps == [AllNext]_allVars => [L!Next]_limitVars
  BY DEF AllNext, allVars, limitVars

\* The limits before the login hold for any number of attempts, however they
\* cross the clock and the clean-ups: failures are bounded by the threshold and
\* the requests in flight, and what is removed is what no request would count
\* (AccountThrottler, IPRateLimiter).
THEOREM LimitsAlways == ASSUME LockOutlastsWindow PROVE AllSpec => []LimitsHold
<1>1. AllInit => LimitsInv
  BY LimitsInit DEF AllInit
<1>2. LimitsInv /\ [AllNext]_allVars => LimitsInv'
  BY LimitsStep, LimitsSteps
<1>3. QED
  BY <1>1, <1>2, LimitsAreHeld, PTL DEF AllSpec

-----------------------------------------------------------------------------
(* Staging: the inductive invariant.                                       *)

ReportDir == [index : Uploads \cup {Nobody}, data : SUBSET Uploads]
BuildRow  == [there : BOOLEAN, flag : BOOLEAN, by : Uploads \cup {Allure, Nobody},
              parsed : Uploads \cup {Nobody}]
Waiting   == [at : {"idle", "refused", "done"}]
Writing   == [at : {"write"}, to : {0} \cup S!Numbers, todo : SUBSET S!Files]
Worker    == [by : Uploads \cup {Allure}, number : S!Numbers, parsed : Uploads \cup {Nobody},
              listed : SUBSET Uploads, todo : SUBSET S!Files,
              at : {"read", "list", "copy", "flag", "clean"}]

StagedTypes ==
  /\ latest \in ReportDir /\ report \in [S!Numbers -> ReportDir]
  /\ row \in [S!Numbers -> BuildRow]
  /\ upload \in [Uploads -> Waiting \cup Writing]
  /\ work \in {S!NoWork} \cup Worker

\* A numbered upload that has written its index has put one there.
IndexWritten ==
  \A u \in Uploads :
    upload[u].at = "write" /\ upload[u].to # 0 /\ "index" \notin upload[u].todo
      => report[upload[u].to].index # Nobody

\* What is yet to be copied is staged, and what has been copied is in the
\* directory of the build; an ingestion has seen an index.
CopyUnderWay ==
  work # S!NoWork =>
    /\ work.at = "list" /\ work.by # Allure => latest.index # Nobody
    /\ work.at = "copy" =>
         /\ "index" \in work.todo => latest.index # Nobody
         /\ "index" \notin work.todo /\ work.by # Allure => report[work.number].index # Nobody
         /\ work.listed \subseteq latest.data
         /\ "data" \notin work.todo => work.listed \subseteq report[work.number].data
    /\ work.at \in {"flag", "clean"} =>
         /\ report[work.number].index # Nobody
         /\ work.listed \subseteq report[work.number].data

StagingInv == StagedTypes /\ IndexWritten /\ CopyUnderWay /\ S!FlagMeansReport

LEMMA StagingConstants ==
  /\ Jobs \subseteq Uploads /\ Allure \notin Uploads /\ Nobody \notin Uploads \cup {Allure}
  /\ 0 \notin S!Numbers
  BY SafetyAssumption DEF SafetyAssumption, S!Assumption, S!Numbers

-----------------------------------------------------------------------------
(* What grows keeps what was said of it.                                   *)

Grows(d, e) == (d.index # Nobody => e.index # Nobody) /\ d.data \subseteq e.data

ReportsGrow == \A n \in S!Numbers : Grows(report[n], report'[n])

\* No build gets a flag.
FlagsStay == \A n \in S!Numbers : row'[n].flag => row[n].flag

LEMMA WrittenStays ==
  ASSUME StagingInv, ReportsGrow, upload' = upload
  PROVE  IndexWritten'
<1>1. ASSUME NEW u \in Uploads, upload[u].at = "write", upload[u].to # 0
      PROVE  upload[u].to \in S!Numbers
  BY <1>1 DEF StagingInv, StagedTypes, Waiting, Writing
<1>2. QED
  BY <1>1 DEF StagingInv, IndexWritten, ReportsGrow, Grows

LEMMA CopyStays ==
  ASSUME StagingInv, ReportsGrow, Grows(latest, latest'), work' = work
  PROVE  CopyUnderWay'
<1>1. CASE work = S!NoWork
  BY <1>1 DEF CopyUnderWay
<1>2. CASE work # S!NoWork
  <2>1. work \in Worker
    BY <1>2 DEF StagingInv, StagedTypes
  <2>2. work.number \in S!Numbers
    BY <2>1 DEF Worker
  <2>3. QED
    BY <1>2, <2>2 DEF StagingInv, CopyUnderWay, ReportsGrow, Grows
<1>3. QED
  BY <1>1, <1>2

LEMMA FlagsMeanStill ==
  ASSUME StagingInv, ReportsGrow, FlagsStay
  PROVE  S!FlagMeansReport'
  BY DEF StagingInv, ReportsGrow, Grows, FlagsStay, S!FlagMeansReport

\* Nobody writes to a directory, and no work goes on.
LEMMA NothingGrows ==
  ASSUME report' = report
  PROVE  ReportsGrow
  BY DEF ReportsGrow, Grows

-----------------------------------------------------------------------------
(* Uploads.                                                                *)

LEMMA BeginKeeps ==
  ASSUME StagingInv, NEW u \in Uploads, S!Begin(u)
  PROVE  StagingInv'
<1>1. PICK to \in {0} \cup S!Numbers :
        upload' = [upload EXCEPT ![u] = [at |-> "write", to |-> to, todo |-> S!Archive]]
  BY DEF S!Begin
<1>2. UNCHANGED <<latest, report, row, job, work>>
  BY DEF S!Begin
<1>3. [at |-> "write", to |-> to, todo |-> S!Archive] \in Writing
  BY DEF Writing, S!Archive
<1>4. upload' \in [Uploads -> Waiting \cup Writing]
  BY <1>1, <1>3 DEF StagingInv, StagedTypes
<1>5. IndexWritten'
  <2>1. ASSUME NEW v \in Uploads, v # u
        PROVE  upload'[v] = upload[v]
    BY <1>1, <2>1 DEF StagingInv, StagedTypes
  <2>2. "index" \in upload'[u].todo
    BY <1>1 DEF StagingInv, StagedTypes, S!Archive, S!Files
  <2>3. QED
    BY <1>2, <2>1, <2>2 DEF StagingInv, IndexWritten
<1>6. CopyUnderWay' /\ S!FlagMeansReport'
  BY <1>2 DEF StagingInv, CopyUnderWay, S!FlagMeansReport
<1>7. QED
  BY <1>2, <1>4, <1>5, <1>6 DEF StagingInv, StagedTypes

\* A file that is written.
LEMMA WithGrows ==
  ASSUME NEW d \in ReportDir, NEW u \in Uploads, NEW f \in S!Files
  PROVE  /\ S!With(d, u, f) \in ReportDir /\ Grows(d, S!With(d, u, f))
         /\ f = "index" => S!With(d, u, f).index # Nobody
         /\ S!With(d, u, f) # S!Empty
  BY StagingConstants DEF ReportDir, Grows, S!With, S!Files, S!Empty

LEMMA WriteFileKeeps ==
  ASSUME StagingInv, NEW u \in Uploads, NEW f \in S!Files, S!WriteFile(u, f)
  PROVE  StagingInv'
<1>1. /\ upload[u] \in Writing /\ f \in upload[u].todo
      /\ upload' = [upload EXCEPT ![u].todo = @ \ {f}]
      /\ UNCHANGED <<row, work>>
  BY DEF StagingInv, StagedTypes, Waiting, S!WriteFile
<1>2. /\ upload' \in [Uploads -> Waiting \cup Writing]
      /\ \A v \in Uploads \ {u} : upload'[v] = upload[v]
      /\ upload'[u].to = upload[u].to /\ upload'[u].todo = upload[u].todo \ {f}
  BY <1>1 DEF StagingInv, StagedTypes, Writing
<1>3. /\ latest' \in ReportDir /\ Grows(latest, latest')
      /\ report' \in [S!Numbers -> ReportDir] /\ ReportsGrow
      /\ upload[u].to # 0 /\ f = "index" => report'[upload[u].to].index # Nobody
  <2>1. CASE upload[u].to = 0
    <3>1. latest' = S!With(latest, u, f) /\ report' = report
      BY <2>1 DEF S!WriteFile
    <3>2. QED
      BY <2>1, <3>1, WithGrows, NothingGrows DEF StagingInv, StagedTypes
  <2>2. CASE upload[u].to # 0
    <3> DEFINE n == upload[u].to
    <3>1. n \in S!Numbers
      BY <1>1, <2>2 DEF Writing
    <3>2. report' = [report EXCEPT ![n] = S!With(report[n], u, f)] /\ latest' = latest
      BY <2>2 DEF S!WriteFile
    <3>3. report[n] \in ReportDir
      BY <3>1 DEF StagingInv, StagedTypes
    <3>4. report'[n] = S!With(report[n], u, f) /\ \A m \in S!Numbers \ {n} : report'[m] = report[m]
      BY <3>1, <3>2 DEF StagingInv, StagedTypes
    <3>5. ReportsGrow
      BY <3>3, <3>4, WithGrows DEF ReportsGrow, Grows
    <3>6. QED
      BY <3>1, <3>2, <3>3, <3>4, <3>5, WithGrows DEF StagingInv, StagedTypes, Grows
  <2>3. QED
    BY <2>1, <2>2
<1>4. IndexWritten'
  <2>1. ASSUME NEW v \in Uploads, upload'[v].at = "write", upload'[v].to # 0,
               "index" \notin upload'[v].todo
        PROVE  report'[upload'[v].to].index # Nobody
    <3>1. upload'[v].to = upload[v].to /\ upload[v] \in Writing /\ upload[v].to \in S!Numbers
      BY <1>1, <1>2, <2>1 DEF StagingInv, StagedTypes, Waiting, Writing
    <3>2. CASE v = u /\ f = "index"
      BY <1>3, <2>1, <3>1, <3>2
    <3>3. CASE v # u \/ f # "index"
      <4>1. "index" \notin upload[v].todo /\ upload[v].at = "write"
        BY <1>2, <2>1, <3>1, <3>3 DEF Writing
      <4>2. report[upload[v].to].index # Nobody
        BY <2>1, <3>1, <4>1 DEF StagingInv, IndexWritten
      <4>3. QED
        BY <1>3, <3>1, <4>2 DEF ReportsGrow, Grows
    <3>4. QED
      BY <3>2, <3>3
  <2>2. QED
    BY <2>1 DEF IndexWritten
<1>5. CopyUnderWay' /\ S!FlagMeansReport'
  BY <1>1, <1>3, CopyStays, FlagsMeanStill DEF FlagsStay
<1>6. QED
  BY <1>1, <1>2, <1>3, <1>4, <1>5 DEF StagingInv, StagedTypes

\* An upload that stops writing.
LEMMA UploadStops ==
  ASSUME StagingInv, NEW u \in Uploads, NEW end \in Waiting,
         upload' = [upload EXCEPT ![u] = end], UNCHANGED <<latest, report, work>>,
         row' \in [S!Numbers -> BuildRow], S!FlagMeansReport'
  PROVE  StagingInv'
<1>1. /\ upload' \in [Uploads -> Waiting \cup Writing]
      /\ upload'[u] = end /\ \A v \in Uploads \ {u} : upload'[v] = upload[v]
  BY DEF StagingInv, StagedTypes
<1>2. IndexWritten'
  BY <1>1 DEF StagingInv, IndexWritten, Waiting
<1>3. CopyUnderWay'
  BY DEF StagingInv, CopyUnderWay
<1>4. QED
  BY <1>1, <1>2, <1>3 DEF StagingInv, StagedTypes

LEMMA WriteFailsKeeps ==
  ASSUME StagingInv, NEW u \in Uploads, S!WriteFails(u)
  PROVE  StagingInv'
<1>1. /\ upload' = [upload EXCEPT ![u] = [at |-> "refused"]]
      /\ UNCHANGED <<latest, report, row, work>>
  BY DEF S!WriteFails
<1>2. [at |-> "refused"] \in Waiting
  BY DEF Waiting
<1>3. row' \in [S!Numbers -> BuildRow] /\ S!FlagMeansReport'
  BY <1>1 DEF StagingInv, StagedTypes, S!FlagMeansReport
<1>4. QED
  BY <1>1, <1>2, <1>3, UploadStops

LEMMA FinishKeeps ==
  ASSUME StagingInv, NEW u \in Uploads, S!Finish(u)
  PROVE  StagingInv'
<1> DEFINE n == upload[u].to
<1>1. /\ upload[u].at = "write" /\ upload[u].todo = {} /\ upload[u] \in Writing
      /\ upload' = [upload EXCEPT ![u] = [at |-> "done"]]
      /\ UNCHANGED <<latest, report, work>>
  BY DEF StagingInv, StagedTypes, Waiting, S!Finish
<1>2. [at |-> "done"] \in Waiting
  BY DEF Waiting
<1>3. row' \in [S!Numbers -> BuildRow] /\ S!FlagMeansReport'
  <2>1. CASE row' = row
    BY <1>1, <2>1 DEF StagingInv, StagedTypes, S!FlagMeansReport
  <2>2. CASE n # 0 /\ row' = [row EXCEPT ![n].flag = row[n].there]
    <3>1. n \in S!Numbers /\ report[n].index # Nobody
      BY <1>1, <2>2 DEF StagingInv, IndexWritten, Writing
    <3>2. row[n] \in BuildRow
      BY <3>1 DEF StagingInv, StagedTypes
    <3>3. row' \in [S!Numbers -> BuildRow]
      BY <2>2, <3>1, <3>2 DEF StagingInv, StagedTypes, BuildRow
    <3>4. \A m \in S!Numbers \ {n} : row'[m] = row[m]
      BY <2>2 DEF StagingInv, StagedTypes
    <3>5. QED
      BY <1>1, <3>1, <3>3, <3>4 DEF StagingInv, S!FlagMeansReport
  <2>3. QED
    BY <2>1, <2>2 DEF S!Finish
<1>4. QED
  BY <1>1, <1>2, <1>3, UploadStops

-----------------------------------------------------------------------------
(* Work under the lock.                                                    *)

\* A step that leaves the files alone and gives no build a flag.
LEMMA FilesStay ==
  ASSUME StagingInv, UNCHANGED <<latest, report, upload>>,
         row' \in [S!Numbers -> BuildRow], FlagsStay,
         work' \in {S!NoWork} \cup Worker, CopyUnderWay'
  PROVE  StagingInv'
<1>1. IndexWritten'
  BY DEF StagingInv, IndexWritten
<1>2. S!FlagMeansReport'
  BY NothingGrows, FlagsMeanStill
<1>3. QED
  BY <1>1, <1>2 DEF StagingInv, StagedTypes

LEMMA ReserveKeeps ==
  ASSUME StagingInv, NEW by \in Uploads \cup {Allure}, S!Reserve(by),
         UNCHANGED <<latest, report, upload>>
  PROVE  StagingInv'
<1>1. /\ S!NextNumber \in S!Numbers
      /\ row' = [row EXCEPT ![S!NextNumber] = [S!NoRow EXCEPT !.there = TRUE, !.by = by]]
      /\ work' = [by |-> by, number |-> S!NextNumber, parsed |-> Nobody, listed |-> {},
                  todo |-> {}, at |-> IF by = Allure THEN "list" ELSE "read"]
  BY DEF S!Reserve
<1>2. row' \in [S!Numbers -> BuildRow] /\ FlagsStay
  <2> DEFINE new == [S!NoRow EXCEPT !.there = TRUE, !.by = by]
  <2>1. new \in BuildRow /\ ~new.flag
    BY DEF BuildRow, S!NoRow
  <2>2. QED
    BY <1>1, <2>1 DEF StagingInv, StagedTypes, FlagsStay
<1>3. work' \in Worker /\ work'.at = (IF by = Allure THEN "list" ELSE "read") /\ work'.by = by
  BY <1>1 DEF Worker
<1>4. CopyUnderWay'
  BY <1>3 DEF CopyUnderWay
<1>5. QED
  BY <1>2, <1>3, <1>4, FilesStay

LEMMA GiveUpGives ==
  ASSUME StagingInv, work # S!NoWork, S!GiveUp
  PROVE  /\ row' \in [S!Numbers -> BuildRow] /\ FlagsStay
         /\ work' \in {S!NoWork} \cup Worker /\ CopyUnderWay'
<1>1. work \in Worker
  BY DEF StagingInv, StagedTypes
<1>2. row' \in [S!Numbers -> BuildRow] /\ FlagsStay
  <2>1. CASE row' = row
    BY <2>1 DEF StagingInv, StagedTypes, FlagsStay
  <2>2. CASE row' = [row EXCEPT ![work.number] = S!NoRow]
    <3>1. S!NoRow \in BuildRow /\ ~S!NoRow.flag
      BY DEF BuildRow, S!NoRow
    <3>2. QED
      BY <2>2, <3>1 DEF StagingInv, StagedTypes, FlagsStay
  <2>3. QED
    BY <2>1, <2>2 DEF S!GiveUp
<1>3. QED
  BY <1>2 DEF S!GiveUp, CopyUnderWay

LEMMA ReadIndexKeeps ==
  ASSUME StagingInv, S!ReadIndex
  PROVE  StagingInv'
<1>1. work # S!NoWork /\ work.at = "read" /\ UNCHANGED <<latest, report, upload>>
  BY DEF S!ReadIndex
<1>2. work \in Worker
  BY <1>1 DEF StagingInv, StagedTypes
<1>3. CASE /\ latest.index # Nobody
           /\ work' = [work EXCEPT !.at = "list", !.parsed = latest.index]
           /\ UNCHANGED row
  <2>1. work' \in Worker /\ work'.at = "list"
    BY <1>2, <1>3 DEF StagingInv, StagedTypes, ReportDir, Worker
  <2>2. CopyUnderWay'
    BY <1>1, <1>3, <2>1 DEF CopyUnderWay
  <2>3. row' \in [S!Numbers -> BuildRow] /\ FlagsStay
    BY <1>3 DEF StagingInv, StagedTypes, FlagsStay
  <2>4. QED
    BY <1>1, <2>1, <2>2, <2>3, FilesStay
<1>4. CASE S!GiveUp
  BY <1>1, <1>4, GiveUpGives, FilesStay
<1>5. QED
  BY <1>3, <1>4 DEF S!ReadIndex

LEMMA ListStagedKeeps ==
  ASSUME StagingInv, S!ListStaged
  PROVE  StagingInv'
<1>1. work # S!NoWork /\ work.at = "list" /\ UNCHANGED <<latest, report, row, upload>>
  BY DEF S!ListStaged
<1>2. work \in Worker /\ latest \in ReportDir
  BY <1>1 DEF StagingInv, StagedTypes
<1>3. PICK todo \in SUBSET S!Files :
        /\ todo = (IF latest.index = Nobody THEN {} ELSE {"index"})
                  \cup (IF latest.data = {} THEN {} ELSE {"data"})
        /\ work' = [work EXCEPT !.at = "copy", !.listed = latest.data, !.todo = todo]
  BY DEF S!ListStaged, S!Files
<1>4. /\ work' \in Worker /\ work'.at = "copy" /\ work'.todo = todo
      /\ work'.listed = latest.data /\ work'.by = work.by
  BY <1>2, <1>3 DEF Worker, ReportDir
<1>5. CopyUnderWay'
  <2>1. "index" \in todo <=> latest.index # Nobody
    BY <1>3
  <2>2. "data" \notin todo => latest.data = {}
    BY <1>3
  <2>3. work.by # Allure => latest.index # Nobody
    BY <1>1 DEF StagingInv, CopyUnderWay
  <2>4. QED
    BY <1>1, <1>4, <2>1, <2>2, <2>3 DEF CopyUnderWay
<1>6. row' \in [S!Numbers -> BuildRow] /\ FlagsStay
  BY <1>1 DEF StagingInv, StagedTypes, FlagsStay
<1>7. QED
  BY <1>1, <1>4, <1>5, <1>6, FilesStay

LEMMA CopyFileKeeps ==
  ASSUME StagingInv, NEW f \in S!Files, S!CopyFile(f)
  PROVE  StagingInv'
<1> DEFINE n == work.number
<1>1. /\ work # S!NoWork /\ work.at = "copy" /\ f \in work.todo
      /\ work' = [work EXCEPT !.todo = @ \ {f}] /\ UNCHANGED <<latest, row, upload>>
  BY DEF S!CopyFile
<1>2. PICK data \in IF f = "index" THEN {{}} ELSE {work.listed, latest.data} :
        report' = [report EXCEPT ![n].data = @ \cup data,
                                 ![n].index = IF f = "index" THEN latest.index ELSE @]
  BY DEF S!CopyFile
<1>3. work \in Worker /\ latest \in ReportDir /\ n \in S!Numbers /\ report[n] \in ReportDir
  BY <1>1 DEF StagingInv, StagedTypes, Worker
<1>4. /\ "index" \in work.todo => latest.index # Nobody
      /\ "index" \notin work.todo /\ work.by # Allure => report[n].index # Nobody
      /\ work.listed \subseteq latest.data
      /\ "data" \notin work.todo => work.listed \subseteq report[n].data
  BY <1>1 DEF StagingInv, CopyUnderWay
<1>5. /\ work' \in Worker /\ work'.at = "copy" /\ work'.todo = work.todo \ {f}
      /\ work'.listed = work.listed /\ work'.by = work.by /\ work'.number = n
  BY <1>1, <1>3 DEF Worker
<1>6. data \subseteq Uploads /\ (f # "index" => work.listed \subseteq data)
  BY <1>2, <1>3, <1>4 DEF Worker, ReportDir
<1>7. /\ report'[n] = [index |-> IF f = "index" THEN latest.index ELSE report[n].index,
                       data  |-> report[n].data \cup data]
      /\ \A m \in S!Numbers \ {n} : report'[m] = report[m]
      /\ DOMAIN report' = S!Numbers /\ report' = [m \in S!Numbers |-> report'[m]]
  BY <1>2, <1>3 DEF StagingInv, StagedTypes, ReportDir
<1>8. report'[n] \in ReportDir
  BY <1>3, <1>6, <1>7 DEF ReportDir
<1>9. report' \in [S!Numbers -> ReportDir]
  BY <1>7, <1>8 DEF StagingInv, StagedTypes
<1>10. ReportsGrow
  BY <1>1, <1>4, <1>7 DEF ReportsGrow, Grows
<1>11. CopyUnderWay'
  <2>1. "index" \notin work'.todo /\ work'.by # Allure => report'[n].index # Nobody
    BY <1>1, <1>4, <1>5, <1>7
  <2>2. "data" \notin work'.todo => work.listed \subseteq report'[n].data
    BY <1>3, <1>4, <1>5, <1>6, <1>7 DEF S!Files
  <2>3. QED
    BY <1>1, <1>4, <1>5, <2>1, <2>2 DEF CopyUnderWay
<1>12. IndexWritten' /\ S!FlagMeansReport'
  BY <1>1, <1>10, WrittenStays, FlagsMeanStill DEF FlagsStay
<1>13. QED
  BY <1>1, <1>5, <1>9, <1>11, <1>12 DEF StagingInv, StagedTypes

LEMMA CopyFailsKeeps ==
  ASSUME StagingInv, S!CopyFails
  PROVE  StagingInv'
<1>1. work # S!NoWork /\ S!GiveUp /\ UNCHANGED <<latest, report, upload>>
  BY DEF S!CopyFails
<1>2. QED
  BY <1>1, GiveUpGives, FilesStay

LEMMA CopyDoneKeeps ==
  ASSUME StagingInv, S!CopyDone
  PROVE  StagingInv'
<1>1. /\ work # S!NoWork /\ work.at = "copy" /\ work.todo = {}
      /\ UNCHANGED <<latest, report, row, upload>>
      /\ \/ work' = S!NoWork
         \/ /\ work' = [work EXCEPT !.at = "flag"]
            /\ ~(work.by = Allure /\ report[work.number].index = Nobody)
  BY DEF S!CopyDone
<1>2. work \in Worker
  BY <1>1 DEF StagingInv, StagedTypes
<1>3. row' \in [S!Numbers -> BuildRow] /\ FlagsStay
  BY <1>1 DEF StagingInv, StagedTypes, FlagsStay
<1>4. work' \in {S!NoWork} \cup Worker /\ CopyUnderWay'
  <2>1. CASE work' = S!NoWork
    BY <2>1 DEF CopyUnderWay
  <2>2. CASE /\ work' = [work EXCEPT !.at = "flag"]
             /\ ~(work.by = Allure /\ report[work.number].index = Nobody)
    <3>1. /\ work' \in Worker /\ work'.at = "flag" /\ work'.number = work.number
          /\ work'.listed = work.listed
      BY <1>2, <2>2 DEF Worker
    <3>2. report[work.number].index # Nobody /\ work.listed \subseteq report[work.number].data
      BY <1>1, <2>2 DEF StagingInv, CopyUnderWay
    <3>3. QED
      BY <1>1, <3>1, <3>2 DEF CopyUnderWay
  <2>3. QED
    BY <1>1, <2>1, <2>2
<1>5. QED
  BY <1>1, <1>3, <1>4, FilesStay

LEMMA SetFlagKeeps ==
  ASSUME StagingInv, S!SetFlag
  PROVE  StagingInv'
<1> DEFINE n == work.number
<1>1. /\ work # S!NoWork /\ work.at = "flag" /\ work' = [work EXCEPT !.at = "clean"]
      /\ UNCHANGED <<latest, report, upload>>
  BY DEF S!SetFlag
<1>2. work \in Worker /\ n \in S!Numbers /\ row[n] \in BuildRow
  BY <1>1 DEF StagingInv, StagedTypes, Worker
<1>3. report[n].index # Nobody /\ work.listed \subseteq report[n].data
  BY <1>1 DEF StagingInv, CopyUnderWay
<1>4. /\ work' \in Worker /\ work'.at = "clean" /\ work'.number = n
      /\ work'.listed = work.listed
  BY <1>1, <1>2 DEF Worker
<1>5. CopyUnderWay'
  BY <1>1, <1>3, <1>4 DEF CopyUnderWay
<1>6. row' \in [S!Numbers -> BuildRow] /\ \A m \in S!Numbers \ {n} : row'[m] = row[m]
  <2>1. CASE row' = row
    BY <2>1 DEF StagingInv, StagedTypes
  <2>2. CASE row' = [row EXCEPT ![n] = IF row[n].there
                                       THEN [row[n] EXCEPT !.flag = TRUE, !.parsed = work.parsed]
                                       ELSE row[n]]
    <3>1. [row[n] EXCEPT !.flag = TRUE, !.parsed = work.parsed] \in BuildRow
      BY <1>2 DEF BuildRow, Worker
    <3>2. QED
      BY <1>2, <2>2, <3>1 DEF StagingInv, StagedTypes
  <2>3. QED
    BY <2>1, <2>2 DEF S!SetFlag
<1>7. S!FlagMeansReport'
  BY <1>1, <1>2, <1>3, <1>6 DEF StagingInv, S!FlagMeansReport
<1>8. IndexWritten'
  BY <1>1 DEF StagingInv, IndexWritten
<1>9. QED
  BY <1>1, <1>4, <1>5, <1>6, <1>7, <1>8 DEF StagingInv, StagedTypes

LEMMA CleanKeeps ==
  ASSUME StagingInv, S!Clean
  PROVE  /\ StagingInv'
         /\ work.listed \subseteq report[work.number].data
         /\ report[work.number].index # Nobody
<1>1. /\ work # S!NoWork /\ work.at = "clean" /\ work' = S!NoWork
      /\ UNCHANGED <<report, row, upload>>
      /\ latest' = S!Empty \/ latest' = latest
  BY DEF S!Clean, S!CleanPlaywrightLatest
<1>2. latest' \in ReportDir
  BY <1>1 DEF StagingInv, StagedTypes, ReportDir, S!Empty
<1>3. IndexWritten' /\ S!FlagMeansReport'
  BY <1>1 DEF StagingInv, IndexWritten, S!FlagMeansReport
<1>4. CopyUnderWay'
  BY <1>1 DEF CopyUnderWay
<1>5. QED
  BY <1>1, <1>2, <1>3, <1>4 DEF StagingInv, StagedTypes, CopyUnderWay

LEMMA CrashKeeps ==
  ASSUME StagingInv, S!Crash
  PROVE  StagingInv'
<1>1. work' = S!NoWork /\ UNCHANGED <<latest, report, row, upload>>
  BY DEF S!Crash
<1>2. row' \in [S!Numbers -> BuildRow] /\ FlagsStay /\ CopyUnderWay'
  BY <1>1 DEF StagingInv, StagedTypes, FlagsStay, CopyUnderWay
<1>3. QED
  BY <1>1, <1>2, FilesStay

LEMMA DeleteBuildsKeeps ==
  ASSUME StagingInv, S!DeleteBuilds
  PROVE  StagingInv'
<1>1. UNCHANGED <<latest, report, upload, work>>
  BY DEF S!DeleteBuilds
<1>2. PICK gone : row' = [n \in S!Numbers |-> IF n \in gone THEN S!NoRow ELSE row[n]]
  BY DEF S!DeleteBuilds
<1>3. row' \in [S!Numbers -> BuildRow] /\ FlagsStay
  BY <1>2 DEF StagingInv, StagedTypes, BuildRow, FlagsStay, S!NoRow
<1>4. CopyUnderWay' /\ work' \in {S!NoWork} \cup Worker
  BY <1>1 DEF StagingInv, StagedTypes, CopyUnderWay
<1>5. QED
  BY <1>1, <1>3, <1>4, FilesStay

-----------------------------------------------------------------------------
LEMMA StagingStarts ==
  ASSUME S!Init
  PROVE  StagingInv
<1>1. S!Empty \in ReportDir /\ S!NoRow \in BuildRow /\ S!Idle \in Waiting
  BY DEF ReportDir, BuildRow, Waiting, S!Empty, S!NoRow, S!Idle
<1>2. StagedTypes
  BY <1>1 DEF S!Init, StagedTypes
<1>3. IndexWritten /\ CopyUnderWay /\ S!FlagMeansReport
  BY DEF S!Init, S!Idle, S!NoRow, IndexWritten, CopyUnderWay, S!FlagMeansReport
<1>4. QED
  BY <1>2, <1>3 DEF StagingInv

LEMMA StagingStep ==
  ASSUME StagingInv, S!Next
  PROVE  StagingInv'
<1>1. ASSUME NEW u \in Uploads, S!Begin(u) \/ S!WriteFails(u) \/ S!Finish(u)
      PROVE  StagingInv'
  BY <1>1, BeginKeeps, WriteFailsKeeps, FinishKeeps
<1>2. ASSUME NEW u \in Uploads, NEW f \in S!Files, S!WriteFile(u, f)
      PROVE  StagingInv'
  BY <1>2, WriteFileKeeps
<1>3. ASSUME NEW u \in Uploads, S!StartIngest(u)
      PROVE  StagingInv'
  BY <1>3, ReserveKeeps DEF S!StartIngest
<1>4. CASE S!StartGeneration
  BY <1>4, ReserveKeeps DEF S!StartGeneration
<1>5. CASE S!ReadIndex \/ S!ListStaged \/ S!CopyFails \/ S!CopyDone
  BY <1>5, ReadIndexKeeps, ListStagedKeeps, CopyFailsKeeps, CopyDoneKeeps
<1>6. CASE S!SetFlag \/ S!Clean \/ S!Crash \/ S!DeleteBuilds
  BY <1>6, SetFlagKeeps, CleanKeeps, CrashKeeps, DeleteBuildsKeeps
<1>7. ASSUME NEW f \in S!Files, S!CopyFile(f)
      PROVE  StagingInv'
  BY <1>7, CopyFileKeeps
<1>8. QED
  BY <1>1, <1>2, <1>3, <1>4, <1>5, <1>6, <1>7 DEF S!Next, S!Upload, S!Work

LEMMA StagingSteps ==
  ASSUME StagingInv, [AllNext]_allVars
  PROVE  StagingInv'
<1>1. CASE S!Next
  BY <1>1, StagingStep
<1>2. CASE UNCHANGED stagingVars
  BY <1>2 DEF stagingVars, StagingInv, StagedTypes, IndexWritten, CopyUnderWay, S!FlagMeansReport
<1>3. QED
  BY <1>1, <1>2 DEF AllNext, allVars

LEMMA StagingAlways == AllSpec => []StagingInv
<1>1. AllInit => StagingInv
  BY StagingStarts DEF AllInit
<1>2. StagingInv /\ [AllNext]_allVars => StagingInv'
  BY StagingSteps
<1>3. QED
  BY <1>1, <1>2, PTL DEF AllSpec

\* A build that is shown with a Playwright report has one, for any number of
\* uploads, generations, deletions and workers that die
\* (SetHasPlaywrightReport after CopyPlaywrightLatestToBuild).
THEOREM FlagsHaveReports == AllSpec => []FlagMeansReport
<1>1. StagingInv => FlagMeansReport
  BY DEF StagingInv, FlagMeansReport
<1>2. QED
  BY <1>1, StagingAlways, PTL

\* Only the removal after a copy empties the staging directory.
LEMMA EmptiedAfterCopy ==
  ASSUME StagingInv, S!Next, latest' = S!Empty, latest # S!Empty
  PROVE  /\ work.listed \subseteq report[work.number].data
         /\ report[work.number].index # Nobody
<1>1. ASSUME NEW u \in Uploads, NEW f \in S!Files, S!WriteFile(u, f)
      PROVE  FALSE
  BY <1>1, WithGrows DEF S!WriteFile, StagingInv, StagedTypes
<1>2. CASE S!Clean
  BY <1>2, CleanKeeps
<1>3. ASSUME latest' # latest
      PROVE  S!Clean \/ \E u \in Uploads, f \in S!Files : S!WriteFile(u, f)
  BY <1>3 DEF S!Next, S!Upload, S!Work, S!DeleteBuilds, S!Begin, S!WriteFails, S!Finish,
       S!StartIngest, S!StartGeneration, S!ReadIndex, S!ListStaged, S!CopyFails, S!CopyDone,
       S!SetFlag, S!Crash, S!CopyFile
<1>4. QED
  BY <1>1, <1>2, <1>3

\* Staging is emptied only of what has been copied to a build with an index,
\* whatever uploads write meanwhile (CleanPlaywrightLatest).
THEOREM NothingUncopiedIsCleaned == AllSpec => CleanedIsCopied
<1>1. StagingInv /\ [AllNext]_allVars
        => [latest' = S!Empty /\ latest # S!Empty
             => /\ work.listed \subseteq report[work.number].data
                /\ report[work.number].index # Nobody]_(S!vars)
  <2>1. ASSUME StagingInv, [AllNext]_allVars
        PROVE  S!Next \/ UNCHANGED S!vars
    BY <2>1 DEF AllNext, allVars, stagingVars, S!vars
  <2>2. QED
    BY <2>1, EmptiedAfterCopy
<1>2. QED
  BY <1>1, StagingAlways, PTL DEF AllSpec, CleanedIsCopied, S!CleanedIsCopied

-----------------------------------------------------------------------------
(* Batches: the inductive invariant. The watcher is off.                   *)

ResultDir  == [files : SUBSET ResultFiles, own : SUBSET {"executor", "history"}]
Request    == [at : {"idle", "writing", "sent", "refused"}, files : SUBSET ResultFiles]
JobRow     == [state : {"none", "available", "running", "completed", "discarded"}, attempt : Nat]
Generation == [at : {"wait", "prepare", "history", "allure", "publish", "prune", "done"},
               batch : B!JobIds, read : SUBSET ResultFiles]

DirTypes == B!Present \subseteq B!Folders /\ \A b \in B!Present : dir[b] \in ResultDir

BatchTypes ==
  /\ storage \in Storages /\ DirTypes
  /\ sent \in [UploadIds -> Request]
  /\ queued \in [B!JobIds -> JobRow]
  /\ run \in [B!Generators -> {B!None} \cup Generation]
  /\ \A x \in reports : x.files \subseteq ResultFiles
  /\ memory.at = "idle" /\ run[Watcher] = B!None

\* A batch is generated for the job that names it, which is queued when all of
\* it has been uploaded.
OwnBatch ==
  /\ \A j \in B!JobIds : run[j] # B!None => run[j].batch = j /\ queued[j].state = "running"
  /\ \A u \in UploadIds : queued[u].state # "none" => sent[u].at = "sent"

\* What an upload has written is there until it has ended.
WrittenThere ==
  \A u \in UploadIds \ wiped :
    sent[u].at \in {"idle", "writing"} => sent[u].files \subseteq B!Found(u)

\* What was uploaded and is in no report yet has been read once it may have
\* to be, and is in a report before the batch is removed.
ReadWhole(u) ==
  /\ run[u].at = "publish" \/ (run[u].at \in {"history", "allure"} /\ storage = "s3")
       => ResultFiles \subseteq run[u].read \cup B!Reported(u)
  /\ run[u].at = "prune" => ResultFiles \subseteq B!Reported(u)

NothingSkipped == \A u \in UploadIds \ wiped : ReadWhole(u)

BatchesInv == BatchTypes /\ OwnBatch /\ WrittenThere /\ NothingSkipped /\ ResultsKept

LEMMA BatchConstants ==
  /\ Manual \notin B!Folders /\ Watcher \notin B!JobIds
  /\ UploadIds \subseteq B!Folders /\ History \in B!Folders
  /\ Storages \subseteq {"local", "s3"}
  BY SafetyAssumption DEF SafetyAssumption, B!Assumption, B!JobIds, B!Folders

LEMMA HistoryApart == History \notin UploadIds
  BY SafetyAssumption DEF SafetyAssumption, B!Assumption

LEMMA FilesKnown ==
  ASSUME BatchTypes, NEW b
  PROVE  B!Found(b) \subseteq ResultFiles /\ B!Reported(b) \subseteq ResultFiles
  BY DEF BatchTypes, DirTypes, ResultDir, B!Found, B!Reported

\* A directory with one more entry has what it had, and so have the others.
LEMMA EntryGrows ==
  ASSUME DirTypes, NEW b \in B!Folders, NEW files \in SUBSET ResultFiles,
         NEW own \in SUBSET {"executor", "history"}, B!Entry(b, files, own)
  PROVE  /\ DirTypes' /\ files \subseteq B!Found(b)'
         /\ \A c \in B!Folders : B!Found(c) \subseteq B!Found(c)'
<1> DEFINE old == IF b \in B!Present THEN dir[b] ELSE [files |-> {}, own |-> {}]
           new == [files |-> old.files \cup files, own |-> old.own \cup own]
<1>1. old \in ResultDir
  BY DEF DirTypes, ResultDir
<1>2. new \in ResultDir /\ old.files \subseteq new.files /\ files \subseteq new.files
  BY <1>1 DEF ResultDir
<1>3. dir' = [c \in B!Present \cup {b} |-> IF c = b THEN new ELSE dir[c]]
  BY DEF B!Entry
<1>4. /\ B!Present' = B!Present \cup {b} /\ dir'[b] = new
      /\ \A c \in B!Present \ {b} : dir'[c] = dir[c]
  BY <1>3 DEF B!Present
<1>5. DirTypes'
  BY <1>2, <1>4 DEF DirTypes
<1>6. files \subseteq B!Found(b)'
  BY <1>2, <1>4 DEF B!Found
<1>7. ASSUME NEW c \in B!Folders
      PROVE  B!Found(c) \subseteq B!Found(c)'
  BY <1>2, <1>4 DEF B!Found
<1>8. QED
  BY <1>5, <1>6, <1>7

\* Where no history is kept, what goes is no file of an upload.
LEMMA HistoryGone ==
  ASSUME DirTypes, NEW b, B!HistoryRemoved(b)
  PROVE  DirTypes' /\ \A u \in UploadIds : B!Found(u) \subseteq B!Found(u)'
<1> DEFINE gone == IF b = Manual THEN {History} ELSE {}
           left(c) == IF c = b THEN [dir[c] EXCEPT !.own = @ \ {"history"}] ELSE dir[c]
<1>1. dir' = [c \in B!Present \ gone |-> left(c)]
  BY DEF B!HistoryRemoved
<1>2. \A c \in B!Present : left(c) \in ResultDir /\ left(c).files = dir[c].files
  BY DEF DirTypes, ResultDir
<1>3. /\ B!Present' = B!Present \ gone
      /\ \A c \in B!Present \ gone : dir'[c] = left(c)
  BY <1>1 DEF B!Present
<1>4. DirTypes'
  BY <1>2, <1>3 DEF DirTypes
<1>5. \A u \in UploadIds : u \notin gone
  BY HistoryApart
<1>6. QED
  BY <1>2, <1>3, <1>4, <1>5 DEF B!Found

-----------------------------------------------------------------------------
(* What a step does not disturb.                                           *)

BatchesGrow == \A u \in UploadIds \ wiped' :
                  B!Found(u) \subseteq B!Found(u)' /\ B!Reported(u) \subseteq B!Reported(u)'

LEMMA UploadsStay ==
  ASSUME BatchesInv, BatchTypes', sent' = sent, wiped \subseteq wiped', BatchesGrow
  PROVE  WrittenThere' /\ ResultsKept'
<1>1. WrittenThere'
  BY DEF BatchesInv, WrittenThere, BatchesGrow
<1>2. ASSUME NEW u \in UploadIds \ wiped', sent[u].at = "sent"
      PROVE  B!Found(u)' \cup B!Reported(u)' = ResultFiles
  <2>1. B!Found(u) \cup B!Reported(u) = ResultFiles
    BY <1>2 DEF BatchesInv, ResultsKept, B!ResultsKept
  <2>2. B!Found(u)' \subseteq ResultFiles /\ B!Reported(u)' \subseteq ResultFiles
    BY FilesKnown DEF BatchTypes, DirTypes, ResultDir, B!Found, B!Reported
  <2>3. QED
    BY <1>2, <2>1, <2>2 DEF BatchesGrow
<1>3. QED
  BY <1>1, <1>2 DEF ResultsKept, B!ResultsKept

LEMMA GenerationsStay ==
  ASSUME BatchesInv, run' = run, storage' = storage, wiped \subseteq wiped', reports' = reports
  PROVE  NothingSkipped'
  BY DEF BatchesInv, NothingSkipped, ReadWhole, B!Reported

-----------------------------------------------------------------------------
(* Uploads.                                                                *)

LEMMA BatchBeginKeeps ==
  ASSUME BatchesInv, NEW u \in UploadIds, B!Begin(u) \/ B!Refuse(u)
  PROVE  BatchesInv'
<1>1. PICK at \in {"writing", "refused"} : sent' = [sent EXCEPT ![u].at = at]
  BY DEF B!Begin, B!Refuse
<1>2. /\ UNCHANGED <<storage, dir, queued, run, memory, reports, wiped>>
      /\ sent[u].at \in {"idle", "writing"}
  BY DEF B!Begin, B!Refuse, B!history
<1>3. /\ sent' \in [UploadIds -> Request] /\ \A v \in UploadIds \ {u} : sent'[v] = sent[v]
      /\ sent'[u].at = at /\ sent'[u].files = sent[u].files
  BY <1>1 DEF BatchesInv, BatchTypes, Request
<1>4. BatchTypes'
  BY <1>2, <1>3 DEF BatchesInv, BatchTypes, DirTypes, B!Present
<1>5. OwnBatch'
  BY <1>2, <1>3 DEF BatchesInv, OwnBatch
<1>6. WrittenThere' /\ ResultsKept'
  BY <1>2, <1>3 DEF BatchesInv, WrittenThere, ResultsKept, B!ResultsKept, B!Found, B!Present,
       B!Reported
<1>7. NothingSkipped'
  BY <1>2, GenerationsStay
<1>8. QED
  BY <1>4, <1>5, <1>6, <1>7 DEF BatchesInv

LEMMA WriteResultFileKeeps ==
  ASSUME BatchesInv, NEW u \in UploadIds, NEW f \in ResultFiles, B!WriteResultFile(u, f)
  PROVE  BatchesInv'
<1>1. /\ sent[u].at = "writing" /\ B!Entry(u, {f}, {})
      /\ sent' = [sent EXCEPT ![u].files = @ \cup {f}]
      /\ UNCHANGED <<storage, queued, run, memory, reports, wiped>>
  BY DEF B!WriteResultFile, B!history
<1>2. /\ DirTypes' /\ f \in B!Found(u)' /\ \A c \in B!Folders : B!Found(c) \subseteq B!Found(c)'
  <2>1. /\ DirTypes' /\ {f} \subseteq B!Found(u)'
        /\ \A c \in B!Folders : B!Found(c) \subseteq B!Found(c)'
    BY <1>1, EntryGrows, BatchConstants DEF BatchesInv, BatchTypes
  <2>2. QED
    BY <2>1
<1>3. /\ sent' \in [UploadIds -> Request] /\ \A v \in UploadIds \ {u} : sent'[v] = sent[v]
      /\ sent'[u].at = "writing" /\ sent'[u].files = sent[u].files \cup {f}
  BY <1>1 DEF BatchesInv, BatchTypes, Request
<1>4. BatchTypes'
  BY <1>1, <1>2, <1>3 DEF BatchesInv, BatchTypes
<1>5. OwnBatch'
  BY <1>1, <1>3 DEF BatchesInv, OwnBatch
<1>6. WrittenThere'
  BY <1>1, <1>2, <1>3, BatchConstants DEF BatchesInv, WrittenThere
<1>7. ASSUME NEW v \in UploadIds \ wiped', sent'[v].at = "sent"
      PROVE  B!Found(v)' \cup B!Reported(v)' = ResultFiles
  <2>1. B!Found(v) \cup B!Reported(v) = ResultFiles
    BY <1>1, <1>3, <1>7 DEF BatchesInv, ResultsKept, B!ResultsKept
  <2>2. B!Found(v)' \subseteq ResultFiles /\ B!Reported(v)' = B!Reported(v)
    BY <1>1, <1>2 DEF DirTypes, ResultDir, B!Found, B!Reported
  <2>3. QED
    BY <1>2, <2>1, <2>2, FilesKnown, BatchConstants DEF BatchesInv
<1>8. NothingSkipped'
  BY <1>1, GenerationsStay
<1>9. QED
  BY <1>4, <1>5, <1>6, <1>7, <1>8 DEF BatchesInv, ResultsKept, B!ResultsKept

LEMMA AcceptKeeps ==
  ASSUME BatchesInv, NEW u \in UploadIds, B!Accept(u)
  PROVE  BatchesInv'
<1>1. /\ sent[u].at = "writing" /\ sent[u].files = ResultFiles
      /\ sent' = [sent EXCEPT ![u].at = "sent"]
      /\ queued' = [queued EXCEPT ![u].state = "available"] \/ queued' = queued
      /\ UNCHANGED <<storage, dir, run, memory, reports, wiped>>
  BY DEF B!Accept, B!Submit, B!history
<1>2. /\ sent' \in [UploadIds -> Request] /\ \A v \in UploadIds \ {u} : sent'[v] = sent[v]
      /\ sent'[u].at = "sent"
  BY <1>1 DEF BatchesInv, BatchTypes, Request
<1>3. /\ queued' \in [B!JobIds -> JobRow] /\ \A j \in B!JobIds \ {u} : queued'[j] = queued[j]
  BY <1>1 DEF BatchesInv, BatchTypes, JobRow, B!JobIds
<1>4. BatchTypes'
  BY <1>1, <1>2, <1>3 DEF BatchesInv, BatchTypes, DirTypes, B!Present
<1>5. OwnBatch'
  <2>1. u \in B!JobIds /\ UploadIds \subseteq B!JobIds
    BY DEF B!JobIds
  <2>2. run[u] = B!None
    BY <1>1, <2>1 DEF BatchesInv, OwnBatch
  <2>3. QED
    BY <1>1, <1>2, <1>3, <2>1, <2>2 DEF BatchesInv, OwnBatch
<1>6. WrittenThere'
  BY <1>1, <1>2 DEF BatchesInv, WrittenThere, B!Found, B!Present
<1>7. ASSUME NEW v \in UploadIds \ wiped', sent'[v].at = "sent"
      PROVE  B!Found(v)' \cup B!Reported(v)' = ResultFiles
  <2>1. B!Found(v)' = B!Found(v) /\ B!Reported(v)' = B!Reported(v)
    BY <1>1 DEF B!Found, B!Present, B!Reported
  <2>2. CASE v = u
    BY <1>1, <1>7, <2>1, <2>2, FilesKnown DEF BatchesInv, WrittenThere
  <2>3. CASE v # u
    BY <1>1, <1>2, <1>7, <2>1, <2>3 DEF BatchesInv, ResultsKept, B!ResultsKept
  <2>4. QED
    BY <2>2, <2>3
<1>8. NothingSkipped'
  BY <1>1, GenerationsStay
<1>9. QED
  BY <1>4, <1>5, <1>6, <1>7, <1>8 DEF BatchesInv, ResultsKept, B!ResultsKept

\* A step that only moves jobs which run no generation.
LEMMA JobsMove ==
  ASSUME BatchesInv, UNCHANGED <<storage, dir, run, memory, reports, wiped, sent>>,
         NEW j \in B!JobIds, run[j] = B!None, queued' \in [B!JobIds -> JobRow],
         \A i \in B!JobIds \ {j} : queued'[i] = queued[i],
         j \in UploadIds => queued[j].state # "none"
  PROVE  BatchesInv'
<1>1. BatchTypes'
  BY DEF BatchesInv, BatchTypes, DirTypes, B!Present
<1>2. OwnBatch'
  BY DEF BatchesInv, OwnBatch, B!JobIds
<1>3. BatchesGrow
  BY DEF BatchesGrow, B!Found, B!Present, B!Reported
<1>4. QED
  BY <1>1, <1>2, <1>3, UploadsStay, GenerationsStay DEF BatchesInv

LEMMA GenerateAllKeeps ==
  ASSUME BatchesInv, B!GenerateAll
  PROVE  BatchesInv'
<1>1. /\ queued[Manual].state = "none"
      /\ queued' = [queued EXCEPT ![Manual].state = "available"] \/ queued' = queued
      /\ UNCHANGED <<storage, dir, run, memory, reports, wiped, sent>>
  BY DEF B!GenerateAll, B!Submit, B!history
<1>2. Manual \in B!JobIds /\ Manual \notin UploadIds
  BY BatchConstants DEF B!JobIds
<1>3. run[Manual] = B!None
  BY <1>1, <1>2 DEF BatchesInv, OwnBatch
<1>4. queued' \in [B!JobIds -> JobRow] /\ \A i \in B!JobIds \ {Manual} : queued'[i] = queued[i]
  BY <1>1 DEF BatchesInv, BatchTypes, JobRow
<1>5. QED
  BY <1>1, <1>2, <1>3, <1>4, JobsMove

LEMMA RescueKeeps ==
  ASSUME BatchesInv, NEW j \in B!JobIds, B!Rescue(j)
  PROVE  BatchesInv'
<1>1. /\ queued[j].state = "running" /\ run[j] = B!None
      /\ queued' = [queued EXCEPT ![j].state = B!Retried(j)]
      /\ UNCHANGED <<storage, dir, run, memory, reports, wiped, sent>>
  BY DEF B!Rescue, B!history
<1>2. queued' \in [B!JobIds -> JobRow] /\ \A i \in B!JobIds \ {j} : queued'[i] = queued[i]
  BY <1>1 DEF BatchesInv, BatchTypes, JobRow, B!Retried
<1>3. QED
  BY <1>1, <1>2, JobsMove

-----------------------------------------------------------------------------
(* Generations.                                                            *)

\* What is known of a generation that is under way.
LEMMA UnderWay ==
  ASSUME BatchesInv, NEW g \in B!Generators, run[g].at # "none"
  PROVE  /\ g \in B!JobIds /\ run[g] \in Generation /\ B!Reads(g) = g
         /\ queued[g].state = "running"
         /\ g \in UploadIds => sent[g].at = "sent"
         /\ g \in UploadIds \ wiped => B!Found(g) \cup B!Reported(g) = ResultFiles
<1>1. run[g] # B!None
  BY DEF B!None
<1>2. g \in B!JobIds /\ run[g] \in Generation
  BY <1>1 DEF BatchesInv, BatchTypes, B!Generators
<1>3. run[g].batch = g /\ queued[g].state = "running"
  BY <1>1, <1>2 DEF BatchesInv, OwnBatch
<1>4. g \in UploadIds => sent[g].at = "sent"
  BY <1>3 DEF BatchesInv, OwnBatch
<1>5. QED
  BY <1>2, <1>3, <1>4 DEF BatchesInv, ResultsKept, B!ResultsKept, B!Reads

LEMMA OneMoves ==
  ASSUME BatchesInv, NEW g \in B!JobIds, NEW new \in {B!None} \cup Generation,
         run' = [run EXCEPT ![g] = new],
         UNCHANGED <<storage, sent, memory, wiped>>,
         DirTypes', \A x \in reports' : x.files \subseteq ResultFiles, reports \subseteq reports',
         queued' \in [B!JobIds -> JobRow], \A j \in B!JobIds \ {g} : queued'[j] = queued[j],
         queued[g].state # "none",
         new # B!None => new.batch = g /\ queued'[g].state = "running",
         g \in UploadIds \ wiped => ReadWhole(g)',
         BatchesGrow \/ (WrittenThere' /\ ResultsKept')
  PROVE  BatchesInv'
<1>1. /\ run' \in [B!Generators -> {B!None} \cup Generation] /\ run'[g] = new
      /\ \A h \in B!Generators \ {g} : run'[h] = run[h]
  BY DEF BatchesInv, BatchTypes, B!Generators
<1>2. BatchTypes'
  BY <1>1, BatchConstants DEF BatchesInv, BatchTypes, B!Generators
<1>3. OwnBatch'
  BY <1>1 DEF BatchesInv, OwnBatch, B!JobIds, B!Generators
<1>4. WrittenThere' /\ ResultsKept'
  BY <1>2, UploadsStay
<1>5. ASSUME NEW u \in UploadIds \ wiped', u # g
      PROVE  ReadWhole(u)'
  <2>1. run'[u] = run[u] /\ ReadWhole(u)
    BY <1>1, <1>5 DEF BatchesInv, NothingSkipped, B!Generators, B!JobIds
  <2>2. B!Reported(u) \subseteq B!Reported(u)'
    BY DEF B!Reported
  <2>3. QED
    BY <2>1, <2>2 DEF ReadWhole
<1>6. NothingSkipped'
  BY <1>5 DEF NothingSkipped
<1>7. QED
  BY <1>2, <1>3, <1>4, <1>6 DEF BatchesInv

\* A generation that goes on, and leaves jobs and results alone.
LEMMA OneGoesOn ==
  ASSUME BatchesInv, NEW g \in B!Generators, run[g].at # "none", NEW new \in Generation,
         run' = [run EXCEPT ![g] = new], new.batch = g,
         UNCHANGED <<storage, sent, queued, memory, reports, wiped>>,
         DirTypes', \A u \in UploadIds : B!Found(u) \subseteq B!Found(u)',
         g \in UploadIds \ wiped => ReadWhole(g)'
  PROVE  BatchesInv'
<1>1. g \in B!JobIds /\ queued[g].state = "running"
  BY UnderWay
<1>2. BatchesGrow
  BY BatchConstants DEF BatchesGrow, B!Reported
<1>3. queued' \in [B!JobIds -> JobRow] /\ \A x \in reports' : x.files \subseteq ResultFiles
  BY DEF BatchesInv, BatchTypes
<1>4. QED
  BY <1>1, <1>2, <1>3, OneMoves

LEMMA TakeKeeps ==
  ASSUME BatchesInv, NEW j \in B!JobIds, B!Take(j)
  PROVE  BatchesInv'
<1> DEFINE new == [at |-> "wait", batch |-> j, read |-> {}]
<1>1. /\ queued[j].state = "available" /\ run' = [run EXCEPT ![j] = new]
      /\ queued' = [queued EXCEPT ![j] = [state |-> "running", attempt |-> queued[j].attempt + 1]]
      /\ UNCHANGED <<storage, dir, memory, reports, wiped, sent>>
  BY DEF B!Take, B!history
<1>2. new \in Generation
  BY DEF Generation
<1>3. /\ queued' \in [B!JobIds -> JobRow] /\ queued'[j].state = "running"
      /\ \A i \in B!JobIds \ {j} : queued'[i] = queued[i]
  BY <1>1 DEF BatchesInv, BatchTypes, JobRow
<1>4. run'[j] = new
  BY <1>1 DEF BatchesInv, BatchTypes, B!Generators
<1>5. ReadWhole(j)'
  BY <1>4 DEF ReadWhole
<1>6. BatchesGrow /\ DirTypes' /\ \A x \in reports' : x.files \subseteq ResultFiles
  BY <1>1 DEF BatchesInv, BatchTypes, DirTypes, BatchesGrow, B!Found, B!Present, B!Reported
<1>7. QED
  BY <1>1, <1>2, <1>3, <1>5, <1>6, OneMoves

LEMMA LockKeeps ==
  ASSUME BatchesInv, NEW g \in B!Generators, B!Lock(g)
  PROVE  BatchesInv'
<1> DEFINE new == [run[g] EXCEPT !.at = "prepare"]
<1>1. /\ run[g].at = "wait" /\ run' = [run EXCEPT ![g] = new]
      /\ UNCHANGED <<storage, dir, queued, memory, reports, wiped, sent>>
  BY DEF B!Lock, B!history
<1>2. run[g] \in Generation /\ run[g].batch = g
  BY <1>1, UnderWay DEF B!Reads
<1>3. new \in Generation /\ new.batch = g /\ run'[g] = new /\ new.at = "prepare"
  BY <1>1, <1>2 DEF BatchesInv, BatchTypes, Generation
<1>4. ReadWhole(g)'
  BY <1>3 DEF ReadWhole
<1>5. DirTypes' /\ \A b \in B!Folders : B!Found(b) \subseteq B!Found(b)'
  BY <1>1 DEF BatchesInv, BatchTypes, DirTypes, B!Found, B!Present
<1>6. QED
  BY <1>1, <1>3, <1>4, <1>5, OneGoesOn, BatchConstants

LEMMA DownloadKeeps ==
  ASSUME BatchesInv, NEW g \in B!Generators, B!Download(g)
  PROVE  BatchesInv'
<1> DEFINE new == [run[g] EXCEPT !.at = "history", !.read = B!Found(g)]
<1>1. /\ run[g].at = "prepare" /\ storage = "s3"
      /\ run' = [run EXCEPT ![g].at = "history", ![g].read = B!Found(B!Reads(g))]
      /\ UNCHANGED <<storage, dir, queued, memory, reports, wiped, sent>>
  BY DEF B!Download, B!history
<1>2. /\ run[g] \in Generation /\ run[g].batch = g /\ B!Reads(g) = g
      /\ g \in UploadIds \ wiped => B!Found(g) \cup B!Reported(g) = ResultFiles
  BY <1>1, UnderWay DEF B!Reads
<1>3. run' = [run EXCEPT ![g] = new]
  BY <1>1, <1>2 DEF BatchesInv, BatchTypes
<1>4. /\ new \in Generation /\ new.batch = g /\ run'[g] = new
      /\ new.at = "history" /\ new.read = B!Found(g)
  BY <1>2, <1>3, FilesKnown DEF BatchesInv, BatchTypes, Generation
<1>5. B!Reported(g)' = B!Reported(g)
  BY <1>1 DEF B!Reported
<1>6. g \in UploadIds \ wiped => ReadWhole(g)'
  BY <1>2, <1>4, <1>5 DEF ReadWhole
<1>7. DirTypes' /\ \A b \in B!Folders : B!Found(b) \subseteq B!Found(b)'
  BY <1>1 DEF BatchesInv, BatchTypes, DirTypes, B!Found, B!Present
<1>8. QED
  BY <1>1, <1>3, <1>4, <1>6, <1>7, OneGoesOn, BatchConstants

\* The directory that a generation reads, which may be none.
LEMMA EntryOrNone ==
  ASSUME BatchesInv, dir' = dir \/ \E b \in B!Folders, own \in SUBSET {"executor", "history"} :
                                      B!Entry(b, {}, own)
  PROVE  DirTypes' /\ \A b \in B!Folders : B!Found(b) \subseteq B!Found(b)'
<1>1. CASE dir' = dir
  BY <1>1 DEF BatchesInv, BatchTypes, DirTypes, B!Found, B!Present
<1>2. ASSUME NEW b \in B!Folders, NEW own \in SUBSET {"executor", "history"}, B!Entry(b, {}, own)
      PROVE  DirTypes' /\ \A c \in B!Folders : B!Found(c) \subseteq B!Found(c)'
  BY <1>2, EntryGrows DEF BatchesInv, BatchTypes
<1>3. QED
  BY <1>1, <1>2

LEMMA PrepareKeeps ==
  ASSUME BatchesInv, NEW g \in B!Generators, B!Prepare(g)
  PROVE  BatchesInv'
<1> DEFINE new == [run[g] EXCEPT !.at = "history"]
<1>1. /\ run[g].at = "prepare" /\ storage = "local" /\ run' = [run EXCEPT ![g] = new]
      /\ UNCHANGED <<storage, queued, memory, reports, wiped, sent>>
  BY DEF B!Prepare, B!history
<1>2. /\ run[g] \in Generation /\ run[g].batch = g /\ B!Reads(g) = g /\ g \in B!JobIds
  BY <1>1, UnderWay DEF B!Reads
<1>3. new \in Generation /\ new.batch = g /\ run'[g] = new /\ new.at = "history"
  BY <1>1, <1>2 DEF BatchesInv, BatchTypes, Generation
<1>4. ReadWhole(g)'
  BY <1>1, <1>3 DEF ReadWhole
<1>5. \/ dir' = dir
      \/ B!Entry(g, {}, {"executor"}) /\ g \in B!Folders
  BY <1>2, BatchConstants DEF B!Prepare, B!JobIds
<1>6. DirTypes' /\ \A b \in B!Folders : B!Found(b) \subseteq B!Found(b)'
  BY <1>5, EntryOrNone
<1>7. QED
  BY <1>1, <1>3, <1>4, <1>6, OneGoesOn, BatchConstants

LEMMA KeepHistoryKeeps ==
  ASSUME BatchesInv, NEW g \in B!Generators, B!KeepHistory(g)
  PROVE  BatchesInv'
<1> DEFINE new == [run[g] EXCEPT !.at = "allure"]
<1>1. /\ run[g].at = "history" /\ run' = [run EXCEPT ![g] = new]
      /\ UNCHANGED <<storage, queued, memory, reports, wiped, sent>>
  BY DEF B!KeepHistory, B!history
<1>2. /\ run[g] \in Generation /\ run[g].batch = g /\ B!Reads(g) = g /\ g \in B!JobIds
  BY <1>1, UnderWay DEF B!Reads
<1>3. /\ new \in Generation /\ new.batch = g /\ run'[g] = new
      /\ new.at = "allure" /\ new.read = run[g].read
  BY <1>1, <1>2 DEF BatchesInv, BatchTypes, Generation
<1>4. B!Reported(g)' = B!Reported(g)
  BY <1>1 DEF B!Reported
<1>5. g \in UploadIds \ wiped => ReadWhole(g)'
  BY <1>1, <1>3, <1>4 DEF BatchesInv, NothingSkipped, ReadWhole
<1>6. CASE keep
  <2>1. \/ dir' = dir \/ B!Entry(History, {}, {})
        \/ B!Entry(g, {}, {"history"}) /\ g \in B!Folders
    BY <1>2, <1>6, BatchConstants DEF B!KeepHistory, B!HistoryCopied, B!JobIds
  <2>2. DirTypes' /\ \A u \in UploadIds : B!Found(u) \subseteq B!Found(u)'
    BY <2>1, EntryOrNone, BatchConstants
  <2>3. QED
    BY <1>1, <1>3, <1>5, <2>2, OneGoesOn
<1>7. CASE ~keep
  <2>1. B!HistoryRemoved(g)
    BY <1>2, <1>7 DEF B!KeepHistory
  <2>2. DirTypes' /\ \A u \in UploadIds : B!Found(u) \subseteq B!Found(u)'
    BY <2>1, HistoryGone DEF BatchesInv, BatchTypes
  <2>3. QED
    BY <1>1, <1>3, <1>5, <2>2, OneGoesOn
<1>8. QED
  BY <1>6, <1>7

LEMMA RunAllureKeeps ==
  ASSUME BatchesInv, NEW g \in B!Generators, B!RunAllure(g)
  PROVE  BatchesInv'
<1> DEFINE read == IF storage = "local" THEN B!Found(g) ELSE run[g].read
           new  == [run[g] EXCEPT !.at = "publish", !.read = read]
<1>1. /\ run[g].at = "allure"
      /\ run' = [run EXCEPT ![g].at = "publish",
                            ![g].read = IF storage = "local" THEN B!Found(B!Reads(g)) ELSE @]
      /\ UNCHANGED <<storage, dir, queued, memory, reports, wiped, sent>>
  BY DEF B!RunAllure, B!history
<1>2. /\ run[g] \in Generation /\ run[g].batch = g /\ B!Reads(g) = g
      /\ g \in UploadIds \ wiped => B!Found(g) \cup B!Reported(g) = ResultFiles
  BY <1>1, UnderWay DEF B!Reads
<1>3. run' = [run EXCEPT ![g] = new]
  BY <1>1, <1>2 DEF BatchesInv, BatchTypes
<1>4. /\ new \in Generation /\ new.batch = g /\ run'[g] = new
      /\ new.at = "publish" /\ new.read = read
  BY <1>2, <1>3, FilesKnown DEF BatchesInv, BatchTypes, Generation
<1>5. B!Reported(g)' = B!Reported(g)
  BY <1>1 DEF B!Reported
<1>6. ASSUME g \in UploadIds \ wiped
      PROVE  ResultFiles \subseteq read \cup B!Reported(g)
  <2>1. CASE storage = "local"
    BY <1>2, <1>6, <2>1
  <2>2. CASE storage = "s3"
    BY <1>1, <1>6, <2>2 DEF BatchesInv, NothingSkipped, ReadWhole
  <2>3. QED
    BY <2>1, <2>2, BatchConstants DEF BatchesInv, BatchTypes
<1>7. g \in UploadIds \ wiped => ReadWhole(g)'
  BY <1>4, <1>5, <1>6 DEF ReadWhole
<1>8. DirTypes' /\ \A b \in B!Folders : B!Found(b) \subseteq B!Found(b)'
  BY <1>1 DEF BatchesInv, BatchTypes, DirTypes, B!Found, B!Present
<1>9. QED
  BY <1>1, <1>3, <1>4, <1>7, <1>8, OneGoesOn, BatchConstants

LEMMA PublishKeeps ==
  ASSUME BatchesInv, NEW g \in B!Generators, B!Publish(g)
  PROVE  BatchesInv'
<1> DEFINE new   == [run[g] EXCEPT !.at = "prune"]
           built == [batch |-> g, files |-> run[g].read, by |-> g]
<1>1. /\ run[g].at = "publish" /\ run' = [run EXCEPT ![g] = new]
      /\ reports' = reports \cup {[batch |-> B!Reads(g), files |-> run[g].read, by |-> g]}
      /\ UNCHANGED <<storage, dir, queued, memory, wiped, sent>>
  BY DEF B!Publish
<1>2. /\ run[g] \in Generation /\ run[g].batch = g /\ B!Reads(g) = g /\ g \in B!JobIds
      /\ queued[g].state = "running"
  BY <1>1, UnderWay DEF B!Reads
<1>3. new \in Generation /\ new.batch = g /\ run'[g] = new /\ new.at = "prune"
  BY <1>1, <1>2 DEF BatchesInv, BatchTypes, Generation
<1>4. reports' = reports \cup {built}
  BY <1>1, <1>2
<1>5. \A x \in reports' : x.files \subseteq ResultFiles
  BY <1>2, <1>4 DEF BatchesInv, BatchTypes, Generation
<1>6. B!Reported(g) \cup run[g].read \subseteq B!Reported(g)'
  <2>1. built \in reports' /\ built.batch = g /\ built.files = run[g].read
    BY <1>4
  <2>2. ASSUME NEW f \in run[g].read
        PROVE  f \in UNION {x.files : x \in {y \in reports' : y.batch = g}}
    BY <2>1
  <2>3. B!Reported(g) \subseteq B!Reported(g)'
    BY <1>4 DEF B!Reported
  <2>4. QED
    BY <2>2, <2>3 DEF B!Reported
<1>7. g \in UploadIds \ wiped => ReadWhole(g)'
  <2>1. g \in UploadIds \ wiped => ResultFiles \subseteq run[g].read \cup B!Reported(g)
    BY <1>1 DEF BatchesInv, NothingSkipped, ReadWhole
  <2>2. QED
    BY <1>3, <1>6, <2>1 DEF ReadWhole
<1>8. BatchesGrow
  BY <1>1, <1>4 DEF BatchesGrow, B!Found, B!Present, B!Reported
<1>9. DirTypes' /\ queued' \in [B!JobIds -> JobRow]
  BY <1>1 DEF BatchesInv, BatchTypes, DirTypes, B!Present
<1>10. QED
  BY <1>1, <1>2, <1>3, <1>4, <1>5, <1>7, <1>8, <1>9, OneMoves

LEMMA CleanBatchKeeps ==
  ASSUME BatchesInv, NEW g \in B!Generators, B!CleanBatch(g)
  PROVE  BatchesInv'
<1> DEFINE new == [run[g] EXCEPT !.at = "done"]
<1>1. /\ run[g].at = "prune" /\ run' = [run EXCEPT ![g] = new]
      /\ B!Without({B!Reads(g)}) \/ dir' = dir
      /\ UNCHANGED <<storage, queued, memory, reports, wiped, sent>>
  BY DEF B!CleanBatch, B!history
<1>2. /\ run[g] \in Generation /\ run[g].batch = g /\ B!Reads(g) = g /\ g \in B!JobIds
      /\ queued[g].state = "running" /\ (g \in UploadIds => sent[g].at = "sent")
  BY <1>1, UnderWay DEF B!Reads
<1>3. new \in Generation /\ new.batch = g /\ run'[g] = new /\ new.at = "done"
  BY <1>1, <1>2 DEF BatchesInv, BatchTypes, Generation
<1>4. ReadWhole(g)'
  BY <1>3 DEF ReadWhole
<1>5. DirTypes' /\ \A b \in B!Folders \ {g} : B!Found(b)' = B!Found(b)
  <2>1. CASE dir' = dir
    BY <2>1 DEF BatchesInv, BatchTypes, DirTypes, B!Found, B!Present
  <2>2. CASE dir' = [b \in B!Present \ {g} |-> dir[b]]
    <3>1. B!Present' = B!Present \ {g} /\ \A b \in B!Present \ {g} : dir'[b] = dir[b]
      BY <2>2 DEF B!Present
    <3>2. QED
      BY <3>1 DEF BatchesInv, BatchTypes, DirTypes, B!Found
  <2>3. QED
    BY <1>1, <1>2, <2>1, <2>2 DEF B!Without
<1>6. WrittenThere'
  BY <1>1, <1>2, <1>5, BatchConstants DEF BatchesInv, WrittenThere
<1>7. ASSUME NEW u \in UploadIds \ wiped', sent'[u].at = "sent"
      PROVE  B!Found(u)' \cup B!Reported(u)' = ResultFiles
  <2>1. /\ B!Found(u) \cup B!Reported(u) = ResultFiles /\ B!Reported(u)' = B!Reported(u)
        /\ B!Found(u)' \subseteq ResultFiles
    BY <1>1, <1>5, <1>7 DEF BatchesInv, ResultsKept, B!ResultsKept, B!Reported, B!Found, DirTypes,
       ResultDir
  <2>2. u = g => ResultFiles \subseteq B!Reported(u)
    BY <1>1, <1>7 DEF BatchesInv, NothingSkipped, ReadWhole
  <2>3. QED
    BY <1>5, <2>1, <2>2, BatchConstants
<1>8. /\ queued' \in [B!JobIds -> JobRow] /\ \A x \in reports' : x.files \subseteq ResultFiles
  BY <1>1 DEF BatchesInv, BatchTypes
<1>9. QED
  BY <1>1, <1>2, <1>3, <1>4, <1>5, <1>6, <1>7, <1>8, OneMoves DEF ResultsKept, B!ResultsKept

LEMMA EndKeeps ==
  ASSUME BatchesInv, NEW g \in B!Generators, B!Done(g) \/ B!Fail(g)
  PROVE  BatchesInv'
<1>1. /\ run[g].at # "none" /\ run' = [run EXCEPT ![g] = B!None]
      /\ UNCHANGED <<storage, dir, reports, wiped, sent>>
  BY DEF B!Done, B!Fail, B!MayFail, B!Return, B!history
<1>2. g \in B!JobIds /\ queued[g].state = "running" /\ g # Watcher
  BY <1>1, UnderWay, BatchConstants
<1>3. /\ memory' = memory
      /\ \/ queued' = [queued EXCEPT ![g].state = "completed"]
         \/ queued' = [queued EXCEPT ![g].state = B!Retried(g)]
  BY <1>2 DEF B!Done, B!Fail, B!Return
<1>4. queued' \in [B!JobIds -> JobRow] /\ \A j \in B!JobIds \ {g} : queued'[j] = queued[j]
  BY <1>3 DEF BatchesInv, BatchTypes, JobRow, B!Retried
<1>5. run'[g] = B!None
  BY <1>1 DEF BatchesInv, BatchTypes
<1>6. ReadWhole(g)'
  BY <1>5 DEF ReadWhole, B!None
<1>7. BatchesGrow /\ DirTypes' /\ \A x \in reports' : x.files \subseteq ResultFiles
  BY <1>1 DEF BatchesInv, BatchTypes, DirTypes, BatchesGrow, B!Found, B!Present, B!Reported
<1>8. QED
  BY <1>1, <1>2, <1>3, <1>4, <1>6, <1>7, OneMoves

-----------------------------------------------------------------------------
(* Others.                                                                 *)

\* The sweep cleans as an administrator does.
LEMMA CleanupKeeps ==
  ASSUME BatchesInv, B!CleanResults \/ B!SweepCleans
  PROVE  BatchesInv'
<1>1. /\ wiped' = wiped \cup (B!Present \cap UploadIds)
      /\ dir' = [b \in B!Present \ B!Present |-> dir[b]]
      /\ UNCHANGED <<storage, queued, run, memory, reports, sent>>
  BY DEF B!CleanResults, B!SweepCleans, B!Clear, B!Without
<1>2. B!Present' = {} /\ \A u \in UploadIds \ wiped' : u \notin B!Present
  BY <1>1 DEF B!Present
<1>3. BatchTypes' /\ OwnBatch'
  BY <1>1, <1>2 DEF BatchesInv, BatchTypes, DirTypes, OwnBatch
<1>4. BatchesGrow
  BY <1>1, <1>2 DEF BatchesGrow, B!Found, B!Reported
<1>5. wiped \subseteq wiped'
  BY <1>1
<1>6. QED
  BY <1>1, <1>3, <1>4, <1>5, UploadsStay, GenerationsStay DEF BatchesInv

\* Until it cleans, the sweep only looks at the time and at what is there.
LEMMA SweepWaits ==
  ASSUME BatchesInv, B!DaysPass \/ B!SweepLooks
  PROVE  BatchesInv'
<1>1. UNCHANGED <<storage, dir, queued, run, memory, reports, wiped, sent>>
  BY DEF B!DaysPass, B!SweepLooks
<1>2. QED
  BY <1>1 DEF BatchesInv, BatchTypes, DirTypes, OwnBatch, WrittenThere, NothingSkipped,
     ReadWhole, ResultsKept, B!ResultsKept, B!Found, B!Present, B!Reported

LEMMA BatchCrashKeeps ==
  ASSUME BatchesInv, B!Crash
  PROVE  BatchesInv'
<1>1. /\ sent' = [u \in UploadIds |-> IF sent[u].at = "writing"
                                     THEN [sent[u] EXCEPT !.at = "refused"] ELSE sent[u]]
      /\ run' = [g \in B!Generators |-> B!None] /\ memory'.at = "idle"
      /\ UNCHANGED <<storage, dir, queued, reports, wiped>>
  BY DEF B!Crash, B!Remember
<1>2. \A u \in UploadIds : /\ sent[u] \in Request
                           /\ \/ sent'[u] = sent[u]
                              \/ /\ sent[u].at = "writing"
                                 /\ sent'[u] = [sent[u] EXCEPT !.at = "refused"]
  BY <1>1 DEF BatchesInv, BatchTypes
<1>3. \A u \in UploadIds : /\ sent'[u] \in Request /\ sent'[u].files = sent[u].files
                           /\ \/ sent'[u].at = sent[u].at
                              \/ sent[u].at = "writing" /\ sent'[u].at = "refused"
  BY <1>2 DEF Request
<1>4. sent' \in [UploadIds -> Request]
  BY <1>1, <1>3
<1>5. BatchTypes'
  BY <1>1, <1>4 DEF BatchesInv, BatchTypes, DirTypes, B!Present, B!Generators
<1>6. OwnBatch'
  BY <1>1, <1>3 DEF BatchesInv, OwnBatch, B!Generators
<1>7. WrittenThere' /\ ResultsKept'
  BY <1>1, <1>3 DEF BatchesInv, WrittenThere, ResultsKept, B!ResultsKept, B!Found, B!Present,
       B!Reported
<1>8. NothingSkipped'
  BY <1>1 DEF NothingSkipped, ReadWhole, B!None, B!Generators, B!JobIds
<1>9. QED
  BY <1>5, <1>6, <1>7, <1>8 DEF BatchesInv

\* With the watcher off, none of its steps is taken.
LEMMA NoPoll ==
  ASSUME BatchesInv
  PROVE  ~B!Poll
  BY DEF BatchesInv, BatchTypes, B!Poll, B!FirstPass, B!Pass, B!ListResultBatches, B!ListFails,
     B!Polling

-----------------------------------------------------------------------------
LEMMA BatchesStart ==
  ASSUME B!Init
  PROVE  BatchesInv
<1>1. /\ storage \in Storages /\ dir = <<>> /\ reports = {}
      /\ sent = [u \in UploadIds |-> [at |-> "idle", files |-> {}]]
      /\ queued = [j \in B!JobIds |-> [state |-> "none", attempt |-> 0]]
      /\ run = [g \in B!Generators |-> B!None] /\ memory.at = "idle"
  BY DEF B!Init
<1>2. B!Present = {}
  BY <1>1 DEF B!Present
<1>3. BatchTypes
  BY <1>1, <1>2 DEF BatchTypes, DirTypes, Request, JobRow, B!Generators
<1>4. OwnBatch
  BY <1>1 DEF OwnBatch, B!Generators, B!JobIds
<1>5. WrittenThere /\ ResultsKept
  BY <1>1 DEF WrittenThere, ResultsKept, B!ResultsKept
<1>6. NothingSkipped
  BY <1>1 DEF NothingSkipped, ReadWhole, B!None, B!Generators, B!JobIds
<1>7. QED
  BY <1>3, <1>4, <1>5, <1>6 DEF BatchesInv

LEMMA BatchesStep ==
  ASSUME BatchesInv, B!Next
  PROVE  BatchesInv'
<1>1. CASE B!Upload
  BY <1>1, GenerateAllKeeps, BatchBeginKeeps, AcceptKeeps, WriteResultFileKeeps DEF B!Upload
<1>2. ASSUME NEW g \in B!Generators, B!Advance(g)
      PROVE  BatchesInv'
  BY <1>2, LockKeeps, DownloadKeeps, PrepareKeeps, KeepHistoryKeeps, RunAllureKeeps, PublishKeeps,
     CleanBatchKeeps, EndKeeps DEF B!Advance
<1>3. ASSUME NEW j \in B!JobIds, B!Take(j) \/ B!Rescue(j)
      PROVE  BatchesInv'
  BY <1>3, TakeKeeps, RescueKeeps
<1>4. QED
  BY <1>1, <1>2, <1>3, NoPoll, CleanupKeeps, SweepWaits, BatchCrashKeeps
  DEF B!Next, B!Cleanup

LEMMA BatchesSteps ==
  ASSUME BatchesInv, [AllNext]_allVars
  PROVE  BatchesInv'
<1>1. CASE B!Next
  BY <1>1, BatchesStep
<1>2. CASE UNCHANGED batchVars
  BY <1>2 DEF batchVars, BatchesInv, BatchTypes, DirTypes, OwnBatch, WrittenThere, NothingSkipped,
     ReadWhole, ResultsKept, B!ResultsKept, B!Found, B!Present, B!Reported
<1>3. QED
  BY <1>1, <1>2 DEF AllNext, allVars

\* With the watcher off, no file of an upload that was accepted is lost before a
\* report was made of it, unless an administrator or the daily sweep cleans the
\* results: for any number of uploads, attempts that fail at any step, and crashes,
\* with history kept and without (SendResults, GenerateReport, CleanBatch).
THEOREM ResultsStayKept == AllSpec => []ResultsKept
<1>1. AllInit => BatchesInv
  BY BatchesStart DEF AllInit
<1>2. BatchesInv /\ [AllNext]_allVars => BatchesInv'
  BY BatchesSteps
<1>3. BatchesInv => ResultsKept
  BY DEF BatchesInv
<1>4. QED
  BY <1>1, <1>2, <1>3, PTL DEF AllSpec

-----------------------------------------------------------------------------
(* ActiveCache: the inductive invariant. *)

Timeouts == {LoadTimeout, KeyTimeout}

\* A lookup that has read the flag, and has answered nobody yet or not all.
HasRead(c) == call[c].at \in {"store", "done"}

\* No lookup takes longer than its timeout, and one that found the user active
\* began before the deactivation.
AnswersAreRecent ==
  \A c \in Callers :
    /\ call[c].age <= Timeout(call[c].kind)
    /\ HasRead(c) /\ call[c].val /\ ~active => ago <= call[c].age

\* What is still cached of the old flag expires within a lookup and a lifetime
\* of the deactivation.
EntriesExpire ==
  \A p \in Procs, k \in Keys :
    cache[p][k].val /\ cache[p][k].left > 0 /\ ~active =>
      \E t \in Timeouts : ago + cache[p][k].left <= t + TTL

AccessIsRecent == \E t \in Timeouts : stale < t + TTL

CleanMeansInactive == \A p \in Procs : clean[p] => ~active

Inv ==
  /\ TypeOK
  /\ AnswersAreRecent /\ EntriesExpire /\ AccessIsRecent
  /\ CleanMeansInactive /\ InvalidatedRefuses

-----------------------------------------------------------------------------
(* Types, one variable at a time. *)

Entry  == [val : BOOLEAN, left : 0 .. TTL]
Call   == [at : Labels, proc : Procs, kind : LookupKinds, val : BOOLEAN, age : Age]

CacheOK  == cache \in [Procs -> [Keys -> Entry]]
FlightOK == flight \in [Procs -> [Keys -> Callers \union {NoCaller}]]
CallOK   == call \in [Callers -> Call]
AdmOK    == adm \in [at : {"idle", "drop"}, proc : Procs \union {Elsewhere}]
RestOK   == /\ active \in BOOLEAN /\ ago \in Age /\ stale \in Age
            /\ clean \in [Procs -> BOOLEAN]

LEMMA TypeParts ==
  /\ TypeOK <=> CacheOK /\ FlightOK /\ CallOK /\ AdmOK /\ RestOK
  /\ TypeOK' <=> CacheOK' /\ FlightOK' /\ CallOK' /\ AdmOK' /\ RestOK'
  BY DEF TypeOK, CacheOK, FlightOK, CallOK, AdmOK, RestOK, Entry, Call, Age

LEMMA Members ==
  ASSUME Assumption
  PROVE  /\ SomeProc \in Procs
         /\ NoEntry \in Entry /\ Idle \in Call
         /\ 0 \in Age
         /\ \A n \in Age : Older(n) \in Age
         /\ Keys \subseteq LookupKinds
         /\ \A kind \in LookupKinds : KeyOf(kind) \in Keys
  BY DEF Assumption, SomeProc, NoEntry, Entry, Idle, Call, Age, Older, Labels, LookupKinds,
     Keys, KeyOf

LEMMA FieldsOfCall ==
  ASSUME NEW d \in Call
  PROVE  /\ d.at \in Labels /\ d.proc \in Procs /\ d.kind \in LookupKinds /\ d.val \in BOOLEAN
         /\ d.age \in Age
         /\ \A v \in BOOLEAN : [d EXCEPT !.at = "store", !.val = v] \in Call
         /\ [d EXCEPT !.at = "done"] \in Call
         /\ \A n \in Age : [d EXCEPT !.age = n] \in Call
  BY DEF Call, Labels

LEMMA NewCalls ==
  ASSUME Assumption, NEW p \in Procs, NEW kind \in LookupKinds, NEW l \in {"load", "wait"}
  PROVE  [at |-> l, proc |-> p, kind |-> kind, val |-> FALSE, age |-> 0] \in Call
  BY DEF Assumption, Call, Labels, Age

LEMMA FieldsOfEntry ==
  ASSUME Assumption, CacheOK, NEW p \in Procs, NEW k \in Keys
  PROVE  cache[p][k].val \in BOOLEAN /\ cache[p][k].left \in 0 .. TTL
  BY DEF CacheOK, Entry

LEMMA TypeInit == ASSUME Assumption PROVE Init => TypeOK
<1> SUFFICES ASSUME Init PROVE TypeOK
  OBVIOUS
<1>1. CacheOK /\ CallOK
  BY Members DEF Init, CacheOK, CallOK
<1>2. FlightOK /\ AdmOK /\ RestOK
  BY Members DEF Init, FlightOK, AdmOK, RestOK
<1>3. QED
  BY <1>1, <1>2, TypeParts

LEMMA MissedOK == ASSUME Assumption, RestOK, NEW v PROVE Missed(v) \in Age
  BY Members DEF Missed, RestOK

LEMMA TypeStep ==
  ASSUME Assumption, TypeOK, [Next]_vars
  PROVE  TypeOK'
<1>a. CacheOK /\ FlightOK /\ CallOK /\ AdmOK /\ RestOK
  BY TypeParts
<1>b. \A c \in Callers : call[c] \in Call
  BY <1>a DEF CallOK
<1>1. CASE UNCHANGED vars
  BY <1>1, <1>a, TypeParts DEF vars, CacheOK, FlightOK, CallOK, AdmOK, RestOK
<1>2. ASSUME NEW c \in Callers, NEW p \in Procs, NEW k \in Keys, Hit(c, p, k)
      PROVE  TypeOK'
  BY <1>2, <1>a, TypeParts, MissedOK DEF Hit, CacheOK, FlightOK, CallOK, AdmOK, RestOK
<1>3. ASSUME NEW c \in Callers, NEW p \in Procs, NEW k \in Keys, StartFlight(c, p, k)
      PROVE  TypeOK'
  <2>1. CacheOK' /\ AdmOK' /\ RestOK' /\ FlightOK'
    BY <1>3, <1>a DEF StartFlight, CacheOK, FlightOK, AdmOK, RestOK
  <2>2. CallOK'
    BY <1>3, <1>a, NewCalls, Members DEF StartFlight, CallOK
  <2>3. QED
    BY <2>1, <2>2, TypeParts
<1>4. ASSUME NEW c \in Callers, NEW p \in Procs, NEW k \in Keys, JoinFlight(c, p, k)
      PROVE  TypeOK'
  <2>1. CacheOK' /\ AdmOK' /\ FlightOK'
    BY <1>4, <1>a DEF JoinFlight, CacheOK, FlightOK, AdmOK
  <2>2. RestOK'
    BY <1>4, <1>a, MissedOK DEF JoinFlight, RestOK
  <2>3. CallOK'
    BY <1>4, <1>a, NewCalls, Members DEF JoinFlight, CallOK
  <2>4. QED
    BY <2>1, <2>2, <2>3, TypeParts
<1>5. ASSUME NEW c \in Callers, NEW p \in Procs, ResolveKey(c, p)
      PROVE  TypeOK'
  <2>1. CacheOK' /\ AdmOK' /\ RestOK' /\ FlightOK'
    BY <1>5, <1>a DEF ResolveKey, CacheOK, FlightOK, AdmOK, RestOK
  <2>2. CallOK'
    BY <1>5, <1>a, NewCalls DEF ResolveKey, CallOK, LookupKinds
  <2>3. QED
    BY <2>1, <2>2, TypeParts
<1>6. ASSUME NEW c \in Callers, ReadUser(c)
      PROVE  TypeOK'
  <2>1. CacheOK' /\ AdmOK' /\ RestOK' /\ FlightOK' /\ active \in BOOLEAN
    BY <1>6, <1>a DEF ReadUser, CacheOK, FlightOK, AdmOK, RestOK
  <2>2. call' = [call EXCEPT ![c] = [call[c] EXCEPT !.at = "store", !.val = active]]
    BY <1>6 DEF ReadUser
  <2>3. CallOK'
    BY <2>1, <2>2, <1>a, <1>b, FieldsOfCall DEF CallOK
  <2>4. QED
    BY <2>1, <2>3, TypeParts
<1>c. ASSUME NEW c \in Callers, flight' = Landed(c)
      PROVE  FlightOK'
  BY <1>c, <1>a DEF FlightOK, Landed
<1>d. ASSUME NEW who, call' = Ended(who)
      PROVE  CallOK'
  BY <1>d, <1>a, Members DEF CallOK, Ended
<1>7. ASSUME NEW c \in Callers, ReadFails(c)
      PROVE  TypeOK'
  <2>1. CacheOK' /\ AdmOK' /\ RestOK'
    BY <1>7, <1>a DEF ReadFails, CacheOK, AdmOK, RestOK
  <2>2. FlightOK' /\ CallOK'
    BY <1>7, <1>c, <1>d DEF ReadFails
  <2>3. QED
    BY <2>1, <2>2, TypeParts
<1>8. ASSUME NEW c \in Callers, StoreEntry(c)
      PROVE  TypeOK'
  <2>1. AdmOK' /\ RestOK' /\ FlightOK'
    BY <1>8, <1>a, MissedOK DEF StoreEntry, AdmOK, RestOK, FlightOK
  <2>2. CacheOK'
    <3>1. KeyOf(call[c].kind) \in Keys /\ call[c].proc \in Procs
      BY <1>b, FieldsOfCall, Members
    <3>2. [val |-> call[c].val, left |-> TTL] \in Entry
      <4>1. call[c].val \in BOOLEAN
        BY <1>b, FieldsOfCall
      <4>2. TTL \in 0 .. TTL
        BY DEF Assumption
      <4>3. QED
        BY <4>1, <4>2 DEF Entry
    <3>3. QED
      BY <1>8, <1>a, <3>1, <3>2 DEF StoreEntry, Lifetime, CacheOK
  <2>3. CallOK'
    <3>1. CASE call' = Ended({c})
      BY <3>1, <1>d
    <3>2. CASE call' = [Ended(Waiters(c)) EXCEPT ![c].at = "done"]
      <4>1. \A d \in Callers : call[d] \in Call /\ [call[d] EXCEPT !.at = "done"] \in Call
        BY <1>b, FieldsOfCall
      <4>2. Idle \in Call /\ [Idle EXCEPT !.at = "done"] \in Call
        BY Members, FieldsOfCall
      <4>3. QED
        BY <3>2, <4>1, <4>2 DEF Ended, CallOK
    <3>3. QED
      BY <1>8, <3>1, <3>2 DEF StoreEntry
  <2>4. QED
    BY <2>1, <2>2, <2>3, TypeParts
<1>9. ASSUME NEW c \in Callers, EndFlight(c)
      PROVE  TypeOK'
  <2>1. CacheOK' /\ AdmOK' /\ RestOK'
    BY <1>9, <1>a, MissedOK DEF EndFlight, CacheOK, AdmOK, RestOK
  <2>2. FlightOK' /\ CallOK'
    BY <1>9, <1>c, <1>d DEF EndFlight
  <2>3. QED
    BY <2>1, <2>2, TypeParts
<1>10. ASSUME NEW p \in Procs, NEW k \in Keys, Evict(p, k)
       PROVE  TypeOK'
  BY <1>10, <1>a, TypeParts, Members DEF Evict, CacheOK, FlightOK, CallOK, AdmOK, RestOK
<1>11. ASSUME NEW p \in Procs \union {Elsewhere}, WriteActive(p)
       PROVE  TypeOK'
  BY <1>11, <1>a, TypeParts, Members DEF WriteActive, CacheOK, FlightOK, CallOK, AdmOK, RestOK
<1>12. CASE InvalidateActiveCache
  <2>1. FlightOK' /\ CallOK' /\ AdmOK'
    BY <1>12, <1>a DEF InvalidateActiveCache, FlightOK, CallOK, AdmOK
  <2>2. CacheOK'
    BY <1>12, <1>a, Members DEF InvalidateActiveCache, Dropped, CacheOK, AdmOK
  <2>3. RestOK'
    BY <1>12, <1>a DEF InvalidateActiveCache, RestOK
  <2>4. QED
    BY <2>1, <2>2, <2>3, TypeParts
<1>13. CASE Tick
  <2>1. FlightOK' /\ AdmOK' /\ RestOK'
    BY <1>13, <1>a, Members DEF Tick, FlightOK, AdmOK, RestOK
  <2>2. CallOK'
    <3>1. \A c \in Callers : [call[c] EXCEPT !.age = Older(call[c].age)] \in Call
      BY <1>b, FieldsOfCall, Members
    <3>2. QED
      BY <1>13, <1>b, <3>1 DEF Tick, CallOK
  <2>3. CacheOK'
    <3>1. ASSUME NEW p \in Procs, NEW k \in Keys, cache[p][k].left > 1
          PROVE  [cache[p][k] EXCEPT !.left = cache[p][k].left - 1] \in Entry
      BY <3>1, <1>a DEF CacheOK, Entry, Assumption
    <3>2. QED
      BY <1>13, <3>1, Members DEF Tick, CacheOK
  <2>4. QED
    BY <2>1, <2>2, <2>3, TypeParts
<1>14. QED
  BY <1>1, <1>2, <1>3, <1>4, <1>5, <1>6, <1>7, <1>8, <1>9, <1>10, <1>11, <1>12, <1>13
     DEF Next, Lookup, Proceed

-----------------------------------------------------------------------------
(* Access ends. *)

\* The numbers are numbers.
LEMMA Numbers ==
  ASSUME Assumption, TypeOK
  PROVE  /\ ago \in Nat /\ stale \in Nat /\ TTL \in Nat /\ TTL > 0
         /\ LoadTimeout \in Nat /\ KeyTimeout \in Nat
         /\ \A c \in Callers : call[c].age \in Nat /\ call[c].val \in BOOLEAN
         /\ \A kind : Timeout(kind) \in Timeouts
<1>1. \A c \in Callers : call[c].age \in Age /\ call[c].val \in BOOLEAN
  BY TypeParts, FieldsOfCall DEF CallOK
<1>2. ago \in Age /\ stale \in Age
  BY TypeParts DEF RestOK
<1>3. QED
  BY <1>1, <1>2 DEF Age, Assumption, Timeout, Timeouts

\* An answer that found the user active is not older than a lookup.
LEMMA AnswersInTime ==
  ASSUME Assumption, Inv, NEW c \in Callers, HasRead(c)
  PROVE  \E t \in Timeouts : Missed(call[c].val) < t + TTL /\ (call[c].val /\ ~active => ago <= t)
<1>1. TypeOK /\ AnswersAreRecent
  BY DEF Inv
<1>2. /\ call[c].age <= Timeout(call[c].kind)
      /\ call[c].val /\ ~active => ago <= call[c].age
  BY <1>1 DEF AnswersAreRecent
<1>3. Timeout(call[c].kind) \in Timeouts /\ Timeout(call[c].kind) \in Nat
  BY <1>1, Numbers DEF Timeouts
<1>4. call[c].val /\ ~active => ago <= Timeout(call[c].kind)
  BY <1>1, <1>2, <1>3, Numbers
<1>5. Missed(call[c].val) < Timeout(call[c].kind) + TTL
  BY <1>1, <1>3, <1>4, Numbers DEF Missed
<1>6. QED
  BY <1>3, <1>4, <1>5

LEMMA InvInit == ASSUME Assumption PROVE Init => Inv
<1> SUFFICES ASSUME Init PROVE Inv
  OBVIOUS
<1>1. TypeOK
  BY TypeInit
<1>2. /\ \A c \in Callers : call[c].age = 0 /\ ~call[c].val
      /\ \A p \in Procs, k \in Keys : ~cache[p][k].val
      /\ stale = 0 /\ active
      /\ \A p \in Procs : ~clean[p]
  BY DEF Init, Idle, NoEntry
<1>3. AnswersAreRecent /\ EntriesExpire /\ CleanMeansInactive /\ InvalidatedRefuses
  BY <1>1, <1>2, Numbers
     DEF AnswersAreRecent, Timeouts, EntriesExpire, CleanMeansInactive, InvalidatedRefuses
<1>4. AccessIsRecent
  BY <1>1, <1>2, Numbers DEF AccessIsRecent, Timeouts
<1>5. QED
  BY <1>1, <1>3, <1>4 DEF Inv

\* The lookups. Where a request is, it was before, or it has just begun, read
\* or ended.
LEMMA AnswersStep ==
  ASSUME Assumption, Inv, [Next]_vars
  PROVE  AnswersAreRecent'
<1>a. TypeOK /\ AnswersAreRecent /\ CallOK
  BY TypeParts DEF Inv
<1> USE Numbers
<1> DEFINE Recent(c) == /\ call[c].age <= Timeout(call[c].kind)
                        /\ HasRead(c) /\ call[c].val /\ ~active => ago <= call[c].age
<1>b. \A c \in Callers : Recent(c)
  BY <1>a DEF AnswersAreRecent
<1> SUFFICES ASSUME NEW c \in Callers
             PROVE  Recent(c)'
  BY DEF AnswersAreRecent
<1>1. CASE /\ active' = active /\ ago' = ago
           /\ \/ call'[c] = call[c]
              \/ call'[c] = Idle
              \/ call'[c].at \in {"load", "wait"} /\ call'[c].age = 0
              \/ /\ call'[c].age = call[c].age /\ call'[c].kind = call[c].kind
                 /\ call'[c].val = active
              \/ /\ call[c].at = "store" /\ call'[c].at = "done"
                 /\ call'[c].age = call[c].age /\ call'[c].kind = call[c].kind
                 /\ call'[c].val = call[c].val
  <2>1. Idle.age = 0 /\ ~Idle.val
    BY DEF Idle
  <2>2. \A n : n = 0 => \A t \in Timeouts : n <= t
    BY <1>a DEF Timeouts
  <2>3. QED
    BY <1>1, <1>a, <1>b, <2>1, <2>2 DEF HasRead
<1>2. ASSUME NEW d \in Callers, NEW p \in Procs, NEW k \in Keys, Lookup(d, p, k)
      PROVE  Recent(c)'
  <2>1. /\ active' = active /\ ago' = ago
        /\ \/ call'[c] = call[c]
           \/ call'[c].at \in {"load", "wait"} /\ call'[c].age = 0
    BY <1>2, <1>a DEF Lookup, Hit, StartFlight, JoinFlight, CallOK
  <2>2. QED
    BY <1>1, <2>1
<1>3. ASSUME NEW d \in Callers, NEW p \in Procs, ResolveKey(d, p)
      PROVE  Recent(c)'
  <2>1. /\ active' = active /\ ago' = ago
        /\ \/ call'[c] = call[c]
           \/ call'[c].at \in {"load", "wait"} /\ call'[c].age = 0
    BY <1>3, <1>a DEF ResolveKey, CallOK
  <2>2. QED
    BY <1>1, <2>1
<1>4. ASSUME NEW d \in Callers, ReadUser(d)
      PROVE  Recent(c)'
  <2>1. /\ active' = active /\ ago' = ago
        /\ \/ call'[c] = call[c]
           \/ /\ call'[c].age = call[c].age /\ call'[c].kind = call[c].kind
              /\ call'[c].val = active
    BY <1>4, <1>a DEF ReadUser, CallOK, Call
  <2>2. QED
    BY <1>1, <2>1
<1>5. ASSUME NEW d \in Callers, ReadFails(d) \/ EndFlight(d)
      PROVE  Recent(c)'
  <2>1. active' = active /\ ago' = ago /\ (call'[c] = call[c] \/ call'[c] = Idle)
    BY <1>5 DEF ReadFails, EndFlight, Ended
  <2>2. QED
    BY <1>1, <2>1
<1>6. ASSUME NEW d \in Callers, StoreEntry(d)
      PROVE  Recent(c)'
  <2>1. /\ active' = active /\ ago' = ago /\ call[d].at = "store"
        /\ call' = Ended({d}) \/ call' = [Ended(Waiters(d)) EXCEPT ![d].at = "done"]
    BY <1>6 DEF StoreEntry
  <2>2. CASE call' = Ended({d})
    BY <1>1, <2>1, <2>2 DEF Ended
  <2>3. CASE call' = [Ended(Waiters(d)) EXCEPT ![d].at = "done"]
    <3>1. d \notin Waiters(d)
      BY <2>1 DEF Waiters
    <3>2. c # d => call'[c] \in {call[c], Idle}
      BY <2>3 DEF Ended
    <3>3. c = d => call'[c] = [call[c] EXCEPT !.at = "done"]
      BY <2>3, <3>1 DEF Ended
    <3>4. c = d => /\ call[c].at = "store" /\ call'[c].at = "done"
                   /\ call'[c].age = call[c].age /\ call'[c].kind = call[c].kind
                   /\ call'[c].val = call[c].val
      BY <2>1, <3>3, <1>a DEF CallOK, Call
    <3>5. QED
      BY <1>1, <2>1, <3>2, <3>4
  <2>4. QED
    BY <2>1, <2>2, <2>3
<1>7. ASSUME NEW p, WriteActive(p)
      PROVE  Recent(c)'
  BY <1>7, <1>a, <1>b DEF WriteActive, HasRead
<1>8. CASE Tick
  <2>1. active' = active /\ ago' = Older(ago)
    BY <1>8 DEF Tick
  <2>2. CASE InDatabase(c)
    <3>1. /\ call[c].age < Timeout(call[c].kind)
          /\ call'[c] = [call[c] EXCEPT !.age = Older(call[c].age)]
      BY <1>8, <2>2 DEF Tick
    <3>2. /\ call'[c].age = Older(call[c].age) /\ call'[c].kind = call[c].kind
          /\ call'[c].at = call[c].at /\ call'[c].val = call[c].val
      BY <3>1, <1>a DEF CallOK, Call
    <3>3. Older(call[c].age) <= Timeout(call[c].kind)
      BY <3>1, <1>a DEF Older, Timeouts
    <3>4. ago <= call[c].age => Older(ago) <= Older(call[c].age)
      <4>1. ago \in Age /\ call[c].age \in Age /\ Horizon \in Nat
        BY <1>a, TypeParts, FieldsOfCall DEF RestOK, CallOK, Assumption
      <4>2. QED
        BY <4>1 DEF Older, Age
    <3>5. QED
      BY <2>1, <3>2, <3>3, <3>4, <1>b DEF HasRead
  <2>3. CASE ~InDatabase(c)
    <3>1. call'[c] = call[c] /\ ~HasRead(c)
      BY <1>8, <2>3 DEF Tick, InDatabase, HasRead
    <3>2. QED
      BY <3>1, <1>b DEF HasRead
  <2>4. QED
    BY <2>2, <2>3
<1>9. CASE InvalidateActiveCache \/ UNCHANGED vars \/ \E p \in Procs, k \in Keys : Evict(p, k)
  BY <1>1, <1>9 DEF InvalidateActiveCache, vars, Evict
<1>10. QED
  BY <1>2, <1>3, <1>4, <1>5, <1>6, <1>7, <1>8, <1>9 DEF Next, Proceed

\* The entries. What is cached was cached before, has just been stored, or is
\* one tick nearer its end.
LEMMA EntriesStep ==
  ASSUME Assumption, Inv, [Next]_vars
  PROVE  EntriesExpire'
<1>a. TypeOK /\ EntriesExpire /\ CacheOK /\ RestOK
  BY TypeParts DEF Inv
<1>b. CacheOK' /\ RestOK'
  BY TypeStep, TypeParts DEF Inv
<1> USE Numbers
<1> DEFINE Expires(p, k) ==
      cache[p][k].val /\ cache[p][k].left > 0 /\ ~active =>
        \E t \in Timeouts : ago + cache[p][k].left <= t + TTL
<1>c. \A p \in Procs, k \in Keys : Expires(p, k)
  BY <1>a DEF EntriesExpire
<1>d. \A t \in Timeouts : t \in Nat
  BY <1>a DEF Timeouts
<1> SUFFICES ASSUME NEW p \in Procs, NEW k \in Keys
             PROVE  Expires(p, k)'
  BY DEF EntriesExpire
<1>e. /\ cache[p][k].left \in 0 .. TTL /\ cache'[p][k].left \in 0 .. TTL
      /\ ago \in Nat /\ ago' \in Nat /\ TTL \in Nat
  BY <1>a, <1>b, FieldsOfEntry DEF CacheOK, Entry, RestOK, Age
<1>1. CASE cache'[p][k] = cache[p][k] /\ active' = active /\ ago' = ago
  BY <1>1, <1>c
<1>2. CASE cache'[p][k].left = 0
  BY <1>2
<1>3. ASSUME NEW c \in Callers, StoreEntry(c)
      PROVE  Expires(p, k)'
  <2>1. /\ cache' = [cache EXCEPT ![call[c].proc][KeyOf(call[c].kind)] =
                        [val |-> call[c].val, left |-> TTL]]
        /\ active' = active /\ ago' = ago /\ HasRead(c)
    BY <1>3 DEF StoreEntry, Lifetime, HasRead
  <2>2. CASE p = call[c].proc /\ k = KeyOf(call[c].kind)
    <3>1. cache'[p][k].val = call[c].val /\ cache'[p][k].left = TTL
      BY <2>1, <2>2, <1>a DEF CacheOK
    <3>2. PICK t \in Timeouts : call[c].val /\ ~active => ago <= t
      BY <2>1, AnswersInTime
    <3>3. call[c].val /\ ~active => ago + TTL <= t + TTL
      BY <3>2, <1>d, <1>e
    <3>4. QED
      BY <2>1, <3>1, <3>3
  <2>3. CASE ~(p = call[c].proc /\ k = KeyOf(call[c].kind))
    BY <1>1, <2>1, <2>3, <1>a DEF CacheOK
  <2>4. QED
    BY <2>2, <2>3
<1>4. CASE Tick
  <2>1. active' = active /\ ago' <= ago + 1
    BY <1>4, <1>e DEF Tick, Older
  <2>2. CASE cache[p][k].left > 1
    <3>1. cache'[p][k] = [cache[p][k] EXCEPT !.left = cache[p][k].left - 1]
      BY <1>4, <2>2 DEF Tick
    <3>2. cache'[p][k].val = cache[p][k].val /\ cache'[p][k].left = cache[p][k].left - 1
      BY <3>1, <1>a DEF CacheOK, Entry
    <3>3. ASSUME cache[p][k].val, ~active
          PROVE  \E t \in Timeouts : ago' + cache'[p][k].left <= t + TTL
      <4>0. cache[p][k].left > 0
        BY <2>2, <1>e
      <4>1. PICK t \in Timeouts : ago + cache[p][k].left <= t + TTL
        BY <4>0, <3>3, <1>c
      <4>2. ago' + cache'[p][k].left <= t + TTL
        BY <4>1, <3>2, <2>1, <2>2, <1>d, <1>e
      <4>3. QED
        BY <4>2
    <3>4. QED
      BY <2>1, <3>2, <3>3
  <2>3. CASE ~(cache[p][k].left > 1)
    BY <1>2, <1>4, <2>3 DEF Tick, NoEntry
  <2>4. QED
    BY <2>2, <2>3
<1>5. ASSUME NEW q, WriteActive(q)
      PROVE  Expires(p, k)'
  <2>1. ago' = 0 /\ cache' = cache
    BY <1>5 DEF WriteActive
  <2>2. LoadTimeout \in Timeouts /\ ago' + cache'[p][k].left <= LoadTimeout + TTL
    BY <2>1, <1>a, <1>d, <1>e DEF Timeouts
  <2>3. QED
    BY <2>2
<1>6. CASE InvalidateActiveCache
  <2>1. active' = active /\ ago' = ago
    BY <1>6 DEF InvalidateActiveCache
  <2>2. cache' = cache \/ cache' = Dropped(adm.proc)
    BY <1>6 DEF InvalidateActiveCache
  <2>3. cache'[p][k] = cache[p][k] \/ cache'[p][k] = NoEntry
    BY <2>2, <1>a DEF Dropped, CacheOK
  <2>4. QED
    BY <1>1, <1>2, <2>1, <2>3 DEF NoEntry
<1>7. ASSUME NEW q \in Procs, NEW j \in Keys, Evict(q, j)
      PROVE  Expires(p, k)'
  <2>1. active' = active /\ ago' = ago
    BY <1>7 DEF Evict
  <2>2. cache'[p][k] = cache[p][k] \/ cache'[p][k] = NoEntry
    BY <1>7, <1>a DEF Evict, CacheOK
  <2>3. QED
    BY <1>1, <1>2, <2>1, <2>2 DEF NoEntry
<1>8. ASSUME NEW c, NEW q, NEW j, Lookup(c, q, j) \/ ResolveKey(c, q)
      PROVE  Expires(p, k)'
  BY <1>1, <1>8 DEF Lookup, Hit, StartFlight, JoinFlight, ResolveKey
<1>9. ASSUME NEW c, ReadUser(c) \/ ReadFails(c) \/ EndFlight(c)
      PROVE  Expires(p, k)'
  BY <1>1, <1>9 DEF ReadUser, ReadFails, EndFlight
<1>10. CASE UNCHANGED vars
  BY <1>1, <1>10 DEF vars
<1> HIDE DEF Expires
<1>11. QED
  BY <1>3, <1>4, <1>5, <1>6, <1>7, <1>8, <1>9, <1>10 DEF Next, Proceed

\* The last admitted request. It was let through by an entry or an answer.
LEMMA AccessStep ==
  ASSUME Assumption, Inv, [Next]_vars
  PROVE  AccessIsRecent'
<1>a. TypeOK /\ EntriesExpire /\ AccessIsRecent /\ CacheOK /\ FlightOK
  BY TypeParts DEF Inv
<1> USE Numbers
<1>b. \A t \in Timeouts : t \in Nat
  BY <1>a DEF Timeouts
<1> DEFINE Recent(n) == \E t \in Timeouts : n < t + TTL
<1> SUFFICES Recent(stale')
  BY DEF AccessIsRecent
<1>1. CASE stale' = stale
  BY <1>1, <1>a DEF AccessIsRecent
<1>2. ASSUME NEW c \in Callers, HasRead(c), stale' = Missed(call[c].val)
      PROVE  Recent(stale')
  BY <1>2, AnswersInTime
<1>3. ASSUME NEW c \in Callers, NEW p \in Procs, NEW k \in Keys, Hit(c, p, k)
      PROVE  Recent(stale')
  <2>1. cache[p][k].left > 0 /\ stale' = Missed(cache[p][k].val)
    BY <1>3 DEF Hit, Cached
  <2>2. cache[p][k].left \in 0 .. TTL
    BY <1>a, FieldsOfEntry
  <2>3. CASE cache[p][k].val /\ ~active
    <3>1. stale' = ago
      BY <2>1, <2>3 DEF Missed
    <3>2. PICK t \in Timeouts : ago + cache[p][k].left <= t + TTL
      BY <2>1, <2>3, <1>a DEF EntriesExpire
    <3>3. stale' < t + TTL
      BY <3>1, <3>2, <2>1, <2>2, <1>a, <1>b
    <3>4. QED
      BY <3>3
  <2>4. CASE ~(cache[p][k].val /\ ~active)
    <3>1. stale' = 0
      BY <2>1, <2>4 DEF Missed
    <3>2. LoadTimeout \in Timeouts /\ 0 < LoadTimeout + TTL
      BY <1>a DEF Timeouts
    <3>3. QED
      BY <3>1, <3>2
  <2>5. QED
    BY <2>3, <2>4
<1>4. ASSUME NEW c \in Callers, NEW p \in Procs, NEW k \in Keys, JoinFlight(c, p, k)
      PROVE  Recent(stale')
  <2>1. flight[p][k] \in Callers
    BY <1>4, <1>a DEF JoinFlight, FlightOK
  <2>2. \/ stale' = stale
        \/ call[flight[p][k]].at = "done" /\ stale' = Missed(call[flight[p][k]].val)
    BY <1>4 DEF JoinFlight
  <2>3. QED
    BY <1>1, <1>2, <2>1, <2>2 DEF HasRead
<1>5. ASSUME NEW c \in Callers, StoreEntry(c) \/ EndFlight(c)
      PROVE  Recent(stale')
  BY <1>2, <1>5 DEF StoreEntry, EndFlight, HasRead
<1>6. ASSUME NEW c, NEW p, NEW k, StartFlight(c, p, k) \/ ResolveKey(c, p) \/ Evict(p, k)
      PROVE  stale' = stale
  BY <1>6 DEF StartFlight, ResolveKey, Evict
<1>7. ASSUME NEW c, ReadUser(c) \/ ReadFails(c) \/ WriteActive(c)
      PROVE  stale' = stale
  BY <1>7 DEF ReadUser, ReadFails, WriteActive
<1>8. ASSUME InvalidateActiveCache \/ Tick \/ UNCHANGED vars
      PROVE  stale' = stale
  BY <1>8 DEF InvalidateActiveCache, Tick, vars
<1> HIDE DEF Recent
<1>9. QED
  BY <1>1, <1>3, <1>4, <1>5, <1>6, <1>7, <1>8 DEF Next, Lookup, Proceed

\* A process that has dropped what it knew. What is stored there afterwards was
\* read afterwards.
LEMMA CleanStep ==
  ASSUME Assumption, Inv, [Next]_vars
  PROVE  CleanMeansInactive' /\ InvalidatedRefuses'
<1>a. TypeOK /\ CleanMeansInactive /\ InvalidatedRefuses /\ CacheOK /\ CallOK /\ AdmOK
  BY TypeParts DEF Inv
<1>b. RestOK
  BY <1>a, TypeParts
<1>c. CacheOK'
  BY TypeStep, TypeParts DEF Inv
<1> DEFINE Refuses(p) ==
      clean[p] => /\ ~active
                  /\ \A k \in Keys : Cached(p, k) => ~cache[p][k].val
                  /\ ~OldAnswer(p)
<1>d. \A p \in Procs : Refuses(p)
  BY <1>a DEF CleanMeansInactive, InvalidatedRefuses
<1> SUFFICES ASSUME NEW p \in Procs
             PROVE  Refuses(p)'
  BY DEF CleanMeansInactive, InvalidatedRefuses
\* No answer with the old flag that was not there before.
<1> DEFINE NoNewAnswer ==
      \A c \in Callers : call'[c].proc = p /\ call'[c].at \in {"store", "done"} /\ call'[c].val =>
        call[c].proc = p /\ call[c].at \in {"store", "done"} /\ call[c].val
           NoNewEntry ==
      \A k \in Keys : cache'[p][k].left > 0 /\ cache'[p][k].val =>
        cache[p][k].left > 0 /\ cache[p][k].val
<1>1. ASSUME active' = active, clean' = clean, NoNewAnswer, NoNewEntry
      PROVE  Refuses(p)'
  BY <1>1, <1>d DEF OldAnswer, Cached
<1>2. ASSUME NEW c \in Callers, NEW q \in Procs, NEW k \in Keys, Lookup(c, q, k)
      PROVE  Refuses(p)'
  <2>1. active' = active /\ clean' = clean /\ cache' = cache
    BY <1>2 DEF Lookup, Hit, StartFlight, JoinFlight
  <2>2. \A d \in Callers : call'[d] = call[d] \/ call'[d].at \in {"load", "wait"}
    BY <1>2, <1>a DEF Lookup, Hit, StartFlight, JoinFlight, CallOK
  <2>3. NoNewAnswer
    BY <2>2
  <2>4. QED
    BY <1>1, <2>1, <2>3
<1>3. ASSUME NEW c \in Callers, NEW q \in Procs, ResolveKey(c, q)
      PROVE  Refuses(p)'
  <2>1. active' = active /\ clean' = clean /\ cache' = cache
    BY <1>3 DEF ResolveKey
  <2>2. \A d \in Callers : call'[d] = call[d] \/ call'[d].at \in {"load", "wait"}
    BY <1>3, <1>a DEF ResolveKey, CallOK
  <2>3. NoNewAnswer
    BY <2>2
  <2>4. QED
    BY <1>1, <2>1, <2>3
<1>4. ASSUME NEW c \in Callers, ReadUser(c)
      PROVE  Refuses(p)'
  <2>1. active' = active /\ clean' = clean /\ cache' = cache
    BY <1>4 DEF ReadUser
  <2>2. CASE active
    BY <2>1, <2>2, <1>d
  <2>3. CASE ~active
    <3>1. \A d \in Callers : call'[d] = call[d] \/ call'[d].val = active
      BY <1>4, <1>a DEF ReadUser, CallOK, Call
    <3>2. NoNewAnswer
      BY <3>1, <2>3
    <3>3. QED
      BY <1>1, <2>1, <3>2
  <2>4. QED
    BY <2>2, <2>3
<1>5. ASSUME NEW c \in Callers, ReadFails(c) \/ EndFlight(c)
      PROVE  Refuses(p)'
  <2>1. active' = active /\ clean' = clean /\ cache' = cache
    BY <1>5 DEF ReadFails, EndFlight
  <2>2. \A d \in Callers : call'[d] = call[d] \/ call'[d] = Idle
    BY <1>5 DEF ReadFails, EndFlight, Ended
  <2>3. NoNewAnswer
    BY <2>2 DEF Idle
  <2>4. QED
    BY <1>1, <2>1, <2>3
<1>6. ASSUME NEW c \in Callers, StoreEntry(c)
      PROVE  Refuses(p)'
  <2>1. /\ active' = active /\ clean' = clean /\ call[c].at = "store"
        /\ cache' = [cache EXCEPT ![call[c].proc][KeyOf(call[c].kind)] =
                        [val |-> call[c].val, left |-> TTL]]
        /\ call' = Ended({c}) \/ call' = [Ended(Waiters(c)) EXCEPT ![c].at = "done"]
    BY <1>6 DEF StoreEntry, Lifetime
  <2>2. NoNewAnswer
    <3>1. CASE call' = Ended({c})
      BY <3>1 DEF Ended, Idle
    <3>2. CASE call' = [Ended(Waiters(c)) EXCEPT ![c].at = "done"]
      <4>1. c \notin Waiters(c)
        BY <2>1 DEF Waiters
      <4>2. call'[c] = [call[c] EXCEPT !.at = "done"]
        BY <3>2, <4>1 DEF Ended
      <4>3. call'[c].proc = call[c].proc /\ call'[c].val = call[c].val
        BY <4>2, <1>a DEF CallOK, Call
      <4>4. \A d \in Callers : d # c => call'[d] = call[d] \/ call'[d] = Idle
        BY <3>2 DEF Ended
      <4>5. QED
        BY <4>3, <4>4, <2>1 DEF Idle
    <3>3. QED
      BY <2>1, <3>1, <3>2
  <2>3. CASE p = call[c].proc /\ call[c].val
    <3>1. OldAnswer(p)
      BY <2>1, <2>3 DEF OldAnswer
    <3>2. QED
      BY <2>1, <3>1, <1>d
  <2>4. CASE ~(p = call[c].proc /\ call[c].val)
    <3>1. NoNewEntry
      BY <2>1, <2>4, <1>a DEF CacheOK
    <3>2. QED
      BY <1>1, <2>1, <2>2, <3>1
  <2>5. QED
    BY <2>3, <2>4
<1>7. ASSUME NEW q, WriteActive(q)
      PROVE  Refuses(p)'
  BY <1>7 DEF WriteActive
<1>8. CASE InvalidateActiveCache
  <2>1. active' = active /\ call' = call
    BY <1>8 DEF InvalidateActiveCache
  <2>2. CASE adm.proc = Elsewhere
    BY <1>1, <1>8, <2>1, <2>2 DEF InvalidateActiveCache
  <2>3. CASE adm.proc # Elsewhere
    <3>1. /\ cache' = [cache EXCEPT ![adm.proc] = [k \in Keys |-> NoEntry]]
          /\ clean' = [clean EXCEPT ![adm.proc] = ~active /\ ~OldAnswer(adm.proc)]
      BY <1>8, <2>3 DEF InvalidateActiveCache, Dropped
    <3>2. CASE p = adm.proc
      <4>1. \A k \in Keys : cache'[p][k] = NoEntry
        BY <3>1, <3>2, <1>a DEF CacheOK
      <4>2. clean'[p] = (~active /\ ~OldAnswer(p))
        BY <3>1, <3>2, <1>b DEF RestOK
      <4>3. OldAnswer(p)' <=> OldAnswer(p)
        BY <2>1 DEF OldAnswer
      <4>4. \A k \in Keys : ~cache'[p][k].val
        BY <4>1 DEF NoEntry
      <4>5. QED
        BY <4>2, <4>3, <4>4, <2>1
    <3>3. CASE p # adm.proc
      <4>1. cache'[p] = cache[p] /\ clean'[p] = clean[p]
        BY <3>1, <3>3, <1>a, <1>b DEF CacheOK, RestOK
      <4>2. QED
        BY <4>1, <2>1, <1>d DEF OldAnswer, Cached
    <3>4. QED
      BY <3>2, <3>3
  <2>4. QED
    BY <2>2, <2>3
<1>9. CASE Tick
  <2>1. active' = active /\ clean' = clean
    BY <1>9 DEF Tick
  <2>2. NoNewAnswer
    <3>1. ASSUME NEW c \in Callers
          PROVE  /\ call'[c].at = call[c].at /\ call'[c].proc = call[c].proc
                 /\ call'[c].val = call[c].val
      <4>1. call'[c] = call[c] \/ call'[c] = [call[c] EXCEPT !.age = Older(call[c].age)]
        BY <1>9 DEF Tick
      <4>2. QED
        BY <4>1, <1>a DEF CallOK, Call
    <3>2. QED
      BY <3>1
  <2>3. NoNewEntry
    <3>1. SUFFICES ASSUME NEW k \in Keys, cache'[p][k].left > 0, cache'[p][k].val
                   PROVE  cache[p][k].left > 0 /\ cache[p][k].val
      OBVIOUS
    <3>2. CASE cache[p][k].left > 1
      <4>1. cache'[p][k] = [cache[p][k] EXCEPT !.left = cache[p][k].left - 1]
        BY <1>9, <3>2 DEF Tick
      <4>2. cache'[p][k].val = cache[p][k].val
        BY <4>1, <1>a DEF CacheOK, Entry
      <4>3. cache[p][k].left \in Nat
        BY <1>a, FieldsOfEntry DEF Assumption
      <4>4. QED
        BY <4>2, <4>3, <3>1, <3>2
    <3>3. CASE ~(cache[p][k].left > 1)
      BY <1>9, <3>1, <3>3 DEF Tick, NoEntry
    <3>4. QED
      BY <3>2, <3>3
  <2>4. QED
    BY <1>1, <2>1, <2>2, <2>3
<1>10. ASSUME NEW q \in Procs, NEW j \in Keys, Evict(q, j)
       PROVE  Refuses(p)'
  <2>1. active' = active /\ clean' = clean /\ call' = call
    BY <1>10 DEF Evict
  <2>2. \A k \in Keys : cache'[p][k] = cache[p][k] \/ cache'[p][k] = NoEntry
    BY <1>10, <1>a DEF Evict, CacheOK
  <2>3. NoNewEntry
    BY <2>2 DEF NoEntry
  <2>4. QED
    BY <1>1, <2>1, <2>3
<1>11. CASE UNCHANGED vars
  BY <1>1, <1>11 DEF vars
<1>12. QED
  BY <1>2, <1>3, <1>4, <1>5, <1>6, <1>7, <1>8, <1>9, <1>10, <1>11 DEF Next, Proceed

-----------------------------------------------------------------------------

\* Every part of the invariant outlives a step.
LEMMA InvStep == ASSUME Assumption, Inv, [Next]_vars PROVE Inv'
<1>1. TypeOK'
  BY TypeStep DEF Inv
<1>2. AnswersAreRecent' /\ EntriesExpire' /\ AccessIsRecent'
  BY AnswersStep, EntriesStep, AccessStep
<1>3. CleanMeansInactive' /\ InvalidatedRefuses'
  BY CleanStep
<1>4. QED
  BY <1>1, <1>2, <1>3 DEF Inv

\* Entries live no longer than their lifetime, flights are of requests, and
\* whatever a request is doing it does for a process that exists.
THEOREM CacheTypeCorrect == ASSUME Assumption PROVE Spec => []TypeOK
<1>1. Init => TypeOK
  BY TypeInit
<1>2. TypeOK /\ [Next]_vars => TypeOK'
  BY TypeStep
<1>3. QED
  BY <1>1, <1>2, PTL DEF Spec

LEMMA InvImplies == ASSUME Assumption, Inv PROVE AccessEnds
<1>1. TypeOK /\ AccessIsRecent /\ InvalidatedRefuses
  BY DEF Inv
<1>2. PICK s \in Timeouts : stale < s + TTL
  BY <1>1 DEF AccessIsRecent
<1>3. ASSUME NEW t \in Timeouts, t >= LoadTimeout /\ t >= KeyTimeout
      PROVE  stale < t + TTL
  <2>1. s <= t /\ s \in Nat /\ t \in Nat
    BY <1>1, <1>3, Numbers DEF Timeouts
  <2>2. QED
    BY <1>1, <1>2, <2>1, Numbers
<1>4. QED
  BY <1>1, <1>3 DEF AccessEnds, StaleAccessBounded, Timeouts

\* The cache of is_active (user_active_cache.go): however requests, flights,
\* evictions and writes of the flag cross, a deactivated user is let through for
\* less than the longer timeout of a lookup and one lifetime, and a process that
\* has dropped its entries, with no old answer on its way, refuses.
THEOREM AccessAlwaysEnds == ASSUME Assumption PROVE Spec => []AccessEnds
<1>1. Init => Inv
  BY InvInit
<1>2. Inv /\ [Next]_vars => Inv'
  BY InvStep
<1>3. Inv => AccessEnds
  BY InvImplies
<1>4. QED
  BY <1>1, <1>2, <1>3, PTL DEF Spec

===============================================================================
