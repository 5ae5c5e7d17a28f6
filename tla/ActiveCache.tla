---------------------------- MODULE ActiveCache ----------------------------
(***************************************************************************)
(* The is_active recheck of AllureDeck: every authenticated request asks   *)
(* whether the user behind its token or API key is still active, and each  *)
(* server process (API replica or MCP server) answers from a cache of its  *)
(* own, filled by lookups that concurrent requests share.                  *)
(*                                                                         *)
(* One user, with a token of a local login, a token of the identity        *)
(* provider and an API key. The token kinds are looked up under a key of   *)
(* their own; an API key is resolved by the email of its owner, always in  *)
(* the database, and what it finds is stored under the numeric id.         *)
(*                                                                         *)
(* Time is discrete and passes while the database works on a lookup; the   *)
(* code around it takes no time. Instants are kept as ages and as the time *)
(* that is left, so the clock itself is not part of the state.             *)
(***************************************************************************)
EXTENDS Naturals

CONSTANTS
    Procs,        \* server processes that get requests, each with its cache
    Elsewhere,    \* the administrator's process when it is none of these
    Callers,      \* requests in flight
    TTL,          \* UserActiveTTL
    LoadTimeout,  \* userActiveLoadTimeout: bounds a shared lookup
    KeyTimeout,   \* DB_STATEMENT_TIMEOUT: bounds the lookup of an API key
    Horizon,      \* bound: longer ages are not told apart
    NoCaller

Assumption ==
    /\ {TTL, LoadTimeout, KeyTimeout, Horizon} \subseteq Nat \ {0}
    /\ NoCaller \notin Callers
    /\ Elsewhere \notin Procs /\ Procs # {}

VARIABLES
    active,  \* users.is_active
    ago,     \* how long ago it was last written
    cache,   \* entries: the flag and the time until it expires
    flight,  \* flights: the request that performs the lookup of a key
    call,    \* requests: label and local variables
    adm,     \* the administrator's request, and the process it runs on
    stale,   \* history: age of the deactivation the last admitted request missed
    clean    \* history: the process has dropped what it knew of a deactivated user

vars == <<active, ago, cache, flight, call, adm, stale, clean>>

Age    == 0 .. Horizon
Keys   == {"id", "oidc"}
LookupKinds  == Keys \union {"apikey"}
Labels == {"idle", "load", "store", "done", "wait"}

NoEntry  == [val |-> FALSE, left |-> 0]
SomeProc == CHOOSE p \in Procs : TRUE
Idle     == [at |-> "idle", proc |-> SomeProc, kind |-> "id", val |-> FALSE, age |-> 0]

TypeOK ==
    /\ active \in BOOLEAN
    /\ ago \in Age
    /\ cache \in [Procs -> [Keys -> [val : BOOLEAN, left : 0 .. TTL]]]
    /\ flight \in [Procs -> [Keys -> Callers \union {NoCaller}]]
    /\ call \in [Callers -> [at : Labels, proc : Procs, kind : LookupKinds,
                             val : BOOLEAN, age : 0 .. Horizon]]
    /\ adm \in [at : {"idle", "drop"}, proc : Procs \union {Elsewhere}]
    /\ stale \in Age
    /\ clean \in [Procs -> BOOLEAN]

Init ==
    /\ active = TRUE
    /\ ago = 0
    /\ cache = [p \in Procs |-> [k \in Keys |-> NoEntry]]
    /\ flight = [p \in Procs |-> [k \in Keys |-> NoCaller]]
    /\ call = [c \in Callers |-> Idle]
    /\ adm = [at |-> "idle", proc |-> Elsewhere]
    /\ stale = 0
    /\ clean = [p \in Procs |-> FALSE]

-----------------------------------------------------------------------------
(* The key a request's answer is stored under. *)
KeyOf(kind) == IF kind = "apikey" THEN "id" ELSE kind

Timeout(kind) == IF kind = "apikey" THEN KeyTimeout ELSE LoadTimeout

(* An entry is used before it expires, not at that moment. *)
Cached(p, k) == cache[p][k].left > 0

(* A request is let through although the user has been deactivated: how    *)
(* long ago.                                                               *)
Missed(val) == IF val /\ ~active THEN ago ELSE 0

-----------------------------------------------------------------------------
(* lookup: a hit answers; a miss joins the flight of its key or starts it. *)
(* A flight that has its answer is joined until it is taken off the map.   *)

(* Mutant: a hit prolongs the entry. *)
HitProlongs(c, p, k) ==
    /\ call[c].at = "idle"
    /\ Cached(p, k)
    /\ stale' = Missed(cache[p][k].val)
    /\ cache' = [cache EXCEPT ![p][k].left = TTL]
    /\ UNCHANGED <<active, ago, flight, call, adm, clean>>

Hit(c, p, k) ==
    /\ call[c].at = "idle"
    /\ Cached(p, k)
    /\ stale' = Missed(cache[p][k].val)
    /\ UNCHANGED <<active, ago, cache, flight, call, adm, clean>>

StartFlight(c, p, k) ==
    /\ call[c].at = "idle"
    /\ ~Cached(p, k)
    /\ flight[p][k] = NoCaller
    /\ flight' = [flight EXCEPT ![p][k] = c]
    /\ call' = [call EXCEPT ![c] = [at |-> "load", proc |-> p, kind |-> k,
                                    val |-> FALSE, age |-> 0]]
    /\ UNCHANGED <<active, ago, cache, adm, stale, clean>>

JoinFlight(c, p, k) ==
    LET owner == flight[p][k] IN
    /\ call[c].at = "idle"
    /\ ~Cached(p, k)
    /\ owner # NoCaller
    /\ IF call[owner].at = "done"
       THEN stale' = Missed(call[owner].val) /\ UNCHANGED call
       ELSE /\ call' = [call EXCEPT ![c] = [at |-> "wait", proc |-> p, kind |-> k,
                                            val |-> FALSE, age |-> 0]]
            /\ UNCHANGED stale
    /\ UNCHANGED <<active, ago, cache, flight, adm, clean>>

(* ResolveAPIKeyUsername by email: neither the cache nor a flight is       *)
(* asked.                                                                  *)
ResolveKey(c, p) ==
    /\ call[c].at = "idle"
    /\ call' = [call EXCEPT ![c] = [at |-> "load", proc |-> p, kind |-> "apikey",
                                    val |-> FALSE, age |-> 0]]
    /\ UNCHANGED <<active, ago, cache, flight, adm, stale, clean>>

(* GetByID or GetByEmail sees the row; its answer is still on its way. *)
ReadUser(c) ==
    /\ call[c].at = "load"
    /\ call' = [call EXCEPT ![c].at = "store", ![c].val = active]
    /\ UNCHANGED <<active, ago, cache, flight, adm, stale, clean>>

Waiters(c) == {d \in Callers : /\ call[d].at = "wait"
                               /\ call[d].proc = call[c].proc
                               /\ call[d].kind = call[c].kind}

Ended(S) == [c \in Callers |-> IF c \in S THEN Idle ELSE call[c]]

(* The flights a request takes off the map when it ends. *)
Landed(c) ==
    [p \in Procs |-> [k \in Keys |-> IF flight[p][k] = c THEN NoCaller ELSE flight[p][k]]]

(* The lookup fails or times out: nothing is cached, everybody who waited  *)
(* is refused (503).                                                       *)
ReadFails(c) ==
    /\ call[c].at \in {"load", "store"}
    /\ flight' = Landed(c)
    /\ call' = Ended({c} \union Waiters(c))
    /\ UNCHANGED <<active, ago, cache, adm, stale, clean>>

(* Mutant: the lifetime counts from the timeout of the lookup. *)
LifetimeAfterLoad == TTL + LoadTimeout

Lifetime == TTL

(* storeEntry, and wg.Done, which answers those who waited. *)
StoreEntry(c) ==
    LET p == call[c].proc
        k == KeyOf(call[c].kind)
    IN
    /\ call[c].at = "store"
    /\ cache' = [cache EXCEPT ![p][k] = [val |-> call[c].val, left |-> Lifetime]]
    /\ stale' = Missed(call[c].val)
    /\ IF call[c].kind = "apikey"
       THEN call' = Ended({c})
       ELSE call' = [Ended(Waiters(c)) EXCEPT ![c].at = "done"]
    /\ UNCHANGED <<active, ago, flight, adm, clean>>

EndFlight(c) ==
    /\ call[c].at = "done"
    /\ stale' = Missed(call[c].val)
    /\ flight' = Landed(c)
    /\ call' = Ended({c})
    /\ UNCHANGED <<active, ago, cache, adm, clean>>

(* The cap on entries: other users push this one's out. *)
Evict(p, k) ==
    /\ Cached(p, k)
    /\ cache' = [cache EXCEPT ![p][k] = NoEntry]
    /\ UNCHANGED <<active, ago, flight, call, adm, stale, clean>>

-----------------------------------------------------------------------------
(* UpdateActive and Deactivate on one process, then its cache. The caches  *)
(* of the others hear nothing.                                             *)

WriteActive(p) ==
    /\ adm.at = "idle"
    /\ active' = ~active
    /\ ago' = 0
    /\ adm' = [at |-> "drop", proc |-> p]
    /\ clean' = [q \in Procs |-> FALSE]
    /\ UNCHANGED <<cache, flight, call, stale>>

(* Mutant: only the entry under the numeric id is dropped. *)
DroppedById(p) == [cache EXCEPT ![p]["id"] = NoEntry]

(* invalidateActiveCache: both keys. *)
Dropped(p) == [cache EXCEPT ![p] = [k \in Keys |-> NoEntry]]

(* A lookup has read the flag before it was written. *)
OldAnswer(p) ==
    \E c \in Callers : /\ call[c].proc = p /\ call[c].at \in {"store", "done"}
                       /\ call[c].val

InvalidateActiveCache ==
    LET p == adm.proc IN
    /\ adm.at = "drop"
    /\ IF p = Elsewhere THEN UNCHANGED <<cache, clean>>
       ELSE /\ cache' = Dropped(p)
            /\ clean' = [clean EXCEPT ![p] = ~active /\ ~OldAnswer(p)]
    /\ adm' = [at |-> "idle", proc |-> Elsewhere]
    /\ UNCHANGED <<active, ago, flight, call, stale>>

(* Time passes while requests wait for the database, as long as none of    *)
(* them has waited for its whole timeout.                                  *)
Older(n) == IF n < Horizon THEN n + 1 ELSE n

InDatabase(c) == call[c].at \in {"load", "store"}

Tick ==
    /\ \A c \in Callers : /\ InDatabase(c) => call[c].age < Timeout(call[c].kind)
                          /\ call[c].at # "done"
    /\ adm.at = "idle"
    /\ ago' = Older(ago)
    /\ call' = [c \in Callers |-> IF InDatabase(c) THEN [call[c] EXCEPT !.age = Older(@)]
                                 ELSE call[c]]
    /\ cache' = [p \in Procs |-> [k \in Keys |->
                   IF cache[p][k].left > 1 THEN [cache[p][k] EXCEPT !.left = @ - 1]
                   ELSE NoEntry]]
    /\ UNCHANGED <<active, flight, adm, stale, clean>>

Lookup(c, p, k) == Hit(c, p, k) \/ StartFlight(c, p, k) \/ JoinFlight(c, p, k)

(* What a request in flight does by itself. *)
Proceed(c) == ReadUser(c) \/ ReadFails(c) \/ StoreEntry(c) \/ EndFlight(c)

Next ==
    \/ \E c \in Callers, p \in Procs :
         \/ \E k \in Keys : Lookup(c, p, k)
         \/ ResolveKey(c, p)
    \/ \E c \in Callers : Proceed(c)
    \/ \E p \in Procs, k \in Keys : Evict(p, k)
    \/ \E p \in Procs \union {Elsewhere} : WriteActive(p)
    \/ InvalidateActiveCache
    \/ Tick

Spec == Init /\ [][Next]_vars

(* The lookup is bounded by its timeout and goroutines that can run do. *)
FairSpec == Spec /\ \A c \in Callers : WF_vars(Proceed(c))

-----------------------------------------------------------------------------
(* A request that is let through although the user is deactivated comes    *)
(* less than one lookup and one TTL after the deactivation, on whatever    *)
(* process, whatever lookups and invalidations cross (UserActiveCache).    *)
StaleAccessBounded ==
    \A t \in {LoadTimeout, KeyTimeout} :
        t >= LoadTimeout /\ t >= KeyTimeout => stale < t + TTL

(* Once the process that deactivated the user has dropped its entries, and *)
(* no lookup there was about to store the old flag, nothing makes that     *)
(* process let the user through again (invalidateActiveCache).             *)
InvalidatedRefuses ==
    \A p \in Procs : clean[p] =>
        /\ \A k \in Keys : Cached(p, k) => ~cache[p][k].val
        /\ ~OldAnswer(p)

(* A deactivation ends the access there was: late where nobody is told, at *)
(* once where the cache is.                                                *)
AccessEnds == StaleAccessBounded /\ InvalidatedRefuses

(* Every request is answered: those who wait for another's lookup too,     *)
(* whether it succeeds, fails or times out (lookup).                       *)
CallersAnswered == \A c \in Callers : call[c].at # "idle" ~> call[c].at = "idle"

(* "this is how long a deactivated user keeps access there"                *)
(* (UserActiveTTL, user_active_cache.go): the TTL.                         *)
StaleWithinTTL == stale < TTL

=============================================================================
