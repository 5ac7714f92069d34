----------------------------- MODULE ServiceAccess -----------------------------
(***************************************************************************)
(* How meeting-ai reaches transcript-service: HttpCanonicalTranscriptClient *)
(* with its two ServiceTokenClients, which cache a token each, and the      *)
(* ReloadingHttpClient under them, which replaces its connection pool when  *)
(* the TLS files have changed (meeting_service_client.py).                  *)
(*                                                                          *)
(* Coroutines share one event loop; the lock of the pool is never held      *)
(* across an await, so what it guards is one step.  The files are replaced  *)
(* from outside, also while such a step runs.                               *)
(***************************************************************************)
EXTENDS Integers, FiniteSets

CONSTANTS
  Callers,         \* the coroutines that may be in fetch or capability_for
  Caches,          \* _snapshot_tokens, _capability_tokens
  MaxRotations,    \* bound: how often the files are replaced
  MaxTokens,       \* bound: tokens issued
  MaxShutdowns     \* bound: stops of the runtime that owns the client

VARIABLES
  files,           \* the version of the TLS files
  pools,           \* pool -> the version it was built from; 1, 2, ... as they are created
  owned,           \* _owned_client, or 0
  fingerprint,     \* _fingerprint, or -1
  due,             \* now >= _next_check
  active, retired, closed,   \* _active_requests, _retired_clients; the pools closed
  cached, holder,  \* cache -> its token, or 0; who holds its lock, or {}
  issued, rejected,   \* tokens issued so far; those that were answered 401
  at, cache, token, pool,    \* a caller: where it is, the cache it uses, its token and its pool, or 0
  closing,         \* caller -> the pool it is closing, or 0
  shutdowns

poolVars == <<files, pools, owned, fingerprint, due, active, retired, closed>>
tokenVars == <<cached, holder, issued, rejected>>
callerVars == <<at, cache, token, pool, closing>>
accessVars == <<poolVars, tokenVars, callerVars, shutdowns>>

-----------------------------------------------------------------------------
\* What is taken for granted of the constants, by the runs and by the proofs.
AccessAssumption ==
  /\ IsFiniteSet(Callers) /\ Caches # {}
  /\ MaxRotations \in Nat /\ MaxTokens \in Nat /\ MaxShutdowns \in Nat

Versions == 0..MaxRotations

MaxPools == MaxRotations + 1 + MaxShutdowns

Pools == DOMAIN pools

InFlight(p) == {c \in Callers : at[c] \in {"tokenPost", "request"} /\ pool[c] = p}

GoTo(c, where) == at' = [at EXCEPT ![c] = where]

\* An attempt ends; the lock of the cache is free again if it was held.
Return(c) ==
  /\ GoTo(c, "idle")
  /\ token' = [token EXCEPT ![c] = 0] /\ pool' = [pool EXCEPT ![c] = 0]
  /\ holder' = [k \in Caches |-> holder[k] \ {c}]

\* get_token finds a token in the cache, or waits for the lock.
Call(c, k) ==
  /\ at[c] = "idle" /\ closing[c] = 0
  /\ cache' = [cache EXCEPT ![c] = k]
  /\ token' = [token EXCEPT ![c] = cached[k]]
  /\ GoTo(c, IF cached[k] # 0 THEN "pool" ELSE "lock")
  /\ UNCHANGED <<poolVars, tokenVars, pool, closing, shutdowns>>

\* With the lock it looks again: another caller may have been first.
Lock(c) ==
  LET k == cache[c]
  IN  /\ at[c] = "lock" /\ holder[k] = {}
      /\ token' = [token EXCEPT ![c] = cached[k]]
      /\ IF cached[k] # 0 THEN GoTo(c, "pool") /\ UNCHANGED holder
         ELSE GoTo(c, "tokenPool") /\ holder' = [holder EXCEPT ![k] = {c}]
      /\ UNCHANGED <<poolVars, cached, issued, rejected, cache, pool, closing, shutdowns>>

-----------------------------------------------------------------------------
(* The pool. *)

Use(c, p, counts) ==
  /\ active' = [counts EXCEPT ![p] = @ + 1]
  /\ pool' = [pool EXCEPT ![c] = p]
  /\ GoTo(c, IF at[c] = "tokenPool" THEN "tokenPost" ELSE "request")
  /\ UNCHANGED <<token, holder>>

CheckDue == owned = 0 \/ due

AcquireOwned(c) ==
  /\ at[c] \in {"tokenPool", "pool"}
  /\ owned # 0 /\ (CheckDue => fingerprint = files)
  /\ due' = FALSE
  /\ Use(c, owned, active)
  /\ UNCHANGED <<files, pools, owned, fingerprint, retired, closed, cached, issued, rejected, cache, closing, shutdowns>>

\* Mutant: the files are loaded before their stat is taken.
LoadedFirst(before, after) == [stat |-> after, loaded |-> before]

\* The files may be replaced after their stat is taken and before they are loaded.
StatFirst(before, after) == [stat |-> before, loaded |-> after]

Reloaded(before, after) == StatFirst(before, after)

\* A changed file makes a new pool; the old one is closed, at once or by the last
\* request that uses it.
AcquireReloaded(c) ==
  /\ at[c] \in {"tokenPool", "pool"}
  /\ CheckDue /\ (owned = 0 \/ fingerprint # files)
  /\ Cardinality(Pools) < MaxPools
  /\ \E after \in {files, files + 1} \cap Versions :
       LET new == Cardinality(Pools) + 1
           read == Reloaded(files, after)
       IN  /\ files' = after
           /\ fingerprint' = read.stat
           /\ pools' = [p \in 1..new |-> IF p = new THEN read.loaded ELSE pools[p]]
           /\ owned' = new
           /\ Use(c, new, [p \in 1..new |-> IF p = new THEN 0 ELSE active[p]])
  /\ due' = FALSE
  /\ IF owned # 0 /\ active[owned] > 0
     THEN retired' = retired \cup {owned} /\ UNCHANGED closing
     ELSE closing' = [closing EXCEPT ![c] = owned] /\ UNCHANGED retired
  /\ UNCHANGED <<closed, cached, issued, rejected, cache, shutdowns>>

\* MeetingServiceTlsError: a file is missing, or what was read of them does not
\* fit together.  Only after a stat that succeeded does the interval begin anew.
AcquireFails(c) ==
  /\ at[c] \in {"tokenPool", "pool"} /\ CheckDue
  /\ due' \in IF owned = 0 \/ fingerprint # files THEN {due, FALSE} ELSE {due}
  /\ Return(c)
  /\ UNCHANGED <<files, pools, owned, fingerprint, active, retired, closed, cached, issued, rejected, cache, closing, shutdowns>>

\* _release_client: the last request closes a retired pool.
Release(c) ==
  LET p == pool[c]
  IN  /\ active' = [active EXCEPT ![p] = @ - 1]
      /\ IF p \in retired /\ active[p] <= 1
         THEN retired' = retired \ {p} /\ closing' = [closing EXCEPT ![c] = p]
         ELSE UNCHANGED <<retired, closing>>
      /\ UNCHANGED <<files, pools, owned, fingerprint, due, closed>>

ClosePool(c) ==
  /\ closing[c] # 0
  /\ closed' = closed \cup {closing[c]} /\ closing' = [closing EXCEPT ![c] = 0]
  /\ UNCHANGED <<files, pools, owned, fingerprint, due, active, retired, tokenVars, at, cache, token, pool, shutdowns>>

-----------------------------------------------------------------------------
(* Requests. *)

\* The token service answers, refuses or is not reached.
TokenAnswer(c) ==
  /\ at[c] = "tokenPost" /\ closing[c] = 0
  /\ Release(c)
  /\ pool' = [pool EXCEPT ![c] = 0]
  /\ GoTo(c, "tokenBody")
  /\ UNCHANGED <<tokenVars, cache, token, shutdowns>>

\* A token is cached until shortly before it expires, which may be now.
TakeToken(c) ==
  /\ at[c] = "tokenBody" /\ closing[c] = 0 /\ issued < MaxTokens
  /\ issued' = issued + 1
  /\ cached' \in {[cached EXCEPT ![cache[c]] = t] : t \in {0, issued'}}
  /\ token' = [token EXCEPT ![c] = issued']
  /\ holder' = [holder EXCEPT ![cache[c]] = {}]
  /\ GoTo(c, "pool")
  /\ UNCHANGED <<poolVars, rejected, cache, pool, closing, shutdowns>>

TokenRefused(c) ==
  /\ at[c] = "tokenBody" /\ closing[c] = 0
  /\ Return(c)
  /\ UNCHANGED <<poolVars, cached, issued, rejected, cache, closing, shutdowns>>

\* Mutant: a token that was refused stays in the cache.
Kept(k) == cached

Invalidated(k) == [cached EXCEPT ![k] = 0]

\* A snapshot or a capability, or an error of one kind or the other; after 401
\* whatever the cache holds by then is dropped.
ServiceAnswer(c) ==
  /\ at[c] = "request" /\ closing[c] = 0
  /\ \/ UNCHANGED <<cached, rejected>>
     \/ rejected' = rejected \cup {token[c]} /\ cached' = Invalidated(cache[c])
  /\ Release(c)
  /\ Return(c)
  /\ UNCHANGED <<issued, cache, shutdowns>>

-----------------------------------------------------------------------------
Rotate ==
  /\ files < MaxRotations /\ files' = files + 1
  /\ UNCHANGED <<pools, owned, fingerprint, due, active, retired, closed, tokenVars, callerVars, shutdowns>>

IntervalEnds ==
  /\ ~due /\ due' = TRUE
  /\ UNCHANGED <<files, pools, owned, fingerprint, active, retired, closed, tokenVars, callerVars, shutdowns>>

Expire(k) ==
  /\ cached[k] # 0 /\ cached' = [cached EXCEPT ![k] = 0]
  /\ UNCHANGED <<poolVars, holder, issued, rejected, callerVars, shutdowns>>

\* The task of the runtime is joined or cancelled, then aclose: every request
\* gives its pool back, and every pool is closed.  It may be started again.
Shutdown ==
  /\ shutdowns < MaxShutdowns /\ shutdowns' = shutdowns + 1
  /\ owned' = 0 /\ fingerprint' = -1 /\ retired' = {} /\ closed' = Pools
  /\ active' = [p \in Pools |-> 0]
  /\ at' = [c \in Callers |-> "idle"] /\ holder' = [k \in Caches |-> {}]
  /\ token' = [c \in Callers |-> 0] /\ pool' = [c \in Callers |-> 0] /\ closing' = [c \in Callers |-> 0]
  /\ UNCHANGED <<files, pools, due, cached, issued, rejected, cache>>

AccessInit ==
  /\ files = 0 /\ pools = <<>> /\ owned = 0 /\ fingerprint = -1 /\ due = TRUE
  /\ active = <<>> /\ retired = {} /\ closed = {}
  /\ cached = [k \in Caches |-> 0] /\ holder = [k \in Caches |-> {}]
  /\ issued = 0 /\ rejected = {}
  /\ at = [c \in Callers |-> "idle"] /\ cache \in [Callers -> {CHOOSE k \in Caches : TRUE}]
  /\ token = [c \in Callers |-> 0] /\ pool = [c \in Callers |-> 0] /\ closing = [c \in Callers |-> 0]
  /\ shutdowns = 0

Attempt(c) ==
  \/ \E k \in Caches : Call(c, k)
  \/ Lock(c) \/ AcquireOwned(c) \/ AcquireReloaded(c) \/ AcquireFails(c) \/ ClosePool(c)
  \/ TokenAnswer(c) \/ TakeToken(c) \/ TokenRefused(c) \/ ServiceAnswer(c)

AccessNext ==
  \/ \E c \in Callers : Attempt(c)
  \/ \E k \in Caches : Expire(k)
  \/ Rotate \/ IntervalEnds \/ Shutdown

AccessSpec == AccessInit /\ [][AccessNext]_accessVars

-----------------------------------------------------------------------------
AccessTypes ==
  /\ files \in Versions /\ fingerprint \in Versions \cup {-1}
  /\ owned \in Pools \cup {0} /\ retired \subseteq Pools /\ closed \subseteq Pools
  /\ issued \in 0..MaxTokens /\ shutdowns \in 0..MaxShutdowns
  /\ \A c \in Callers : token[c] \in 0..issued /\ closing[c] \in Pools \cup {0}

\* Nobody's connection is closed under a request, and a pool that was replaced is
\* closed: requests are counted exactly (ReloadingHttpClient).
PoolsSound ==
  /\ \A p \in Pools : active[p] = Cardinality(InFlight(p))
  /\ \A p \in closed : InFlight(p) = {} /\ p # owned
  /\ \A p \in retired : InFlight(p) # {}
  /\ Pools \ {owned} = closed \cup retired \cup {closing[c] : c \in {d \in Callers : closing[d] # 0}}

\* The pool in use was built from files at least as new as their fingerprint says:
\* as long as the two agree, a check that finds nothing to do misses no rotation.
NoRotationMissed == owned # 0 => pools[owned] >= fingerprint

\* One caller at a time asks for a token of a cache, and no token is used after
\* some caller has seen it refused, but by those that already had it.
TokensSound ==
  /\ \A k \in Caches : Cardinality({c \in Callers : cache[c] = k /\ at[c] \in {"tokenPool", "tokenPost", "tokenBody"}}) <= 1
  /\ \A k \in Caches : cached[k] \notin rejected

\* What may go wrong when credentials change under running requests does not: no pool is
\* closed under a request or leaked, no rotation missed, no refused token kept.
AccessSound == AccessTypes /\ PoolsSound /\ NoRotationMissed /\ TokensSound

=============================================================================
