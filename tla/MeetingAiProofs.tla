--------------------------- MODULE MeetingAiProofs ---------------------------
(* Four parts of meeting-ai that share no state, machine-checked one by one   *)
(* for every value of the constants: the access to other services, for any    *)
(* number of coroutines, caches, rotations, tokens and restarts; the opening  *)
(* of the store, for any number of processes, events and faults; the          *)
(* execution of analyses, for any number of requests, slots and subscribers;  *)
(* and what an analysis may say, for any words, readings and answers.         *)
EXTENDS MeetingAi, SequencesExt, FiniteSetTheorems, SequenceTheorems, WellFoundedInduction, TLAPS

-----------------------------------------------------------------------------
(* ServiceAccess.  The invariant adds to AccessSound what each caller holds at *)
(* each place: its pool, the lock of its cache, and a token of no other cache  *)
(* than its own.                                                               *)

Sending == {"tokenPost", "request"}

Asking == {"tokenPool", "tokenPost", "tokenBody"}

Places == Asking \cup {"idle", "lock", "pool", "request"}

PoolTypes ==
  /\ files \in Versions /\ fingerprint \in Versions \cup {-1} /\ fingerprint <= files
  /\ Cardinality(Pools) \in Nat /\ Pools = 1..Cardinality(Pools)
  /\ pools \in [Pools -> Versions] /\ active \in [Pools -> Int]
  /\ owned \in Pools \cup {0} /\ retired \subseteq Pools /\ closed \subseteq Pools

CallerTypes ==
  /\ at \in [Callers -> Places] /\ cache \in [Callers -> Caches] /\ token \in [Callers -> 0..issued]
  /\ pool \in [Callers -> Pools \cup {0}] /\ closing \in [Callers -> Pools \cup {0}]
  /\ \A c \in Callers : pool[c] # 0 <=> at[c] \in Sending
  /\ \A c \in Callers : at[c] \in {"lock", "tokenPool", "pool"} => closing[c] = 0

TokenTypes ==
  /\ issued \in 0..MaxTokens /\ rejected \subseteq 0..issued
  /\ cached \in [Caches -> 0..issued] /\ holder \in [Caches -> SUBSET Callers]
  /\ shutdowns \in 0..MaxShutdowns

\* The pools: who uses one, and which are closed, retired or being closed.
Users(p) == {c \in Callers : pool[c] = p}

Closing == {closing[c] : c \in {d \in Callers : closing[d] # 0}}

Counts == \A p \in Pools : active[p] = Cardinality(Users(p))

Separate ==
  /\ \A p \in closed \cup Closing : Users(p) = {} /\ p # owned /\ p \notin retired
  /\ \A p \in retired : Users(p) # {} /\ p # owned
  /\ Pools \ {owned} = closed \cup retired \cup Closing

\* The tokens: the lock of a cache is held by the one that asks, and no token is in two caches.
Locked == \A c \in Callers : at[c] \in Asking => holder[cache[c]] = {c}

Distinct ==
  /\ \A c \in Callers : at[c] \in {"pool", "request"} => token[c] # 0
  /\ 0 \notin rejected /\ \A k \in Caches : cached[k] \notin rejected
  /\ \A j, k \in Caches : cached[j] = cached[k] /\ cached[j] # 0 => j = k
  /\ \A c \in Callers, k \in Caches : token[c] # 0 /\ cached[k] = token[c] => k = cache[c]

AccessInv ==
  /\ PoolTypes /\ CallerTypes /\ TokenTypes
  /\ Counts /\ Separate /\ NoRotationMissed
  /\ Locked /\ Distinct

-----------------------------------------------------------------------------
(* Types. *)

LEMMA InitTypes ==
  ASSUME AccessAssumption, AccessInit
  PROVE  PoolTypes /\ CallerTypes /\ TokenTypes
<1>1. Pools = {} /\ Pools = 1..0 /\ Cardinality(Pools) = 0
  BY FS_EmptySet DEF AccessInit, Pools
<1>2. PoolTypes
  BY <1>1 DEF AccessInit, PoolTypes, Versions, AccessAssumption
<1>3. CallerTypes
  BY <1>1 DEF AccessInit, CallerTypes, AccessAssumption, Places, Sending, Asking
<1>4. TokenTypes
  BY DEF AccessInit, TokenTypes, AccessAssumption
<1> QED
  BY <1>2, <1>3, <1>4

LEMMA PoolTypesKept ==
  ASSUME AccessAssumption, PoolTypes, CallerTypes, [AccessNext]_accessVars
  PROVE  PoolTypes'
<1>1. CASE \E c \in Callers : AcquireReloaded(c)
  <2>1. PICK c \in Callers : AcquireReloaded(c)
    BY <1>1
  <2> DEFINE new == Cardinality(Pools) + 1
  <2>2. PICK after \in {files, files + 1} \cap Versions :
          /\ files' = after /\ fingerprint' = files /\ owned' = new /\ due' = FALSE
          /\ pools' = [p \in 1..new |-> IF p = new THEN after ELSE pools[p]]
          /\ active' = [[p \in 1..new |-> IF p = new THEN 0 ELSE active[p]] EXCEPT ![new] = @ + 1]
    BY <2>1 DEF AcquireReloaded, Use, Reloaded, StatFirst
  <2>3. /\ new \in Nat /\ Pools' = 1..new /\ Pools \subseteq Pools'
        /\ \A p \in Pools' : p # new => p \in Pools
    BY <2>2 DEF Pools, PoolTypes
  <2>4. pools' \in [Pools' -> Versions] /\ active' \in [Pools' -> Int] /\ Cardinality(Pools') = new
    <3>1. pools' \in [Pools' -> Versions]
      BY <2>2, <2>3 DEF PoolTypes
    <3>2. active' \in [Pools' -> Int]
      BY <2>2, <2>3 DEF PoolTypes
    <3>3. Cardinality(1..new) = new
      BY <2>3, FS_Interval
    <3> QED
      BY <2>3, <3>1, <3>2, <3>3
  <2>5. retired' \subseteq Pools' /\ closed' \subseteq Pools'
    BY <2>1, <2>3 DEF AcquireReloaded, PoolTypes
  <2> QED
    BY <2>2, <2>3, <2>4, <2>5 DEF PoolTypes, Versions, AccessAssumption
<1>2. CASE \E c \in Callers : AcquireOwned(c)
  BY <1>2 DEF AcquireOwned, Use, PoolTypes, Pools
<1>3. CASE \E c \in Callers : TokenAnswer(c) \/ ServiceAnswer(c)
  <2>1. PICK c \in Callers : Release(c) /\ at[c] \in Sending
    BY <1>3 DEF TokenAnswer, ServiceAnswer, Sending
  <2>2. UNCHANGED <<files, pools, owned, fingerprint, closed>> /\ retired' \subseteq retired
    BY <2>1 DEF Release
  <2>3. pool[c] \in Pools
    BY <2>1 DEF CallerTypes
  <2>4. active' \in [Pools -> Int]
    BY <2>1, <2>3 DEF Release, PoolTypes
  <2> QED
    BY <2>2, <2>4 DEF PoolTypes, Pools
<1>4. CASE Shutdown
  BY <1>4 DEF Shutdown, PoolTypes, Pools, Versions, AccessAssumption
<1>5. CASE \E c \in Callers : ClosePool(c)
  BY <1>5 DEF ClosePool, PoolTypes, Pools, CallerTypes
<1>6. CASE Rotate \/ IntervalEnds
  BY <1>6 DEF Rotate, IntervalEnds, PoolTypes, Pools, Versions, AccessAssumption
<1>7. CASE \E c \in Callers : AcquireFails(c)
  BY <1>7 DEF AcquireFails, PoolTypes, Pools
<1>8. CASE UNCHANGED poolVars
  BY <1>8 DEF poolVars, PoolTypes, Pools
<1> QED
  BY <1>1, <1>2, <1>3, <1>4, <1>5, <1>6, <1>7, <1>8
  DEF AccessNext, Attempt, Call, Lock, TakeToken, TokenRefused, Expire, accessVars

LEMMA CallerTypesKept ==
  ASSUME AccessAssumption, PoolTypes, CallerTypes, TokenTypes, [AccessNext]_accessVars
  PROVE  CallerTypes'
<1>1. CASE \E c \in Callers, k \in Caches : Call(c, k)
  BY <1>1
     DEF Call, GoTo, CallerTypes, TokenTypes, tokenVars, poolVars, Pools, Places, Sending, Asking
<1>2. CASE \E c \in Callers : Lock(c)
  BY <1>2 DEF Lock, GoTo, CallerTypes, TokenTypes, poolVars, Pools, Places, Sending, Asking
<1>3. CASE \E c \in Callers : AcquireOwned(c)
  <2>1. PICK c \in Callers : AcquireOwned(c)
    BY <1>3
  <2>2. /\ at' = [at EXCEPT ![c] = IF at[c] = "tokenPool" THEN "tokenPost" ELSE "request"]
        /\ pool' = [pool EXCEPT ![c] = owned] /\ owned \in Pools /\ owned # 0
        /\ UNCHANGED <<pools, cache, token, closing, issued>>
    BY <2>1 DEF AcquireOwned, Use, GoTo, PoolTypes
  <2> QED
    BY <2>2 DEF CallerTypes, Pools, Places, Sending, Asking
<1>4. CASE \E c \in Callers : AcquireReloaded(c)
  <2>1. PICK c \in Callers : AcquireReloaded(c)
    BY <1>4
  <2> DEFINE new == Cardinality(Pools) + 1
  <2>2. /\ at' = [at EXCEPT ![c] = IF at[c] = "tokenPool" THEN "tokenPost" ELSE "request"]
        /\ pool' = [pool EXCEPT ![c] = new] /\ DOMAIN pools' = 1..new
        /\ UNCHANGED <<cache, token, issued>>
    BY <2>1 DEF AcquireReloaded, Use, GoTo
  <2>3. new \in Pools' /\ new # 0 /\ Pools \subseteq Pools'
    BY <2>2 DEF PoolTypes, Pools
  <2>4. closing' = closing \/ closing' = [closing EXCEPT ![c] = owned]
    BY <2>1 DEF AcquireReloaded
  <2>5. owned \in Pools \cup {0}
    BY DEF PoolTypes
  <2>6. closing' \in [Callers -> Pools' \cup {0}]
    BY <2>3, <2>4, <2>5 DEF CallerTypes
  <2>7. \A d \in Callers : at'[d] \in {"lock", "tokenPool", "pool"} => closing'[d] = 0
    BY <2>2, <2>4 DEF CallerTypes
  <2> QED
    BY <2>2, <2>3, <2>6, <2>7 DEF CallerTypes, Places, Sending, Asking
<1>5. CASE \E c \in Callers : AcquireFails(c) \/ TokenRefused(c)
  <2>1. PICK c \in Callers : Return(c) /\ UNCHANGED <<pools, cache, closing, issued>>
    BY <1>5 DEF AcquireFails, TokenRefused, poolVars
  <2> QED
    BY <2>1 DEF Return, GoTo, CallerTypes, TokenTypes, Pools, Places, Sending, Asking
<1>6. CASE \E c \in Callers : TokenAnswer(c) \/ ServiceAnswer(c)
  <2> PICK c \in Callers : TokenAnswer(c) \/ ServiceAnswer(c)
    BY <1>6
  <2>1. /\ \/ at' = [at EXCEPT ![c] = "tokenBody"] /\ token' = token
           \/ at' = [at EXCEPT ![c] = "idle"] /\ token' = [token EXCEPT ![c] = 0]
        /\ pool' = [pool EXCEPT ![c] = 0] /\ Release(c) /\ at[c] \in Sending
        /\ UNCHANGED <<cache, issued>>
    <3>1. CASE TokenAnswer(c)
      BY <3>1 DEF TokenAnswer, GoTo, tokenVars, Sending
    <3>2. CASE ServiceAnswer(c)
      BY <3>2 DEF ServiceAnswer, Return, GoTo, Sending
    <3> QED
      BY <3>1, <3>2
  <2>2. UNCHANGED pools /\ (closing' = closing \/ closing' = [closing EXCEPT ![c] = pool[c]])
    BY <2>1 DEF Release
  <2>3. closing' \in [Callers -> Pools \cup {0}]
    BY <2>2 DEF CallerTypes
  <2>4. \A d \in Callers : at'[d] \in {"lock", "tokenPool", "pool"} => closing'[d] = 0
    BY <2>1, <2>2 DEF CallerTypes
  <2>5. /\ at' \in [Callers -> Places] /\ token' \in [Callers -> 0..issued]
        /\ pool' \in [Callers -> Pools \cup {0}]
    BY <2>1 DEF CallerTypes, TokenTypes, Places, Asking
  <2>6. \A d \in Callers : pool'[d] # 0 <=> at'[d] \in Sending
    BY <2>1 DEF CallerTypes, Sending
  <2> QED
    BY <2>1, <2>2, <2>3, <2>4, <2>5, <2>6 DEF CallerTypes, Pools
<1>7. CASE \E c \in Callers : TakeToken(c)
  <2>1. PICK c \in Callers : TakeToken(c)
    BY <1>7
  <2>2. token' \in [Callers -> 0..issued']
    BY <2>1 DEF TakeToken, CallerTypes, TokenTypes
  <2> QED
    BY <2>1, <2>2 DEF TakeToken, GoTo, CallerTypes, poolVars, Pools, Places, Sending, Asking
<1>8. CASE \E c \in Callers : ClosePool(c)
  BY <1>8 DEF ClosePool, CallerTypes, tokenVars, Pools
<1>9. CASE Shutdown
  BY <1>9 DEF Shutdown, CallerTypes, TokenTypes, Pools, Places, Sending, Asking
<1>10. CASE UNCHANGED <<pools, issued, callerVars>>
  BY <1>10 DEF callerVars, CallerTypes, Pools
<1> QED
  BY <1>1, <1>2, <1>3, <1>4, <1>5, <1>6, <1>7, <1>8, <1>9, <1>10
  DEF AccessNext, Attempt, Rotate, IntervalEnds, Expire, accessVars, poolVars, tokenVars

LEMMA TokenTypesKept ==
  ASSUME AccessAssumption, CallerTypes, TokenTypes, [AccessNext]_accessVars
  PROVE  TokenTypes'
<1>1. CASE \E c \in Callers : Lock(c)
  BY <1>1 DEF Lock, TokenTypes
<1>2. CASE \E c \in Callers : AcquireOwned(c) \/ AcquireReloaded(c)
  BY <1>2 DEF AcquireOwned, AcquireReloaded, Use, TokenTypes
<1>3. CASE \E c \in Callers : AcquireFails(c) \/ TokenRefused(c)
  BY <1>3 DEF AcquireFails, TokenRefused, Return, TokenTypes
<1>4. CASE \E c \in Callers : TakeToken(c)
  BY <1>4 DEF TakeToken, TokenTypes, CallerTypes, AccessAssumption
<1>5. CASE \E c \in Callers : ServiceAnswer(c)
  <2>1. PICK c \in Callers : ServiceAnswer(c)
    BY <1>5
  <2>2. /\ holder' = [k \in Caches |-> holder[k] \ {c}] /\ UNCHANGED <<issued, shutdowns>>
        /\ at[c] = "request"
    BY <2>1 DEF ServiceAnswer, Return
  <2>3. cached' \in [Caches -> 0..issued]
    BY <2>1 DEF ServiceAnswer, Invalidated, TokenTypes
  <2> QED
    BY <2>1, <2>2, <2>3 DEF ServiceAnswer, TokenTypes, CallerTypes
<1>6. CASE \E k \in Caches : Expire(k)
  BY <1>6 DEF Expire, TokenTypes
<1>7. CASE Shutdown
  BY <1>7 DEF Shutdown, TokenTypes, AccessAssumption
<1>8. CASE UNCHANGED <<tokenVars, shutdowns>>
  BY <1>8 DEF tokenVars, TokenTypes
<1> QED
  BY <1>1, <1>2, <1>3, <1>4, <1>5, <1>6, <1>7, <1>8
  DEF AccessNext, Attempt, Call, TokenAnswer, ClosePool, Rotate, IntervalEnds, accessVars

-----------------------------------------------------------------------------
(* The pools: who uses one is counted, and who closes one. *)

LEMMA UsersAreFinite ==
  ASSUME AccessAssumption, NEW p
  PROVE  IsFiniteSet(Users(p)) /\ (Cardinality(Users(p)) = 0 <=> Users(p) = {}) /\ Cardinality(Users(p)) \in Nat
<1>1. IsFiniteSet(Users(p))
  BY FS_Subset DEF Users, AccessAssumption
<1> QED
  BY <1>1, FS_EmptySet, FS_CardinalityType

LEMMA UserAdded ==
  ASSUME AccessAssumption, CallerTypes, NEW c \in Callers, NEW q, q # 0, pool[c] = 0,
         pool' = [pool EXCEPT ![c] = q]
  PROVE  /\ Users(q)' = Users(q) \cup {c} /\ Cardinality(Users(q)') = Cardinality(Users(q)) + 1
         /\ \A p : p # q /\ p # 0 => {d \in Callers : pool'[d] = p} = Users(p)
<1>1. Users(q)' = Users(q) \cup {c} /\ c \notin Users(q)
  BY DEF Users, CallerTypes
<1>2. Cardinality(Users(q) \cup {c}) = Cardinality(Users(q)) + 1
  BY <1>1, UsersAreFinite, FS_AddElement
<1>3. \A p : p # q /\ p # 0 => {d \in Callers : pool'[d] = p} = Users(p)
  BY DEF Users, CallerTypes
<1> QED
  BY <1>1, <1>2, <1>3

LEMMA UserRemoved ==
  ASSUME AccessAssumption, CallerTypes, NEW c \in Callers, pool[c] # 0,
         pool' = [pool EXCEPT ![c] = 0]
  PROVE  /\ \A p : p = pool[c] => /\ {d \in Callers : pool'[d] = p} = Users(p) \ {c}
                                  /\ Cardinality(Users(p) \ {c}) = Cardinality(Users(p)) - 1
         /\ \A p : p # pool[c] /\ p # 0 => {d \in Callers : pool'[d] = p} = Users(p)
<1> DEFINE q == pool[c]
<1>1. {d \in Callers : pool'[d] = q} = Users(q) \ {c} /\ c \in Users(q)
  BY DEF Users, CallerTypes
<1>2. Cardinality(Users(q) \ {c}) = Cardinality(Users(q)) - 1
  BY <1>1, UsersAreFinite, FS_RemoveElement
<1>3. \A p : p # q /\ p # 0 => {d \in Callers : pool'[d] = p} = Users(p)
  BY DEF Users, CallerTypes
<1> QED
  BY <1>1, <1>2, <1>3

\* One more pool to be closed, by a caller that is closing none.
LEMMA ClosingAdded ==
  ASSUME CallerTypes, NEW c \in Callers, closing[c] = 0, NEW q,
         closing' = [closing EXCEPT ![c] = q]
  PROVE  Closing' = Closing \cup ({q} \ {0})
BY DEF Closing, CallerTypes

LEMMA ReplacementSound ==
  ASSUME AccessAssumption, PoolTypes, CallerTypes, Counts, Separate,
         NEW c \in Callers, AcquireReloaded(c)
  PROVE  Counts' /\ Separate' /\ NoRotationMissed'
<1> PICK new : new = Cardinality(Pools) + 1
  OBVIOUS
<1>1. PICK after \in {files, files + 1} \cap Versions :
        /\ files' = after /\ fingerprint' = files /\ owned' = new /\ closed' = closed
        /\ pools' = [p \in 1..new |-> IF p = new THEN after ELSE pools[p]]
        /\ active' = [[p \in 1..new |-> IF p = new THEN 0 ELSE active[p]] EXCEPT ![new] = @ + 1]
        /\ pool' = [pool EXCEPT ![c] = new]
  BY DEF AcquireReloaded, Use, Reloaded, StatFirst
<1>2. \/ owned # 0 /\ active[owned] > 0 /\ retired' = retired \cup {owned} /\ closing' = closing
      \/ /\ owned = 0 \/ ~(active[owned] > 0)
         /\ retired' = retired /\ closing' = [closing EXCEPT ![c] = owned]
  BY DEF AcquireReloaded
<1>3. closing[c] = 0 /\ pool[c] = 0
  BY DEF AcquireReloaded, CallerTypes, Sending
<1>4. /\ new \in Nat /\ new # 0 /\ Pools' = Pools \cup {new} /\ new \notin Pools /\ 0 \notin Pools
      /\ owned \in Pools \cup {0} /\ closed \subseteq Pools /\ retired \subseteq Pools
      /\ Closing \subseteq Pools
  BY <1>1 DEF PoolTypes, CallerTypes, Pools, Closing
<1>5. Users(new) = {} /\ Cardinality(Users(new)) = 0
  <2>1. Users(new) = {}
    BY <1>4 DEF Users, CallerTypes
  <2> QED
    BY <2>1, UsersAreFinite
<1>6. Users(new)' = {c} /\ Cardinality(Users(new)') = 1
  <2>1. Users(new)' = Users(new) \cup {c} /\ Cardinality(Users(new)') = Cardinality(Users(new)) + 1
    BY <1>1, <1>3, <1>4, UserAdded
  <2> QED
    BY <2>1, <1>5
<1>7. ASSUME NEW p \in Pools PROVE Users(p)' = Users(p) /\ active'[p] = active[p]
  <2>1. {d \in Callers : pool'[d] = p} = Users(p)
    BY <1>1, <1>3, <1>4, UserAdded
  <2> QED
    BY <2>1, <1>1, <1>4 DEF Users, PoolTypes
<1>8. Counts'
  <2>1. active'[new] = 1
    BY <1>1, <1>4
  <2> QED
    BY <2>1, <1>4, <1>6, <1>7 DEF Counts
<1>9. \/ Closing' = Closing /\ retired' = retired \cup {owned} /\ owned # 0 /\ Users(owned) # {}
      \/ Closing' = Closing \cup ({owned} \ {0}) /\ retired' = retired /\ (owned # 0 => Users(owned) = {})
  <2>1. owned # 0 => active[owned] = Cardinality(Users(owned)) /\ active[owned] \in Nat
                     /\ (active[owned] = 0 <=> Users(owned) = {})
    BY <1>4, UsersAreFinite DEF Counts
  <2>2. closing' = closing => Closing' = Closing
    BY DEF Closing
  <2>3. closing' = [closing EXCEPT ![c] = owned] => Closing' = Closing \cup ({owned} \ {0})
    BY <1>3, ClosingAdded
  <2>4. CASE closing' = closing /\ owned # 0 /\ active[owned] > 0 /\ retired' = retired \cup {owned}
    BY <2>1, <2>2, <2>4
  <2>5. CASE /\ owned = 0 \/ ~(active[owned] > 0)
             /\ retired' = retired /\ closing' = [closing EXCEPT ![c] = owned]
    <3>1. owned # 0 => Users(owned) = {}
      BY <2>1, <2>5
    <3> QED
      BY <2>3, <2>5, <3>1
  <2> QED
    BY <1>2, <2>4, <2>5
<1>10. Separate'
  <2>1. ASSUME NEW p \in closed \cup Closing' PROVE Users(p)' = {} /\ p # new /\ p \notin retired'
    <3>1. p \in Pools /\ Users(p)' = Users(p)
      BY <1>4, <1>7, <1>9
    <3> QED
      BY <3>1, <1>4, <1>9 DEF Separate
  <2>2. ASSUME NEW p \in retired' PROVE Users(p)' # {} /\ p # new
    <3>1. p \in Pools /\ Users(p)' = Users(p)
      BY <1>4, <1>7, <1>9
    <3> QED
      BY <3>1, <1>4, <1>9 DEF Separate
  <2>3. Pools' \ {new} = closed \cup retired' \cup Closing'
    BY <1>4, <1>9 DEF Separate
  <2> QED
    BY <1>1, <2>1, <2>2, <2>3 DEF Separate
<1>11. NoRotationMissed'
  BY <1>1, <1>4 DEF NoRotationMissed, Versions, PoolTypes
<1> QED
  BY <1>8, <1>10, <1>11

LEMMA ReleaseSound ==
  ASSUME AccessAssumption, PoolTypes, CallerTypes, Counts, Separate, NoRotationMissed,
         NEW c \in Callers, Release(c), pool[c] # 0, closing[c] = 0, pool' = [pool EXCEPT ![c] = 0]
  PROVE  Counts' /\ Separate' /\ NoRotationMissed'
<1> PICK q : q = pool[c]
  OBVIOUS
<1>1. /\ active' = [active EXCEPT ![q] = @ - 1]
      /\ \/ q \in retired /\ active[q] <= 1 /\ retired' = retired \ {q} /\ closing' = [closing EXCEPT ![c] = q]
         \/ ~(q \in retired /\ active[q] <= 1) /\ retired' = retired /\ closing' = closing
      /\ UNCHANGED <<files, pools, owned, fingerprint, closed>>
  BY DEF Release
<1>2. q \in Pools /\ 0 \notin Pools /\ Pools' = Pools
  BY <1>1 DEF PoolTypes, CallerTypes, Pools
<1>3. Users(q)' = Users(q) \ {c} /\ Cardinality(Users(q)') = Cardinality(Users(q)) - 1 /\ c \in Users(q)
  <2>1. {d \in Callers : pool'[d] = q} = Users(q) \ {c} /\ Cardinality(Users(q) \ {c}) = Cardinality(Users(q)) - 1
    BY UserRemoved
  <2> QED
    BY <2>1 DEF Users
<1>4. ASSUME NEW p \in Pools, p # q PROVE Users(p)' = Users(p) /\ active'[p] = active[p]
  <2>1. {d \in Callers : pool'[d] = p} = Users(p)
    BY <1>2, <1>4, UserRemoved
  <2> QED
    BY <2>1, <1>1, <1>4 DEF Users, PoolTypes
<1>5. active[q] = Cardinality(Users(q)) /\ active[q] \in Nat /\ active'[q] = active[q] - 1
  BY <1>1, <1>2, UsersAreFinite DEF Counts, PoolTypes
<1>6. active[q] <= 1 <=> Users(q)' = {}
  <2>1. Cardinality(Users(q)') = 0 <=> Users(q)' = {}
    <3>1. IsFiniteSet(Users(q)')
      BY <1>3, UsersAreFinite, FS_RemoveElement
    <3> QED
      BY <3>1, FS_EmptySet
  <2>2. active[q] # 0
    BY <1>3, <1>5, UsersAreFinite
  <2> QED
    BY <2>1, <2>2, <1>3, <1>5
<1>7. Counts'
  BY <1>2, <1>3, <1>4, <1>5 DEF Counts
<1>8. q \notin closed \cup Closing
  BY <1>3 DEF Separate
<1>9. Closing \subseteq Pools /\ closed \subseteq Pools /\ retired \subseteq Pools
  BY <1>2 DEF PoolTypes, CallerTypes, Closing
<1>10. closed' = closed /\ owned' = owned /\ Pools' = Pools
  BY <1>1, <1>2
<1>11. ASSUME q \in retired /\ active[q] <= 1 PROVE Separate'
  <2>1. retired' = retired \ {q} /\ closing' = [closing EXCEPT ![c] = q]
    BY <1>1, <1>11
  <2>2. Closing' = Closing \cup {q}
    BY <2>1, <1>2, ClosingAdded
  <2>3. ASSUME NEW p \in closed \cup Closing' PROVE Users(p)' = {} /\ p # owned /\ p \notin retired'
    BY <1>2, <1>4, <1>6, <1>9, <1>11, <2>1, <2>2, <2>3 DEF Separate
  <2>4. ASSUME NEW p \in retired' PROVE Users(p)' # {} /\ p # owned
    BY <1>4, <1>9, <2>1, <2>4 DEF Separate
  <2>5. Pools \ {owned} = closed \cup retired' \cup Closing'
    BY <1>11, <2>1, <2>2 DEF Separate
  <2> QED
    BY <1>10, <2>3, <2>4, <2>5 DEF Separate
<1>12. ASSUME ~(q \in retired /\ active[q] <= 1) PROVE Separate'
  <2>1. retired' = retired /\ closing' = closing
    BY <1>1, <1>12
  <2>2. Closing' = Closing
    BY <2>1 DEF Closing
  <2>3. ASSUME NEW p \in closed \cup Closing PROVE Users(p)' = {}
    BY <1>4, <1>8, <1>9 DEF Separate
  <2>4. ASSUME NEW p \in retired PROVE Users(p)' # {}
    BY <1>4, <1>6, <1>9, <1>12 DEF Separate
  <2> QED
    BY <1>10, <2>1, <2>2, <2>3, <2>4 DEF Separate
<1>13. NoRotationMissed'
  BY <1>1 DEF NoRotationMissed
<1> QED
  BY <1>7, <1>11, <1>12, <1>13

\* A step that leaves alone who uses and who closes a pool.
LEMMA StillSound ==
  ASSUME Counts, Separate, NoRotationMissed, CallerTypes,
         UNCHANGED <<pools, owned, fingerprint, active, retired, closed, pool, closing>>
  PROVE  Counts' /\ Separate' /\ NoRotationMissed'
BY DEF Counts, Separate, NoRotationMissed, Users, Closing, Pools

LEMMA PoolsKept ==
  ASSUME AccessAssumption, PoolTypes, CallerTypes, Counts, Separate, NoRotationMissed, [AccessNext]_accessVars
  PROVE  Counts' /\ Separate' /\ NoRotationMissed'
<1>1. CASE \E c \in Callers : AcquireReloaded(c)
  BY <1>1, ReplacementSound
<1>2. CASE \E c \in Callers : AcquireOwned(c)
  <2> PICK c \in Callers : AcquireOwned(c)
    BY <1>2
  <2> PICK q : q = owned
    OBVIOUS
  <2>1. /\ active' = [active EXCEPT ![q] = @ + 1] /\ pool' = [pool EXCEPT ![c] = q]
        /\ UNCHANGED <<pools, owned, fingerprint, retired, closed, closing>>
        /\ q \in Pools /\ 0 \notin Pools /\ pool[c] = 0
    <3>1. /\ Use(c, owned, active) /\ at[c] \in {"tokenPool", "pool"} /\ owned # 0
          /\ UNCHANGED <<pools, owned, fingerprint, retired, closed, closing>>
      BY DEF AcquireOwned
    <3>2. q \in Pools /\ 0 \notin Pools
      BY <3>1 DEF PoolTypes
    <3>3. pool[c] = 0
      BY <3>1 DEF CallerTypes, Sending
    <3> QED
      BY <3>1, <3>2, <3>3 DEF Use
  <2>2. Users(q)' = Users(q) \cup {c} /\ Cardinality(Users(q)') = Cardinality(Users(q)) + 1
    BY <2>1, UserAdded
  <2>3. ASSUME NEW p \in Pools, p # q PROVE Users(p)' = Users(p) /\ active'[p] = active[p]
    <3>1. {d \in Callers : pool'[d] = p} = Users(p)
      BY <2>1, <2>3, UserAdded
    <3> QED
      BY <2>1, <2>3, <3>1 DEF Users, PoolTypes
  <2>4. Pools' = Pools /\ Closing' = Closing /\ Closing \subseteq Pools
    BY <2>1 DEF Pools, Closing, CallerTypes
  <2>5. Counts'
    BY <2>1, <2>2, <2>3, <2>4 DEF Counts, PoolTypes
  <2>6. Separate'
    BY <2>1, <2>3, <2>4 DEF Separate, PoolTypes
  <2> QED
    BY <2>1, <2>5, <2>6 DEF NoRotationMissed
<1>3. CASE \E c \in Callers : TokenAnswer(c) \/ ServiceAnswer(c)
  <2> PICK c \in Callers : TokenAnswer(c) \/ ServiceAnswer(c)
    BY <1>3
  <2>1. Release(c) /\ pool' = [pool EXCEPT ![c] = 0] /\ at[c] \in Sending /\ closing[c] = 0
    BY DEF TokenAnswer, ServiceAnswer, Return, Sending
  <2> QED
    BY <2>1, ReleaseSound DEF CallerTypes
<1>4. CASE \E c \in Callers : ClosePool(c)
  <2> PICK c \in Callers : ClosePool(c)
    BY <1>4
  <2>1. /\ closed' = closed \cup {closing[c]} /\ closing' = [closing EXCEPT ![c] = 0] /\ closing[c] # 0
        /\ UNCHANGED <<pools, owned, fingerprint, active, retired, pool>>
    BY DEF ClosePool
  <2>2. closed' \cup Closing' = closed \cup Closing
    BY <2>1 DEF Closing, CallerTypes
  <2>3. \A p : Users(p) = {d \in Callers : pool'[d] = p}
    BY <2>1 DEF Users
  <2>4. Counts'
    BY <2>1 DEF Counts, Users, Pools
  <2>5. Separate'
    <3>1. ASSUME NEW p \in (closed \cup Closing)' PROVE Users(p)' = {} /\ p # owned' /\ p \notin retired'
      BY <2>1, <2>2, <2>3 DEF Separate, Users
    <3>2. ASSUME NEW p \in retired PROVE Users(p)' # {} /\ p # owned
      BY <2>3 DEF Separate, Users
    <3>3. Pools' \ {owned'} = closed' \cup retired' \cup Closing'
      BY <2>1, <2>2 DEF Separate, Pools
    <3> QED
      BY <2>1, <3>1, <3>2, <3>3 DEF Separate
  <2> QED
    BY <2>1, <2>4, <2>5 DEF NoRotationMissed
<1>5. CASE Shutdown
  <2>1. /\ owned' = 0 /\ retired' = {} /\ closed' = Pools /\ pools' = pools
        /\ active' = [p \in Pools |-> 0]
        /\ pool' = [c \in Callers |-> 0] /\ closing' = [c \in Callers |-> 0]
    BY <1>5 DEF Shutdown
  <2>2. 0 \notin Pools /\ Pools' = Pools /\ Closing' = {}
    BY <2>1 DEF PoolTypes, Pools, Closing
  <2>3. \A p \in Pools : {d \in Callers : pool'[d] = p} = {} /\ active'[p] = 0
    BY <2>1, <2>2
  <2>4. Counts'
    BY <2>2, <2>3, FS_EmptySet DEF Counts, Users
  <2>5. Separate'
    BY <2>1, <2>2, <2>3 DEF Separate, Users
  <2> QED
    BY <2>1, <2>4, <2>5 DEF NoRotationMissed
<1>6. CASE \E c \in Callers : AcquireFails(c) \/ TokenRefused(c)
  <2> PICK c \in Callers : AcquireFails(c) \/ TokenRefused(c)
    BY <1>6
  <2>1. /\ pool' = [pool EXCEPT ![c] = 0] /\ at[c] \notin Sending
        /\ UNCHANGED <<pools, owned, fingerprint, active, retired, closed, closing>>
    BY DEF AcquireFails, TokenRefused, Return, poolVars, Sending
  <2>2. pool' = pool
    BY <2>1 DEF CallerTypes
  <2> QED
    BY <2>1, <2>2, StillSound
<1>7. CASE UNCHANGED <<pools, owned, fingerprint, active, retired, closed, pool, closing>>
  BY <1>7, StillSound
<1> QED
  BY <1>1, <1>2, <1>3, <1>4, <1>5, <1>6, <1>7
  DEF AccessNext, Attempt, Call, Lock, TakeToken, Expire, Rotate, IntervalEnds, accessVars,
      poolVars, callerVars

-----------------------------------------------------------------------------
(* The tokens. *)

\* A step after which every caller asks for no other cache than before, and no lock but its
\* own is given up or taken.
LEMMA LockedKept ==
  ASSUME AccessAssumption, CallerTypes, TokenTypes, Locked, [AccessNext]_accessVars
  PROVE  Locked'
<1> USE DEF Locked, CallerTypes, TokenTypes
<1>1. CASE \E c \in Callers, k \in Caches : Call(c, k)
  BY <1>1 DEF Call, GoTo, tokenVars, Asking
<1>2. CASE \E c \in Callers : Lock(c)
  <2> PICK c \in Callers : Lock(c)
    BY <1>2
  <2>1. CASE cached[cache[c]] # 0
    BY <2>1 DEF Lock, GoTo, Asking
  <2>2. CASE cached[cache[c]] = 0
    BY <2>2 DEF Lock, GoTo, Asking
  <2> QED
    BY <2>1, <2>2
<1>3. CASE \E c \in Callers : AcquireOwned(c) \/ AcquireReloaded(c)
  <2> PICK c \in Callers : AcquireOwned(c) \/ AcquireReloaded(c)
    BY <1>3
  <2>1. /\ at' = [at EXCEPT ![c] = IF at[c] = "tokenPool" THEN "tokenPost" ELSE "request"]
        /\ UNCHANGED <<cache, holder>>
    BY DEF AcquireOwned, AcquireReloaded, Use, GoTo
  <2> QED
    BY <2>1 DEF Asking
<1>4. CASE \E c \in Callers : AcquireFails(c) \/ TokenRefused(c) \/ ServiceAnswer(c)
  <2> PICK c \in Callers : Return(c) /\ UNCHANGED cache
    BY <1>4 DEF AcquireFails, TokenRefused, ServiceAnswer
  <2>1. at' = [at EXCEPT ![c] = "idle"] /\ holder' = [k \in Caches |-> holder[k] \ {c}] /\ cache' = cache
    BY DEF Return, GoTo
  <2> QED
    BY <2>1 DEF Asking
<1>5. CASE \E c \in Callers : TokenAnswer(c)
  BY <1>5 DEF TokenAnswer, GoTo, tokenVars, Asking
<1>6. CASE \E c \in Callers : TakeToken(c)
  <2> PICK c \in Callers : TakeToken(c)
    BY <1>6
  <2>1. /\ at[c] = "tokenBody" /\ at' = [at EXCEPT ![c] = "pool"] /\ cache' = cache
        /\ holder' = [holder EXCEPT ![cache[c]] = {}]
    BY DEF TakeToken, GoTo
  <2> QED
    BY <2>1 DEF Asking
<1>7. CASE Shutdown
  BY <1>7 DEF Shutdown, Asking
<1>8. CASE UNCHANGED <<at, cache, holder>>
  BY <1>8
<1> QED
  BY <1>1, <1>2, <1>3, <1>4, <1>5, <1>6, <1>7, <1>8
  DEF AccessNext, Attempt, ClosePool, Expire, Rotate, IntervalEnds, accessVars, tokenVars,
      callerVars

\* What a step may do to the tokens without mixing them up.
LEMMA StillDistinct ==
  ASSUME CallerTypes, TokenTypes, Distinct, rejected' = rejected, cache' = cache,
         \A k \in Caches : cached'[k] \in {cached[k], 0},
         \A c \in Callers : token'[c] \in {token[c], 0},
         \A c \in Callers : at'[c] \in {"pool", "request"} => at[c] \in {"pool", "request"} /\ token'[c] = token[c]
  PROVE  Distinct'
BY DEF Distinct

LEMMA DistinctKept ==
  ASSUME AccessAssumption, CallerTypes, TokenTypes, Locked, Distinct, [AccessNext]_accessVars
  PROVE  Distinct'
<1> USE DEF CallerTypes, TokenTypes
<1>1. CASE \E c \in Callers, k \in Caches : Call(c, k)
  <2> PICK c \in Callers, k \in Caches : Call(c, k)
    BY <1>1
  <2>1. /\ cache' = [cache EXCEPT ![c] = k] /\ token' = [token EXCEPT ![c] = cached[k]]
        /\ at' = [at EXCEPT ![c] = IF cached[k] # 0 THEN "pool" ELSE "lock"]
        /\ UNCHANGED <<cached, rejected>>
    BY DEF Call, GoTo, tokenVars
  <2> QED
    BY <2>1 DEF Distinct
<1>2. CASE \E c \in Callers : Lock(c)
  <2> PICK c \in Callers : Lock(c)
    BY <1>2
  <2>1. /\ token' = [token EXCEPT ![c] = cached[cache[c]]]
        /\ \/ at' = [at EXCEPT ![c] = "pool"] /\ cached[cache[c]] # 0
           \/ at' = [at EXCEPT ![c] = "tokenPool"]
        /\ UNCHANGED <<cached, rejected, cache>>
    BY DEF Lock, GoTo
  <2> QED
    BY <2>1 DEF Distinct
<1>3. CASE \E c \in Callers : AcquireOwned(c) \/ AcquireReloaded(c)
  <2> PICK c \in Callers : AcquireOwned(c) \/ AcquireReloaded(c)
    BY <1>3
  <2>1. /\ at[c] \in {"tokenPool", "pool"}
        /\ at' = [at EXCEPT ![c] = IF at[c] = "tokenPool" THEN "tokenPost" ELSE "request"]
        /\ UNCHANGED <<cached, rejected, cache, token>>
    BY DEF AcquireOwned, AcquireReloaded, Use, GoTo
  <2> QED
    BY <2>1, StillDistinct
<1>4. CASE \E c \in Callers : AcquireFails(c) \/ TokenRefused(c)
  <2> PICK c \in Callers : Return(c) /\ UNCHANGED <<cached, rejected, cache>>
    BY <1>4 DEF AcquireFails, TokenRefused
  <2>1. at' = [at EXCEPT ![c] = "idle"] /\ token' = [token EXCEPT ![c] = 0]
    BY DEF Return, GoTo
  <2> QED
    BY <2>1, StillDistinct
<1>5. CASE \E c \in Callers : TokenAnswer(c)
  <2> PICK c \in Callers : TokenAnswer(c)
    BY <1>5
  <2>1. at' = [at EXCEPT ![c] = "tokenBody"] /\ UNCHANGED <<cached, rejected, cache, token>>
    BY DEF TokenAnswer, GoTo, tokenVars
  <2> QED
    BY <2>1, StillDistinct
<1>6. CASE \E c \in Callers : TakeToken(c)
  <2> PICK c \in Callers : TakeToken(c)
    BY <1>6
  <2>1. /\ issued' = issued + 1 /\ token' = [token EXCEPT ![c] = issued + 1]
        /\ \/ cached' = [cached EXCEPT ![cache[c]] = 0]
           \/ cached' = [cached EXCEPT ![cache[c]] = issued + 1]
        /\ at' = [at EXCEPT ![c] = "pool"] /\ UNCHANGED <<rejected, cache>>
    BY DEF TakeToken, GoTo
  <2>2. issued + 1 \notin rejected /\ issued + 1 # 0
    OBVIOUS
  <2>3. \A k \in Caches : cached[k] # issued + 1
    OBVIOUS
  <2>4. \A d \in Callers : token[d] # issued + 1
    OBVIOUS
  <2> QED
    BY <2>1, <2>2, <2>3, <2>4 DEF Distinct
<1>7. CASE \E c \in Callers : ServiceAnswer(c)
  <2> PICK c \in Callers : ServiceAnswer(c)
    BY <1>7
  <2>1. /\ at[c] = "request" /\ at' = [at EXCEPT ![c] = "idle"] /\ token' = [token EXCEPT ![c] = 0]
        /\ cache' = cache
    BY DEF ServiceAnswer, Return, GoTo
  <2>2. CASE UNCHANGED <<cached, rejected>>
    BY <2>1, <2>2, StillDistinct
  <2>3. CASE rejected' = rejected \cup {token[c]} /\ cached' = [cached EXCEPT ![cache[c]] = 0]
    BY <2>1, <2>3 DEF Distinct
  <2> QED
    BY <2>2, <2>3 DEF ServiceAnswer, Invalidated
<1>8. CASE \E k \in Caches : Expire(k)
  <2> PICK k \in Caches : Expire(k)
    BY <1>8
  <2>1. cached' = [cached EXCEPT ![k] = 0] /\ UNCHANGED <<rejected, cache, token, at>>
    BY DEF Expire, callerVars
  <2> QED
    BY <2>1, StillDistinct
<1>9. CASE Shutdown
  BY <1>9, StillDistinct DEF Shutdown
<1>10. CASE UNCHANGED <<at, cache, token, cached, rejected>>
  BY <1>10 DEF Distinct
<1> QED
  BY <1>1, <1>2, <1>3, <1>4, <1>5, <1>6, <1>7, <1>8, <1>9, <1>10
  DEF AccessNext, Attempt, ClosePool, Rotate, IntervalEnds, accessVars, tokenVars, callerVars

-----------------------------------------------------------------------------
LEMMA AccessInitSound ==
  ASSUME AccessAssumption, AccessInit
  PROVE  AccessInv
<1>1. PoolTypes /\ CallerTypes /\ TokenTypes
  BY InitTypes
<1>2. Pools = {} /\ Closing = {}
  BY DEF AccessInit, Pools, Closing
<1>3. Counts /\ Separate /\ NoRotationMissed
  BY <1>2 DEF AccessInit, Counts, Separate, NoRotationMissed
<1>4. Locked /\ Distinct
  BY DEF AccessInit, Locked, Distinct, Asking
<1> QED
  BY <1>1, <1>3, <1>4 DEF AccessInv

LEMMA AccessStepSound ==
  ASSUME AccessAssumption, AccessInv, [AccessNext]_accessVars
  PROVE  AccessInv'
BY PoolTypesKept, CallerTypesKept, TokenTypesKept, PoolsKept, LockedKept, DistinctKept DEF AccessInv

\* At most one element.
LEMMA OneAtMost ==
  ASSUME NEW S, IsFiniteSet(S), \A x, y \in S : x = y
  PROVE  Cardinality(S) <= 1
<1>1. CASE S = {}
  BY <1>1, FS_EmptySet
<1>2. CASE S # {}
  <2> PICK x \in S : S = {x}
    BY <1>2
  <2> QED
    BY FS_Singleton
<1> QED
  BY <1>1, <1>2

LEMMA InvariantSuffices ==
  ASSUME AccessAssumption, AccessInv
  PROVE  AccessSound
<1> USE DEF AccessInv
<1>1. AccessTypes
  BY DEF AccessTypes, PoolTypes, CallerTypes, TokenTypes
<1>2. PoolsSound
  <2>1. \A p \in Pools : InFlight(p) = Users(p)
    BY DEF InFlight, Users, PoolTypes, CallerTypes, Sending
  <2>2. closed \subseteq Pools /\ retired \subseteq Pools
    BY DEF PoolTypes
  <2> QED
    BY <2>1, <2>2 DEF PoolsSound, Counts, Separate, Closing
<1>3. TokensSound
  <2> SUFFICES ASSUME NEW k \in Caches
               PROVE  Cardinality({c \in Callers : cache[c] = k /\ at[c] \in Asking}) <= 1
    BY DEF TokensSound, Distinct, Asking
  <2> DEFINE S == {c \in Callers : cache[c] = k /\ at[c] \in Asking}
  <2>1. IsFiniteSet(S)
    BY FS_Subset DEF AccessAssumption
  <2>2. \A c, d \in S : c = d
    BY DEF Locked
  <2> QED
    BY <2>1, <2>2, OneAtMost
<1> QED
  BY <1>1, <1>2, <1>3 DEF AccessSound

\* However the files are replaced, the tokens refused and the callers interleaved: every pool that
\* was replaced is closed, and under nobody's request; no rotation is missed; one caller at a time
\* asks for a token, and none is offered that was refused (ReloadingHttpClient, ServiceTokenClient).
THEOREM AccessIsSound ==
  ASSUME AccessAssumption
  PROVE  AccessSpec => []AccessSound
<1>1. AccessInit => AccessInv
  BY AccessInitSound
<1>2. AccessInv /\ [AccessNext]_accessVars => AccessInv'
  BY AccessStepSound
<1>3. AccessInv => AccessSound
  BY InvariantSuffices
<1> QED
  BY <1>1, <1>2, <1>3, PTL DEF AccessSpec

-----------------------------------------------------------------------------
(* StoreMigration.  Who goes on past the checks has read the last version of   *)
(* the file and has the lookup key on record; who runs is at most one step of  *)
(* the key rotation from whoever else does, so a key that comes into use is    *)
(* one they all hold.                                                          *)

\* What the instance calls Cardinality is Cardinality.
LEMMA StoreCounts ==
  /\ \A S : Store!Cardinality(S) = Cardinality(S)
  /\ \A S : Store!IsFiniteSet(S) <=> IsFiniteSet(S)
BY DEF Store!Cardinality, Cardinality, Store!IsFiniteSet, IsFiniteSet

Checked == {"record", "scrub", "truncate", "vacuum", "truncateAgain", "mark", "assert", "serving"}

Stages == {"down", "keyring", "migrate", "binding"} \cup Checked

Rows == [event : Event, digest : {"none", "earlier", "earliest", "L"}, key : {"none", "old", "new"}]

-----------------------------------------------------------------------------
(* The inductive invariant. *)

FileTypes ==
  /\ version \in 0..6 /\ faults \in 0..MaxFaults
  /\ inbox \subseteq Rows /\ IsFiniteSet(inbox) /\ outbox \subseteq {"old", "new"}
  /\ binding \in {"none", "L"}
  /\ scrub \in {"none", "pending", "complete"}
  /\ plaintext \in {"present", "superseded", "gone"}

ProcessTypes ==
  /\ deployed \in 1..4
  /\ opening \in [Process -> Stages] /\ step \in [Process -> 1..4] /\ seen \in [Process -> 0..6]
  /\ lookup \in [Process -> {"L", "wrong"}]

\* No two rows of one event have one digest, and until version 4 none has any.
RowsApart ==
  /\ \A r, s \in inbox : r.event = s.event /\ r.digest = s.digest => r = s
  /\ version <= 3 => \A r \in inbox : r.digest = "none"

\* Nobody is ahead of the file; only who read its last version goes on, with
\* the lookup key on record, or with the only one there ever was.
VersionsOK ==
  /\ \A p \in Process : seen[p] <= version
  /\ \A p \in Process : opening[p] \in Checked \cup {"binding"} => seen[p] = 6
  /\ binding = "L" => version = 6

LookupsOK ==
  /\ \A p \in Process : lookup[p] = "wrong" => binding = "L" /\ (opening[p] # "down" => seen[p] = 6)
  /\ \A p \in Process : opening[p] \in Checked => lookup[p] = "L"
  /\ version = 6 => \A r \in inbox : r.digest = "L"

\* Whoever runs is at most one step of the rotation away from whoever else does.
RotationOK ==
  /\ \A p \in Store!Running : \/ step[p] \in {deployed - 1, deployed}
                              \/ deployed = 3 /\ step[p] = 4
  /\ \A p, q \in Store!Running : step[p] <= step[q] + 1

ScrubOK ==
  /\ scrub = "complete" => plaintext = "gone"
  /\ \A p \in Process : /\ opening[p] \in {"mark", "assert", "serving"} => plaintext = "gone"
                        /\ opening[p] = "truncateAgain" => plaintext # "present"

StoreInv == FileTypes /\ ProcessTypes /\ RowsApart /\ VersionsOK /\ LookupsOK /\ RotationOK /\ ScrubOK /\ Store!Readable

-----------------------------------------------------------------------------
(* Processes. *)

\* An opening step moves one process, and leaves its configuration alone.
Goes(p) == opening' = opening \/ \E next \in Stages : opening' = [opening EXCEPT ![p] = next]

Reads(p) == seen' = seen \/ (seen[p] < 6 /\ seen' = [seen EXCEPT ![p] = seen[p] + 1])

Opens(p) == Goes(p) /\ Reads(p) /\ UNCHANGED <<deployed, step, lookup>>

\* The steps of _initialize are such steps, of a process that is opening the store.
LEMMA OpenMoves ==
  ASSUME ProcessTypes, NEW p \in Process, Store!Open(p)
  PROVE  Opens(p) /\ opening[p] \notin {"down", "serving"}
<1>1. CASE Store!CheckKeyring(p)
  BY <1>1 DEF Store!CheckKeyring, Opens, Goes, Reads, Store!Refuse, Store!GoTo, Stages
<1>2. CASE Store!MigrateSchema(p) \/ Store!EncryptInbox(p)
  BY <1>2
     DEF ProcessTypes, Store!MigrateSchema, Store!EncryptInbox, Opens, Goes, Reads, Store!Refuse,
         Store!GoTo, Stages
<1>3. CASE Store!RebindInbox(p)
  BY <1>3 DEF ProcessTypes, Store!RebindInbox, Opens, Goes, Reads, Store!Refuse, Store!GoTo, Stages
<1>4. CASE Store!Rekey(p)
  BY <1>4 DEF Store!Rekey, Opens, Goes, Reads, Store!Refuse, Store!GoTo, Stages
<1>5. CASE Store!VerifyBinding(p) \/ Store!RecordBinding(p)
  BY <1>5
     DEF Store!VerifyBinding, Store!RecordBinding, Opens, Goes, Reads, Store!Refuse, Store!GoTo,
         Stages, Checked
<1>6. CASE Store!CheckScrub(p) \/ Store!Truncate(p)
  BY <1>6
     DEF Store!CheckScrub, Store!Truncate, Opens, Goes, Reads, Store!Refuse, Store!GoTo, Stages,
         Checked
<1>7. CASE Store!Vacuum(p) \/ Store!MarkScrubbed(p) \/ Store!AssertKeyring(p)
  BY <1>7
     DEF Store!Vacuum, Store!MarkScrubbed, Store!AssertKeyring, Opens, Goes, Reads, Store!Refuse,
         Store!GoTo, Stages, Checked
<1> QED
  BY <1>1, <1>2, <1>3, <1>4, <1>5, <1>6, <1>7 DEF Store!Open

\* Any other step starts or ends a process, moves the rotation, or leaves the
\* processes alone.
LEMMA ProcessTypesStep ==
  ASSUME Store!StoreAssumption, StoreInv, [Store!Next]_(Store!vars)
  PROVE  ProcessTypes'
<1>1. ProcessTypes /\ version \in 0..6
  BY DEF StoreInv, FileTypes
<1>2. ASSUME NEW p \in Process, Store!Start(p) PROVE ProcessTypes'
  BY <1>1, <1>2 DEF ProcessTypes, Store!Start, Store!GoTo, Stages
<1>3. ASSUME NEW p \in Process, Store!Open(p) PROVE ProcessTypes'
  BY <1>1, <1>3, OpenMoves DEF ProcessTypes, Opens, Goes, Reads
<1>4. ASSUME NEW p \in Process, Store!Stop(p) \/ Store!Shutdown(p) PROVE ProcessTypes'
  BY <1>1, <1>4 DEF ProcessTypes, Store!Stop, Store!Shutdown, Store!GoTo, Stages
<1>5. ASSUME NEW p \in Process, Store!Receive(p) \/ Store!Accept(p) \/ Store!Clear(p) PROVE ProcessTypes'
  BY <1>1, <1>5 DEF ProcessTypes, Store!Receive, Store!Accept, Store!Clear, Store!procVars
<1>6. CASE Store!Rotate \/ Store!Restore
  BY <1>1, <1>6 DEF ProcessTypes, Store!Rotate, Store!Restore, Store!procVars
<1>7. CASE UNCHANGED Store!vars
  BY <1>1, <1>7 DEF ProcessTypes, Store!vars, Store!procVars
<1> QED BY <1>2, <1>3, <1>4, <1>5, <1>6, <1>7 DEF Store!Next

\* The keys that are written and the keys that are held, of two processes that
\* are at most a step of the rotation apart.
LEMMA RotationStep ==
  ASSUME Store!StoreAssumption, StoreInv, [Store!Next]_(Store!vars)
  PROVE  RotationOK'
<1>1. ProcessTypes /\ RotationOK
  BY DEF StoreInv
<1>2. ASSUME NEW p \in Process, Store!Start(p) PROVE RotationOK'
  <2>1. /\ opening' = [opening EXCEPT ![p] = "keyring"] /\ step' = [step EXCEPT ![p] = deployed]
        /\ UNCHANGED deployed
    BY <1>2 DEF Store!Start, Store!GoTo
  <2>2. \A q \in Store!Running' : q = p \/ q \in Store!Running
    BY <1>1, <2>1 DEF Store!Running, ProcessTypes
  <2> QED BY <1>1, <2>1, <2>2 DEF RotationOK, Store!Running, ProcessTypes
<1>3. ASSUME NEW p \in Process, Store!Open(p) \/ Store!Stop(p) \/ Store!Shutdown(p) PROVE RotationOK'
  <2>1. Store!Running' \subseteq Store!Running /\ UNCHANGED <<deployed, step>>
    <3>1. CASE Store!Open(p)
      BY <1>1, <3>1, OpenMoves DEF Store!Running, ProcessTypes, Opens, Goes
    <3> QED BY <1>1, <1>3, <3>1
        DEF Store!Running, ProcessTypes, Store!Stop, Store!Shutdown, Store!GoTo
  <2> QED BY <1>1, <2>1 DEF RotationOK
<1>4. ASSUME NEW p \in Process, Store!Receive(p) \/ Store!Accept(p) \/ Store!Clear(p) PROVE RotationOK'
  BY <1>1, <1>4
     DEF RotationOK, Store!Running, Store!Receive, Store!Accept, Store!Clear, Store!procVars
<1>5. CASE Store!Rotate
  BY <1>1, <1>5 DEF RotationOK, Store!Running, ProcessTypes, Store!Rotate, Store!procVars
<1>6. CASE Store!Restore
  BY <1>1, <1>6 DEF RotationOK, Store!Running, ProcessTypes, Store!Restore, Store!procVars
<1>7. CASE UNCHANGED Store!vars
  BY <1>1, <1>7 DEF RotationOK, Store!Running, Store!vars, Store!procVars
<1> QED BY <1>2, <1>3, <1>4, <1>5, <1>6, <1>7 DEF Store!Next

\* A process one step of the rotation behind or ahead holds the key that is written.
LEMMA KeysFit ==
  ASSUME Store!StoreAssumption, StoreInv, NEW p \in Store!Running, NEW q \in Store!Running
  PROVE  Store!Active(q) \in {"old", "new"} /\ Store!Active(q) \in Store!Keys(p)
<1>1. step[p] \in 1..4 /\ step[q] \in 1..4 /\ step[p] <= step[q] + 1 /\ step[q] <= step[p] + 1
  BY DEF StoreInv, ProcessTypes, RotationOK, Store!Running
<1> QED BY <1>1 DEF Store!Active, Store!Keys, Store!Rotation

-----------------------------------------------------------------------------
(* Rows. *)

\* Rows sealed anew.
LEMMA SealedRows ==
  ASSUME Store!StoreAssumption, StoreInv, NEW p \in Store!Running, NEW S \in SUBSET inbox, lookup[p] = "L" \/ S = {}
  PROVE  /\ Store!Sealed(p, S) \subseteq Rows /\ IsFiniteSet(Store!Sealed(p, S))
         /\ \A r \in Store!Sealed(p, S) : r.digest = "L" /\ r.key = Store!Active(p)
         /\ \A r, s \in Store!Sealed(p, S) : r.event = s.event => r = s
         /\ \A r \in S : \E s \in Store!Sealed(p, S) : s.event = r.event
         /\ \A s \in Store!Sealed(p, S) : \E r \in S : s.event = r.event
         /\ S = {} => Store!Sealed(p, S) = {}
<1> DEFINE seal(r) == [event |-> r.event, digest |-> lookup[p], key |-> Store!Active(p)]
           f == [r \in S |-> seal(r)]
<1>1. IsFiniteSet(S) /\ S \subseteq Rows
  BY FS_Subset DEF StoreInv, FileTypes
<1>2. Store!Sealed(p, S) = {seal(r) : r \in S}
  BY DEF Store!Sealed
<1>3. f \in Surjection(S, Store!Sealed(p, S))
  BY <1>2 DEF Surjection
<1>4. IsFiniteSet(Store!Sealed(p, S))
  BY <1>1, <1>3, FS_Surjection
<1>5. Store!Active(p) \in {"old", "new"}
  BY KeysFit
<1>6. ASSUME NEW r \in S PROVE seal(r) \in Rows
  BY <1>1, <1>5 DEF Rows
<1>7. ASSUME NEW r \in S PROVE \E s \in Store!Sealed(p, S) : s.event = r.event
  <2>1. seal(r) \in Store!Sealed(p, S) /\ seal(r).event = r.event
    BY <1>2
  <2> QED BY <2>1
<1>8. \A r \in Store!Sealed(p, S) : r.digest = "L" /\ r.key = Store!Active(p)
  BY <1>2
<1>9. \A r, s \in Store!Sealed(p, S) : r.event = s.event => r = s
  BY <1>2
<1>10. \A s \in Store!Sealed(p, S) : \E r \in S : s.event = r.event
  BY <1>2
<1>11. Store!Sealed(p, S) \subseteq Rows
  BY <1>2, <1>6
<1>12. S = {} => Store!Sealed(p, S) = {}
  BY <1>2
<1> QED BY <1>4, <1>7, <1>8, <1>9, <1>10, <1>11, <1>12

\* What an opening step does to the rows, and what others do.
Seals(p) ==
  /\ inbox' = Store!Sealed(p, inbox) /\ UNCHANGED <<outbox, binding>>
  /\ version <= version' /\ version' >= 4

Rekeys(p) ==
  LET stale == {r \in inbox : r.key # Store!Active(p)}
  IN  /\ \A r \in stale : r.digest = lookup[p]
      /\ inbox' = (inbox \ stale) \cup Store!Sealed(p, stale)
      /\ outbox' = IF outbox = {} THEN {} ELSE {Store!Active(p)}
      /\ UNCHANGED <<version, binding>>

\* What an opening step does to the rows: nothing, or it seals them anew.
LEMMA OpenRows ==
  ASSUME Store!StoreAssumption, StoreInv, NEW p \in Process, Store!Open(p)
  PROVE  \/ inbox' = inbox /\ outbox' = outbox /\ (version' = version \/ version' <= 3)
         \/ Seals(p) /\ lookup[p] = "L" /\ (Store!EncryptInbox(p) \/ Store!RebindInbox(p))
         \/ Rekeys(p) /\ version = 6
<1>1. ProcessTypes /\ VersionsOK /\ LookupsOK /\ FileTypes
  BY DEF StoreInv
<1>2. CASE Store!EncryptInbox(p)
  BY <1>1, <1>2
     DEF Store!EncryptInbox, Store!Refuse, Store!fileVars, Seals, ProcessTypes, VersionsOK,
         LookupsOK, FileTypes
<1>3. CASE Store!RebindInbox(p)
  BY <1>1, <1>3
     DEF Store!RebindInbox, Store!Rebound, Store!Refuse, Store!fileVars, Seals, ProcessTypes,
         VersionsOK, LookupsOK, FileTypes
<1>4. CASE Store!Rekey(p)
  BY <1>1, <1>4
     DEF Store!Rekey, Store!Refuse, Store!fileVars, Rekeys, ProcessTypes, VersionsOK, FileTypes
<1>5. CASE Store!CheckKeyring(p) \/ Store!MigrateSchema(p)
  BY <1>1, <1>5
     DEF Store!CheckKeyring, Store!MigrateSchema, Store!Refuse, Store!fileVars, ProcessTypes
<1>6. CASE Store!VerifyBinding(p) \/ Store!RecordBinding(p)
  BY <1>6 DEF Store!VerifyBinding, Store!RecordBinding, Store!Refuse, Store!fileVars
<1>7. CASE Store!CheckScrub(p) \/ Store!Truncate(p) \/ Store!Vacuum(p) \/ Store!MarkScrubbed(p) \/ Store!AssertKeyring(p)
  BY <1>7
     DEF Store!CheckScrub, Store!Truncate, Store!Vacuum, Store!MarkScrubbed, Store!AssertKeyring,
         Store!Refuse, Store!fileVars
<1> QED
  BY <1>1, <1>2, <1>3, <1>4, <1>5, <1>6, <1>7 DEF Store!Open

\* The rows stay rows, finite in number, and no two of them the same, in an opening step.
LEMMA RowsStep ==
  ASSUME Store!StoreAssumption, StoreInv, NEW p \in Process, Store!Open(p)
  PROVE  /\ inbox' \subseteq Rows /\ IsFiniteSet(inbox')
         /\ outbox' \subseteq {"old", "new"}
         /\ \A r, s \in inbox' : r.event = s.event /\ r.digest = s.digest => r = s
         /\ inbox' # inbox => \A r \in inbox' : r.digest = "L"
         /\ \A r \in inbox' : r \in inbox \/ r.key = Store!Active(p)
         /\ \A k \in outbox' : k \in outbox \/ k = Store!Active(p)
<1>1. /\ ProcessTypes /\ VersionsOK /\ LookupsOK /\ FileTypes /\ RowsApart
      /\ p \in Store!Running /\ Store!Active(p) \in {"old", "new"}
  <2>1. p \in Store!Running
    BY OpenMoves DEF StoreInv, Store!Running
  <2> QED BY <2>1, KeysFit DEF StoreInv
<1>2. CASE inbox' = inbox /\ outbox' = outbox
  BY <1>1, <1>2 DEF FileTypes, RowsApart
<1>3. CASE Seals(p) /\ lookup[p] = "L"
  BY <1>1, <1>3, SealedRows DEF FileTypes, Seals
<1>4. CASE Rekeys(p) /\ version = 6
  <2> DEFINE stale == {r \in inbox : r.key # Store!Active(p)}
  <2>1. /\ inbox' = (inbox \ stale) \cup Store!Sealed(p, stale)
        /\ \A r \in stale : r.digest = lookup[p]
        /\ outbox' = IF outbox = {} THEN {} ELSE {Store!Active(p)}
    BY <1>4 DEF Rekeys
  <2>2. \A r \in inbox : r.digest = "L"
    BY <1>1, <1>4 DEF LookupsOK
  <2>3. stale \in SUBSET inbox /\ (lookup[p] = "L" \/ stale = {})
    BY <1>1, <2>1, <2>2 DEF ProcessTypes
  <2>4. /\ Store!Sealed(p, stale) \subseteq Rows /\ IsFiniteSet(Store!Sealed(p, stale))
        /\ \A r \in Store!Sealed(p, stale) : r.digest = "L" /\ r.key = Store!Active(p)
        /\ \A r, s \in Store!Sealed(p, stale) : r.event = s.event => r = s
        /\ \A s \in Store!Sealed(p, stale) : \E r \in stale : s.event = r.event
    BY <1>1, <2>3, SealedRows
  <2> HIDE DEF stale
  <2>5. IsFiniteSet(inbox \ stale) /\ IsFiniteSet(inbox')
    BY <1>1, <2>1, <2>4, FS_Difference, FS_Union DEF FileTypes
  <2>6. inbox' \subseteq Rows /\ outbox' \subseteq {"old", "new"}
    BY <1>1, <2>1, <2>4 DEF FileTypes
  <2>7. \A r, s \in inbox' : r.event = s.event /\ r.digest = s.digest => r = s
    BY <1>1, <2>1, <2>2, <2>3, <2>4 DEF RowsApart
  <2>8. \A r \in inbox' : r.digest = "L" /\ (r \in inbox \/ r.key = Store!Active(p))
    BY <2>1, <2>2, <2>4
  <2>9. \A k \in outbox' : k = Store!Active(p)
    BY <2>1
  <2> QED BY <2>5, <2>6, <2>7, <2>8, <2>9
<1> QED
  BY <1>2, <1>3, <1>4, OpenRows

\* The steps of a process that serves.
LEMMA ServingRows ==
  ASSUME Store!StoreAssumption, StoreInv, NEW p \in Process, Store!Receive(p) \/ Store!Accept(p) \/ Store!Clear(p)
  PROVE  /\ inbox' \subseteq Rows /\ IsFiniteSet(inbox')
         /\ outbox' \subseteq {"old", "new"}
         /\ \A r, s \in inbox' : r.event = s.event /\ r.digest = s.digest => r = s
         /\ \A r \in inbox' : r \in inbox \/ (r.key = Store!Active(p) /\ r.digest = "L")
         /\ \A k \in outbox' : k \in outbox \/ k = Store!Active(p)
<1>1. /\ ProcessTypes /\ VersionsOK /\ LookupsOK /\ FileTypes /\ RowsApart
      /\ p \in Store!Running /\ Store!Active(p) \in {"old", "new"} /\ lookup[p] = "L"
  <2>1. p \in Store!Running /\ opening[p] \in Checked
    BY DEF Store!Receive, Store!Accept, Store!Clear, Store!Running, Checked
  <2> QED BY <2>1, KeysFit DEF StoreInv, LookupsOK
<1>2. CASE Store!Receive(p)
  <2>1. PICK e \in Event :
          /\ \A r \in inbox : <<r.event, r.digest>> # <<e, lookup[p]>>
          /\ inbox' = inbox \cup {[event |-> e, digest |-> lookup[p], key |-> Store!Active(p)]}
    BY <1>2 DEF Store!Receive
  <2> DEFINE new == [event |-> e, digest |-> "L", key |-> Store!Active(p)]
  <2>2. inbox' = inbox \cup {new} /\ new \in Rows /\ new.event = e /\ new.digest = "L" /\ new.key = Store!Active(p)
    BY <1>1, <2>1 DEF Rows
  <2>3. \A r \in inbox : ~(r.event = e /\ r.digest = "L")
    BY <1>1, <2>1
  <2> HIDE DEF new
  <2>4. IsFiniteSet(inbox')
    BY <1>1, <2>2, FS_AddElement DEF FileTypes
  <2>5. \A r, s \in inbox' : r.event = s.event /\ r.digest = s.digest => r = s
    BY <1>1, <2>2, <2>3 DEF RowsApart
  <2> QED BY <1>1, <1>2, <2>2, <2>4, <2>5 DEF FileTypes, Store!Receive
<1>3. CASE Store!Accept(p)
  BY <1>1, <1>3 DEF Store!Accept, FileTypes, RowsApart
<1>4. CASE Store!Clear(p)
  <2>1. inbox' \subseteq inbox /\ outbox' \subseteq outbox
    BY <1>4 DEF Store!Clear
  <2>2. IsFiniteSet(inbox')
    BY <1>1, <2>1, FS_Subset DEF FileTypes
  <2> QED BY <1>1, <2>1, <2>2 DEF FileTypes, RowsApart
<1> QED BY <1>2, <1>3, <1>4

\* Whoever leaves the file alone leaves its types alone.
LEMMA UnchangedFile ==
  ASSUME FileTypes, UNCHANGED Store!fileVars, faults' \in 0..MaxFaults
  PROVE  FileTypes' /\ version <= version'
<1>1. /\ version' = version /\ inbox' = inbox /\ outbox' = outbox
      /\ binding' = binding /\ scrub' = scrub /\ plaintext' = plaintext
  BY DEF Store!fileVars
<1>2. version <= version'
  BY <1>1 DEF FileTypes
<1> QED BY <1>1, <1>2 DEF FileTypes

\* The types of the file.
LEMMA FileTypesStep ==
  ASSUME Store!StoreAssumption, StoreInv, [Store!Next]_(Store!vars)
  PROVE  FileTypes' /\ version <= version'
<1>1. FileTypes /\ ProcessTypes /\ VersionsOK /\ LookupsOK /\ MaxFaults \in Nat
  BY DEF StoreInv, Store!StoreAssumption
<1>2. ASSUME NEW p \in Process, Store!Open(p) PROVE FileTypes' /\ version <= version'
  <2>1. inbox' \subseteq Rows /\ IsFiniteSet(inbox') /\ outbox' \subseteq {"old", "new"}
    BY <1>2, RowsStep
  <2>2. version' \in 0..6 /\ faults' \in 0..MaxFaults /\ version <= version'
    <3>1. CASE Store!CheckKeyring(p) \/ Store!MigrateSchema(p)
      BY <1>1, <3>1
         DEF Store!CheckKeyring, Store!MigrateSchema, Store!Refuse, Store!fileVars, FileTypes,
             ProcessTypes
    <3>2. CASE Store!EncryptInbox(p) \/ Store!RebindInbox(p)
      BY <1>1, <3>2
         DEF Store!EncryptInbox, Store!RebindInbox, Store!Refuse, Store!fileVars, FileTypes,
             ProcessTypes, VersionsOK
    <3>3. CASE Store!Rekey(p) \/ Store!VerifyBinding(p) \/ Store!RecordBinding(p)
      BY <1>1, <3>3
         DEF Store!Rekey, Store!VerifyBinding, Store!RecordBinding, Store!Refuse, Store!fileVars,
             FileTypes
    <3>4. CASE Store!CheckScrub(p) \/ Store!Truncate(p) \/ Store!Vacuum(p) \/ Store!MarkScrubbed(p) \/ Store!AssertKeyring(p)
      BY <1>1, <3>4
         DEF Store!CheckScrub, Store!Truncate, Store!Vacuum, Store!MarkScrubbed,
             Store!AssertKeyring, Store!Refuse, Store!fileVars, FileTypes, Store!Fault
    <3> QED BY <1>2, <3>1, <3>2, <3>3, <3>4 DEF Store!Open
  <2>3. binding' \in {"none", "L"}
    <3>1. CASE Store!RecordBinding(p)
      BY <1>1, <3>1
         DEF Store!RecordBinding, Store!Refuse, Store!fileVars, FileTypes, ProcessTypes, LookupsOK,
             Checked
    <3>2. CASE ~Store!RecordBinding(p)
      BY <1>1, <1>2, <3>2
         DEF Store!Open, Store!CheckKeyring, Store!MigrateSchema, Store!EncryptInbox,
             Store!RebindInbox, Store!Rekey, Store!VerifyBinding, Store!CheckScrub, Store!Truncate,
             Store!Vacuum, Store!MarkScrubbed, Store!AssertKeyring, Store!Refuse, Store!fileVars,
             FileTypes
    <3> QED BY <3>1, <3>2
  <2>4. /\ scrub' \in {"none", "pending", "complete"}
        /\ plaintext' \in {"present", "superseded", "gone"}
    BY <1>1, <1>2
       DEF Store!Open, Store!CheckKeyring, Store!MigrateSchema, Store!EncryptInbox,
           Store!RebindInbox, Store!Rekey, Store!Truncated, Store!VerifyBinding,
           Store!RecordBinding, Store!CheckScrub, Store!Truncate, Store!Vacuum, Store!MarkScrubbed,
           Store!AssertKeyring, Store!Refuse, Store!fileVars, FileTypes
  <2> QED BY <2>1, <2>2, <2>3, <2>4 DEF FileTypes
<1>3. ASSUME NEW p \in Process, Store!Receive(p) \/ Store!Accept(p) \/ Store!Clear(p)
      PROVE  FileTypes' /\ version <= version'
  <2>1. UNCHANGED <<version, binding, scrub, plaintext, faults>>
    BY <1>3 DEF Store!Receive, Store!Accept, Store!Clear
  <2> QED BY <1>1, <1>3, <2>1, ServingRows DEF FileTypes
<1>4. ASSUME NEW p \in Process, Store!Start(p) \/ Store!Stop(p) \/ Store!Shutdown(p)
      PROVE  FileTypes' /\ version <= version'
  <2>1. UNCHANGED Store!fileVars /\ faults' \in 0..MaxFaults
    BY <1>1, <1>4 DEF Store!Start, Store!Stop, Store!Shutdown, Store!Fault, FileTypes
  <2> QED BY <1>1, <2>1, UnchangedFile
<1>5. CASE Store!Rotate \/ Store!Restore \/ UNCHANGED Store!vars
  <2>1. UNCHANGED Store!fileVars /\ faults' \in 0..MaxFaults
    BY <1>1, <1>5 DEF Store!Rotate, Store!Restore, Store!vars, FileTypes
  <2> QED BY <1>1, <2>1, UnchangedFile
<1> QED BY <1>2, <1>3, <1>4, <1>5 DEF Store!Next

\* Nobody gets ahead of the file, and nobody past the migrations with an older version.
LEMMA VersionsStep ==
  ASSUME Store!StoreAssumption, StoreInv, [Store!Next]_(Store!vars)
  PROVE  VersionsOK'
<1>1. FileTypes /\ ProcessTypes /\ VersionsOK /\ version <= version' /\ version' \in 0..6
  BY FileTypesStep DEF StoreInv, FileTypes
<1>2. ASSUME NEW p \in Process, Store!Open(p) PROVE VersionsOK'
  <2>1. seen' = seen \/ (seen' = [seen EXCEPT ![p] = seen[p] + 1] /\ seen[p] + 1 <= version')
    BY <1>1, <1>2
       DEF Store!Open, Store!CheckKeyring, Store!MigrateSchema, Store!EncryptInbox,
           Store!RebindInbox, Store!Rekey, Store!VerifyBinding, Store!RecordBinding,
           Store!CheckScrub, Store!Truncate, Store!Vacuum, Store!MarkScrubbed, Store!AssertKeyring,
           Store!Refuse, ProcessTypes, VersionsOK, FileTypes
  <2>2. \A q \in Process : seen'[q] <= version'
    BY <1>1, <2>1 DEF ProcessTypes, VersionsOK, FileTypes
  <2>3. \/ opening' = opening
        \/ \E next \in Stages : /\ opening' = [opening EXCEPT ![p] = next]
                                /\ next \in Checked \cup {"binding"} => seen[p] = 6 /\ seen' = seen
    <3>1. CASE Store!CheckKeyring(p) \/ Store!MigrateSchema(p)
      BY <3>1 DEF Store!CheckKeyring, Store!MigrateSchema, Store!Refuse, Store!GoTo, Stages, Checked
    <3>2. CASE Store!EncryptInbox(p) \/ Store!RebindInbox(p)
      BY <3>2 DEF Store!EncryptInbox, Store!RebindInbox, Store!Refuse, Store!GoTo, Stages, Checked
    <3>3. CASE Store!Rekey(p)
      BY <3>3 DEF Store!Rekey, Store!Refuse, Store!GoTo, Stages, Checked
    <3>4. CASE Store!VerifyBinding(p) \/ Store!RecordBinding(p) \/ Store!CheckScrub(p)
      <4>1. seen[p] = 6
        BY <1>1, <3>4
           DEF Store!VerifyBinding, Store!RecordBinding, Store!CheckScrub, VersionsOK, Checked
      <4> QED BY <3>4, <4>1
          DEF Store!VerifyBinding, Store!RecordBinding, Store!CheckScrub, Store!Refuse, Store!GoTo,
              Stages, Checked
    <3>5. CASE Store!Truncate(p) \/ Store!Vacuum(p) \/ Store!MarkScrubbed(p) \/ Store!AssertKeyring(p)
      <4>1. seen[p] = 6
        BY <1>1, <3>5
           DEF Store!Truncate, Store!Vacuum, Store!MarkScrubbed, Store!AssertKeyring, VersionsOK,
               Checked
      <4> QED BY <3>5, <4>1
          DEF Store!Truncate, Store!Vacuum, Store!MarkScrubbed, Store!AssertKeyring, Store!Refuse,
              Store!GoTo, Stages, Checked
    <3> QED BY <1>2, <3>1, <3>2, <3>3, <3>4, <3>5 DEF Store!Open
  <2>4. \A q \in Process : opening'[q] \in Checked \cup {"binding"} => seen'[q] = 6
    BY <1>1, <2>1, <2>2, <2>3 DEF ProcessTypes, VersionsOK, FileTypes
  <2>5. binding' = "L" => version' = 6
    <3>1. binding' = "L" => binding = "L" \/ seen[p] = 6
      BY <1>1, <1>2
         DEF Store!Open, Store!CheckKeyring, Store!MigrateSchema, Store!EncryptInbox,
             Store!RebindInbox, Store!Rekey, VersionsOK, Checked, Store!VerifyBinding,
             Store!RecordBinding, Store!CheckScrub, Store!Truncate, Store!Vacuum,
             Store!MarkScrubbed, Store!AssertKeyring, Store!Refuse, Store!fileVars
    <3> QED BY <1>1, <3>1 DEF VersionsOK, ProcessTypes, FileTypes
  <2> QED BY <2>2, <2>4, <2>5 DEF VersionsOK
<1>3. ASSUME NEW p \in Process, Store!Start(p) PROVE VersionsOK'
  BY <1>1, <1>3
     DEF Store!Start, Store!GoTo, Store!fileVars, VersionsOK, ProcessTypes, FileTypes, Checked
<1>4. ASSUME NEW p \in Process, Store!Stop(p) \/ Store!Shutdown(p) PROVE VersionsOK'
  BY <1>1, <1>4
     DEF Store!Stop, Store!Shutdown, Store!GoTo, Store!fileVars, VersionsOK, ProcessTypes, Checked
<1>5. ASSUME NEW p \in Process, Store!Receive(p) \/ Store!Accept(p) \/ Store!Clear(p) PROVE VersionsOK'
  BY <1>1, <1>5 DEF Store!Receive, Store!Accept, Store!Clear, Store!procVars, VersionsOK
<1>6. CASE Store!Rotate \/ Store!Restore \/ UNCHANGED Store!vars
  BY <1>1, <1>6
     DEF Store!Rotate, Store!Restore, Store!vars, Store!procVars, Store!fileVars, VersionsOK
<1> QED BY <1>2, <1>3, <1>4, <1>5, <1>6 DEF Store!Next

\* No two rows of one event get one digest.
LEMMA RowsApartStep ==
  ASSUME Store!StoreAssumption, StoreInv, [Store!Next]_(Store!vars)
  PROVE  RowsApart'
<1>1. FileTypes /\ ProcessTypes /\ VersionsOK /\ RowsApart /\ version <= version' /\ version' \in 0..6
  BY FileTypesStep DEF StoreInv, FileTypes
<1>2. ASSUME NEW p \in Process, Store!Open(p) PROVE RowsApart'
  <2>1. \A r, s \in inbox' : r.event = s.event /\ r.digest = s.digest => r = s
    BY <1>2, RowsStep
  <2>2. version' <= 3 => inbox' = inbox
    BY <1>1, <1>2, OpenRows DEF Seals, Rekeys, FileTypes
  <2> QED BY <1>1, <2>1, <2>2 DEF RowsApart, FileTypes
<1>3. ASSUME NEW p \in Process, Store!Receive(p) \/ Store!Accept(p) \/ Store!Clear(p) PROVE RowsApart'
  <2>1. version' = version /\ opening[p] \in Checked
    BY <1>3 DEF Store!Receive, Store!Accept, Store!Clear, Checked
  <2>2. version' = 6
    BY <1>1, <2>1 DEF VersionsOK, FileTypes
  <2> QED BY <1>3, <2>2, ServingRows DEF RowsApart
<1>4. CASE UNCHANGED Store!fileVars
  BY <1>1, <1>4 DEF Store!fileVars, RowsApart
<1> QED BY <1>2, <1>3, <1>4
    DEF Store!Next, Store!Start, Store!Stop, Store!Shutdown, Store!Rotate, Store!Restore,
        Store!vars

\* A wrong lookup key gets no further than the comparison with the recorded one.
LEMMA LookupsStep ==
  ASSUME Store!StoreAssumption, StoreInv, [Store!Next]_(Store!vars)
  PROVE  LookupsOK'
<1>1. FileTypes /\ ProcessTypes /\ VersionsOK /\ LookupsOK /\ version <= version' /\ version' \in 0..6
  BY FileTypesStep DEF StoreInv, FileTypes
<1>2. VersionsOK'
  BY VersionsStep
<1>3. binding = "L" => binding' = "L"
  BY <1>1, <1>2
     DEF Store!Next, Store!Start, Store!Open, Store!CheckKeyring, Store!MigrateSchema,
         Store!EncryptInbox, Store!RebindInbox, Store!Rekey, Store!Stop, Store!Shutdown,
         Store!VerifyBinding, Store!RecordBinding, Store!CheckScrub, Store!Truncate, Store!Vacuum,
         Store!MarkScrubbed, Store!AssertKeyring, Store!Refuse, Store!fileVars, Store!Receive,
         Store!Accept, Store!Clear, Store!Rotate, Store!Restore, Store!vars
<1>4. ASSUME NEW p \in Process, Store!Open(p) PROVE LookupsOK'
  <2>1. lookup' = lookup /\ Goes(p) /\ Reads(p) /\ opening[p] # "down"
    BY <1>1, <1>4, OpenMoves DEF Opens
  <2>2. \A q \in Process : lookup'[q] = "wrong" => binding' = "L" /\ (opening'[q] # "down" => seen'[q] = 6)
    BY <1>1, <1>3, <2>1 DEF LookupsOK, Goes, Reads, ProcessTypes
  <2>3. opening'[p] \in Checked => opening[p] \in Checked \/ lookup[p] = "L"
    <3>1. CASE Store!VerifyBinding(p)
      BY <1>1, <3>1
         DEF Store!VerifyBinding, Store!LookupFits, LookupsOK, Store!Refuse, Store!GoTo,
             ProcessTypes, FileTypes, Checked
    <3>2. CASE Store!CheckKeyring(p) \/ Store!MigrateSchema(p) \/ Store!EncryptInbox(p) \/ Store!RebindInbox(p) \/ Store!Rekey(p)
      BY <1>1, <3>2
         DEF Store!CheckKeyring, Store!MigrateSchema, Store!EncryptInbox, Store!RebindInbox,
             Store!Rekey, Store!Refuse, Store!GoTo, ProcessTypes, Checked
    <3>3. CASE Store!RecordBinding(p) \/ Store!CheckScrub(p) \/ Store!Truncate(p) \/ Store!Vacuum(p) \/ Store!MarkScrubbed(p) \/ Store!AssertKeyring(p)
      BY <3>3
         DEF Store!RecordBinding, Store!CheckScrub, Store!Truncate, Store!Vacuum,
             Store!MarkScrubbed, Store!AssertKeyring, Checked
    <3> QED BY <1>4, <3>1, <3>2, <3>3 DEF Store!Open
  <2>4. \A q \in Process : opening'[q] \in Checked => lookup'[q] = "L"
    <3>1. \A q \in Process \ {p} : opening'[q] = opening[q]
      BY <1>1, <2>1 DEF Goes, ProcessTypes
    <3> QED BY <1>1, <2>1, <2>3, <3>1 DEF LookupsOK
  <2>5. version' = 6 => \A r \in inbox' : r.digest = "L"
    <3>1. CASE Seals(p) /\ lookup[p] = "L"
      <4>1. p \in Store!Running
        BY <2>1 DEF Store!Running
      <4> QED BY <3>1, <4>1, SealedRows DEF Seals
    <3>2. CASE inbox' = inbox /\ (version' = version \/ version' <= 3)
      BY <1>1, <3>2 DEF LookupsOK
    <3>3. CASE Rekeys(p) /\ version = 6
      BY <1>1, <1>4, <3>3, RowsStep DEF LookupsOK
    <3> QED BY <1>4, <3>1, <3>2, <3>3, OpenRows
  <2> QED BY <2>2, <2>4, <2>5 DEF LookupsOK
<1>5. ASSUME NEW p \in Process, Store!Start(p) PROVE LookupsOK'
  <2>1. /\ opening' = [opening EXCEPT ![p] = "keyring"] /\ seen' = [seen EXCEPT ![p] = version]
        /\ \/ lookup' = [lookup EXCEPT ![p] = "L"]
           \/ binding # "none" /\ lookup' = [lookup EXCEPT ![p] = "wrong"]
        /\ UNCHANGED <<inbox, binding, version>>
    BY <1>5 DEF Store!Start, Store!GoTo, Store!fileVars
  <2>2. \A q \in Process : lookup'[q] = "wrong" => binding' = "L" /\ (opening'[q] # "down" => seen'[q] = 6)
    <3>1. lookup'[p] = "wrong" => binding' = "L" /\ seen'[p] = 6
      BY <1>1, <2>1 DEF VersionsOK, ProcessTypes, FileTypes
    <3>2. \A q \in Process \ {p} : lookup'[q] = lookup[q] /\ opening'[q] = opening[q] /\ seen'[q] = seen[q]
      BY <1>1, <2>1 DEF ProcessTypes
    <3> QED BY <1>1, <2>1, <3>1, <3>2 DEF LookupsOK
  <2>3. \A q \in Process : opening'[q] \in Checked => lookup'[q] = "L"
    BY <1>1, <2>1 DEF LookupsOK, ProcessTypes, Checked
  <2> QED BY <1>1, <2>1, <2>2, <2>3 DEF LookupsOK
<1>6. ASSUME NEW p \in Process, Store!Stop(p) \/ Store!Shutdown(p) PROVE LookupsOK'
  BY <1>1, <1>6
     DEF Store!Stop, Store!Shutdown, Store!GoTo, Store!fileVars, LookupsOK, ProcessTypes, Checked
<1>7. ASSUME NEW p \in Process, Store!Receive(p) \/ Store!Accept(p) \/ Store!Clear(p) PROVE LookupsOK'
  <2>1. UNCHANGED <<version, binding, Store!procVars>>
    BY <1>7 DEF Store!Receive, Store!Accept, Store!Clear
  <2> QED BY <1>1, <1>7, <2>1, ServingRows DEF LookupsOK, Store!procVars
<1>8. CASE Store!Rotate \/ Store!Restore \/ UNCHANGED Store!vars
  BY <1>1, <1>8
     DEF Store!Rotate, Store!Restore, Store!vars, Store!procVars, Store!fileVars, LookupsOK
<1> QED BY <1>4, <1>5, <1>6, <1>7, <1>8 DEF Store!Next

\* Nobody marks the file scrubbed before VACUUM and the second checkpoint.
LEMMA ScrubStep ==
  ASSUME Store!StoreAssumption, StoreInv, [Store!Next]_(Store!vars)
  PROVE  ScrubOK'
<1>1. FileTypes /\ ProcessTypes /\ ScrubOK
  BY DEF StoreInv
<1>2. ASSUME NEW p \in Process, Store!Open(p) PROVE ScrubOK'
  <2>1. /\ plaintext' = "gone" \/ (plaintext # "gone" /\ (plaintext' = "present" => plaintext = "present"))
        /\ scrub' = "complete" => plaintext' = "gone"
    BY <1>1, <1>2
       DEF Store!Open, Store!CheckKeyring, Store!MigrateSchema, Store!EncryptInbox,
           Store!RebindInbox, Store!Rekey, Store!Truncated, Store!VerifyBinding,
           Store!RecordBinding, Store!CheckScrub, Store!Truncate, Store!Vacuum, Store!MarkScrubbed,
           Store!AssertKeyring, Store!Refuse, Store!fileVars, FileTypes, ScrubOK
  <2>2. /\ \A q \in Process \ {p} : opening'[q] = opening[q]
        /\ opening'[p] \in {"mark", "assert", "serving"} => plaintext' = "gone"
        /\ opening'[p] = "truncateAgain" => plaintext' # "present"
    <3>1. CASE Store!CheckKeyring(p) \/ Store!MigrateSchema(p)
      BY <1>1, <2>1, <3>1
         DEF Store!CheckKeyring, Store!MigrateSchema, Store!Refuse, Store!GoTo, ProcessTypes
    <3>2. CASE Store!EncryptInbox(p) \/ Store!RebindInbox(p)
      BY <1>1, <2>1, <3>2
         DEF Store!EncryptInbox, Store!RebindInbox, Store!Refuse, Store!GoTo, ProcessTypes
    <3>3. CASE Store!Rekey(p) \/ Store!VerifyBinding(p) \/ Store!RecordBinding(p)
      BY <1>1, <2>1, <3>3
         DEF Store!Rekey, Store!VerifyBinding, Store!RecordBinding, Store!Refuse, Store!GoTo,
             ProcessTypes
    <3>4. CASE Store!CheckScrub(p) \/ Store!MarkScrubbed(p) \/ Store!AssertKeyring(p)
      BY <1>1, <3>4
         DEF Store!CheckScrub, Store!MarkScrubbed, Store!AssertKeyring, Store!Refuse, Store!GoTo,
             ProcessTypes, ScrubOK, Store!fileVars
    <3>5. CASE Store!Truncate(p)
      BY <1>1, <3>5
         DEF Store!Truncate, Store!Truncated, Store!Refuse, Store!GoTo, ProcessTypes, FileTypes,
             ScrubOK, Store!fileVars
    <3>6. CASE Store!Vacuum(p)
      BY <1>1, <3>6 DEF Store!Vacuum, Store!GoTo, ProcessTypes
    <3> QED BY <1>2, <3>1, <3>2, <3>3, <3>4, <3>5, <3>6 DEF Store!Open
  <2> QED BY <1>1, <2>1, <2>2 DEF ScrubOK
<1>3. ASSUME NEW p \in Process, Store!Start(p) \/ Store!Stop(p) \/ Store!Shutdown(p) PROVE ScrubOK'
  <2>1. /\ UNCHANGED <<scrub, plaintext>>
        /\ \A q \in Process : opening'[q] = opening[q] \/ opening'[q] \in {"down", "keyring"}
    BY <1>1, <1>3
       DEF Store!Start, Store!Stop, Store!Shutdown, Store!GoTo, Store!fileVars, ProcessTypes
  <2> QED BY <1>1, <2>1 DEF ScrubOK
<1>4. ASSUME NEW p \in Process, Store!Receive(p) \/ Store!Accept(p) \/ Store!Clear(p) PROVE ScrubOK'
  BY <1>1, <1>4 DEF Store!Receive, Store!Accept, Store!Clear, Store!procVars, ScrubOK
<1>5. CASE Store!Rotate \/ Store!Restore \/ UNCHANGED Store!vars
  BY <1>1, <1>5 DEF Store!Rotate, Store!Restore, Store!vars, Store!procVars, Store!fileVars, ScrubOK
<1> QED BY <1>2, <1>3, <1>4, <1>5 DEF Store!Next

\* A key that comes into use while a process serves is one it holds.
LEMMA ReadableStep ==
  ASSUME Store!StoreAssumption, StoreInv, [Store!Next]_(Store!vars)
  PROVE  Store!Readable'
<1>1. FileTypes /\ ProcessTypes /\ VersionsOK /\ Store!Readable
  BY DEF StoreInv
<1>2. ASSUME NEW p \in Store!Serving', NEW k \in Store!KeysInUse' PROVE k \in Store!Keys(p)'
  <2>1. p \in Process /\ opening'[p] = "serving"
    BY DEF Store!Serving
  <2>2. CASE p \in Store!Serving
    <3>1. /\ p \in Store!Running /\ Store!KeysInUse \subseteq Store!Keys(p) /\ version >= 4
          /\ opening[p] = "serving"
      <4>1. opening[p] = "serving" /\ p \in Process /\ Store!Complete(p)
        BY <1>1, <2>2 DEF Store!Readable, Store!Serving
      <4>2. version >= 4
        BY <1>1, <4>1 DEF VersionsOK, Checked, FileTypes
      <4> QED BY <4>1, <4>2 DEF Store!Running, Store!Complete
    <3>2. Store!Keys(p)' = Store!Keys(p)
      BY <1>1, <2>1, <3>1, OpenMoves
         DEF Store!Next, Opens, Store!Start, Store!Stop, Store!Shutdown, Store!Receive,
             Store!Accept, Store!Clear, Store!Rotate, Store!Restore, Store!vars, Store!procVars,
             Store!Keys, ProcessTypes
    <3>3. k \in Store!KeysInUse \/ \E q \in Store!Running : k = Store!Active(q)
      <4>1. k \in outbox' \/ \E r \in inbox' : k = r.key
        BY DEF Store!KeysInUse
      <4>2. ASSUME NEW q \in Process, Store!Open(q) PROVE <3>3!1 \/ <3>3!2
        <5>1. q \in Store!Running
          BY <1>1, <4>2, OpenMoves DEF Store!Running
        <5> QED BY <3>1, <4>1, <4>2, <5>1, RowsStep DEF Store!KeysInUse
      <4>3. ASSUME NEW q \in Process, Store!Receive(q) \/ Store!Accept(q) \/ Store!Clear(q)
            PROVE  <3>3!1 \/ <3>3!2
        <5>1. q \in Store!Running
          BY <4>3 DEF Store!Receive, Store!Accept, Store!Clear, Store!Running
        <5> QED BY <3>1, <4>1, <4>3, <5>1, ServingRows DEF Store!KeysInUse
      <4>4. CASE UNCHANGED Store!fileVars
        BY <4>4 DEF Store!fileVars, Store!KeysInUse
      <4> QED BY <4>2, <4>3, <4>4
          DEF Store!Next, Store!Start, Store!Stop, Store!Shutdown, Store!Rotate, Store!Restore,
              Store!vars
    <3> QED BY <3>1, <3>2, <3>3, KeysFit
  <2>3. CASE p \notin Store!Serving
    <3>1. Store!AssertKeyring(p)
      <4>1. opening[p] # "serving"
        BY <2>1, <2>3 DEF Store!Serving
      <4>2. ASSUME NEW q \in Process, Store!Open(q) PROVE Store!AssertKeyring(p)
        <5>1. q = p
          BY <1>1, <2>1, <4>1, <4>2, OpenMoves DEF Opens, Goes, ProcessTypes
        <5> QED BY <1>1, <2>1, <4>1, <4>2, <5>1
            DEF Store!Open, Store!CheckKeyring, Store!MigrateSchema, Store!EncryptInbox,
                Store!RebindInbox, Store!Rekey, Store!VerifyBinding, Store!RecordBinding,
                Store!CheckScrub, Store!Truncate, Store!Vacuum, Store!MarkScrubbed, Store!Refuse,
                Store!GoTo, ProcessTypes
      <4>3. ~ \E q \in Process : Store!Start(q) \/ Store!Stop(q) \/ Store!Shutdown(q)
        BY <1>1, <2>1, <4>1 DEF Store!Start, Store!Stop, Store!Shutdown, Store!GoTo, ProcessTypes
      <4>4. ~ UNCHANGED opening
        BY <2>1, <4>1
      <4> QED BY <4>2, <4>3, <4>4
          DEF Store!Next, Store!Receive, Store!Accept, Store!Clear, Store!Rotate, Store!Restore,
              Store!vars, Store!procVars
    <3>2. Store!Complete(p) /\ UNCHANGED <<Store!fileVars, step>>
      BY <1>1, <2>1, <3>1 DEF Store!AssertKeyring, Store!Refuse, Store!GoTo, ProcessTypes
    <3> QED BY <3>2 DEF Store!Complete, Store!KeysInUse, Store!Keys, Store!fileVars
  <2> QED BY <2>2, <2>3
<1> QED BY <1>2 DEF Store!Readable, Store!Complete

\* A new file, and those that older revisions left.
LEMMA StoreInitInv == ASSUME Store!StoreAssumption PROVE Store!Init => StoreInv
<1> SUFFICES ASSUME Store!Init PROVE StoreInv
  OBVIOUS
<1>1. inbox \subseteq Rows /\ IsFiniteSet(inbox)
  <2> DEFINE V3 == [event : Event, digest : {"none"}, key : {"none"}]
             All == [event : Event, digest : {"none", "earlier", "earliest"}, key : {"none", "old"}]
  <2>1. inbox \subseteq All
    BY DEF Store!Init
  <2>2. IsFiniteSet(All)
    <3> DEFINE T == Event \X ({"none", "earlier", "earliest"} \X {"none", "old"})
               f == [t \in T |-> [event |-> t[1], digest |-> t[2][1], key |-> t[2][2]]]
    <3>1. /\ IsFiniteSet({"none"}) /\ IsFiniteSet({"none", "earlier"}) /\ IsFiniteSet({"none", "earlier", "earliest"})
          /\ IsFiniteSet({"none", "old"})
      <4>1. {"none", "earlier"} = {"none"} \cup {"earlier"} /\ {"none", "old"} = {"none"} \cup {"old"}
            /\ {"none", "earlier", "earliest"} = {"none", "earlier"} \cup {"earliest"}
        OBVIOUS
      <4>2. IsFiniteSet({"none"})
        BY FS_Singleton
      <4>3. IsFiniteSet({"none"} \cup {"earlier"}) /\ IsFiniteSet({"none"} \cup {"old"})
        BY <4>2, FS_AddElement
      <4>4. IsFiniteSet({"none", "earlier"} \cup {"earliest"})
        BY <4>1, <4>3, FS_AddElement
      <4> QED BY <4>1, <4>2, <4>3, <4>4
    <3>2. IsFiniteSet({"none", "earlier", "earliest"} \X {"none", "old"})
      BY <3>1, FS_Product
    <3>3. IsFiniteSet(T)
      BY <3>2, FS_Product, StoreCounts DEF Store!StoreAssumption
    <3>4. f \in Surjection(T, All)
      <4>1. f \in [T -> All]
        OBVIOUS
      <4>2. ASSUME NEW r \in All PROVE \E t \in T : f[t] = r
        <5>1. <<r.event, <<r.digest, r.key>>>> \in T /\ f[<<r.event, <<r.digest, r.key>>>>] = r
          OBVIOUS
        <5> QED BY <5>1
      <4> QED BY <4>1, <4>2 DEF Surjection
    <3> QED BY <3>3, <3>4, FS_Surjection
  <2>3. All \subseteq Rows
    BY DEF Rows
  <2> QED BY <2>1, <2>2, <2>3, FS_Subset
<1>2. FileTypes /\ ProcessTypes
  BY <1>1 DEF Store!Init, FileTypes, ProcessTypes, Stages, Store!StoreAssumption
<1>3. RowsApart
  BY DEF Store!Init, RowsApart
<1>4. VersionsOK /\ LookupsOK /\ RotationOK /\ ScrubOK /\ Store!Readable
  BY
     DEF Store!Init, VersionsOK, LookupsOK, RotationOK, ScrubOK, Store!Readable, Store!Running,
         Store!Serving, Checked
<1> QED BY <1>2, <1>3, <1>4 DEF StoreInv

\* Every step keeps the invariant.
LEMMA StoreNextInv ==
  ASSUME Store!StoreAssumption
  PROVE  StoreInv /\ [Store!Next]_(Store!vars) => StoreInv'
BY FileTypesStep, ProcessTypesStep, RowsApartStep, VersionsStep, LookupsStep, RotationStep,
   ScrubStep, ReadableStep
   DEF StoreInv

\* So it always holds.
LEMMA AlwaysStoreInv == ASSUME Store!StoreAssumption PROVE Store!Spec => []StoreInv
BY StoreInitInv, StoreNextInv, PTL DEF Store!Spec

\* However many processes open one file, stop on the way and meet the key rotation at whatever
\* step: whoever serves can decrypt every row, finds every event under the digest it computes,
\* and serves no file that still holds plaintext (SqliteOutboxStore._initialize).
THEOREM StoreIsSound == ASSUME Store!StoreAssumption PROVE Store!Spec => []StoreSound
<1>1. StoreInv => StoreSound
  BY
     DEF StoreInv, FileTypes, ProcessTypes, VersionsOK, LookupsOK, ScrubOK, StoreSound, Store!StoreSound,
         Store!TypeOK, Store!Found, Store!Scrubbed, Store!Serving, Checked
<1> QED BY <1>1, AlwaysStoreInv, PTL

\* No two rows become one, so as many are sealed as there were.
LEMMA SameRows ==
  ASSUME Store!StoreAssumption, StoreInv, NEW p \in Process, Store!Open(p)
  PROVE  /\ Cardinality(inbox') = Cardinality(inbox)
         /\ {r.event : r \in inbox'} = {r.event : r \in inbox}
         /\ (outbox' = {}) = (outbox = {})
<1>1. FileTypes /\ ProcessTypes /\ VersionsOK /\ LookupsOK /\ RowsApart /\ p \in Store!Running
  BY OpenMoves DEF StoreInv, Store!Running
<1>2. CASE inbox' = inbox /\ outbox' = outbox
  BY <1>2
<1>3. CASE Seals(p) /\ lookup[p] = "L" /\ (Store!EncryptInbox(p) \/ Store!RebindInbox(p))
  <2>1. /\ inbox' = Store!Sealed(p, inbox) /\ IsFiniteSet(inbox) /\ IsFiniteSet(inbox')
        /\ \A r \in inbox : \E s \in inbox' : s.event = r.event
        /\ \A s \in inbox' : \E r \in inbox : s.event = r.event
        /\ outbox' = outbox
    BY <1>1, <1>3, SealedRows DEF Seals, FileTypes
  <2> DEFINE f == [r \in inbox |-> [event |-> r.event, digest |-> lookup[p], key |-> Store!Active(p)]]
  <2>2. f \in Surjection(inbox, inbox')
    BY <2>1 DEF Store!Sealed, Surjection
  <2>3. Cardinality(inbox') <= Cardinality(inbox) /\ Cardinality(inbox) \in Nat /\ Cardinality(inbox') \in Nat
    BY <2>1, <2>2, FS_Surjection, FS_CardinalityType
  <2>4. Cardinality(inbox') >= Cardinality(inbox)
    <3>1. CASE Store!EncryptInbox(p) /\ inbox' # inbox
      <4>1. version <= 3
        BY <1>1, <1>3, <3>1
           DEF Store!EncryptInbox, Store!Refuse, Store!GoTo, Seals, FileTypes, ProcessTypes,
               Store!fileVars
      <4>2. \A r, s \in inbox : r.event = s.event => r = s
        BY <1>1, <4>1 DEF RowsApart
      <4>3. f \in Injection(inbox, inbox')
        BY <2>2, <4>2 DEF Injection, IsInjective, Surjection
      <4> QED BY <2>1, <4>3, FS_Injection
    <3>2. CASE Store!RebindInbox(p) /\ inbox' # inbox
      <4>1. ~Store!Collapses(p)
        BY <1>1, <1>3, <3>2 DEF Store!RebindInbox, Store!Refuse, Store!fileVars
      <4> QED BY <2>1, <2>3, <4>1, StoreCounts DEF Store!Collapses
    <3>3. CASE inbox' = inbox
      BY <3>3, <2>3
    <3> QED BY <1>3, <3>1, <3>2, <3>3
  <2>5. {r.event : r \in inbox'} = {r.event : r \in inbox}
    BY <2>1
  <2> QED BY <2>1, <2>3, <2>4, <2>5
<1>4. CASE Rekeys(p) /\ version = 6
  <2> DEFINE stale == {r \in inbox : r.key # Store!Active(p)}
             seal(r) == [event |-> r.event, digest |-> lookup[p], key |-> Store!Active(p)]
             f == [r \in inbox |-> IF r \in stale THEN seal(r) ELSE r]
  <2>1. /\ inbox' = (inbox \ stale) \cup Store!Sealed(p, stale)
        /\ \A r \in stale : r.digest = lookup[p]
        /\ outbox' = IF outbox = {} THEN {} ELSE {Store!Active(p)}
    BY <1>4 DEF Rekeys
  <2>2. Store!Sealed(p, stale) = {seal(r) : r \in stale}
    BY DEF Store!Sealed
  <2>3. f \in Surjection(inbox, inbox')
    <3>1. f \in [inbox -> inbox']
      BY <2>1, <2>2
    <3>2. ASSUME NEW s \in inbox' PROVE \E r \in inbox : f[r] = s
      BY <2>1, <2>2
    <3> QED BY <3>1, <3>2 DEF Surjection
  <2>4. ASSUME NEW r \in inbox, NEW s \in inbox, f[r] = f[s] PROVE r = s
    <3>1. r.event = s.event /\ r.digest = s.digest
      <4>1. f[r].event = r.event /\ f[s].event = s.event
        OBVIOUS
      <4>2. f[r].digest = r.digest /\ f[s].digest = s.digest
        BY <2>1
      <4> QED BY <2>4, <4>1, <4>2
    <3> QED BY <1>1, <3>1 DEF RowsApart
  <2>5. f \in Injection(inbox, inbox')
    BY <2>3, <2>4 DEF Injection, IsInjective, Surjection
  <2>6. Cardinality(inbox') = Cardinality(inbox)
    BY <1>1, <2>3, <2>5, FS_Surjection DEF FileTypes
  <2>7. {r.event : r \in inbox'} = {r.event : r \in inbox}
    <3>1. \A r \in inbox : f[r] \in inbox' /\ f[r].event = r.event
      BY <2>3 DEF Surjection
    <3>2. \A s \in inbox' : \E r \in inbox : f[r] = s
      BY <2>3 DEF Surjection
    <3> HIDE DEF f
    <3> QED BY <3>1, <3>2
  <2> QED BY <2>1, <2>6, <2>7
<1> QED BY <1>2, <1>3, <1>4, OpenRows

\* No migration, re-encryption or refusal of an opening process drops a row or merges two
\* (_encrypt_ready_inbox_migration, _stable_lookup_ready_inbox_migration, _rekey_encrypted_rows).
THEOREM OpeningForgetsNothing == ASSUME Store!StoreAssumption PROVE Store!Spec => NothingForgotten
<1> DEFINE Moved(p) == opening[p] # "serving" /\ opening[p] # "down" /\ (opening'[p] # opening[p] \/ seen'[p] # seen[p])
           RowsKept == /\ Cardinality(inbox') = Cardinality(inbox)
                       /\ {r.event : r \in inbox'} = {r.event : r \in inbox}
                       /\ (outbox' = {}) = (outbox = {})
<1>1. ASSUME StoreInv, [Store!Next]_(Store!vars), NEW p \in Process, Moved(p) PROVE RowsKept
  <2>1. ProcessTypes
    BY <1>1 DEF StoreInv
  <2>2. CASE Store!Open(p)
    BY <1>1, <2>2, SameRows
  <2>3. CASE UNCHANGED <<inbox, outbox>>
    BY <2>3
  <2>4. ASSUME NEW q \in Process, Store!Open(q) PROVE q = p
    BY <1>1, <2>1, <2>4, OpenMoves DEF Opens, Goes, Reads, ProcessTypes
  <2>5. ASSUME NEW q \in Process PROVE ~(Store!Receive(q) \/ Store!Accept(q) \/ Store!Clear(q))
    BY <1>1, <2>5 DEF Store!Receive, Store!Accept, Store!Clear, Store!procVars
  <2> QED BY <1>1, <2>2, <2>3, <2>4, <2>5
      DEF Store!Next, Store!Start, Store!Stop, Store!Shutdown, Store!Rotate, Store!Restore,
          Store!vars, Store!fileVars
<1>2. RowsKept <=> /\ Store!Cardinality(inbox') = Store!Cardinality(inbox)
                   /\ {r.event : r \in inbox'} = {r.event : r \in inbox}
                   /\ (outbox' = {}) = (outbox = {})
  BY StoreCounts
<1> HIDE DEF RowsKept
<1>3. StoreInv /\ [Store!Next]_(Store!vars) =>
        [\A p \in Process :
          (opening[p] # "serving" /\ opening[p] # "down" /\ (opening'[p] # opening[p] \/ seen'[p] # seen[p])) =>
            /\ Store!Cardinality(inbox') = Store!Cardinality(inbox)
            /\ {r.event : r \in inbox'} = {r.event : r \in inbox}
            /\ (outbox' = {}) = (outbox = {})]_(Store!vars)
  BY <1>1, <1>2
<1> QED BY <1>3, AlwaysStoreInv, PTL DEF Store!Spec, NothingForgotten, Store!NothingForgotten

-----------------------------------------------------------------------------
(* AnalysisApplication.  Slots are conserved; the end of a queue is the latest *)
(* result.                                                                     *)

\* What the instance calls Cardinality and Last are Cardinality and Last.
LEMMA AnalysisCounts ==
  /\ \A S : Analysis!Cardinality(S) = Cardinality(S)
  /\ \A s : Analysis!Last(s) = Last(s)
BY DEF Analysis!Cardinality, Cardinality, Analysis!Last, Last

Done == {r \in Requests : future[r] # None}

Heard == Done \ released

\* A slot is free, or with a thread, or with a result the event loop has not
\* heard of; a request has a thread or a result only when it had a slot.
SlotsOK ==
  /\ slots \in Nat /\ running \subseteq Requests /\ released \subseteq Done
  /\ running \cap Done = {} /\ IsFiniteSet(running) /\ IsFiniteSet(Heard)
  /\ slots + Cardinality(running) + Cardinality(Heard) = Slots
  /\ request \in [Requests -> {"new", "queue", "wait", "persist", "answered"}]
  /\ future \in [Requests -> {None, "ok", "error"}]
  /\ \A r \in Requests : request[r] \in {"new", "queue"} => r \notin running /\ r \notin Done

\* Every step keeps the count of the slots.
LEMMA SlotsStep ==
  ASSUME Analysis!AnalysisAssumption, SlotsOK, [Analysis!Next]_(Analysis!vars)
  PROVE  SlotsOK'
<1> DEFINE a == Cardinality(running)
           b == Cardinality(Heard)
<1>1. a \in Nat /\ b \in Nat /\ Slots \in Nat /\ slots \in Nat
  BY FS_CardinalityType DEF SlotsOK, Analysis!AnalysisAssumption
<1>2. ASSUME NEW r \in Requests, Analysis!Acquire(r) PROVE SlotsOK'
  <2>1. CASE UNCHANGED <<slots, running>>
    BY <1>2, <2>1 DEF Analysis!Acquire, Analysis!GoTo, SlotsOK, Done, Heard
  <2>2. CASE slots' = slots - 1 /\ running' = running \cup {r} /\ Analysis!GoTo(r, "wait")
    <3>1. r \notin running /\ r \notin Done /\ slots > 0 /\ UNCHANGED <<future, released>>
      BY <1>2 DEF Analysis!Acquire, SlotsOK
    <3>2. IsFiniteSet(running') /\ Cardinality(running') = a + 1
      BY <2>2, <3>1, FS_AddElement DEF SlotsOK
    <3>3. Done' = Done /\ Heard' = Heard
      BY <3>1 DEF Done, Heard
    <3>4. slots' \in Nat /\ slots' + Cardinality(running') + Cardinality(Heard') = Slots
      BY <1>1, <2>2, <3>1, <3>2, <3>3 DEF SlotsOK
    <3> QED BY <2>2, <3>1, <3>2, <3>3, <3>4 DEF SlotsOK, Analysis!GoTo
  <2> QED BY <1>2, <2>1, <2>2 DEF Analysis!Acquire
<1>3. ASSUME NEW r \in Requests, Analysis!Finish(r) PROVE SlotsOK'
  <2>1. PICK outcome \in {"ok", "error"} : future' = [future EXCEPT ![r] = outcome]
    BY <1>3 DEF Analysis!Finish
  <2>2. r \in running /\ running' = running \ {r} /\ UNCHANGED <<slots, request, released>>
    BY <1>3 DEF Analysis!Finish
  <2>3. Done' = Done \cup {r} /\ r \notin Done
    BY <2>1, <2>2 DEF Done, SlotsOK, Analysis!AnalysisAssumption
  <2>4. Heard' = Heard \cup {r} /\ r \notin Heard
    BY <2>2, <2>3 DEF Heard, SlotsOK
  <2>5. IsFiniteSet(running') /\ Cardinality(running') = a - 1
    BY <2>2, FS_RemoveElement DEF SlotsOK
  <2>6. IsFiniteSet(Heard') /\ Cardinality(Heard') = b + 1
    BY <2>4, FS_AddElement DEF SlotsOK
  <2>7. slots' + Cardinality(running') + Cardinality(Heard') = Slots
    BY <1>1, <2>2, <2>5, <2>6 DEF SlotsOK
  <2> QED BY <2>1, <2>2, <2>3, <2>5, <2>6, <2>7 DEF SlotsOK
<1>4. ASSUME NEW r \in Requests, Analysis!Release(r) PROVE SlotsOK'
  <2>1. r \in Heard /\ released' = released \cup {r} /\ slots' = slots + 1 /\ UNCHANGED <<request, running, future>>
    BY <1>4 DEF Analysis!Release, Heard, Done
  <2>2. Done' = Done /\ Heard' = Heard \ {r}
    BY <2>1 DEF Done, Heard
  <2>3. IsFiniteSet(Heard') /\ Cardinality(Heard') = b - 1
    BY <2>1, <2>2, FS_RemoveElement DEF SlotsOK
  <2>4. slots' \in Nat /\ slots' + Cardinality(running') + Cardinality(Heard') = Slots
    BY <1>1, <2>1, <2>3 DEF SlotsOK
  <2> QED BY <2>1, <2>2, <2>3, <2>4 DEF SlotsOK, Heard
<1>5. ASSUME NEW r \in Requests, Analysis!Arrive(r) \/ Analysis!MissDeadline(r) \/ Analysis!Take(r) \/ Analysis!Persist(r) \/ Analysis!Cancel(r)
      PROVE  SlotsOK'
  <2>1. UNCHANGED <<slots, running, future, released>>
    BY <1>5
       DEF Analysis!Arrive, Analysis!MissDeadline, Analysis!Shielded, Analysis!Take,
           Analysis!Persist, Analysis!Cancel
  <2>2. \E next \in {"queue", "wait", "persist", "answered"} :
          request' = [request EXCEPT ![r] = next] /\ (next = "queue" => request[r] = "new")
    BY <1>5
       DEF Analysis!Arrive, Analysis!MissDeadline, Analysis!Take, Analysis!Persist,
           Analysis!Cancel, Analysis!GoTo
  <2> QED BY <2>1, <2>2 DEF SlotsOK, Done, Heard
<1>6. CASE UNCHANGED Analysis!calls
  BY <1>6 DEF Analysis!calls, SlotsOK, Done, Heard
<1> QED BY <1>2, <1>3, <1>4, <1>5, <1>6
    DEF Analysis!Next, Analysis!Proceed, Analysis!Subscribe, Analysis!Read, Analysis!Unsubscribe,
        Analysis!vars

\* The queue of a connected client ends with the last result, or is empty and
\* the client was sent it.
QueuesOK ==
  /\ connected \subseteq Subscribers
  /\ events \in [Subscribers -> Seq(Requests)] /\ \A s \in Subscribers : Len(events[s]) <= QueueSize
  /\ DOMAIN received = Subscribers /\ DOMAIN latest = Subscribers
  /\ \A s \in connected : IF events[s] = <<>> THEN latest[s] \in {None, received[s]}
                                              ELSE events[s][Len(events[s])] = latest[s]

\* Every step keeps the last result at the end of the queue, or with the client.
LEMMA QueuesStep ==
  ASSUME Analysis!AnalysisAssumption, QueuesOK, [Analysis!Next]_(Analysis!vars)
  PROVE  QueuesOK'
<1>1. QueueSize \in Nat \ {0}
  BY DEF Analysis!AnalysisAssumption
<1>2. ASSUME NEW r \in Requests, NEW s \in Subscribers
      PROVE  LET q == Analysis!Queued(s, r)
             IN  q \in Seq(Requests) /\ Len(q) <= QueueSize /\ q # <<>> /\ q[Len(q)] = r
  <2> DEFINE kept == IF Len(events[s]) < QueueSize THEN events[s] ELSE Tail(events[s])
  <2>1. events[s] \in Seq(Requests) /\ Len(events[s]) <= QueueSize /\ Len(events[s]) \in Nat
    BY DEF QueuesOK
  <2>2. kept \in Seq(Requests) /\ Len(kept) < QueueSize
    BY <1>1, <2>1
  <2> HIDE DEF kept
  <2>3. Append(kept, r) \in Seq(Requests) /\ Len(Append(kept, r)) = Len(kept) + 1
        /\ Append(kept, r)[Len(kept) + 1] = r /\ Append(kept, r) # <<>>
    BY <2>2
  <2>4. Analysis!Queued(s, r) = Append(kept, r)
    BY DEF Analysis!Queued, Analysis!DropOldest, kept
  <2> QED BY <1>1, <2>2, <2>3, <2>4
<1>3. ASSUME NEW r \in Requests, Analysis!Publish(r) PROVE QueuesOK'
  BY <1>2, <1>3 DEF Analysis!Publish, QueuesOK
<1>4. ASSUME NEW s \in Subscribers, Analysis!Subscribe(s) PROVE QueuesOK'
  BY <1>1, <1>4 DEF Analysis!Subscribe, QueuesOK
<1>5. ASSUME NEW s \in Subscribers, Analysis!Read(s) PROVE QueuesOK'
  <2>1. /\ s \in connected /\ events[s] # <<>> /\ UNCHANGED <<connected, latest>>
        /\ received' = [received EXCEPT ![s] = Head(events[s])]
        /\ events' = [events EXCEPT ![s] = Tail(events[s])]
    BY <1>5 DEF Analysis!Read
  <2> DEFINE q == events[s]
             t == Tail(q)
  <2>2. q \in Seq(Requests) /\ Len(q) <= QueueSize /\ q # <<>> /\ q[Len(q)] = latest[s]
    BY <2>1 DEF QueuesOK
  <2>3. t \in Seq(Requests) /\ Len(t) = Len(q) - 1 /\ Len(q) \in Nat \ {0} /\ Len(t) <= QueueSize
    BY <1>1, <2>2
  <2>4. IF t = <<>> THEN Head(q) = latest[s] ELSE t[Len(t)] = latest[s]
    <3>1. \A i \in 1..Len(t) : t[i] = q[i + 1]
      BY <2>2
    <3>2. CASE t = <<>>
      <4> HIDE DEF t
      <4>1. Len(t) = 0
        BY <3>2
      <4>2. Len(q) = 1
        BY <2>3, <4>1
      <4> QED BY <2>2, <3>2, <4>2
    <3>3. CASE t # <<>>
      <4>1. Len(t) \in 1..Len(t) /\ Len(t) + 1 = Len(q)
        BY <2>3, <3>3
      <4> QED BY <2>2, <3>1, <3>3, <4>1
    <3> QED BY <3>2, <3>3
  <2> HIDE DEF q, t
  <2>5. /\ events' = [events EXCEPT ![s] = t] /\ received' = [received EXCEPT ![s] = Head(q)]
    BY <2>1 DEF q, t
  <2> QED BY <2>1, <2>3, <2>4, <2>5 DEF QueuesOK
<1>6. ASSUME NEW s \in Subscribers, Analysis!Unsubscribe(s) PROVE QueuesOK'
  BY <1>6 DEF Analysis!Unsubscribe, QueuesOK
<1>7. CASE UNCHANGED Analysis!streams
  BY <1>7 DEF Analysis!streams, QueuesOK
<1> QED BY <1>3, <1>4, <1>5, <1>6, <1>7
    DEF Analysis!Next, Analysis!Proceed, Analysis!Arrive, Analysis!Acquire, Analysis!MissDeadline,
        Analysis!Take, Analysis!Persist, Analysis!Finish, Analysis!Release, Analysis!Cancel,
        Analysis!vars

\* Before the first request all slots are free and nobody is connected.
LEMMA AnalysisInit == ASSUME Analysis!AnalysisAssumption PROVE Analysis!Init => SlotsOK /\ QueuesOK
<1> SUFFICES ASSUME Analysis!Init PROVE SlotsOK /\ QueuesOK
  OBVIOUS
<1>1. Done = {} /\ Heard = {}
  BY DEF Analysis!Init, Done, Heard
<1> QED BY <1>1, FS_EmptySet DEF Analysis!Init, SlotsOK, QueuesOK, Analysis!AnalysisAssumption

\* Whatever deadlines pass and whoever is cancelled: a slot is free or accounted for by a thread
\* that still runs or whose end the event loop has not heard of, and a client that reads on is
\* sent the latest result (AnalysisApplicationService.execute, LiveStreamHub.publish).
THEOREM AnalysisIsSound ==
  ASSUME Analysis!AnalysisAssumption
  PROVE  Analysis!Spec => []AnalysisSound
<1>1. SlotsOK /\ QueuesOK => AnalysisSound
  <2> SUFFICES ASSUME SlotsOK, QueuesOK PROVE AnalysisSound
    OBVIOUS
  <2>1. Cardinality(running) \in Nat /\ Cardinality(Heard) \in Nat /\ Slots \in Nat
    BY FS_CardinalityType DEF SlotsOK, Analysis!AnalysisAssumption
  <2>2. Analysis!SlotsSound
    BY <2>1, AnalysisCounts DEF Analysis!SlotsSound, SlotsOK, Heard, Done
  <2>3. Analysis!LatestIsKept
    BY AnalysisCounts DEF Analysis!LatestIsKept, QueuesOK, Last
  <2> QED BY <2>1, <2>2, <2>3 DEF AnalysisSound, Analysis!AnalysisSound, Analysis!TypeOK, SlotsOK, QueuesOK, Done
<1>2. SlotsOK /\ QueuesOK /\ [Analysis!Next]_(Analysis!vars) => (SlotsOK /\ QueuesOK)'
  BY SlotsStep, QueuesStep
<1> QED BY <1>1, <1>2, AnalysisInit, PTL DEF Analysis!Spec

-----------------------------------------------------------------------------
(* GroundedAnalysis.  The invariant is ReportOK, that a response was made of    *)
(* the sentences that are there, and CursorOK, that each sentence of the        *)
(* transcript a cursor is about was on a menu.  The work is in the folds that   *)
(* split a transcript: a sentence that another one follows stays what it is     *)
(* when more is heard (OldIsStable).                                            *)

LEMMA GroundedCounts ==
  /\ \A S : Grounded!Cardinality(S) = Cardinality(S)
  /\ \A S : Grounded!IsFiniteSet(S) <=> IsFiniteSet(S)
BY DEF Grounded!Cardinality, Cardinality, Grounded!IsFiniteSet, IsFiniteSet

Below == {p \in Nat \X Nat : p[1] < p[2]}

\* The least number with a property, and so the first step at which a fold goes wrong.
LEMMA Least ==
  ASSUME NEW T \in SUBSET Nat, T # {}
  PROVE  \E n \in T : \A m \in T : n <= m
<1>1. IsWellFoundedOn(Below, Nat)
  <2>1. Below = OpToRel(<, Nat)
    BY DEF Below, OpToRel
  <2> QED BY <2>1, NatLessThanWellFounded
<1>2. PICK n \in T : \A m \in T : ~(<<m, n>> \in Below)
  BY <1>1, WFMin
<1>3. ASSUME NEW m \in T PROVE n <= m
  <2>1. m \in Nat /\ n \in Nat
    OBVIOUS
  <2>2. m < n => <<m, n>> \in Below
    BY <2>1 DEF Below
  <2> QED BY <1>2, <2>1, <2>2
<1> QED BY <1>3

LEMMA Greatest ==
  ASSUME NEW n \in Nat, NEW T \in SUBSET (0..n), T # {}
  PROVE  \E x \in T : \A y \in T : x >= y
<1> DEFINE U == {n - x : x \in T}
<1>1. U \in SUBSET Nat /\ U # {}
  <2>1. PICK x \in T : TRUE
    OBVIOUS
  <2>2. n - x \in U
    BY <2>1
  <2> QED BY <2>2
<1>3. PICK u \in U : \A v \in U : u <= v
  BY <1>1, Least
<1>4. PICK x \in T : u = n - x
  OBVIOUS
<1>5. ASSUME NEW y \in T PROVE x >= y
  <2>1. n - y \in U /\ n - y \in Nat /\ u \in Nat
    OBVIOUS
  <2>2. u <= n - y
    BY <1>3, <2>1
  <2> QED BY <1>4, <2>1, <2>2
<1> QED BY <1>5

LEMMA LargestIs ==
  ASSUME NEW n \in Nat, NEW s \in SUBSET (1..n), s # {}
  PROVE  Grounded!Max(s) \in s /\ \A x \in s : x <= Grounded!Max(s)
<1>1. s \in SUBSET (0..n)
  OBVIOUS
<1>2. PICK x \in s : \A y \in s : x >= y
  BY <1>1, Greatest
<1> QED BY <1>2 DEF Grounded!Max

LEMMA LargestOfRange ==
  ASSUME NEW n \in Nat, NEW k \in 1..n
  PROVE  1..k # {} /\ Grounded!Max(1..k) = k /\ (1..k) \ {k} = 1..(k - 1)
<1>1. 1..k \in SUBSET (1..n) /\ k \in 1..k /\ k \in Nat
  OBVIOUS
<1>2. Grounded!Max(1..k) \in 1..k /\ k <= Grounded!Max(1..k)
  BY <1>1, LargestIs
<1> QED BY <1>1, <1>2

LEMMA LessThanLargest ==
  ASSUME NEW n \in Nat \ {0}, NEW s \in SUBSET (1..n), s # {}
  PROVE  s \ {Grounded!Max(s)} \in SUBSET (1..(n - 1))
<1>1. Grounded!Max(s) \in s /\ \A x \in s : x <= Grounded!Max(s)
  BY LargestIs
<1>2. ASSUME NEW x \in s \ {Grounded!Max(s)} PROVE x \in 1..(n - 1)
  <2>1. x \in 1..n /\ Grounded!Max(s) \in 1..n /\ x <= Grounded!Max(s) /\ x # Grounded!Max(s)
    BY <1>1
  <2> QED BY <2>1
<1> QED BY <1>2

RawStart == [out |-> <<>>, words |-> <<>>, from |-> 1]

Positions(symbols) == [i \in DOMAIN symbols |-> i]

RawFolds(f, symbols, S) ==
  f = [s \in SUBSET S |-> IF s = {} THEN RawStart
    ELSE Grounded!Heard(symbols, f[s \ {Grounded!Max(s)}], Positions(symbols)[Grounded!Max(s)])]

RawFold(symbols) == CHOOSE f : RawFolds(f, symbols, DOMAIN Positions(symbols))

RawState(symbols, k) == RawFold(symbols)[1..k]

LEMMA RawIsFold ==
  \A symbols : Grounded!RawSentences(symbols) = Grounded!Closed(RawFold(symbols)[DOMAIN Positions(symbols)], FALSE)
BY DEF Grounded!RawSentences, Grounded!FoldLeftDomain, Grounded!FoldLeft, Grounded!MapThenFoldSet, RawFold,
   RawFolds, RawStart, Positions

LEMMA RawFoldExists ==
  ASSUME NEW symbols, NEW N \in Nat
  PROVE  \E f : RawFolds(f, symbols, 1..N)
<1> DEFINE Missing == {n \in Nat : ~\E f : RawFolds(f, symbols, 1..n)}
           Fold(g, s) == IF s = {} THEN RawStart
             ELSE Grounded!Heard(symbols, g[s \ {Grounded!Max(s)}], Positions(symbols)[Grounded!Max(s)])
<1>1. ASSUME NEW n \in Missing, \A m \in Missing : n <= m PROVE FALSE
  <2>1. CASE n = 0
    <3> DEFINE f == [s \in SUBSET (1..0) |-> RawStart]
    <3>1. \A s \in SUBSET (1..0) : s = {}
      OBVIOUS
    <3>2. RawFolds(f, symbols, 1..0)
      BY <3>1 DEF RawFolds
    <3> QED BY <2>1, <3>2
  <2>2. CASE n # 0
    <3>1. n - 1 \in Nat /\ n \in Nat \ {0} /\ n - 1 \notin Missing
      <4>1. n \in Nat
        BY <1>1
      <4> HIDE DEF Missing
      <4>2. n - 1 \in Missing => n <= n - 1
        BY <1>1
      <4> QED BY <2>2, <4>1, <4>2
    <3>2. PICK g : RawFolds(g, symbols, 1..(n - 1))
      BY <3>1
    <3>3. g = [s \in SUBSET (1..(n - 1)) |-> Fold(g, s)]
      BY <3>2 DEF RawFolds
    <3> HIDE DEF Missing, Fold
    <3> DEFINE f == [s \in SUBSET (1..n) |-> Fold(g, s)]
    <3>4. ASSUME NEW s \in SUBSET (1..(n - 1)) PROVE f[s] = g[s]
      <4>1. s \in SUBSET (1..n)
        BY <3>1
      <4>2. g[s] = Fold(g, s)
        BY <3>3
      <4> QED BY <4>1, <4>2
    <3>5. f = [s \in SUBSET (1..n) |-> Fold(g, s)]
      OBVIOUS
    <3> HIDE DEF f
    <3>6. ASSUME NEW s \in SUBSET (1..n) PROVE Fold(f, s) = Fold(g, s)
      <4>1. CASE s = {}
        BY <4>1 DEF Fold
      <4>2. CASE s # {}
        <5>1. s \ {Grounded!Max(s)} \in SUBSET (1..(n - 1))
          BY <3>1, <4>2, LessThanLargest
        <5>2. f[s \ {Grounded!Max(s)}] = g[s \ {Grounded!Max(s)}]
          BY <3>4, <5>1
        <5> QED BY <4>2, <5>2 DEF Fold
      <4> QED BY <4>1, <4>2
    <3>7. f = [s \in SUBSET (1..n) |-> Fold(f, s)]
      BY <3>5, <3>6
    <3>8. RawFolds(f, symbols, 1..n)
      BY <3>7 DEF RawFolds, Fold
    <3> QED BY <1>1, <3>8 DEF Missing
  <2> QED BY <2>1, <2>2
<1>2. Missing = {}
  <2>1. Missing \subseteq Nat
    OBVIOUS
  <2> HIDE DEF Missing
  <2> QED BY <1>1, <2>1, Least
<1> QED BY <1>2

\* The splitting takes one symbol after the other.
LEMMA RawSteps ==
  ASSUME NEW S, NEW symbols \in Seq(S)
  PROVE  /\ RawState(symbols, 0) = RawStart
         /\ \A k \in 1..Len(symbols) : RawState(symbols, k) = Grounded!Heard(symbols, RawState(symbols, k - 1), k)
         /\ Grounded!RawSentences(symbols) = Grounded!Closed(RawState(symbols, Len(symbols)), FALSE)
<1> DEFINE n == Len(symbols)
           f == RawFold(symbols)
<1>1. n \in Nat /\ DOMAIN Positions(symbols) = 1..n /\ \A i \in 1..n : Positions(symbols)[i] = i
  BY DEF Positions
<1>2. RawFolds(f, symbols, 1..n)
  BY <1>1, RawFoldExists DEF RawFold
<1>3. f = [s \in SUBSET (1..n) |-> IF s = {} THEN RawStart
        ELSE Grounded!Heard(symbols, f[s \ {Grounded!Max(s)}], Positions(symbols)[Grounded!Max(s)])]
  BY <1>2 DEF RawFolds
<1>4. \A k : RawState(symbols, k) = f[1..k]
  BY DEF RawState
<1> HIDE DEF f
<1>5. RawState(symbols, 0) = RawStart
  <2>1. 1..0 = {} /\ 1..0 \in SUBSET (1..n)
    OBVIOUS
  <2>2. f[1..0] = RawStart
    BY <1>3, <2>1
  <2> QED BY <1>4, <2>2
<1>6. ASSUME NEW k \in 1..n PROVE RawState(symbols, k) = Grounded!Heard(symbols, RawState(symbols, k - 1), k)
  <2>1. 1..k # {} /\ Grounded!Max(1..k) = k /\ (1..k) \ {k} = 1..(k - 1)
    BY <1>1, LargestOfRange
  <2>2. 1..k \in SUBSET (1..n)
    BY <1>1
  <2>3. f[1..k] = Grounded!Heard(symbols, f[(1..k) \ {Grounded!Max(1..k)}], Positions(symbols)[Grounded!Max(1..k)])
    BY <1>3, <2>1, <2>2
  <2>4. f[1..k] = Grounded!Heard(symbols, f[1..(k - 1)], k)
    BY <1>1, <2>1, <2>3
  <2> QED BY <1>4, <2>4
<1>7. Grounded!RawSentences(symbols) = Grounded!Closed(RawState(symbols, n), FALSE)
  BY <1>1, <1>4, RawIsFold DEF f
<1> QED BY <1>5, <1>6, <1>7

MergeFolds(f, raw, S) ==
  f = [s \in SUBSET S |-> IF s = {} THEN <<>> ELSE Grounded!Merged(f[s \ {Grounded!Max(s)}], raw[Grounded!Max(s)])]

MergeFold(raw) == CHOOSE f : MergeFolds(f, raw, DOMAIN raw)

MergeState(raw, k) == MergeFold(raw)[1..k]

LEMMA MergeIsFold ==
  \A symbols : Grounded!SplitSentences(symbols) = MergeFold(Grounded!RawSentences(symbols))[DOMAIN Grounded!RawSentences(symbols)]
BY DEF Grounded!SplitSentences, Grounded!FoldLeft, Grounded!MapThenFoldSet, MergeFold, MergeFolds

LEMMA MergeFoldExists ==
  ASSUME NEW raw, NEW N \in Nat
  PROVE  \E f : MergeFolds(f, raw, 1..N)
<1> DEFINE Missing == {n \in Nat : ~\E f : MergeFolds(f, raw, 1..n)}
           Fold(g, s) == IF s = {} THEN <<>> ELSE Grounded!Merged(g[s \ {Grounded!Max(s)}], raw[Grounded!Max(s)])
<1>1. ASSUME NEW n \in Missing, \A m \in Missing : n <= m PROVE FALSE
  <2>1. CASE n = 0
    <3> DEFINE f == [s \in SUBSET (1..0) |-> <<>>]
    <3>1. \A s \in SUBSET (1..0) : s = {}
      OBVIOUS
    <3>2. MergeFolds(f, raw, 1..0)
      BY <3>1 DEF MergeFolds
    <3> QED BY <2>1, <3>2
  <2>2. CASE n # 0
    <3>1. n - 1 \in Nat /\ n \in Nat \ {0} /\ n - 1 \notin Missing
      <4>1. n \in Nat
        BY <1>1
      <4> HIDE DEF Missing
      <4>2. n - 1 \in Missing => n <= n - 1
        BY <1>1
      <4> QED BY <2>2, <4>1, <4>2
    <3>2. PICK g : MergeFolds(g, raw, 1..(n - 1))
      BY <3>1
    <3>3. g = [s \in SUBSET (1..(n - 1)) |-> Fold(g, s)]
      BY <3>2 DEF MergeFolds
    <3> HIDE DEF Missing, Fold
    <3> DEFINE f == [s \in SUBSET (1..n) |-> Fold(g, s)]
    <3>4. ASSUME NEW s \in SUBSET (1..(n - 1)) PROVE f[s] = g[s]
      <4>1. s \in SUBSET (1..n)
        BY <3>1
      <4>2. g[s] = Fold(g, s)
        BY <3>3
      <4> QED BY <4>1, <4>2
    <3>5. f = [s \in SUBSET (1..n) |-> Fold(g, s)]
      OBVIOUS
    <3> HIDE DEF f
    <3>6. ASSUME NEW s \in SUBSET (1..n) PROVE Fold(f, s) = Fold(g, s)
      <4>1. CASE s = {}
        BY <4>1 DEF Fold
      <4>2. CASE s # {}
        <5>1. s \ {Grounded!Max(s)} \in SUBSET (1..(n - 1))
          BY <3>1, <4>2, LessThanLargest
        <5>2. f[s \ {Grounded!Max(s)}] = g[s \ {Grounded!Max(s)}]
          BY <3>4, <5>1
        <5> QED BY <4>2, <5>2 DEF Fold
      <4> QED BY <4>1, <4>2
    <3>7. f = [s \in SUBSET (1..n) |-> Fold(f, s)]
      BY <3>5, <3>6
    <3>8. MergeFolds(f, raw, 1..n)
      BY <3>7 DEF MergeFolds, Fold
    <3> QED BY <1>1, <3>8 DEF Missing
  <2> QED BY <2>1, <2>2
<1>2. Missing = {}
  <2>1. Missing \subseteq Nat
    OBVIOUS
  <2> HIDE DEF Missing
  <2> QED BY <1>1, <2>1, Least
<1> QED BY <1>2

\* The merging takes one fragment after the other.
LEMMA MergeSteps ==
  ASSUME NEW S, NEW raw \in Seq(S)
  PROVE  /\ MergeState(raw, 0) = <<>>
         /\ \A k \in 1..Len(raw) : MergeState(raw, k) = Grounded!Merged(MergeState(raw, k - 1), raw[k])
         /\ MergeFold(raw)[DOMAIN raw] = MergeState(raw, Len(raw))
<1> DEFINE n == Len(raw)
           f == MergeFold(raw)
<1>1. n \in Nat /\ DOMAIN raw = 1..n
  OBVIOUS
<1>2. MergeFolds(f, raw, 1..n)
  BY <1>1, MergeFoldExists DEF MergeFold
<1>3. f = [s \in SUBSET (1..n) |-> IF s = {} THEN <<>>
        ELSE Grounded!Merged(f[s \ {Grounded!Max(s)}], raw[Grounded!Max(s)])]
  BY <1>2 DEF MergeFolds
<1>4. \A k : MergeState(raw, k) = f[1..k]
  BY DEF MergeState
<1> HIDE DEF f
<1>5. MergeState(raw, 0) = <<>>
  <2>1. 1..0 = {} /\ 1..0 \in SUBSET (1..n)
    OBVIOUS
  <2>2. f[1..0] = <<>>
    BY <1>3, <2>1
  <2> QED BY <1>4, <2>2
<1>6. ASSUME NEW k \in 1..n PROVE MergeState(raw, k) = Grounded!Merged(MergeState(raw, k - 1), raw[k])
  <2>1. 1..k # {} /\ Grounded!Max(1..k) = k /\ (1..k) \ {k} = 1..(k - 1)
    BY <1>1, LargestOfRange
  <2>2. 1..k \in SUBSET (1..n)
    BY <1>1
  <2>3. f[1..k] = Grounded!Merged(f[(1..k) \ {Grounded!Max(1..k)}], raw[Grounded!Max(1..k)])
    BY <1>3, <2>1, <2>2
  <2>4. f[1..k] = Grounded!Merged(f[1..(k - 1)], raw[k])
    BY <1>1, <2>1, <2>3
  <2> QED BY <1>4, <2>4
<1>7. f[DOMAIN raw] = MergeState(raw, n)
  BY <1>1, <1>4
<1> QED BY <1>5, <1>6, <1>7 DEF f

-----------------------------------------------------------------------------
Word == DOMAIN Cue

Symbol == Word \cup {Grounded!Stop, Grounded!Break}

Fragment == [words : Seq(Word), ends : BOOLEAN, from : Nat]

Splitting == [out : Seq(Fragment), words : Seq(Word), from : Nat]

LEMMA AppendIs ==
  ASSUME NEW S, NEW s \in Seq(S), NEW e \in S
  PROVE  /\ Append(s, e) \in Seq(S) /\ Len(Append(s, e)) = Len(s) + 1 /\ Len(s) \in Nat
         /\ \A i \in 1..Len(s) : Append(s, e)[i] = s[i]
         /\ Append(s, e)[Len(s) + 1] = e
OBVIOUS

LEMMA ClosedIs ==
  ASSUME NEW s \in Splitting, NEW ends \in BOOLEAN
  PROVE  \/ Grounded!Closed(s, ends) = s.out /\ s.words = <<>>
         \/ \E e \in Fragment : Grounded!Closed(s, ends) = Append(s.out, e) /\ e.from = s.from
<1> DEFINE e == [words |-> s.words, ends |-> ends, from |-> s.from]
<1>1. e \in Fragment /\ e.from = s.from
  BY DEF Fragment, Splitting
<1>2. Grounded!Closed(s, ends) = IF s.words = <<>> /\ ~ends THEN s.out ELSE Append(s.out, e)
  BY DEF Grounded!Closed
<1> HIDE DEF e
<1> QED BY <1>1, <1>2

\* What one symbol does: it opens or prolongs a fragment, or ends the open one.
LEMMA HeardIs ==
  ASSUME NEW symbols, NEW s \in Splitting, NEW i \in Nat, symbols[i] \in Symbol
  PROVE  LET h == Grounded!Heard(symbols, s, i)
             from == IF s.words = <<>> THEN i ELSE s.from
         IN  /\ h \in Splitting
             /\ \/ h.out = s.out /\ h.words # <<>> /\ h.from = from
                \/ h.words = <<>> /\ h.out = s.out
                \/ h.words = <<>> /\ \E e \in Fragment : h.out = Append(s.out, e) /\ e.from = from
<1> DEFINE from == IF s.words = <<>> THEN i ELSE s.from
           r == [s EXCEPT !.from = from]
           h == Grounded!Heard(symbols, s, i)
<1>1. s.out \in Seq(Fragment) /\ s.words \in Seq(Word) /\ s.from \in Nat /\ from \in Nat
  BY DEF Splitting
<1>2. r \in Splitting /\ r.out = s.out /\ r.words = s.words /\ r.from = from
  BY <1>1 DEF Splitting
<1>3. h = IF symbols[i] \in {Grounded!Stop, Grounded!Break}
          THEN [out |-> Grounded!Closed(r, symbols[i] = Grounded!Stop), words |-> <<>>, from |-> i]
          ELSE [out |-> s.out, words |-> Append(s.words, symbols[i]), from |-> from]
  BY DEF Grounded!Heard
<1> HIDE DEF from, r, h
<1>4. CASE symbols[i] \in {Grounded!Stop, Grounded!Break}
  <2>1. h = [out |-> Grounded!Closed(r, symbols[i] = Grounded!Stop), words |-> <<>>, from |-> i]
    BY <1>3, <1>4
  <2>2. h.out = Grounded!Closed(r, symbols[i] = Grounded!Stop) /\ h.words = <<>> /\ h.from = i
    BY <2>1
  <2>3. (symbols[i] = Grounded!Stop) \in BOOLEAN
    OBVIOUS
  <2>4. \/ h.out = s.out
        \/ \E e \in Fragment : h.out = Append(s.out, e) /\ e.from = from
    BY <1>2, <2>2, <2>3, ClosedIs
  <2>5. h.out \in Seq(Fragment)
    BY <1>1, <2>4, AppendIs
  <2>6. h \in Splitting
    BY <2>1, <2>2, <2>5 DEF Splitting
  <2> QED BY <2>2, <2>4, <2>6 DEF h, from
<1>5. CASE symbols[i] \notin {Grounded!Stop, Grounded!Break}
  <2>1. h = [out |-> s.out, words |-> Append(s.words, symbols[i]), from |-> from] /\ symbols[i] \in Word
    BY <1>3, <1>5 DEF Symbol
  <2>2. h.out = s.out /\ h.words = Append(s.words, symbols[i]) /\ h.from = from
    BY <2>1
  <2>3. h.words \in Seq(Word) /\ h.words # <<>>
    <3>1. h.words \in Seq(Word) /\ Len(h.words) = Len(s.words) + 1 /\ Len(s.words) \in Nat
      BY <1>1, <2>1, <2>2, AppendIs
    <3>2. Len(<<>>) = 0
      OBVIOUS
    <3> QED BY <3>1, <3>2
  <2>4. h \in Splitting
    BY <1>1, <2>1, <2>3 DEF Splitting
  <2> QED BY <2>2, <2>3, <2>4 DEF h, from
<1> QED BY <1>4, <1>5

LEMMA RawType ==
  ASSUME NEW symbols \in Seq(Symbol)
  PROVE  \A k \in 0..Len(symbols) : RawState(symbols, k) \in Splitting
<1> DEFINE Odd == {k \in 0..Len(symbols) : RawState(symbols, k) \notin Splitting}
<1>0. Len(symbols) \in Nat
  OBVIOUS
<1>1. ASSUME NEW k \in Odd, \A m \in Odd : k <= m PROVE FALSE
  <2>1. k \in 0..Len(symbols) /\ RawState(symbols, k) \notin Splitting
    OBVIOUS
  <2>2. CASE k = 0
    <3>1. RawStart \in Splitting
      BY DEF RawStart, Splitting
    <3> QED BY <2>1, <2>2, <3>1, RawSteps
  <2>3. CASE k # 0
    <3>1. k \in 1..Len(symbols) /\ k - 1 \in 0..Len(symbols) /\ k \in Nat /\ ~(k <= k - 1)
      BY <1>0, <2>1, <2>3
    <3>2. RawState(symbols, k - 1) \in Splitting
      BY <1>1, <3>1
    <3>3. symbols[k] \in Symbol
      BY <3>1
    <3>4. Grounded!Heard(symbols, RawState(symbols, k - 1), k) \in Splitting
      BY <3>1, <3>2, <3>3, HeardIs
    <3> QED BY <2>1, <3>1, <3>4, RawSteps
  <2> QED BY <2>2, <2>3
<1>2. Odd = {}
  <2>1. Odd \subseteq Nat
    BY <1>0
  <2> HIDE DEF Odd
  <2> QED BY <1>1, <2>1, Least
<1> QED BY <1>2

LEMMA RawIsSeq ==
  ASSUME NEW symbols \in Seq(Symbol)
  PROVE  Grounded!RawSentences(symbols) \in Seq(Fragment)
<1> DEFINE s == RawState(symbols, Len(symbols))
<1>1. s \in Splitting /\ Grounded!RawSentences(symbols) = Grounded!Closed(s, FALSE)
  <2>1. Len(symbols) \in 0..Len(symbols)
    OBVIOUS
  <2> QED BY <2>1, RawType, RawSteps
<1> HIDE DEF s
<1>2. s.out \in Seq(Fragment)
  BY <1>1 DEF Splitting
<1>3. ASSUME NEW e \in Fragment PROVE Append(s.out, e) \in Seq(Fragment)
  BY <1>2, AppendIs
<1>4. Grounded!Closed(s, FALSE) = s.out \/ \E e \in Fragment : Grounded!Closed(s, FALSE) = Append(s.out, e)
  BY <1>1, ClosedIs
<1> QED BY <1>1, <1>2, <1>3, <1>4

\* What was split does not depend on what is said later.
LEMMA RawPrefix ==
  ASSUME NEW q \in Seq(Symbol), NEW t \in Seq(Symbol), Len(q) <= Len(t), \A i \in 1..Len(q) : q[i] = t[i]
  PROVE  RawState(q, Len(q)) = RawState(t, Len(q))
<1> DEFINE Odd == {k \in 0..Len(q) : RawState(q, k) # RawState(t, k)}
<1>0. Len(q) \in Nat /\ Len(t) \in Nat
  OBVIOUS
<1>1. ASSUME NEW k \in Odd, \A m \in Odd : k <= m PROVE FALSE
  <2>1. k \in 0..Len(q) /\ RawState(q, k) # RawState(t, k)
    OBVIOUS
  <2>2. CASE k = 0
    BY <2>1, <2>2, RawSteps
  <2>3. CASE k # 0
    <3>1. k \in 1..Len(q) /\ k \in 1..Len(t) /\ k - 1 \in 0..Len(q) /\ k \in Nat /\ ~(k <= k - 1)
      BY <1>0, <2>1, <2>3
    <3>2. RawState(q, k - 1) = RawState(t, k - 1)
      BY <1>1, <3>1
    <3>3. q[k] = t[k]
      BY <3>1
    <3>4. \A s : Grounded!Heard(q, s, k) = Grounded!Heard(t, s, k)
      BY <3>3 DEF Grounded!Heard
    <3> QED BY <2>1, <3>1, <3>2, <3>4, RawSteps
  <2> QED BY <2>2, <2>3
<1>2. Odd = {}
  <2>1. Odd \subseteq Nat
    BY <1>0
  <2> HIDE DEF Odd
  <2> QED BY <1>1, <2>1, Least
<1>3. Len(q) \in 0..Len(q)
  BY <1>0
<1> QED BY <1>2, <1>3

\* What follows the fragments of s is newer than k: but for the one that was open.
Follows(s, out, k) ==
  /\ out \in Seq(Fragment) /\ Len(out) >= Len(s.out) /\ \A i \in 1..Len(s.out) : out[i] = s.out[i]
  /\ \A i \in 1..Len(out) :
       i > Len(s.out) + 1 \/ (i > Len(s.out) /\ s.words = <<>>) => out[i].from > k

LEMMA FollowsMore ==
  ASSUME NEW s \in Splitting, NEW k \in Nat, NEW out, Follows(s, out, k), NEW e \in Fragment,
         Len(out) > Len(s.out) \/ s.words = <<>> => e.from > k
  PROVE  Follows(s, Append(out, e), k)
<1>1. out \in Seq(Fragment) /\ s.out \in Seq(Fragment) /\ Len(out) \in Nat /\ Len(s.out) \in Nat /\ Len(out) >= Len(s.out)
  BY DEF Follows, Splitting
<1> DEFINE a == Append(out, e)
<1>2. /\ a \in Seq(Fragment) /\ Len(a) = Len(out) + 1
      /\ \A i \in 1..Len(out) : a[i] = out[i]
      /\ a[Len(out) + 1] = e
  BY <1>1, AppendIs
<1> HIDE DEF a
<1>3. ASSUME NEW i \in 1..Len(s.out) PROVE a[i] = s.out[i]
  <2>1. i \in 1..Len(out)
    BY <1>1
  <2> QED BY <1>2, <2>1 DEF Follows
<1>4. ASSUME NEW i \in 1..Len(a), i > Len(s.out) + 1 \/ (i > Len(s.out) /\ s.words = <<>>) PROVE a[i].from > k
  <2>1. CASE i = Len(out) + 1
    BY <1>1, <1>2, <1>4, <2>1
  <2>2. CASE i # Len(out) + 1
    <3>1. i \in 1..Len(out)
      BY <1>1, <1>2, <2>2
    <3> QED BY <1>2, <1>4, <3>1 DEF Follows
  <2> QED BY <2>1, <2>2
<1>5. Len(a) >= Len(s.out)
  BY <1>1, <1>2
<1> QED BY <1>2, <1>3, <1>4, <1>5 DEF Follows, a

LEMMA RawFollows ==
  ASSUME NEW t \in Seq(Symbol), NEW k \in 0..Len(t)
  PROVE  Follows(RawState(t, k), Grounded!RawSentences(t), k)
<1> DEFINE s == RawState(t, k)
           Good(n) == LET h == RawState(t, n)
                      IN  /\ Follows(s, h.out, k)
                          /\ h.words # <<>> /\ (Len(h.out) > Len(s.out) \/ s.words = <<>>) => h.from > k
           Odd == {n \in k..Len(t) : ~Good(n)}
<1>0. Len(t) \in Nat /\ k \in Nat /\ s \in Splitting /\ s.out \in Seq(Fragment)
  BY RawType DEF Splitting
<1>1. ASSUME NEW n \in Odd, \A m \in Odd : n <= m PROVE FALSE
  <2>1. n \in k..Len(t) /\ ~Good(n) /\ n \in Nat
    BY <1>0
  <2>2. CASE n = k
    <3>1. Follows(s, s.out, k)
      BY <1>0 DEF Follows
    <3> QED BY <1>0, <2>1, <2>2, <3>1
  <2>3. CASE n # k
    <3> DEFINE g == RawState(t, n - 1)
               h == RawState(t, n)
               from == IF g.words = <<>> THEN n ELSE g.from
    <3>1. n - 1 \in k..Len(t) /\ n - 1 \in 0..Len(t) /\ n \in 1..Len(t) /\ ~(n <= n - 1) /\ n > k
      BY <1>0, <2>1, <2>3
    <3>2. Good(n - 1)
      <4> HIDE DEF Good
      <4>1. n - 1 \notin Odd
        BY <1>1, <3>1
      <4> QED BY <3>1, <4>1
    <3>3. /\ Follows(s, g.out, k)
          /\ g.words # <<>> /\ (Len(g.out) > Len(s.out) \/ s.words = <<>>) => g.from > k
      BY <3>2
    <3>4. g \in Splitting /\ g.out \in Seq(Fragment) /\ g.from \in Nat
      BY <3>1, RawType DEF Splitting
    <3>5. t[n] \in Symbol /\ h = Grounded!Heard(t, g, n)
      <4> HIDE DEF Good, Odd
      <4>1. t[n] \in Symbol
        BY <3>1
      <4>2. RawState(t, n) = Grounded!Heard(t, RawState(t, n - 1), n)
        BY <3>1, RawSteps
      <4> QED BY <4>1, <4>2
    <3>12. ~(Follows(s, h.out, k) /\ (h.words # <<>> /\ (Len(h.out) > Len(s.out) \/ s.words = <<>>) => h.from > k))
      BY <2>1
    <3> HIDE DEF Good, Odd, g
    <3>6. \/ h.out = g.out /\ h.words # <<>> /\ h.from = from
          \/ h.words = <<>> /\ h.out = g.out
          \/ h.words = <<>> /\ \E e \in Fragment : h.out = Append(g.out, e) /\ e.from = from
      <4> DEFINE heard == Grounded!Heard(t, g, n)
      <4>1. \/ heard.out = g.out /\ heard.words # <<>> /\ heard.from = from
            \/ heard.words = <<>> /\ heard.out = g.out
            \/ heard.words = <<>> /\ \E e \in Fragment : heard.out = Append(g.out, e) /\ e.from = from
        <5> HIDE DEF h
        <5>1. n \in Nat /\ t[n] \in Symbol /\ g \in Splitting
          BY <2>1, <3>4, <3>5
        <5> QED BY ONLY <5>1, HeardIs
      <4> HIDE DEF h, from
      <4> QED BY <3>5, <4>1
    <3>7. Len(g.out) > Len(s.out) \/ s.words = <<>> => from > k
      BY <3>1, <3>3
    <3> HIDE DEF h, s, from
    <3>8. CASE h.out = g.out /\ h.words # <<>> /\ h.from = from
      BY <3>3, <3>7, <3>8, <3>12
    <3>9. CASE h.words = <<>> /\ h.out = g.out
      BY <3>3, <3>9, <3>12
    <3>10. CASE h.words = <<>> /\ \E e \in Fragment : h.out = Append(g.out, e) /\ e.from = from
      <4>1. PICK e \in Fragment : h.out = Append(g.out, e) /\ e.from = from
        BY <3>10
      <4>2. Follows(s, Append(g.out, e), k)
        BY <1>0, <3>3, <3>7, <4>1, FollowsMore
      <4> QED BY <3>10, <3>12, <4>1, <4>2
    <3> QED BY <3>6, <3>8, <3>9, <3>10
  <2> QED BY <2>2, <2>3
<1>2. Odd = {}
  <2>1. Odd \subseteq Nat
    BY <1>0
  <2> HIDE DEF Odd
  <2> QED BY <1>1, <2>1, Least
<1> DEFINE last == RawState(t, Len(t))
<1>3. Len(t) \in k..Len(t) /\ Len(t) \in 0..Len(t)
  BY <1>0
<1>4. Good(Len(t))
  <2> HIDE DEF Good
  <2> QED BY <1>2, <1>3
<1>5. /\ Follows(s, last.out, k)
      /\ last.words # <<>> /\ (Len(last.out) > Len(s.out) \/ s.words = <<>>) => last.from > k
  BY <1>4
<1>6. last \in Splitting /\ Grounded!RawSentences(t) = Grounded!Closed(last, FALSE)
  BY <1>3, RawType, RawSteps
<1> HIDE DEF Good, Odd, last, s
<1>7. CASE last.words = <<>>
  <2>1. Grounded!Closed(last, FALSE) = last.out
    BY <1>7 DEF Grounded!Closed
  <2> QED BY <1>5, <1>6, <2>1 DEF s
<1>8. CASE last.words # <<>>
  <2>1. PICK e \in Fragment : Grounded!Closed(last, FALSE) = Append(last.out, e) /\ e.from = last.from
    BY <1>6, <1>8, ClosedIs
  <2>2. Follows(s, Append(last.out, e), k)
    BY <1>0, <1>5, <1>8, <2>1, FollowsMore
  <2> QED BY <1>6, <2>1, <2>2 DEF s
<1> QED BY <1>7, <1>8

-----------------------------------------------------------------------------
LEMMA StartIs ==
  ASSUME NEW S, NEW s \in Seq(S), NEW k \in Nat, k <= Len(s)
  PROVE  SubSeq(s, 1, k) \in Seq(S) /\ Len(SubSeq(s, 1, k)) = k /\ \A i \in 1..k : SubSeq(s, 1, k)[i] = s[i]
OBVIOUS

\* What one fragment does: it is glued to the last one, or comes after it.
LEMMA MergedIs ==
  ASSUME NEW out \in Seq(Fragment), NEW e \in Fragment
  PROVE  LET m == Grounded!Merged(out, e)
             glued == out # <<>> /\ Grounded!Unfinished(out[Len(out)])
         IN  /\ m \in Seq(Fragment)
             /\ glued => /\ Len(m) = Len(out) /\ \A i \in 1..(Len(out) - 1) : m[i] = out[i]
                         /\ m[Len(out)].from = out[Len(out)].from
             /\ ~glued => /\ Len(m) = Len(out) + 1 /\ \A i \in 1..Len(out) : m[i] = out[i]
                          /\ m[Len(out) + 1] = e
<1> DEFINE m == Grounded!Merged(out, e)
           n == Len(out)
           glued == out # <<>> /\ Grounded!Unfinished(out[n])
<1>1. m = IF glued THEN Append(Grounded!Front(out), Grounded!Glue(out[n], e)) ELSE Append(out, e)
  BY DEF Grounded!Merged, Grounded!Last
<1>2. n \in Nat
  OBVIOUS
<1> HIDE DEF m
<1>3. CASE glued
  <2> DEFINE f == Grounded!Front(out)
             g == Grounded!Glue(out[n], e)
  <2>1. n \in 1..n /\ out[n] \in Fragment
    BY <1>2, <1>3
  <2>2. g \in Fragment /\ g.from = out[n].from
    <3>1. out[n].words \in Seq(Word) /\ e.words \in Seq(Word) /\ e.ends \in BOOLEAN /\ out[n].from \in Nat
      BY <2>1 DEF Fragment
    <3>2. out[n].words \o e.words \in Seq(Word)
      BY <3>1, ConcatProperties
    <3>3. g = [words |-> out[n].words \o e.words, ends |-> e.ends, from |-> out[n].from]
      BY DEF Grounded!Glue
    <3> QED BY <3>1, <3>2, <3>3 DEF Fragment
  <2>3. f \in Seq(Fragment) /\ Len(f) = n - 1 /\ \A i \in 1..(n - 1) : f[i] = out[i]
    <3>1. f = SubSeq(out, 1, n - 1) /\ n - 1 \in Nat /\ n - 1 <= n
      BY <1>2, <2>1 DEF Grounded!Front
    <3> HIDE DEF f, n, glued
    <3>2. out \in Seq(Fragment) /\ n - 1 <= Len(out)
      BY <3>1 DEF n
    <3> QED BY <3>1, <3>2, StartIs
  <2>4. m = Append(f, g)
    BY <1>1, <1>3
  <2> HIDE DEF f, g, n
  <2>5. /\ m \in Seq(Fragment) /\ Len(m) = Len(f) + 1 /\ \A i \in 1..Len(f) : m[i] = f[i]
        /\ m[Len(f) + 1] = g
    BY <2>2, <2>3, <2>4, AppendIs
  <2>6. Len(f) + 1 = n
    BY <1>2, <2>3
  <2>7. \A i \in 1..(n - 1) : m[i] = out[i]
    BY <2>3, <2>5
  <2> QED BY <1>3, <2>2, <2>5, <2>6, <2>7 DEF n, m
<1>4. CASE ~glued
  <2>1. m = Append(out, e)
    BY <1>1, <1>4
  <2>2. /\ m \in Seq(Fragment) /\ Len(m) = n + 1 /\ (\A i \in 1..n : m[i] = out[i]) /\ m[n + 1] = e
    BY <2>1, AppendIs
  <2> QED BY <1>4, <2>2 DEF m
<1> QED BY <1>3, <1>4

\* What comes later changes no sentence but the last, and that one only if it is unfinished.
MergedMore(raw, n, k) ==
  LET P == MergeState(raw, n)  Q == MergeState(raw, k)
      open == P # <<>> /\ Grounded!Unfinished(P[Len(P)])
  IN  /\ P \in Seq(Fragment) /\ Q \in Seq(Fragment) /\ Len(Q) >= Len(P)
      /\ k = n => Q = P
      /\ \A i \in 1..Len(P) : i < Len(P) \/ ~open => Q[i] = P[i]
      /\ \A i \in 1..Len(Q) : i > Len(P) =>
           \E l \in (n + 1)..k : Q[i].from = raw[l].from /\ (l > n + 1 \/ (i = Len(P) + 1 /\ ~open))

LEMMA MergeType ==
  ASSUME NEW raw \in Seq(Fragment)
  PROVE  \A k \in 0..Len(raw) : MergeState(raw, k) \in Seq(Fragment)
<1> DEFINE Odd == {k \in 0..Len(raw) : MergeState(raw, k) \notin Seq(Fragment)}
<1>0. Len(raw) \in Nat
  OBVIOUS
<1>1. ASSUME NEW k \in Odd, \A m \in Odd : k <= m PROVE FALSE
  <2>1. k \in 0..Len(raw) /\ MergeState(raw, k) \notin Seq(Fragment)
    OBVIOUS
  <2>2. CASE k = 0
    <3>1. <<>> \in Seq(Fragment)
      OBVIOUS
    <3> QED BY <2>1, <2>2, <3>1, MergeSteps
  <2>3. CASE k # 0
    <3>1. k \in 1..Len(raw) /\ k - 1 \in 0..Len(raw) /\ k \in Nat /\ ~(k <= k - 1)
      BY <1>0, <2>1, <2>3
    <3>2. MergeState(raw, k - 1) \in Seq(Fragment)
      BY <1>1, <3>1
    <3>3. raw[k] \in Fragment
      BY <3>1
    <3>4. Grounded!Merged(MergeState(raw, k - 1), raw[k]) \in Seq(Fragment)
      BY <3>2, <3>3, MergedIs
    <3> QED BY <2>1, <3>1, <3>4, MergeSteps
  <2> QED BY <2>2, <2>3
<1>2. Odd = {}
  <2>1. Odd \subseteq Nat
    BY <1>0
  <2> HIDE DEF Odd
  <2> QED BY <1>1, <2>1, Least
<1> QED BY <1>2

LEMMA MergeFollows ==
  ASSUME NEW raw \in Seq(Fragment), NEW n \in 0..Len(raw)
  PROVE  \A k \in n..Len(raw) : MergedMore(raw, n, k)
<1> DEFINE Odd == {k \in n..Len(raw) : ~MergedMore(raw, n, k)}
           P == MergeState(raw, n)
           open == P # <<>> /\ Grounded!Unfinished(P[Len(P)])
<1>0. Len(raw) \in Nat /\ n \in Nat /\ P \in Seq(Fragment) /\ Len(P) \in Nat
  <2>1. P \in Seq(Fragment)
    BY MergeType
  <2> QED BY <2>1
<1> HIDE DEF P
<1>1. ASSUME NEW k \in Odd, \A m \in Odd : k <= m PROVE FALSE
  <2>1. k \in n..Len(raw) /\ ~MergedMore(raw, n, k) /\ k \in Nat
    BY <1>0
  <2>2. CASE k = n
    <3>1. MergeState(raw, k) = P
      BY <2>2 DEF P
    <3>2. MergedMore(raw, n, n)
      BY <1>0, <2>2, <3>1 DEF MergedMore, P
    <3> QED BY <2>1, <2>2, <3>2
  <2>3. CASE k # n
    <3> DEFINE G == MergeState(raw, k - 1)
               Q == MergeState(raw, k)
               glued == G # <<>> /\ Grounded!Unfinished(G[Len(G)])
    <3>1. k - 1 \in n..Len(raw) /\ k \in 1..Len(raw) /\ ~(k <= k - 1) /\ k > n /\ k \in (n + 1)..k
      BY <1>0, <2>1, <2>3
    <3>2. MergedMore(raw, n, k - 1)
      BY <1>1, <3>1
    <3>3. /\ G \in Seq(Fragment) /\ Len(G) \in Nat /\ Len(G) >= Len(P)
          /\ k - 1 = n => G = P
          /\ \A i \in 1..Len(P) : i < Len(P) \/ ~open => G[i] = P[i]
      BY <3>2 DEF MergedMore, P
    <3>4. \A i \in 1..Len(G) : i > Len(P) =>
            \E l \in (n + 1)..(k - 1) : G[i].from = raw[l].from /\ (l > n + 1 \/ (i = Len(P) + 1 /\ ~open))
      BY <3>2 DEF MergedMore, P
    <3>5. raw[k] \in Fragment /\ Q = Grounded!Merged(G, raw[k])
      <4>1. raw[k] \in Fragment
        BY <3>1
      <4> QED BY <3>1, <4>1, MergeSteps
    <3> HIDE DEF Odd, G, Q, open
    <3>6. /\ Q \in Seq(Fragment)
          /\ glued => /\ Len(Q) = Len(G) /\ \A i \in 1..(Len(G) - 1) : Q[i] = G[i]
                      /\ Q[Len(G)].from = G[Len(G)].from
          /\ ~glued => /\ Len(Q) = Len(G) + 1 /\ \A i \in 1..Len(G) : Q[i] = G[i]
                       /\ Q[Len(G) + 1] = raw[k]
      BY <3>3, <3>5, MergedIs
    <3>7. glued /\ Len(G) = Len(P) => open
      <4> SUFFICES ASSUME glued, Len(G) = Len(P), ~open PROVE FALSE
        OBVIOUS
      <4>1. Len(P) # 0
        BY <3>3
      <4>2. Len(P) \in 1..Len(P)
        BY <1>0, <4>1
      <4>3. G[Len(P)] = P[Len(P)]
        BY <3>3, <4>2
      <4>4. P # <<>>
        BY <4>1
      <4> QED BY <4>3, <4>4 DEF open
    <3>8. Len(Q) >= Len(P) /\ Q \in Seq(Fragment)
      BY <1>0, <3>3, <3>6
    <3>9. ASSUME NEW i \in 1..Len(P), i < Len(P) \/ ~open PROVE Q[i] = P[i]
      <4>1. G[i] = P[i]
        BY <3>3, <3>9
      <4>2. i \in 1..Len(G) /\ (glued => i \in 1..(Len(G) - 1))
        BY <1>0, <3>3, <3>7, <3>9
      <4> QED BY <3>6, <4>1, <4>2
    <3>10. ASSUME NEW i \in 1..Len(Q), i > Len(P)
           PROVE  \E l \in (n + 1)..k : Q[i].from = raw[l].from /\ (l > n + 1 \/ (i = Len(P) + 1 /\ ~open))
      <4>1. CASE i \in 1..Len(G)
        <5>1. PICK l \in (n + 1)..(k - 1) : G[i].from = raw[l].from /\ (l > n + 1 \/ (i = Len(P) + 1 /\ ~open))
          BY <3>4, <3>10, <4>1
        <5>2. Q[i].from = G[i].from
          <6>1. CASE ~glued
            BY <3>6, <4>1, <6>1
          <6>2. CASE glued /\ i = Len(G)
            BY <3>6, <6>2
          <6>3. CASE glued /\ i # Len(G)
            <7>1. i \in 1..(Len(G) - 1)
              BY <3>3, <4>1, <6>3
            <7> QED BY <3>6, <6>3, <7>1
          <6> QED BY <6>1, <6>2, <6>3
        <5>3. l \in (n + 1)..k
          BY <1>0, <2>1
        <5> QED BY <5>1, <5>2, <5>3
      <4>2. CASE i \notin 1..Len(G)
        <5>1. ~glued /\ i = Len(G) + 1
          BY <3>3, <3>6, <4>2
        <5>2. Q[i].from = raw[k].from
          BY <3>6, <5>1
        <5>3. k > n + 1 \/ (i = Len(P) + 1 /\ ~open)
          <6>1. CASE k - 1 = n
            <7>1. G = P
              BY <3>3, <6>1
            <7> QED BY <5>1, <7>1 DEF open
          <6>2. CASE k - 1 # n
            BY <1>0, <2>1, <3>1, <6>2
          <6> QED BY <6>1, <6>2
        <5> QED BY <3>1, <5>2, <5>3
      <4> QED BY <4>1, <4>2
    <3>11. MergedMore(raw, n, k)
      BY <1>0, <2>3, <3>8, <3>9, <3>10 DEF MergedMore, P, Q, open
    <3> QED BY <2>1, <3>11
  <2> QED BY <2>2, <2>3
<1>2. Odd = {}
  <2>1. Odd \subseteq Nat
    BY <1>0
  <2> HIDE DEF Odd
  <2> QED BY <1>1, <2>1, Least
<1> QED BY <1>2

LEMMA MergePrefix ==
  ASSUME NEW a \in Seq(Fragment), NEW b \in Seq(Fragment), NEW n \in Nat,
         n <= Len(a), n <= Len(b), \A i \in 1..n : a[i] = b[i]
  PROVE  MergeState(a, n) = MergeState(b, n)
<1> DEFINE Odd == {k \in 0..n : MergeState(a, k) # MergeState(b, k)}
<1>0. Len(a) \in Nat /\ Len(b) \in Nat
  OBVIOUS
<1>1. ASSUME NEW k \in Odd, \A m \in Odd : k <= m PROVE FALSE
  <2>1. k \in 0..n /\ MergeState(a, k) # MergeState(b, k)
    OBVIOUS
  <2>2. CASE k = 0
    BY <2>1, <2>2, MergeSteps
  <2>3. CASE k # 0
    <3>1. k \in 1..n /\ k \in 1..Len(a) /\ k \in 1..Len(b) /\ k - 1 \in 0..n /\ k \in Nat /\ ~(k <= k - 1)
      BY <1>0, <2>1, <2>3
    <3>2. MergeState(a, k - 1) = MergeState(b, k - 1)
      BY <1>1, <3>1
    <3>3. a[k] = b[k]
      BY <3>1
    <3> QED BY <2>1, <3>1, <3>2, <3>3, MergeSteps
  <2> QED BY <2>2, <2>3
<1>2. Odd = {}
  <2>1. Odd \subseteq Nat
    OBVIOUS
  <2> HIDE DEF Odd
  <2> QED BY <1>1, <2>1, Least
<1>3. n \in 0..n
  OBVIOUS
<1> QED BY <1>2, <1>3

LEMMA SplitIsSeq ==
  ASSUME NEW symbols \in Seq(Symbol)
  PROVE  /\ Grounded!SplitSentences(symbols) \in Seq(Fragment)
         /\ Grounded!SplitSentences(symbols) =
              MergeState(Grounded!RawSentences(symbols), Len(Grounded!RawSentences(symbols)))
<1> DEFINE raw == Grounded!RawSentences(symbols)
<1>1. raw \in Seq(Fragment)
  BY RawIsSeq
<1>2. Grounded!SplitSentences(symbols) = MergeFold(raw)[DOMAIN raw]
  BY MergeIsFold
<1> HIDE DEF raw
<1>3. Grounded!SplitSentences(symbols) = MergeState(raw, Len(raw))
  BY <1>1, <1>2, MergeSteps
<1>4. Len(raw) \in 0..Len(raw)
  BY <1>1
<1> QED BY <1>1, <1>3, <1>4, MergeType DEF raw

\* A sentence after which another one begins within q is the same when q goes on.
LEMMA OldIsStable ==
  ASSUME NEW q \in Seq(Symbol), NEW t \in Seq(Symbol), Len(q) <= Len(t), \A i \in 1..Len(q) : q[i] = t[i],
         NEW i \in 1..Len(Grounded!SplitSentences(t)), NEW j \in 1..Len(Grounded!SplitSentences(t)), i < j,
         Grounded!SplitSentences(t)[j].from <= Len(q)
  PROVE  i \in 1..Len(Grounded!SplitSentences(q)) /\ Grounded!SplitSentences(q)[i] = Grounded!SplitSentences(t)[i]
<1> DEFINE k == Len(q)
           s == RawState(q, k)
           n == Len(s.out)
           a == Grounded!RawSentences(q)
           b == Grounded!RawSentences(t)
           P == MergeState(b, n)
           open == P # <<>> /\ Grounded!Unfinished(P[Len(P)])
<1>1. k \in Nat /\ k \in 0..Len(q) /\ k \in 0..Len(t)
  OBVIOUS
<1>2. s = RawState(t, k) /\ s \in Splitting /\ s.out \in Seq(Fragment)
  BY <1>1, RawPrefix, RawType DEF Splitting
<1>3. Follows(s, a, k) /\ Follows(s, b, k)
  BY <1>1, <1>2, RawFollows
<1> HIDE DEF s, a, b
<1>4. /\ a \in Seq(Fragment) /\ Len(a) >= n /\ \A x \in 1..n : a[x] = s.out[x]
      /\ b \in Seq(Fragment) /\ Len(b) >= n /\ \A x \in 1..n : b[x] = s.out[x]
      /\ \A x \in 1..Len(b) : x > n + 1 => b[x].from > k
      /\ n \in Nat /\ Len(a) \in Nat /\ Len(b) \in Nat
  BY <1>2, <1>3 DEF Follows
<1>5. MergeState(a, n) = P
  <2>1. n <= Len(a) /\ n <= Len(b) /\ \A x \in 1..n : a[x] = b[x]
    BY <1>4
  <2> HIDE DEF n
  <2> QED BY <1>4, <2>1, MergePrefix
<1>6. Grounded!SplitSentences(q) = MergeState(a, Len(a)) /\ Grounded!SplitSentences(t) = MergeState(b, Len(b))
  BY SplitIsSeq DEF a, b
<1>7. MergedMore(a, n, Len(a)) /\ MergedMore(b, n, Len(b))
  BY <1>4, MergeFollows
<1> DEFINE A == Grounded!SplitSentences(q)
           B == Grounded!SplitSentences(t)
<1>8. /\ P \in Seq(Fragment) /\ A \in Seq(Fragment) /\ Len(A) >= Len(P)
      /\ \A x \in 1..Len(P) : x < Len(P) \/ ~open => A[x] = P[x]
  BY <1>5, <1>6, <1>7 DEF MergedMore
<1>9. /\ B \in Seq(Fragment)
      /\ \A x \in 1..Len(P) : x < Len(P) \/ ~open => B[x] = P[x]
      /\ \A x \in 1..Len(B) : x > Len(P) =>
           \E l \in (n + 1)..Len(b) : B[x].from = b[l].from /\ (l > n + 1 \/ (x = Len(P) + 1 /\ ~open))
  BY <1>6, <1>7 DEF MergedMore
<1>10. i \in 1..Len(B) /\ j \in 1..Len(B) /\ i < j /\ B[j].from <= k
  OBVIOUS
<1> HIDE DEF A, B, P, open, n, k
<1>11. j > Len(P) => j = Len(P) + 1 /\ ~open
  <2> SUFFICES ASSUME j > Len(P) PROVE j = Len(P) + 1 /\ ~open
    OBVIOUS
  <2>1. PICK l \in (n + 1)..Len(b) : B[j].from = b[l].from /\ (l > n + 1 \/ (j = Len(P) + 1 /\ ~open))
    BY <1>9, <1>10
  <2>2. l \in 1..Len(b) /\ l \in Nat
    BY <1>4
  <2>3. ~(l > n + 1)
    <3>1. b[l] \in Fragment
      BY <1>4, <2>2
    <3>2. b[l].from \in Nat
      BY <3>1 DEF Fragment
    <3> QED BY <1>1, <1>4, <1>10, <2>1, <2>2, <3>2
  <2> QED BY <2>1, <2>3
<1>12. Len(P) \in Nat /\ Len(A) \in Nat /\ Len(B) \in Nat
  BY <1>8, <1>9
<1>13. i \in 1..Len(P) /\ (i < Len(P) \/ ~open)
  BY <1>10, <1>11, <1>12
<1>14. i \in 1..Len(A)
  BY <1>8, <1>12, <1>13
<1>15. A[i] = B[i]
  BY <1>8, <1>9, <1>13
<1> QED BY <1>14, <1>15 DEF A, B

-----------------------------------------------------------------------------
LEMMA SmallestIs ==
  ASSUME NEW T \in SUBSET Nat, T # {}
  PROVE  Grounded!Min(T) \in T /\ \A x \in T : Grounded!Min(T) <= x
<1>1. PICK n \in T : \A m \in T : n <= m
  BY Least
<1> QED BY <1>1 DEF Grounded!Min

\* The sentence a claim is cited to is one, and it entails the claim.
LEMMA CitedEntails ==
  ASSUME NEW claim, NEW sentences \in Seq(Fragment), Grounded!GroundClaim(claim, sentences) # 0
  PROVE  /\ Grounded!GroundClaim(claim, sentences) \in 1..Len(sentences)
         /\ Grounded!Entails(sentences[Grounded!GroundClaim(claim, sentences)], claim)
<1> DEFINE covers(i) == Grounded!Cardinality(Grounded!Supported(claim.words, sentences[i].words))
           top == {i \in DOMAIN sentences : covers(i) > 0 /\ \A j \in DOMAIN sentences : covers(j) <= covers(i)}
           exact == {i \in top : Grounded!Text(sentences[i]) = claim}
           best == Grounded!BestMatch(claim, sentences)
<1>1. best = IF top = {} THEN 0 ELSE IF exact = {} THEN Grounded!Min(top) ELSE Grounded!Min(exact)
  BY DEF Grounded!BestMatch
<1>2. top \subseteq 1..Len(sentences) /\ exact \subseteq top /\ Len(sentences) \in Nat
  OBVIOUS
<1>3. Grounded!GroundClaim(claim, sentences) = best /\ best # 0 /\ Grounded!Entails(sentences[best], claim)
  BY DEF Grounded!GroundClaim
<1> HIDE DEF top, exact, best
<1>4. top \in SUBSET Nat /\ exact \in SUBSET Nat
  BY <1>2
<1>5. best \in top
  BY <1>1, <1>2, <1>3, <1>4, SmallestIs
<1> QED BY <1>2, <1>3, <1>5

\* What an entailed claim owes to the sentence.
LEMMA EntailedIs ==
  ASSUME Grounded!GroundedAssumption, NEW s, NEW claim, Grounded!Entails(s, claim)
  PROVE  /\ \A w \in Grounded!Tokens(claim.words) : \E v \in Grounded!Tokens(s.words) : w =
              v \/ Grounded!SharesLemma(w, v)
         /\ Grounded!Numbers(claim.words) \subseteq Grounded!Numbers(s.words)
         /\ {Grounded!Polarity(claim.words), Grounded!Polarity(s.words)} # {-1, 1}
<1> DEFINE words == Grounded!Tokens(claim.words)
           supported == Grounded!Supported(claim.words, s.words)
           p == Grounded!Polarity(claim.words)
           q == Grounded!Polarity(s.words)
<1>1. /\ p * q >= 0 /\ Grounded!Numbers(claim.words) \subseteq Grounded!Numbers(s.words)
      /\ Grounded!Cardinality(words \ supported) <= MaxUnsupported
  BY DEF Grounded!Entails
<1>2. words \ supported = {}
  <2>1. Grounded!IsFiniteSet(words \ supported)
    <3>1. words \ supported \subseteq Content /\ Grounded!IsFiniteSet(Content)
      BY DEF Grounded!Tokens, Grounded!GroundedAssumption
    <3> QED BY <3>1, GroundedCounts, FS_Subset
  <2>2. Grounded!Cardinality(words \ supported) = 0
    BY <1>1, <2>1, GroundedCounts, FS_CardinalityType DEF Grounded!GroundedAssumption
  <2> QED BY <2>1, <2>2, GroundedCounts, FS_EmptySet
<1>3. ASSUME NEW w \in words PROVE \E v \in Grounded!Tokens(s.words) : w = v \/ Grounded!SharesLemma(w, v)
  <2>1. w \in supported
    BY <1>2
  <2> QED BY <2>1 DEF Grounded!Supported
<1>4. {p, q} # {-1, 1}
  <2> HIDE DEF p, q
  <2> SUFFICES ASSUME {p, q} = {-1, 1} PROVE FALSE
    OBVIOUS
  <2>1. (p = -1 /\ q = 1) \/ (p = 1 /\ q = -1)
    <3>1. p \in {-1, 1} /\ q \in {-1, 1} /\ -1 \in {p, q} /\ 1 \in {p, q}
      OBVIOUS
    <3> QED BY <3>1
  <2> QED BY <1>1, <2>1
<1> QED BY <1>1, <1>3, <1>4

LEMMA SaidIn ==
  ASSUME NEW owner, NEW words \in Seq(Word), Grounded!OwnerSupported(owner, words)
  PROVE  owner \in Grounded!ToSet(words)
<1>1. PICK i \in 0..(Len(words) - Len(<<owner>>)) : SubSeq(words, i + 1, i + Len(<<owner>>)) = <<owner>>
  BY DEF Grounded!OwnerSupported, Grounded!HasPhrase
<1>2. Len(<<owner>>) = 1 /\ <<owner>>[1] = owner
  OBVIOUS
<1>3. i \in Nat /\ i + 1 \in 1..Len(words)
  BY <1>2
<1>4. SubSeq(words, i + 1, i + 1)[1] = owner
  BY <1>1, <1>2
<1>5. SubSeq(words, i + 1, i + 1)[1] = words[i + 1]
  BY <1>3
<1> QED BY <1>3, <1>4, <1>5 DEF Grounded!ToSet

\* A claim that is a sentence with enough words is not withheld.
LEMMA QuotedIsGrounded ==
  ASSUME Grounded!GroundedAssumption, NEW claim, NEW sentences \in Seq(Fragment), NEW i \in 1..Len(sentences),
         Grounded!Text(sentences[i]) = claim, Grounded!Groundable(claim.words)
  PROVE  Grounded!GroundClaim(claim, sentences) # 0
<1> DEFINE covers(j) == Grounded!Cardinality(Grounded!Supported(claim.words, sentences[j].words))
           top == {j \in DOMAIN sentences : covers(j) > 0 /\ \A x \in DOMAIN sentences : covers(x) <= covers(j)}
           exact == {j \in top : Grounded!Text(sentences[j]) = claim}
           best == Grounded!BestMatch(claim, sentences)
           words == Grounded!Tokens(claim.words)
           n == Grounded!Cardinality(words)
<1>1. best = IF top = {} THEN 0 ELSE IF exact = {} THEN Grounded!Min(top) ELSE Grounded!Min(exact)
  BY DEF Grounded!BestMatch
<1>2. Grounded!IsFiniteSet(words) /\ n \in Nat /\ n > 0
  <2>1. words \subseteq Content /\ Grounded!IsFiniteSet(Content)
    BY DEF Grounded!Tokens, Grounded!GroundedAssumption
  <2>2. Grounded!IsFiniteSet(words) /\ n \in Nat
    BY <2>1, GroundedCounts, FS_Subset, FS_CardinalityType
  <2> QED BY <2>2 DEF Grounded!Groundable, Grounded!GroundedAssumption
<1>3. ASSUME NEW j \in DOMAIN sentences PROVE covers(j) \in Nat /\ covers(j) <= n
  <2>1. Grounded!Supported(claim.words, sentences[j].words) \subseteq words
    BY DEF Grounded!Supported
  <2> QED BY <1>2, <2>1, GroundedCounts, FS_Subset, FS_CardinalityType
<1>4. ASSUME NEW j \in DOMAIN sentences, Grounded!Text(sentences[j]) = claim
      PROVE  sentences[j].words = claim.words /\ Grounded!Supported(claim.words, sentences[j].words) = words
  <2>1. sentences[j].words = claim.words
    <3>1. claim.words = [words |-> sentences[j].words, ends |-> sentences[j].ends].words
      BY <1>4 DEF Grounded!Text
    <3> QED BY <3>1
  <2> QED BY <2>1 DEF Grounded!Supported
<1>5. i \in DOMAIN sentences /\ covers(i) = n
  BY <1>4
<1>6. i \in exact
  <2> HIDE DEF covers, n
  <2> QED BY <1>2, <1>3, <1>5
<1>7. exact \in SUBSET Nat /\ exact \subseteq DOMAIN sentences /\ DOMAIN sentences = 1..Len(sentences)
  OBVIOUS
<1>8. top # {}
  BY <1>6
<1> HIDE DEF top, covers
<1>9. best \in exact
  <2> HIDE DEF exact, best
  <2> QED BY <1>1, <1>6, <1>7, <1>8, SmallestIs
<1>10. best # 0 /\ best \in DOMAIN sentences /\ Grounded!Text(sentences[best]) = claim
  <2>1. best \in 1..Len(sentences)
    BY <1>7, <1>9
  <2> QED BY <1>9, <2>1
<1> HIDE DEF best, exact
<1>11. sentences[best].words = claim.words /\ Grounded!Supported(claim.words, sentences[best].words) = words
  BY <1>4, <1>10
<1>12. Grounded!Polarity(claim.words) * Grounded!Polarity(claim.words) >= 0
  <2> DEFINE T == {6} \cup {Cue[w] : w \in Grounded!ToSet(claim.words)}
             p == Grounded!Polarity(claim.words)
  <2>1. claim.words \in Seq(Word)
    <3>1. sentences[best] \in Fragment
      BY <1>10
    <3>2. sentences[best].words \in Seq(Word)
      BY <3>1 DEF Fragment
    <3> QED BY <1>11, <3>2
  <2>2. Grounded!ToSet(claim.words) \subseteq Word
    BY <2>1 DEF Grounded!ToSet
  <2>3. T \subseteq 1..6 /\ T # {}
    BY <2>2 DEF Word, Grounded!GroundedAssumption
  <2> HIDE DEF T
  <2>4. Grounded!Min(T) \in 1..6
    <3>1. T \in SUBSET Nat
      BY <2>3
    <3> QED BY <2>3, <3>1, SmallestIs
  <2>5. p = <<-1, 1, -1, 1, -1, 0>>[Grounded!Min(T)]
    BY DEF Grounded!Polarity, T
  <2>6. p \in {-1, 0, 1}
    BY <2>4, <2>5
  <2> HIDE DEF p
  <2>7. p * p >= 0
    BY <2>6
  <2> QED BY <2>7 DEF p
<1>13. 100 * n >= Threshold * n
  <2>1. Threshold \in 0..100
    BY DEF Grounded!GroundedAssumption
  <2> HIDE DEF n
  <2>2. ASSUME NEW a \in 0..100, NEW b \in Nat PROVE 100 * b >= a * b
    <3>1. (100 - a) * b >= 0
      OBVIOUS
    <3> QED BY <3>1
  <2> QED BY <1>2, <2>1, <2>2
<1>14. Grounded!Cardinality(words \ words) <= MaxUnsupported
  <2> HIDE DEF words
  <2>1. words \ words = {}
    OBVIOUS
  <2>2. Grounded!Cardinality(words \ words) = 0
    BY <2>1, GroundedCounts, FS_EmptySet
  <2>3. MaxUnsupported = 0
    BY DEF Grounded!GroundedAssumption
  <2> QED BY <2>2, <2>3
<1>15. Grounded!Entails(sentences[best], claim)
  BY <1>11, <1>12, <1>13, <1>14 DEF Grounded!Entails
<1>16. Grounded!GroundClaim(claim, sentences) = best
  BY <1>10, <1>15 DEF Grounded!GroundClaim, best
<1> QED BY <1>10, <1>16

-----------------------------------------------------------------------------
\* What a response says of the sentences it was made from.
Sound(r, sentences) ==
  /\ r.decisions = {t \in r.draft : Grounded!GroundClaim(t, sentences) # 0}
  /\ \A t \in r.summary : Grounded!GroundClaim(t, sentences) # 0
  /\ \A a \in r.actions : a.owner # Grounded!Nobody =>
       Grounded!OwnerSupported(a.owner, sentences[Grounded!GroundClaim(a.text, sentences)].words)

TranscriptOK == transcript \in Seq(Symbol)

ReportOK == report # Grounded!Nothing => Sound(report, Grounded!Sentences)

\* Every sentence with enough words of the transcript a cursor is about was on a menu.
CursorOK ==
  cursor # Grounded!Nothing =>
    /\ cursor.prefix \in Seq(Symbol) /\ cursor.length = Len(cursor.prefix)
    /\ \A i \in 1..Len(Grounded!SplitSentences(cursor.prefix)) :
         Grounded!Groundable(Grounded!SplitSentences(cursor.prefix)[i].words) =>
           Grounded!SplitSentences(cursor.prefix)[i] \in offered

GroundedInv == TranscriptOK /\ ReportOK /\ CursorOK

LEMMA ResponseIsSound ==
  ASSUME NEW texts, NEW summary, NEW owner
  PROVE  Sound(Grounded!Response(texts, summary, owner), Grounded!Sentences)
<1> DEFINE shown(claims) == {t \in claims : Grounded!GroundClaim(t, Grounded!Sentences) # 0}
           says(t) == Grounded!Sentences[Grounded!GroundClaim(t, Grounded!Sentences)]
           action(t) == [text |-> t, owner |-> IF Grounded!OwnerSupported(owner, says(t).words) THEN owner
             ELSE Grounded!Nobody]
           r == Grounded!Response(texts, summary, owner)
<1>1. r = [draft |-> Grounded!ToSet(texts), decisions |-> shown(Grounded!ToSet(texts)),
           actions |-> {action(t) : t \in shown(Grounded!ToSet(texts))},
           drafted |-> Grounded!ToSet(summary), summary |-> shown(Grounded!ToSet(Grounded!Resplit(summary)))]
  BY DEF Grounded!Response
<1>2. /\ r.draft = Grounded!ToSet(texts) /\ r.decisions = shown(Grounded!ToSet(texts))
      /\ r.actions = {action(t) : t \in shown(Grounded!ToSet(texts))} /\ r.summary =
           shown(Grounded!ToSet(Grounded!Resplit(summary)))
  BY <1>1
<1> HIDE DEF r
<1>3. ASSUME NEW a \in r.actions, a.owner # Grounded!Nobody
      PROVE  Grounded!OwnerSupported(a.owner, Grounded!Sentences[Grounded!GroundClaim(a.text,
               Grounded!Sentences)].words)
  <2>1. PICK t \in shown(Grounded!ToSet(texts)) : a = action(t)
    BY <1>2
  <2>2. a.text = t /\ a.owner = IF Grounded!OwnerSupported(owner, says(t).words) THEN owner ELSE Grounded!Nobody
    BY <2>1
  <2> QED BY <1>3, <2>2
<1>4. /\ r.decisions = {t \in r.draft : Grounded!GroundClaim(t, Grounded!Sentences) # 0}
      /\ \A t \in r.summary : Grounded!GroundClaim(t, Grounded!Sentences) # 0
  BY <1>2
<1> QED BY <1>3, <1>4 DEF Sound, r

LEMMA AskedIsSound ==
  ASSUME NEW texts, NEW summary, NEW owner
  PROVE  Sound([Grounded!Response(texts, summary, owner) EXCEPT !.actions = {}], Grounded!Sentences)
<1> DEFINE r == Grounded!Response(texts, summary, owner)
           e == [r EXCEPT !.actions = {}]
<1>1. Sound(r, Grounded!Sentences)
  BY ResponseIsSound
<1>2. e.draft = r.draft /\ e.decisions = r.decisions /\ e.summary = r.summary /\ e.actions = {}
  BY DEF Grounded!Response
<1> HIDE DEF r, e
<1>3. Sound(e, Grounded!Sentences)
  BY <1>1, <1>2 DEF Sound
<1> QED BY <1>3 DEF e, r

LEMMA AnalyzeIsSound ==
  ASSUME NEW menu, Grounded!Analyze(menu), transcript' = transcript
  PROVE  ReportOK'
<1>1. \E texts, summary, owner : report' = Grounded!Response(texts, summary, owner)
  BY DEF Grounded!Analyze, Grounded!Select, Grounded!Invent
<1>2. Sound(report', Grounded!Sentences)
  BY <1>1, ResponseIsSound
<1>3. Grounded!Sentences' = Grounded!Sentences
  BY DEF Grounded!Sentences
<1>4. Sound(report', Grounded!Sentences')
  BY <1>2, <1>3
<1>5. ReportOK' <=> (report' # Grounded!Nothing => Sound(report', Grounded!Sentences'))
  BY DEF ReportOK, Sound, Grounded!GroundClaim, Grounded!Entails, Grounded!BestMatch, Grounded!Nothing
<1> QED BY <1>4, <1>5

\* What a live menu hides was on a menu.
LEMMA HiddenWasOffered ==
  ASSUME Grounded!GroundedAssumption, TranscriptOK, CursorOK,
    NEW i \in DOMAIN Grounded!Sentences \ Grounded!LiveMenu(cursor),
         Grounded!Groundable(Grounded!Sentences[i].words)
  PROVE  Grounded!Sentences[i] \in offered /\ i \notin cursor.active
<1> DEFINE c == cursor
           old == {j \in DOMAIN Grounded!Sentences : Grounded!Sentences[j].from <= c.length}
           last == {j \in old : Grounded!Cardinality({x \in old : x > j}) < KeptOld}
           fits == /\ c # Grounded!Nothing
                   /\ c.length <= Len(transcript)
                   /\ SubSeq(transcript, 1, c.length) = c.prefix
                   /\ c.active \subseteq DOMAIN Grounded!Sentences
           q == cursor.prefix
<1>1. Grounded!LiveMenu(c) = IF fits THEN c.active \cup last \cup (DOMAIN Grounded!Sentences \ old)
        ELSE DOMAIN Grounded!Sentences
  BY DEF Grounded!LiveMenu
<1>2. fits /\ i \notin c.active /\ i \notin last /\ i \in old
  <2> HIDE DEF fits, last, old
  <2> QED BY <1>1
<1>3. /\ q \in Seq(Symbol) /\ c.length = Len(q)
      /\ \A x \in 1..Len(Grounded!SplitSentences(q)) :
           Grounded!Groundable(Grounded!SplitSentences(q)[x].words) => Grounded!SplitSentences(q)[x] \in offered
  BY <1>2 DEF CursorOK
<1>4. PICK j \in old : j > i
  <2> SUFFICES ASSUME {x \in old : x > i} = {} PROVE FALSE
    OBVIOUS
  <2>1. Grounded!Cardinality({x \in old : x > i}) = 0
    BY GroundedCounts, FS_EmptySet
  <2>2. Grounded!Cardinality({x \in old : x > i}) < KeptOld
    BY <2>1 DEF Grounded!GroundedAssumption
  <2> QED BY <1>2, <2>2
<1>5. transcript \in Seq(Symbol) /\ Len(q) <= Len(transcript) /\ SubSeq(transcript, 1, Len(q)) = q
  BY <1>2, <1>3 DEF TranscriptOK
<1>6. \A x \in 1..Len(q) : q[x] = transcript[x]
  <2>1. Len(q) \in Nat
    BY <1>3
  <2> HIDE DEF q
  <2>2. \A x \in 1..Len(q) : SubSeq(transcript, 1, Len(q))[x] = transcript[x]
    BY <1>5, <2>1, StartIs
  <2> QED BY <1>5, <2>2
<1>7. /\ Grounded!Sentences \in Seq(Fragment) /\ DOMAIN Grounded!Sentences = 1..Len(Grounded!Sentences)
      /\ Grounded!Sentences = Grounded!SplitSentences(transcript)
  BY <1>5, SplitIsSeq DEF Grounded!Sentences
<1>8. i \in 1..Len(Grounded!SplitSentences(transcript)) /\ j \in 1..Len(Grounded!SplitSentences(transcript)) /\ i < j
  BY <1>4, <1>7
<1>9. Grounded!SplitSentences(transcript)[j].from <= Len(q)
  BY <1>3, <1>4, <1>7
<1> HIDE DEF q, old, last, fits, c
<1>10. i \in 1..Len(Grounded!SplitSentences(q)) /\ Grounded!SplitSentences(q)[i] =
                                                     Grounded!SplitSentences(transcript)[i]
  BY <1>3, <1>5, <1>6, <1>8, <1>9, OldIsStable
<1> QED BY <1>2, <1>3, <1>7, <1>10 DEF c

LEMMA GroundedInit == Grounded!Init => GroundedInv
<1> SUFFICES ASSUME Grounded!Init PROVE GroundedInv
  OBVIOUS
<1> QED BY DEF Grounded!Init, GroundedInv, TranscriptOK, ReportOK, CursorOK

LEMMA TailIs ==
  ASSUME NEW S, NEW s \in Seq(S), s # <<>>
  PROVE  Tail(s) \in Seq(S)
  OBVIOUS

\* More is heard, or the window drops what is oldest.
LEMMA HearKeeps ==
  ASSUME Grounded!GroundedAssumption, GroundedInv, Grounded!Grow \/ Grounded!Truncate
  PROVE  GroundedInv'
<1>1. transcript \in Seq(Symbol)
  BY DEF GroundedInv, TranscriptOK
<1>2. transcript' \in Seq(Symbol)
  <2>1. CASE Grounded!Grow
    <3>1. PICK p \in Pieces : transcript' = transcript \o p
      BY <2>1 DEF Grounded!Grow
    <3>2. p \in Seq(Symbol)
      BY DEF Grounded!GroundedAssumption, Symbol, Word
    <3> QED BY <1>1, <3>1, <3>2, ConcatProperties
  <2>2. CASE Grounded!Truncate
    <3>1. transcript' = Tail(transcript)
      BY <2>2 DEF Grounded!Truncate
    <3>2. PICK p \in Pieces : Len(transcript \o p) > MaxLength
      BY <2>2 DEF Grounded!Truncate
    <3>3. p \in Seq(Symbol) /\ Len(p) <= MaxLength /\ MaxLength \in Nat
      BY DEF Grounded!GroundedAssumption, Symbol, Word
    <3>4. transcript # <<>>
      <4> SUFFICES ASSUME transcript = <<>> PROVE FALSE
        OBVIOUS
      <4>1. transcript \o p = p
        BY <3>3
      <4> QED BY <3>2, <3>3, <4>1
    <3> QED BY <1>1, <3>1, <3>4, TailIs
  <2> QED BY <2>1, <2>2
<1>3. report' = Grounded!Nothing /\ cursor' = cursor /\ offered' = offered
  BY DEF Grounded!Grow, Grounded!Truncate
<1>4. TranscriptOK'
  BY <1>2 DEF TranscriptOK
<1>5. ReportOK'
  BY <1>3 DEF ReportOK, Grounded!Nothing
<1>6. CursorOK'
  BY <1>3 DEF GroundedInv, CursorOK, Grounded!SplitSentences, Grounded!Nothing
<1> QED BY <1>4, <1>5, <1>6 DEF GroundedInv

\* What is on the menu of a live request, or was on an earlier one, covers the transcript.
LEMMA LiveKeeps ==
  ASSUME Grounded!GroundedAssumption, GroundedInv, Grounded!AnalyzeLive
  PROVE  GroundedInv'
<1> DEFINE menu == Grounded!LiveMenu(cursor)
<1>1. TranscriptOK /\ CursorOK
  BY DEF GroundedInv
<1>2. transcript' = transcript /\ Grounded!Analyze(Grounded!Menu(menu))
  BY DEF Grounded!AnalyzeLive
<1>3. /\ cursor' # Grounded!Nothing => cursor'.prefix = transcript /\ cursor'.length = Len(transcript)
      /\ offered' =
           {s \in offered : menu # DOMAIN Grounded!Sentences} \cup {Grounded!Sentences[i] : i \in Grounded!Menu(menu)}
  BY DEF Grounded!AnalyzeLive
<1>4. TranscriptOK'
  BY <1>1, <1>2 DEF TranscriptOK
<1>5. ReportOK'
  BY <1>2, AnalyzeIsSound
<1> HIDE DEF menu
<1>6. Grounded!Sentences = Grounded!SplitSentences(transcript) /\ DOMAIN Grounded!Sentences =
        1..Len(Grounded!Sentences)
  BY <1>1, SplitIsSeq DEF Grounded!Sentences, TranscriptOK
<1>7. ASSUME NEW i \in DOMAIN Grounded!Sentences, Grounded!Groundable(Grounded!Sentences[i].words)
      PROVE  Grounded!Sentences[i] \in offered'
  <2>1. CASE i \in menu
    <3>1. i \in Grounded!Menu(menu)
      BY <1>7, <2>1 DEF Grounded!Menu
    <3> QED BY <1>3, <3>1
  <2>2. CASE i \notin menu
    <3>1. menu # DOMAIN Grounded!Sentences
      BY <2>2
    <3>2. Grounded!Sentences[i] \in offered
      BY <1>1, <1>7, <2>2, HiddenWasOffered DEF menu
    <3> QED BY <1>3, <3>1, <3>2
  <2> QED BY <2>1, <2>2
<1>8. ASSUME cursor' # Grounded!Nothing
      PROVE  /\ cursor'.prefix \in Seq(Symbol) /\ cursor'.length = Len(cursor'.prefix)
             /\ \A i \in 1..Len(Grounded!SplitSentences(cursor'.prefix)) :
                  Grounded!Groundable(Grounded!SplitSentences(cursor'.prefix)[i].words) =>
                    Grounded!SplitSentences(cursor'.prefix)[i] \in offered'
  <2>1. cursor'.prefix = transcript /\ cursor'.length = Len(transcript)
    BY <1>3, <1>8
  <2>2. transcript \in Seq(Symbol)
    BY <1>1 DEF TranscriptOK
  <2>3. \A i \in 1..Len(Grounded!SplitSentences(transcript)) :
          Grounded!Groundable(Grounded!SplitSentences(transcript)[i].words) =>
            Grounded!SplitSentences(transcript)[i] \in offered'
    BY <1>6, <1>7
  <2> QED BY <2>1, <2>2, <2>3
<1>9. CursorOK' <=>
        (cursor' # Grounded!Nothing' =>
           /\ cursor'.prefix \in Seq(Symbol)' /\ cursor'.length = Len(cursor'.prefix)
           /\ \A i \in 1..Len(Grounded!SplitSentences(cursor'.prefix)) :
                Grounded!Groundable(Grounded!SplitSentences(cursor'.prefix)[i].words) =>
                  Grounded!SplitSentences(cursor'.prefix)[i] \in offered')
  BY DEF CursorOK
<1>10. CursorOK'
  BY <1>8, <1>9 DEF Grounded!Nothing, Symbol, Word
<1> QED BY <1>4, <1>5, <1>10 DEF GroundedInv

\* Every step keeps the invariant.
LEMMA GroundedNext ==
  ASSUME Grounded!GroundedAssumption, GroundedInv, [Grounded!Next]_(Grounded!vars)
  PROVE  GroundedInv'
<1>1. CASE Grounded!Grow \/ Grounded!Truncate
  BY <1>1, HearKeeps
<1>2. CASE Grounded!AnalyzeLive
  BY <1>2, LiveKeeps
<1>3. CASE Grounded!AnalyzeFinal \/ Grounded!Ask
  <2>1. transcript' = transcript /\ cursor' = cursor /\ offered' = offered
    BY <1>3 DEF Grounded!AnalyzeFinal, Grounded!Ask
  <2>2. TranscriptOK' /\ CursorOK'
    BY <2>1 DEF GroundedInv, TranscriptOK, CursorOK, Grounded!Nothing
  <2>3. ReportOK'
    <3>1. CASE Grounded!AnalyzeFinal
      BY <2>1, <3>1, AnalyzeIsSound DEF Grounded!AnalyzeFinal
    <3>2. CASE Grounded!Ask
      <4>1. PICK claim \in Claims : report' =
              [Grounded!Response(<<claim>>, <<>>, Grounded!Nobody) EXCEPT !.actions = {}]
        BY <3>2 DEF Grounded!Ask
      <4>2. Sound(report', Grounded!Sentences)
        BY <4>1, AskedIsSound
      <4>3. Grounded!Sentences' = Grounded!Sentences
        BY <2>1 DEF Grounded!Sentences
      <4>4. ReportOK' <=> (report' # Grounded!Nothing => Sound(report', Grounded!Sentences'))
        BY DEF ReportOK, Sound, Grounded!GroundClaim, Grounded!Entails, Grounded!BestMatch, Grounded!Nothing
      <4> QED BY <4>2, <4>3, <4>4
    <3> QED BY <1>3, <3>1, <3>2
  <2> QED BY <2>2, <2>3 DEF GroundedInv
<1>4. CASE UNCHANGED Grounded!vars
  <2>1. /\ transcript' = transcript /\ cursor' = cursor /\ offered' = offered /\ report' = report
        /\ Grounded!Sentences' = Grounded!Sentences
    BY <1>4 DEF Grounded!vars, Grounded!Sentences
  <2>2. TranscriptOK' /\ CursorOK'
    BY <2>1 DEF GroundedInv, TranscriptOK, CursorOK, Grounded!Nothing
  <2>3. ReportOK' <=> (report' # Grounded!Nothing => Sound(report', Grounded!Sentences'))
    BY DEF ReportOK, Sound, Grounded!GroundClaim, Grounded!Entails, Grounded!BestMatch, Grounded!Nothing
  <2>4. ReportOK'
    BY <2>1, <2>3 DEF GroundedInv, ReportOK
  <2> QED BY <2>2, <2>4 DEF GroundedInv
<1> QED BY <1>1, <1>2, <1>3, <1>4 DEF Grounded!Next

LEMMA GroundedIsInvariant == ASSUME Grounded!GroundedAssumption PROVE Grounded!Spec => []GroundedInv
<1>1. Grounded!Init => GroundedInv
  BY GroundedInit
<1>2. GroundedInv /\ [Grounded!Next]_(Grounded!vars) => GroundedInv'
  BY GroundedNext
<1> QED BY <1>1, <1>2, PTL DEF Grounded!Spec

\* For any words, readings, transcripts and whatever the model answers: every decision, action
\* and summary sentence that is shown is entailed by one sentence of the transcript, which names
\* the owner it is shown with (ground_claim, owner_supported, MeetingAnalysisService.analyze).
THEOREM OnlyEntailedIsShown == ASSUME Grounded!GroundedAssumption PROVE Grounded!Spec => []ShownIsEntailed
<1>1. GroundedInv => ShownIsEntailed
  <2> SUFFICES ASSUME GroundedInv, report # Grounded!Nothing, NEW t \in report.decisions \cup report.summary
               PROVE  \E i \in DOMAIN Grounded!Sentences :
                        /\ \A w \in Grounded!Tokens(t.words) :
                              \E v \in Grounded!Tokens(Grounded!Sentences[i].words) : w =
                                v \/ Grounded!SharesLemma(w, v)
                        /\ Grounded!Numbers(t.words) \subseteq Grounded!Numbers(Grounded!Sentences[i].words)
                        /\ {Grounded!Polarity(t.words), Grounded!Polarity(Grounded!Sentences[i].words)} # {-1, 1}
                        /\ \A a \in report.actions :
                             a.text = t /\ a.owner # Grounded!Nobody =>
                                             a.owner \in Grounded!ToSet(Grounded!Sentences[i].words)
    BY DEF ShownIsEntailed, Grounded!ShownIsEntailed
  <2> DEFINE i == Grounded!GroundClaim(t, Grounded!Sentences)
  <2>1. Grounded!Sentences \in Seq(Fragment) /\ DOMAIN Grounded!Sentences = 1..Len(Grounded!Sentences)
    BY SplitIsSeq DEF Grounded!Sentences, GroundedInv, TranscriptOK
  <2>2. i # 0 /\ Sound(report, Grounded!Sentences)
    BY DEF GroundedInv, ReportOK, Sound
  <2>3. i \in DOMAIN Grounded!Sentences /\ Grounded!Entails(Grounded!Sentences[i], t)
    BY <2>1, <2>2, CitedEntails
  <2>4. /\ \A w \in Grounded!Tokens(t.words) :
              \E v \in Grounded!Tokens(Grounded!Sentences[i].words) : w = v \/ Grounded!SharesLemma(w, v)
        /\ Grounded!Numbers(t.words) \subseteq Grounded!Numbers(Grounded!Sentences[i].words)
        /\ {Grounded!Polarity(t.words), Grounded!Polarity(Grounded!Sentences[i].words)} # {-1, 1}
    BY <2>3, EntailedIs
  <2>5. ASSUME NEW a \in report.actions, a.text = t, a.owner # Grounded!Nobody
        PROVE  a.owner \in Grounded!ToSet(Grounded!Sentences[i].words)
    <3>1. Grounded!OwnerSupported(a.owner, Grounded!Sentences[i].words)
      BY <2>2, <2>5 DEF Sound
    <3>2. Grounded!Sentences[i] \in Fragment
      BY <2>1, <2>3
    <3>3. Grounded!Sentences[i].words \in Seq(Word)
      BY <3>2 DEF Fragment
    <3> QED BY <3>1, <3>3, SaidIn
  <2> HIDE DEF i
  <2> QED BY <2>3, <2>4, <2>5
<1> QED BY <1>1, GroundedIsInvariant, PTL

\* A sentence the model chose by its number passes every gate of ground_claim, whichever other
\* sentences there are: the verbatim one wins a tie for the best match (_best_match).
THEOREM QuotesAreShown == ASSUME Grounded!GroundedAssumption PROVE Grounded!Spec => []ChosenIsShown
<1>1. GroundedInv => ChosenIsShown
  <2> SUFFICES ASSUME GroundedInv, report # Grounded!Nothing, NEW t \in report.draft,
    NEW i \in DOMAIN Grounded!Sentences,
                      Grounded!Text(Grounded!Sentences[i]) = t, Grounded!Groundable(t.words)
               PROVE  t \in report.decisions
    BY DEF ChosenIsShown, Grounded!ChosenIsShown
  <2>1. Grounded!Sentences \in Seq(Fragment) /\ DOMAIN Grounded!Sentences = 1..Len(Grounded!Sentences)
    BY SplitIsSeq DEF Grounded!Sentences, GroundedInv, TranscriptOK
  <2>2. Grounded!GroundClaim(t, Grounded!Sentences) # 0
    BY <2>1, QuotedIsGrounded
  <2> QED BY <2>2 DEF GroundedInv, ReportOK, Sound
<1> QED BY <1>1, GroundedIsInvariant, PTL

\* However a transcript grows, is cut and outgrows its window: a live menu hides only sentences
\* that were on an earlier menu, word for word what they are now (live_context.live_menu).
THEOREM HiddenWereJudged == ASSUME Grounded!GroundedAssumption PROVE Grounded!Spec => []HiddenWasJudged
<1>1. GroundedInv => HiddenWasJudged
  BY HiddenWasOffered DEF GroundedInv, HiddenWasJudged, Grounded!HiddenWasJudged
<1> QED BY <1>1, GroundedIsInvariant, PTL

=============================================================================
