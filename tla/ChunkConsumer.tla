----------------------------- MODULE ChunkConsumer -----------------------------
(***************************************************************************)
(* The audio-chunk consumer of live-stt (chunk_consumer.py) and the Redis   *)
(* streams it reads.  Several hosts may run it in one group.  A message may *)
(* be appended more than once (the gateway retries), and all entries of a   *)
(* message are on one partition.  The consumer is a thread that nothing     *)
(* restarts: an error of Redis ends it, as a crash of the process does.     *)
(***************************************************************************)
EXTENDS Integers, FiniteSets, SequencesExt

CONSTANTS
  Partitions,      \* partition_keys(), as the numbers 1..n in their order
  Messages, Bad,   \* messageIds; those whose envelope does not validate
  PartitionOf,     \* the gateway's hash of tenant and session
  Consumers,
  BatchSize, ClaimEvery, TrimMaxLen, Capacity,   \* Settings.chunk_*
  MaxEntries,      \* bound: entries appended
  MaxFailures,     \* bound: how often the handler fails
  MaxDeaths        \* bound: ends of a consumer

ChunkAssumption ==
  /\ IsFiniteSet(Partitions) /\ Partitions \subseteq Nat /\ PartitionOf \in [Messages -> Partitions]
  /\ {BatchSize, ClaimEvery, TrimMaxLen, Capacity, MaxEntries, MaxFailures, MaxDeaths} \subseteq Nat
  /\ ClaimEvery > 0

VARIABLES
  stream,          \* partition -> every entry ever appended: its messageId
  first,           \* partition -> the oldest entry that is not trimmed
  next,            \* partition -> the first entry the group has not delivered
  pending, stale,  \* partition -> the group's pending entries, those idle for long
  acked,           \* partition -> the entries acknowledged
  handled,         \* the messages ChunkHandler.handle has returned for
  pc, mode,        \* consumer -> where its thread is, in which part of the loop
  batch,           \* consumer -> the entries it was given and has not finished
  left,            \* consumer -> partitions still to trim, or to claim from
  loops,           \* consumer -> loops_since_claim
  seen,            \* consumer -> _LruSeenSet, the oldest first
  failures, deaths

redis == <<stream, first, next, pending, stale, acked>>
thread == <<pc, mode, batch, left, loops, seen>>
vars == <<redis, handled, thread, failures, deaths>>

-----------------------------------------------------------------------------
GoTo(c, where) == pc' = [pc EXCEPT ![c] = where]

Message(e) == stream[e[1]][e[2]]

\* The entries in the order in which Redis hands them out.
InOrder(entries) ==
  {s \in [1..Cardinality(entries) -> entries] :
     \A i, j \in DOMAIN s : i < j => s[i][1] < s[j][1] \/ (s[i][1] = s[j][1] /\ s[i][2] < s[j][2])}

Everything == UNION {{p} \X DOMAIN stream[p] : p \in Partitions}

\* The oldest n of a set of entry ids.
Oldest(ids, n) == {i \in ids : Cardinality({j \in ids : j < i}) < n}

\* XADD by the gateway.
Publish(m) ==
  LET p == PartitionOf[m]
  IN  /\ Cardinality(Everything) < MaxEntries
      /\ stream' = [stream EXCEPT ![p] = Append(@, m)]
      /\ UNCHANGED <<first, next, pending, stale, acked, handled, thread, failures, deaths>>

\* An entry has been pending for chunk_claim_idle_ms, its consumer dead or slow.
GrowStale(p, i) ==
  /\ i \in pending[p] \ stale[p]
  /\ stale' = [stale EXCEPT ![p] = @ \cup {i}]
  /\ UNCHANGED <<stream, first, next, pending, acked, handled, thread, failures, deaths>>

-----------------------------------------------------------------------------
Fresh(p) == Oldest({i \in next[p]..Len(stream[p]) : i >= first[p]}, BatchSize)

\* XREADGROUP of all partitions; without an entry it returns when it has blocked
\* long enough, and nothing is touched.
Read(c) ==
  /\ pc[c] = "read"
  /\ \E given \in InOrder(UNION {{p} \X Fresh(p) : p \in Partitions}) : batch' = [batch EXCEPT ![c] = given]
  /\ next' = [p \in Partitions |-> IF Fresh(p) = {} THEN next[p] ELSE 1 + Max(Fresh(p))]
  /\ pending' = [p \in Partitions |-> pending[p] \cup Fresh(p)]
  /\ left' = [left EXCEPT ![c] = {p \in Partitions : Fresh(p) # {}}]
  /\ GoTo(c, "run") /\ mode' = [mode EXCEPT ![c] = "trim"]
  /\ UNCHANGED <<stream, first, stale, acked, handled, loops, seen, failures, deaths>>

\* _LruSeenSet.add, and seen, which moves the key to the end.
Remember(lru, m) ==
  LET others == IF m \in ToSet(lru) THEN RemoveAt(lru, CHOOSE i \in DOMAIN lru : lru[i] = m) ELSE lru
      kept == Append(others, m)
  IN  IF Len(kept) > Capacity THEN Tail(kept) ELSE kept

Invalid(c) ==
  /\ pc[c] = "run" /\ batch[c] # <<>> /\ Message(Head(batch[c])) \in Bad
  /\ GoTo(c, "ack")
  /\ UNCHANGED <<redis, handled, mode, batch, left, loops, seen, failures, deaths>>

Duplicate(c) ==
  LET m == Message(Head(batch[c]))
  IN  /\ pc[c] = "run" /\ batch[c] # <<>> /\ m \in ToSet(seen[c])
      /\ seen' = [seen EXCEPT ![c] = Remember(@, m)]
      /\ GoTo(c, "ack")
      /\ UNCHANGED <<redis, handled, mode, batch, left, loops, failures, deaths>>

\* Mutant: the messageId is remembered before the handler is called.
RememberedFirst(c, m, ok) == Remember(seen[c], m)

\* The handler returned, or raised.
RememberedAfter(c, m, ok) == IF ok THEN Remember(seen[c], m) ELSE seen[c]

\* A handler that fails leaves the entry pending.
Handle(c) ==
  LET m == Message(Head(batch[c]))
  IN  /\ pc[c] = "run" /\ batch[c] # <<>> /\ m \notin Bad \cup ToSet(seen[c])
      /\ \/ /\ handled' = handled \cup {m}
            /\ seen' = [seen EXCEPT ![c] = RememberedAfter(c, m, TRUE)]
            /\ GoTo(c, "ack")
            /\ UNCHANGED <<batch, failures>>
         \/ /\ failures < MaxFailures /\ failures' = failures + 1
            /\ seen' = [seen EXCEPT ![c] = RememberedAfter(c, m, FALSE)]
            /\ batch' = [batch EXCEPT ![c] = Tail(@)]
            /\ UNCHANGED <<handled, pc>>
      /\ UNCHANGED <<redis, mode, left, loops, deaths>>

Ack(c) ==
  LET e == Head(batch[c])
  IN  /\ pc[c] = "ack"
      /\ pending' = [pending EXCEPT ![e[1]] = @ \ {e[2]}]
      /\ stale' = [stale EXCEPT ![e[1]] = @ \ {e[2]}]
      /\ acked' = [acked EXCEPT ![e[1]] = @ \cup {e[2]}]
      /\ batch' = [batch EXCEPT ![c] = Tail(@)]
      /\ GoTo(c, "run")
      /\ UNCHANGED <<stream, first, next, handled, mode, left, loops, seen, failures, deaths>>

\* XTRIM may leave more than it is asked to (approximate).
Trim(c) ==
  /\ pc[c] = "run" /\ mode[c] = "trim" /\ batch[c] = <<>> /\ left[c] # {}
  /\ LET p == Min(left[c])
     IN  /\ first' \in {[first EXCEPT ![p] = i] : i \in first[p]..Max({first[p], 1 + Len(stream[p]) - TrimMaxLen})}
         /\ left' = [left EXCEPT ![c] = @ \ {p}]
  /\ UNCHANGED <<stream, next, pending, stale, acked, handled, pc, mode, batch, loops, seen, failures, deaths>>

ClaimDue(c) == loops[c] + 1 >= ClaimEvery

EndLoop(c) ==
  /\ pc[c] = "run" /\ batch[c] = <<>> /\ left[c] = {}
  /\ IF mode[c] = "trim" /\ ClaimDue(c)
     THEN /\ loops' = [loops EXCEPT ![c] = 0]
          /\ mode' = [mode EXCEPT ![c] = "claim"]
          /\ left' = [left EXCEPT ![c] = Partitions] /\ UNCHANGED pc
     ELSE /\ loops' = [loops EXCEPT ![c] = IF mode[c] = "trim" THEN @ + 1 ELSE @]
          /\ GoTo(c, "read") /\ UNCHANGED <<mode, left>>
  /\ UNCHANGED <<redis, handled, batch, seen, failures, deaths>>

\* Mutant: claims start where reading goes on, not at 0-0.
StaleFromNext(p) == {i \in stale[p] : i >= next[p]}

StaleEntries(p) == {i \in stale[p] : i >= first[p]}

\* XAUTOCLAIM of one partition: the oldest idle entries, whoever has them; what
\* was trimmed meanwhile is dropped from the group instead.
Claim(c) ==
  /\ pc[c] = "run" /\ mode[c] = "claim" /\ batch[c] = <<>> /\ left[c] # {}
  /\ LET p == Min(left[c])
         gone == {i \in stale[p] : i < first[p]}
         mine == Oldest(StaleEntries(p), BatchSize)
     IN  /\ pending' = [pending EXCEPT ![p] = @ \ gone]
         /\ stale' = [stale EXCEPT ![p] = @ \ (gone \cup mine)]
         /\ \E given \in InOrder({p} \X mine) : batch' = [batch EXCEPT ![c] = given]
         /\ left' = [left EXCEPT ![c] = @ \ {p}]
  /\ UNCHANGED <<stream, first, next, acked, handled, pc, mode, loops, seen, failures, deaths>>

\* The thread ends, or its process does: what it was given stays pending, what
\* it has seen is forgotten.
Die(c) ==
  /\ pc[c] # "off" /\ deaths < MaxDeaths
  /\ deaths' = deaths + 1
  /\ GoTo(c, "off")
  /\ mode' = [mode EXCEPT ![c] = "trim"] /\ loops' = [loops EXCEPT ![c] = 0]
  /\ batch' = [batch EXCEPT ![c] = <<>>] /\ left' = [left EXCEPT ![c] = {}]
  /\ seen' = [seen EXCEPT ![c] = <<>>]
  /\ UNCHANGED <<redis, handled, failures>>

\* A new process finds the groups (ensure_groups).
Start(c) ==
  /\ pc[c] = "off" /\ GoTo(c, "read")
  /\ UNCHANGED <<redis, handled, mode, batch, left, loops, seen, failures, deaths>>

Loop(c) ==
  \/ Read(c) \/ Invalid(c) \/ Duplicate(c) \/ Handle(c) \/ Ack(c)
  \/ Trim(c) \/ EndLoop(c) \/ Claim(c)

-----------------------------------------------------------------------------
Init ==
  /\ stream = [p \in Partitions |-> <<>>]
  /\ first = [p \in Partitions |-> 1] /\ next = [p \in Partitions |-> 1]
  /\ pending = [p \in Partitions |-> {}] /\ stale = [p \in Partitions |-> {}]
  /\ acked = [p \in Partitions |-> {}] /\ handled = {}
  /\ pc = [c \in Consumers |-> "read"] /\ mode = [c \in Consumers |-> "trim"]
  /\ batch = [c \in Consumers |-> <<>>] /\ left = [c \in Consumers |-> {}]
  /\ loops = [c \in Consumers |-> 0] /\ seen = [c \in Consumers |-> <<>>]
  /\ failures = 0 /\ deaths = 0

Next ==
  \/ \E m \in Messages : Publish(m)
  \/ \E p \in Partitions : \E i \in pending[p] : GrowStale(p, i)
  \/ \E c \in Consumers : Loop(c) \/ Die(c) \/ Start(c)

Spec == Init /\ [][Next]_vars

\* A running thread goes on, and time passes.  Nothing restarts a thread.
Fairness ==
  /\ \A c \in Consumers : WF_vars(Loop(c))
  /\ \A p \in Partitions, i \in 1..MaxEntries : WF_vars(GrowStale(p, i))

FairSpec == Spec /\ Fairness

-----------------------------------------------------------------------------
TypeOK ==
  /\ \A p \in Partitions :
       /\ stream[p] \in BoundedSeq(Messages, MaxEntries)
       /\ first[p] \in 1..(MaxEntries + 1) /\ next[p] \in 1..(MaxEntries + 1)
       /\ stale[p] \subseteq pending[p] /\ pending[p] \cap acked[p] = {}
  /\ \A c \in Consumers : Len(seen[c]) <= Capacity /\ loops[c] \in 0..(ClaimEvery - 1)

\* What the group delivered is acknowledged, still pending or trimmed; what it
\* acknowledged was handled or is not valid.  An entry is never put aside
\* because some consumer saw it and failed (_ack, process_message).
ChunkSound ==
  /\ TypeOK
  /\ \A p \in Partitions, i \in 1..MaxEntries :
       /\ i < next[p] => i \in pending[p] \cup acked[p] \/ i < first[p]
       /\ i \in acked[p] => stream[p][i] \in Bad \cup handled

\* Every valid chunk is handled in the end or trimmed, whatever the handler and
\* all consumers but one do: an entry that is left pending is claimed.
ChunksHandled ==
  \A p \in Partitions, i \in 1..MaxEntries :
    LET Appended == i <= Len(stream[p])
    IN  (Appended /\ stream[p][i] \notin Bad) ~> (Appended /\ (stream[p][i] \in handled \/ i < first[p]))

=============================================================================
