---------------------------- MODULE StoreMigration ----------------------------
(***************************************************************************)
(* Opening the SQLite store of meeting-ai: SqliteOutboxStore._initialize.   *)
(* Several processes may open one file, each with the keyring it was        *)
(* started with; a step is one transaction or one statement of its own, and *)
(* a process may stop between any two.  Once open, a process takes in       *)
(* events and results under its own keys, so the file changes beneath those *)
(* that are still opening it.                                               *)
(*                                                                          *)
(* An inbox row keeps which event it is about, the scheme its lookup digest *)
(* was made with and the key of its envelope; before version 4 it is        *)
(* plaintext.  The operator rotates keys as README.md (meeting-ai) says:    *)
(* add the new key, make it active, remove the old one, each step only when *)
(* every running process has the one before.                                *)
(***************************************************************************)
EXTENDS Integers, FiniteSets

CONSTANTS
  Process, Event,
  MaxFaults        \* bound: stops, busy checkpoints, starts with a wrong lookup key

VARIABLES
  version,         \* PRAGMA user_version
  inbox,           \* the rows of meeting_transcript_ready_inbox
  outbox,          \* the keys under which results are held
  binding,         \* the recorded lookup key
  scrub,           \* the plaintext-scrub marker
  plaintext,       \* "present" in the file, "superseded" by VACUUM, or "gone"
  deployed,        \* the step of the key rotation
  pc, seen, step, lookup,   \* a process: where it is, the version it read, its configuration
  faults

fileVars == <<version, inbox, outbox, binding, scrub, plaintext>>
procVars == <<pc, seen, step, lookup>>
vars == <<fileVars, deployed, procVars, faults>>

-----------------------------------------------------------------------------
\* What is taken for granted of the constants, by the runs and by the proofs.
StoreAssumption == IsFiniteSet(Event) /\ MaxFaults \in Nat

Rotation ==
  << [keys |-> {"old"}, active |-> "old"],
     [keys |-> {"old", "new"}, active |-> "old"],
     [keys |-> {"old", "new"}, active |-> "new"],
     [keys |-> {"new"}, active |-> "new"] >>

Keys(p) == Rotation[step[p]].keys

Active(p) == Rotation[step[p]].active

Running == {p \in Process : pc[p] # "down"}

Serving == {p \in Process : pc[p] = "serving"}

KeysInUse == outbox \cup (IF version >= 4 THEN {r.key : r \in inbox} ELSE {})

Complete(p) == KeysInUse \subseteq Keys(p)

GoTo(p, next) == pc' = [pc EXCEPT ![p] = next]

\* A start that fails leaves what it has committed.
Refuse(p) == GoTo(p, "down") /\ UNCHANGED <<fileVars, seen, step, lookup>>

Fault == faults < MaxFaults /\ faults' = faults + 1

-----------------------------------------------------------------------------
Start(p) ==
  /\ pc[p] = "down"
  /\ step' = [step EXCEPT ![p] = deployed]
  /\ \/ lookup' = [lookup EXCEPT ![p] = "L"] /\ UNCHANGED faults
     \/ binding # "none" /\ Fault /\ lookup' = [lookup EXCEPT ![p] = "wrong"]
  /\ seen' = [seen EXCEPT ![p] = version]
  /\ GoTo(p, "keyring")
  /\ UNCHANGED <<fileVars, deployed>>

\* _assert_existing_keyring_complete, before anything is changed.
CheckKeyring(p) ==
  /\ pc[p] = "keyring"
  /\ IF Complete(p) THEN GoTo(p, "migrate") /\ UNCHANGED <<fileVars, seen, step, lookup>>
                    ELSE Refuse(p)
  /\ UNCHANGED <<deployed, faults>>

\* Versions 1 to 3 only create or widen tables, which fails if another process
\* has done it; so do 4, whose query names a plaintext column, and 5, which adds
\* a column.
MigrateSchema(p) ==
  /\ pc[p] = "migrate" /\ seen[p] < 3
  /\ IF seen[p] < version THEN Refuse(p)
     ELSE /\ version' = seen[p] + 1 /\ seen' = [seen EXCEPT ![p] = seen[p] + 1]
          /\ UNCHANGED <<inbox, outbox, binding, scrub, plaintext, pc, step, lookup>>
  /\ UNCHANGED <<deployed, faults>>

\* Each identity, encrypted under the active key and found by the lookup key.
Sealed(p, rows) == {[event |-> r.event, digest |-> lookup[p], key |-> Active(p)] : r \in rows}

EncryptInbox(p) ==
  /\ pc[p] = "migrate" /\ seen[p] = 3
  /\ IF version > 3 THEN Refuse(p)
     ELSE /\ version' = 4 /\ seen' = [seen EXCEPT ![p] = 4]
          /\ inbox' = Sealed(p, inbox) /\ scrub' = "pending"
          /\ UNCHANGED <<outbox, binding, plaintext, pc, step, lookup>>
  /\ UNCHANGED <<deployed, faults>>

\* Mutant: rows of one event are merged.
Collapse(p) == FALSE

\* Two rows of an older revision may be about one event: nothing is merged.
Collapses(p) == Cardinality(Sealed(p, inbox)) < Cardinality(inbox)

\* Mutant: the rows keep the digests they had.
Resealed(p) == {[r EXCEPT !.key = Active(p)] : r \in inbox}

Rebound(p) == Sealed(p, inbox)

\* Versions 5 and 6 bind every identity to its new digest.
RebindInbox(p) ==
  /\ pc[p] = "migrate" /\ seen[p] \in {4, 5}
  /\ IF (seen[p] = 4 /\ version > 4) \/ ~Complete(p) \/ Collapses(p) THEN Refuse(p)
     ELSE /\ version' = seen[p] + 1 /\ seen' = [seen EXCEPT ![p] = seen[p] + 1]
          /\ inbox' = Rebound(p)
          /\ UNCHANGED <<outbox, binding, scrub, plaintext, pc, step, lookup>>
  /\ UNCHANGED <<deployed, faults>>

\* _rekey_encrypted_rows: one transaction, which fails if a digest would change.
Rekey(p) ==
  LET stale == {r \in inbox : r.key # Active(p)}
  IN  /\ pc[p] = "migrate" /\ seen[p] = 6
      /\ IF ~Complete(p) \/ \E r \in stale : r.digest # lookup[p] THEN Refuse(p)
         ELSE /\ inbox' = (inbox \ stale) \cup Sealed(p, stale)
              /\ outbox' = IF outbox = {} THEN {} ELSE {Active(p)}
              /\ GoTo(p, "binding")
              /\ UNCHANGED <<version, binding, scrub, plaintext, seen, step, lookup>>
      /\ UNCHANGED <<deployed, faults>>

\* Mutant: a recorded lookup key is not compared.
AnyLookup(p) == binding # "none" \/ \A r \in inbox : r.digest = lookup[p]

LookupFits(p) ==
  IF binding # "none" THEN binding = lookup[p]
  ELSE Complete(p) /\ \A r \in inbox : r.digest = lookup[p]

\* _verify_or_record_lookup_key_binding ...
VerifyBinding(p) ==
  /\ pc[p] = "binding"
  /\ IF LookupFits(p)
     THEN /\ GoTo(p, IF binding = "none" THEN "record" ELSE "scrub")
          /\ UNCHANGED <<fileVars, seen, step, lookup>>
     ELSE Refuse(p)
  /\ UNCHANGED <<deployed, faults>>

\* ... whose INSERT fails if another process was first.
RecordBinding(p) ==
  /\ pc[p] = "record"
  /\ IF binding # "none" THEN Refuse(p)
     ELSE /\ binding' = lookup[p] /\ GoTo(p, "scrub")
          /\ UNCHANGED <<version, inbox, outbox, scrub, plaintext, seen, step, lookup>>
  /\ UNCHANGED <<deployed, faults>>

CheckScrub(p) ==
  /\ pc[p] = "scrub"
  /\ GoTo(p, IF scrub = "complete" THEN "assert" ELSE "truncate")
  /\ UNCHANGED <<fileVars, deployed, seen, step, lookup, faults>>

Truncated == IF plaintext = "superseded" THEN "gone" ELSE plaintext

\* _checkpoint_truncate, before VACUUM and after it; another process may keep
\* the WAL busy.
Truncate(p) ==
  /\ pc[p] \in {"truncate", "truncateAgain"}
  /\ \/ /\ plaintext' = Truncated
        /\ GoTo(p, IF pc[p] = "truncate" THEN "vacuum" ELSE "mark")
        /\ UNCHANGED <<version, inbox, outbox, binding, scrub, seen, step, lookup, faults>>
     \/ /\ Running # {p} /\ Fault /\ Refuse(p)
  /\ UNCHANGED deployed

Vacuum(p) ==
  /\ pc[p] = "vacuum"
  /\ plaintext' = IF plaintext = "present" THEN "superseded" ELSE plaintext
  /\ GoTo(p, "truncateAgain")
  /\ UNCHANGED <<version, inbox, outbox, binding, scrub, deployed, seen, step, lookup, faults>>

MarkScrubbed(p) ==
  /\ pc[p] = "mark"
  /\ scrub' = "complete" /\ GoTo(p, "assert")
  /\ UNCHANGED <<version, inbox, outbox, binding, plaintext, deployed, seen, step, lookup, faults>>

\* assert_keyring_complete
AssertKeyring(p) ==
  /\ pc[p] = "assert"
  /\ IF Complete(p) THEN GoTo(p, "serving") /\ UNCHANGED <<fileVars, seen, step, lookup>>
                    ELSE Refuse(p)
  /\ UNCHANGED <<deployed, faults>>

Open(p) ==
  \/ CheckKeyring(p) \/ MigrateSchema(p) \/ EncryptInbox(p) \/ RebindInbox(p) \/ Rekey(p)
  \/ VerifyBinding(p) \/ RecordBinding(p) \/ CheckScrub(p) \/ Truncate(p) \/ Vacuum(p)
  \/ MarkScrubbed(p) \/ AssertKeyring(p)

-----------------------------------------------------------------------------
(* What the others do meanwhile. *)

\* An event that its digest does not find is new.
Receive(p) ==
  /\ pc[p] = "serving"
  /\ \E e \in Event :
       /\ \A r \in inbox : <<r.event, r.digest>> # <<e, lookup[p]>>
       /\ inbox' = inbox \cup {[event |-> e, digest |-> lookup[p], key |-> Active(p)]}
  /\ UNCHANGED <<version, outbox, binding, scrub, plaintext, deployed, procVars, faults>>

Accept(p) ==
  /\ pc[p] = "serving"
  /\ outbox' = outbox \cup {Active(p)}
  /\ UNCHANGED <<version, inbox, binding, scrub, plaintext, deployed, procVars, faults>>

\* A result is delivered, or a closed event pruned.
Clear(p) ==
  /\ pc[p] = "serving"
  /\ \/ outbox # {} /\ outbox' \in {outbox \ {k} : k \in outbox} /\ UNCHANGED inbox
     \/ inbox # {} /\ inbox' \in {inbox \ {r} : r \in inbox} /\ UNCHANGED outbox
  /\ UNCHANGED <<version, binding, scrub, plaintext, deployed, procVars, faults>>

Stop(p) ==
  /\ pc[p] # "down" /\ Fault
  /\ GoTo(p, "down")
  /\ UNCHANGED <<fileVars, deployed, seen, step, lookup>>

Shutdown(p) ==
  /\ pc[p] = "serving" /\ step[p] < deployed
  /\ GoTo(p, "down")
  /\ UNCHANGED <<fileVars, deployed, seen, step, lookup, faults>>

\* The next step, once the one before is seen to run everywhere.
Rotate ==
  /\ deployed < 4 /\ Serving # {}
  /\ \A p \in Running : step[p] = deployed
  /\ deployed' = deployed + 1
  /\ UNCHANGED <<fileVars, procVars, faults>>

\* A row still needs the key that was removed: it is put back.
Restore ==
  /\ deployed = 4 /\ ~(KeysInUse \subseteq Rotation[4].keys)
  /\ deployed' = 3
  /\ UNCHANGED <<fileVars, procVars, faults>>

-----------------------------------------------------------------------------
\* A new file, one of version 3 with plaintext rows, or one an older revision
\* left at version 5, whose digests depended on the key of the time.
Init ==
  /\ \/ version = 0 /\ inbox = {} /\ outbox = {} /\ plaintext = "gone"
     \/ /\ version = 3 /\ outbox \in SUBSET {"old"} /\ plaintext = "present"
        /\ inbox \in {{[event |-> e, digest |-> "none", key |-> "none"] : e \in E} : E \in SUBSET Event}
     \/ /\ version = 5 /\ outbox \in SUBSET {"old"} /\ plaintext = "present"
        /\ inbox \in SUBSET [event : Event, digest : {"earlier", "earliest"}, key : {"old"}]
  /\ binding = "none" /\ scrub = "none"
  /\ deployed = 1
  /\ pc = [p \in Process |-> "down"] /\ seen = [p \in Process |-> 0]
  /\ step = [p \in Process |-> 1] /\ lookup = [p \in Process |-> "L"]
  /\ faults = 0

Next ==
  \/ \E p \in Process :
       Start(p) \/ Open(p) \/ Receive(p) \/ Accept(p) \/ Clear(p) \/ Stop(p) \/ Shutdown(p)
  \/ Rotate \/ Restore

Spec == Init /\ [][Next]_vars

\* Whoever is down is started again, a start goes on, and the operator puts a
\* missing key back.
Fairness ==
  /\ \A p \in Process : WF_vars(Start(p)) /\ WF_vars(Open(p))
  /\ WF_vars(Restore)

FairSpec == Spec /\ Fairness

-----------------------------------------------------------------------------
TypeOK ==
  /\ version \in 0..6 /\ deployed \in 1..4 /\ faults \in 0..MaxFaults
  /\ outbox \subseteq {"old", "new"} /\ binding \in {"none", "L", "wrong"}
  /\ scrub \in {"none", "pending", "complete"}
  /\ plaintext \in {"present", "superseded", "gone"}
  /\ step \in [Process -> 1..4] /\ seen \in [Process -> 0..6]

\* Every process that serves can decrypt every row, whatever the others have
\* written since it checked (assert_keyring_complete).
Readable == \A p \in Serving : Complete(p)

\* Every process that serves finds every event of the inbox under the digest it
\* computes for it: a replay after a migration or rotation meets its row.
Found == \A p \in Serving, r \in inbox : r.digest = lookup[p]

\* Nobody serves before the plaintext of version 3 has left the file.
Scrubbed == Serving # {} => plaintext = "gone"

\* What holds of every process that serves, whoever else is opening the store (_initialize).
StoreSound == TypeOK /\ Readable /\ Found /\ Scrubbed

\* Opening a store neither drops nor merges a row, wherever it stops.
NothingForgotten ==
  [][\A p \in Process :
       (pc[p] # "serving" /\ pc[p] # "down" /\ (pc'[p] # pc[p] \/ seen'[p] # seen[p])) =>
         /\ Cardinality(inbox') = Cardinality(inbox)
         /\ {r.event : r \in inbox'} = {r.event : r \in inbox}
         /\ (outbox' = {}) = (outbox = {})]_vars

\* A store without two rows of one event opens in the end, whatever stopped
\* the processes that opened it before, and in whatever step.
Upgrades ==
  (\A r, s \in inbox : r.event = s.event => r = s) ~> Serving # {}

=============================================================================
