-------------------------- MODULE TranscriptionProofs --------------------------
(* Four parts of the transcription that share no state, machine-checked one    *)
(* by one for every value of the constants: the audio of the sessions of       *)
(* live-stt, for any number of sessions, windows, finishes and faults; the     *)
(* final transcription, for any jobs, texts and faults; the consumer of audio  *)
(* chunks, for any partitions, messages, consumers, failures and deaths; and   *)
(* the texts of a stream, for any words and decodes.                           *)
EXTENDS SessionAudio, LiveText, FiniteSetTheorems, SequenceTheorems, WellFoundedInduction, TLAPS

-----------------------------------------------------------------------------
(* SessionAudio.  The invariant adds to AudioSound that only the thread in the *)
(* semaphore is past it.                                                       *)

InBatch == {"check", "spawn", "poll", "publish"}

\* The thread inside the semaphore is the only one past it.
Inside == \A f \in Finishes : pc[f] \in InBatch => flight = f

Entries == [chunks : Chunks, cancelled : BOOLEAN]

\* What the store holds, within its bound.
StoreOK ==
  /\ DOMAIN session = Keys /\ \A k \in Keys : session[k] # None => session[k] \in Entries
  /\ IsFiniteSet(Open) /\ Cardinality(Open) <= MaxSessions
  /\ heard \in [Keys -> SUBSET Pieces]
  /\ faults \in 0..MaxFaults /\ survivors \in 0..faults

AudioInv == TypeOK /\ StoreOK /\ OneChildInHand /\ Inside /\ DOMAIN audio = Finishes

LEMMA AppendedIsEntry ==
  ASSUME NEW entry \in Entries, NEW w \in Windows, NEW c \in Contents
  PROVE  Appended(entry, w, c) \in Entries
BY DEF Appended, Entries, Chunks, NoChunks

LEMMA StoreStep ==
  ASSUME SessionAssumption, AudioInv, [Next]_vars
  PROVE  StoreOK'
<1>1. StoreOK /\ TypeOK /\ MaxFaults \in Nat /\ MaxSessions \in Nat
  BY DEF AudioInv, SessionAssumption
<1>2. ASSUME NEW k \in Keys, NEW w \in WindowsOf[k], StoreWindow(k, w) PROVE StoreOK'
  <2>1. w \in Windows
    BY DEF SessionAssumption
  <2>2. PICK c \in Contents :
          LET entry == IF k \in Open THEN session[k] ELSE [chunks |-> NoChunks, cancelled |-> FALSE]
          IN  /\ session' = [session EXCEPT ![k] = Appended(entry, w, c)]
              /\ heard' = [heard EXCEPT ![k] = @ \cup {p \in {<<w, c>>} : Size[p] > 0}]
              /\ IF c = "altered" THEN Fault ELSE NoFault
    BY <1>2 DEF StoreWindow
  <2> DEFINE entry == IF k \in Open THEN session[k] ELSE [chunks |-> NoChunks, cancelled |-> FALSE]
  <2>3. entry \in Entries
    BY <1>1 DEF StoreOK, Open, Entries, Chunks, NoChunks
  <2>4. Appended(entry, w, c) \in Entries
    BY <2>1, <2>3, AppendedIsEntry
  <2>5. DOMAIN session' = Keys /\ \A j \in Keys : session'[j] # None => session'[j] \in Entries
    BY <1>1, <2>2, <2>4 DEF StoreOK
  <2>6. Open' \subseteq Open \cup {k}
    BY <1>1, <2>2 DEF Open, StoreOK
  <2>7. IsFiniteSet(Open') /\ Cardinality(Open') <= MaxSessions
    <3>1. /\ IsFiniteSet(Open \cup {k}) /\ IsFiniteSet(Open)
          /\ Cardinality(Open \cup {k}) = IF k \in Open THEN Cardinality(Open) ELSE Cardinality(Open) + 1
      BY <1>1, FS_AddElement DEF StoreOK
    <3>2. Cardinality(Open) \in Nat /\ Cardinality(Open \cup {k}) <= MaxSessions
      BY <1>1, <1>2, <3>1, FS_CardinalityType DEF StoreWindow, StoreOK
    <3>3. IsFiniteSet(Open') /\ Cardinality(Open') <= Cardinality(Open \cup {k})
      BY <2>6, <3>1, FS_Subset
    <3> QED BY <1>1, <3>1, <3>2, <3>3, FS_CardinalityType
  <2>8. heard' \in [Keys -> SUBSET Pieces] /\ faults' \in 0..MaxFaults /\ survivors' \in 0..faults'
    <3>1. {p \in {<<w, c>>} : Size[p] > 0} \subseteq Pieces
      BY <2>1 DEF Pieces
    <3>2. heard' \in [Keys -> SUBSET Pieces]
      BY <1>1, <2>2, <3>1 DEF StoreOK
    <3>3. survivors' = survivors /\ (faults' = faults \/ (faults < MaxFaults /\ faults' = faults + 1))
      BY <1>2, <2>2 DEF StoreWindow, threadVars, Fault, NoFault
    <3> QED BY <1>1, <3>2, <3>3 DEF StoreOK
  <2> QED BY <2>5, <2>7, <2>8 DEF StoreOK
<1>3. CASE Sweep
  <2>1. PICK stale \in SUBSET Open \ {{}} :
          /\ session' = [k \in Keys |-> IF k \in stale THEN None ELSE session[k]]
          /\ heard' = [k \in Keys |-> IF k \in stale THEN {} ELSE heard[k]]
    BY <1>3 DEF Sweep
  <2>2. Open' \subseteq Open
    BY <1>1, <2>1 DEF Open, StoreOK
  <2>3. IsFiniteSet(Open') /\ Cardinality(Open') <= MaxSessions
    BY <1>1, <2>2, FS_Subset, FS_CardinalityType DEF StoreOK
  <2>4. faults' \in 0..MaxFaults /\ survivors' \in 0..faults'
    BY <1>1, <1>3 DEF Sweep, Fault, StoreOK, threadVars
  <2> QED BY <1>1, <2>1, <2>3, <2>4 DEF StoreOK
<1>4. ASSUME NEW f \in Finishes, Enter(f) PROVE StoreOK'
  <2>1. /\ session' = [session EXCEPT ![key[f]] = None] /\ heard' = [heard EXCEPT ![key[f]] = {}]
        /\ faults' = faults /\ survivors' = survivors
    BY <1>4 DEF Enter
  <2>2. Open' \subseteq Open
    BY <1>1, <2>1 DEF Open, StoreOK
  <2>3. IsFiniteSet(Open') /\ Cardinality(Open') <= MaxSessions
    BY <1>1, <2>2, FS_Subset, FS_CardinalityType DEF StoreOK
  <2> QED BY <1>1, <2>1, <2>3 DEF StoreOK
<1>5. CASE UNCHANGED <<session, heard>> /\ faults' \in 0..MaxFaults /\ survivors' \in 0..faults'
  BY <1>1, <1>5 DEF StoreOK, Open
<1>6. ASSUME NEW f \in Finishes, Finish(f) \/ Check(f) \/ Spawn(f) \/ Publish(f) \/ ChildEnds(f)
      PROVE  UNCHANGED <<session, heard>> /\ faults' \in 0..MaxFaults /\ survivors' \in 0..faults'
  BY <1>1, <1>6
     DEF Finish, Check, Spawn, Publish, ChildEnds, Fault, NoFault, StoreOK
<1>7. ASSUME NEW f \in Finishes, Receive(f) \/ HardTimeout(f)
      PROVE  UNCHANGED <<session, heard>> /\ faults' \in 0..MaxFaults /\ survivors' \in 0..faults'
  <2>1. LetGo(f) /\ UNCHANGED <<session, heard>>
    BY <1>7 DEF Receive, HardTimeout
  <2> QED BY <1>1, <2>1 DEF LetGo, Fault, NoFault, StoreOK
<1>8. SurvivorEnds \/ UNCHANGED vars =>
        UNCHANGED <<session, heard>> /\ faults' \in 0..MaxFaults /\ survivors' \in 0..faults'
  BY <1>1 DEF SurvivorEnds, vars, threadVars, StoreOK
<1> QED BY <1>2, <1>3, <1>4, <1>5, <1>6, <1>7, <1>8 DEF Next, Batch

\* The threads, and the semaphore they share.
ThreadsOK ==
  /\ pc \in [Finishes -> {"new", "accepted", "check", "spawn", "poll", "publish", "cancelled", "failed", "published"}]
  /\ key \in [Finishes -> Keys \cup {None}]
  /\ DOMAIN audio = Finishes /\ \A f \in Finishes : audio[f] # None => audio[f].chunks \in Chunks
  /\ attempt \in [Finishes -> 0..Retries]
  /\ child \in [Finishes -> {"none", "running", "done", "deferred", "failed", "eof"}]
  /\ flight \in Finishes \cup {None}
  /\ OneChildInHand /\ Inside

LEMMA ThreadsStep ==
  ASSUME SessionAssumption, AudioInv, [Next]_vars
  PROVE  ThreadsOK'
<1>1. ThreadsOK /\ StoreOK /\ None \notin Finishes /\ Retries \in Nat
  BY DEF AudioInv, TypeOK, ThreadsOK, SessionAssumption
<1>2. ASSUME NEW f \in Finishes, Enter(f) PROVE ThreadsOK'
  <2>1. HandedOut(key[f]) # None => HandedOut(key[f]).chunks \in Chunks
    BY <1>1 DEF HandedOut, StoreOK, Open, Entries
  <2> QED BY <1>1, <1>2, <2>1 DEF Enter, GoTo, ThreadsOK, OneChildInHand, Inside, InBatch
<1>3. ASSUME NEW f \in Finishes, Finish(f) PROVE ThreadsOK'
  BY <1>1, <1>3 DEF Finish, GoTo, ThreadsOK, OneChildInHand, Inside, InBatch
<1>4. ASSUME NEW f \in Finishes, Check(f) PROVE ThreadsOK'
  BY <1>1, <1>4 DEF Check, Leave, Freed, GoTo, ThreadsOK, OneChildInHand, Inside, InBatch
<1>5. ASSUME NEW f \in Finishes, Spawn(f) PROVE ThreadsOK'
  BY <1>1, <1>5 DEF Spawn, Leave, Freed, GoTo, ThreadsOK, OneChildInHand, Inside, InBatch
<1>6. ASSUME NEW f \in Finishes, Receive(f) PROVE ThreadsOK'
  BY <1>1, <1>6 DEF Receive, LetGo, Released, Leave, Freed, GoTo, ThreadsOK, OneChildInHand, Inside, InBatch
<1>7. ASSUME NEW f \in Finishes, HardTimeout(f) PROVE ThreadsOK'
  BY <1>1, <1>7
     DEF HardTimeout, LetGo, Released, Leave, Freed, GoTo, ThreadsOK, OneChildInHand, Inside, InBatch
<1>8. ASSUME NEW f \in Finishes, Publish(f) PROVE ThreadsOK'
  BY <1>1, <1>8 DEF Publish, Leave, Freed, GoTo, ThreadsOK, OneChildInHand, Inside, InBatch
<1>9. ASSUME NEW f \in Finishes, ChildEnds(f) PROVE ThreadsOK'
  BY <1>1, <1>9 DEF ChildEnds, ThreadsOK, OneChildInHand, Inside, InBatch
<1>10. CASE UNCHANGED <<pc, key, audio, attempt, child, flight>>
  BY <1>1, <1>10 DEF ThreadsOK, OneChildInHand, Inside
<1> QED BY <1>2, <1>3, <1>4, <1>5, <1>6, <1>7, <1>8, <1>9, <1>10
    DEF Next, Batch, StoreWindow, Sweep, SurvivorEnds, vars, threadVars

LEMMA AudioInit == ASSUME SessionAssumption PROVE Init => AudioInv
<1> SUFFICES ASSUME Init PROVE AudioInv
  OBVIOUS
<1>1. Open = {} /\ IsFiniteSet(Open) /\ Cardinality(Open) = 0
  <2>1. Open = {}
    BY DEF Init, Open
  <2> QED BY <2>1, FS_EmptySet
<1> QED BY <1>1
    DEF Init, AudioInv, TypeOK, StoreOK, OneChildInHand, Inside, InBatch, SessionAssumption

LEMMA AudioNext == ASSUME SessionAssumption PROVE AudioInv /\ [Next]_vars => AudioInv'
<1> SUFFICES ASSUME AudioInv, [Next]_vars PROVE AudioInv'
  OBVIOUS
<1>1. StoreOK' /\ ThreadsOK'
  BY StoreStep, ThreadsStep
<1>2. faults' \in 0..MaxFaults /\ survivors' \in 0..MaxFaults
  BY <1>1 DEF StoreOK, SessionAssumption
<1>3. \A k \in Keys : session[k]' # None =>
        session[k]'.chunks \in Chunks /\ session[k]'.cancelled \in BOOLEAN
  BY <1>1 DEF StoreOK, Entries
<1>4. TypeOK'
  BY <1>1, <1>2, <1>3 DEF TypeOK, StoreOK, ThreadsOK
<1> QED BY <1>1, <1>4 DEF AudioInv, StoreOK, ThreadsOK

\* For any number of sessions, windows, finishes and faults: the threads of finished
\* sessions share one GPU, each child belongs to the thread in the semaphore unless
\* it outlived its kill, and the store stays within its bound (_run,
\* run_session_diarization, append).
THEOREM AudioIsSound == ASSUME SessionAssumption PROVE Spec => []AudioSound
<1>1. AudioInv => AudioSound
  BY DEF AudioInv, AudioSound
<1> QED BY <1>1, AudioInit, AudioNext, PTL DEF Spec

-----------------------------------------------------------------------------
(* Samples adds the sizes up by the fold of the community modules, whose       *)
(* choice of the next element is arbitrary.  What follows shows, each time by a *)
(* smallest counterexample, that the fold is defined, that the order does not  *)
(* matter, and that more windows have more audio.                              *)

Below == {p \in Nat \X Nat : p[1] < p[2]}

LEMMA Least ==
  ASSUME NEW T \in SUBSET Nat, T # {}
  PROVE  \E n \in T : \A m \in T : n <= m
<1>1. IsWellFoundedOn(Below, Nat)
  <2>1. Below = OpToRel(<, Nat)
    BY DEF Below, OpToRel
  <2> QED BY <2>1, NatLessThanWellFounded
<1>2. PICK n \in T : \A m \in T : ~(<<m, n>> \in Below)
  BY <1>1, WFMin
<1>3. ASSUME NEW m \in T PROVE n <= m
  <2>1. m \in Nat /\ n \in Nat
    OBVIOUS
  <2>2. m < n => <<m, n>> \in Below
    BY <2>1 DEF Below
  <2> QED BY <1>2, <2>1, <2>2
<1> QED BY <1>3

\* The greatest of some numbers up to a bound.
LEMMA Greatest ==
  ASSUME NEW n \in Nat, NEW T \in SUBSET (0..n), T # {}
  PROVE  \E x \in T : \A y \in T : x >= y
<1> DEFINE U == {n - x : x \in T}
<1>1. U \in SUBSET Nat /\ U # {}
  <2>1. PICK x \in T : TRUE
    OBVIOUS
  <2>2. n - x \in U
    BY <2>1
  <2> QED BY <2>2
<1>3. PICK u \in U : \A v \in U : u <= v
  BY <1>1, Least
<1>4. PICK x \in T : u = n - x
  OBVIOUS
<1>5. ASSUME NEW y \in T PROVE x >= y
  <2>1. n - y \in U /\ n - y \in Nat /\ u \in Nat
    OBVIOUS
  <2>2. u <= n - y
    BY <1>3, <2>1
  <2> QED BY <1>4, <2>1, <2>2
<1> QED BY <1>5

\* Of some finite sets, one of the smallest.
LEMMA Smallest ==
  ASSUME NEW C, C # {}, \A s \in C : IsFiniteSet(s)
  PROVE  \E s \in C : \A t \in C : Cardinality(s) <= Cardinality(t)
<1> DEFINE T == {Cardinality(s) : s \in C}
<1>1. T \in SUBSET Nat /\ T # {}
  BY FS_CardinalityType
<1>2. PICK n \in T : \A m \in T : n <= m
  BY <1>1, Least
<1>3. PICK s \in C : n = Cardinality(s)
  OBVIOUS
<1>4. \A t \in C : Cardinality(t) \in T
  OBVIOUS
<1> QED BY <1>2, <1>3, <1>4

One(s) == CHOOSE x \in s : TRUE

Folds(f, S) == f = [s \in SUBSET S |-> IF s = {} THEN 0 ELSE Size[One(s)] + f[s \ {One(s)}]]

Fold(S) == CHOOSE f : Folds(f, S)

LEMMA SamplesFold == \A S : Samples(S) = Fold(S)[S]
BY DEF Samples, MapThenSumSet, MapThenFoldSet, Fold, Folds, One

\* A set without the element that is chosen first.
LEMMA Without ==
  ASSUME NEW s, IsFiniteSet(s), NEW x \in s
  PROVE  /\ IsFiniteSet(s \ {x}) /\ Cardinality(s \ {x}) = Cardinality(s) - 1
         /\ Cardinality(s) \in Nat /\ Cardinality(s \ {x}) \in Nat
BY FS_RemoveElement, FS_CardinalityType

LEMMA OneIn == \A s : s # {} => One(s) \in s
BY DEF One

LEMMA FoldExists ==
  ASSUME NEW S, IsFiniteSet(S)
  PROVE  Folds(Fold(S), S)
<1> DEFINE D(n) == {t \in SUBSET S : Cardinality(t) <= n}
           Part(f, n) == f = [s \in D(n) |-> IF s = {} THEN 0 ELSE Size[One(s)] + f[s \ {One(s)}]]
           Bad == {n \in Nat : ~\E f : Part(f, n)}
<1>0. \A t \in SUBSET S : IsFiniteSet(t) /\ Cardinality(t) \in Nat /\ Cardinality(t) <= Cardinality(S) /\ Cardinality(S) \in Nat
  BY FS_Subset, FS_CardinalityType
<1>1. ASSUME NEW n \in Nat, ~\E f : Part(f, n), \A m \in Nat : m < n => \E f : Part(f, m)
      PROVE  FALSE
  <2>1. CASE n = 0
    <3>1. \A s \in D(0) : s = {}
      BY <1>0, FS_EmptySet
    <3>2. Part([s \in D(0) |-> 0], 0)
      BY <3>1
    <3> QED BY <1>1, <2>1, <3>2
  <2>2. CASE n # 0
    <3>1. n - 1 \in Nat /\ n - 1 < n
      BY <2>2
    <3>2. PICK g : Part(g, n - 1)
      BY <1>1, <3>1
    <3> DEFINE f == [s \in D(n) |-> IF s = {} THEN 0 ELSE Size[One(s)] + g[s \ {One(s)}]]
    <3>3. ASSUME NEW s \in D(n), s # {} PROVE f[s \ {One(s)}] = g[s \ {One(s)}]
      <4> DEFINE t == s \ {One(s)}
      <4>1. t \in D(n - 1) /\ t \in D(n)
        <5>1. One(s) \in s /\ IsFiniteSet(s)
          BY <1>0, <3>3, OneIn
        <5>2. Cardinality(t) = Cardinality(s) - 1 /\ Cardinality(s) \in Nat /\ Cardinality(t) \in Nat
          BY <5>1, Without
        <5> QED BY <3>1, <5>2
      <4> HIDE DEF t
      <4>2. g[t] = IF t = {} THEN 0 ELSE Size[One(t)] + g[t \ {One(t)}]
        BY <3>2, <4>1
      <4>3. f[t] = IF t = {} THEN 0 ELSE Size[One(t)] + g[t \ {One(t)}]
        BY <4>1
      <4>4. f[t] = g[t]
        BY <4>2, <4>3
      <4> QED BY <4>4 DEF t
    <3>4. f = [s \in D(n) |-> IF s = {} THEN 0 ELSE Size[One(s)] + f[s \ {One(s)}]]
      <4> HIDE DEF D
      <4>1. f = [s \in D(n) |-> IF s = {} THEN 0 ELSE Size[One(s)] + g[s \ {One(s)}]]
        OBVIOUS
      <4> HIDE DEF f
      <4>2. \A s \in D(n) : s # {} => f[s \ {One(s)}] = g[s \ {One(s)}]
        BY <3>3
      <4> QED BY <4>1, <4>2
    <3> QED BY <1>1, <3>4
  <2> QED BY <2>1, <2>2
<1>2. Bad = {}
  <2> SUFFICES ASSUME Bad # {} PROVE FALSE
    OBVIOUS
  <2>1. PICK n \in Bad : \A m \in Bad : n <= m
    BY Least
  <2> HIDE DEF Part
  <2>2. ASSUME NEW m \in Nat, m < n PROVE \E f : Part(f, m)
    <3>1. n \in Nat /\ ~(n <= m)
      BY <2>2
    <3>2. m \notin Bad
      BY <2>1, <3>1
    <3> QED BY <3>2
  <2>3. n \in Nat /\ ~\E f : Part(f, n)
    OBVIOUS
  <2> HIDE DEF Bad
  <2> QED BY <1>1, <2>2, <2>3
<1>3. Cardinality(S) \in Nat
  BY FS_CardinalityType
<1>4. PICK f : Part(f, Cardinality(S))
  BY <1>2, <1>3
<1>5. D(Cardinality(S)) = SUBSET S
  BY <1>0
<1>6. Folds(f, S)
  BY <1>4, <1>5 DEF Folds
<1> QED BY <1>6 DEF Fold

\* So the sum of a set is what is chosen first and the sum of the rest.
LEMMA SamplesOf ==
  ASSUME NEW S, IsFiniteSet(S)
  PROVE  Samples(S) = IF S = {} THEN 0 ELSE Size[One(S)] + Samples(S \ {One(S)})
<1>1. ASSUME NEW T \in SUBSET S PROVE Fold(S)[T] = Fold(T)[T]
  <2> DEFINE Bad == {s \in SUBSET T : Fold(S)[s] # Fold(T)[s]}
  <2>0. IsFiniteSet(T)
    BY FS_Subset
  <2>1. Folds(Fold(S), S) /\ Folds(Fold(T), T)
    BY <2>0, FoldExists
  <2>2. Bad = {}
    <3> SUFFICES ASSUME Bad # {} PROVE FALSE
      OBVIOUS
    <3>1. \A s \in Bad : IsFiniteSet(s)
      BY <2>0, FS_Subset
    <3>2. PICK s \in Bad : \A t \in Bad : Cardinality(s) <= Cardinality(t)
      <4> HIDE DEF Bad
      <4> QED BY <3>1, Smallest
    <3>3. s \in SUBSET T /\ s \in SUBSET S /\ IsFiniteSet(s)
      BY <3>1
    <3>4. /\ Fold(S)[s] = IF s = {} THEN 0 ELSE Size[One(s)] + Fold(S)[s \ {One(s)}]
          /\ Fold(T)[s] = IF s = {} THEN 0 ELSE Size[One(s)] + Fold(T)[s \ {One(s)}]
      BY <2>1, <3>3 DEF Folds
    <3>5. s # {} /\ One(s) \in s
      BY <3>4, OneIn
    <3>6. Cardinality(s \ {One(s)}) < Cardinality(s)
      <4>1. Cardinality(s \ {One(s)}) = Cardinality(s) - 1 /\ Cardinality(s) \in Nat
        BY <3>3, <3>5, Without
      <4> QED BY <4>1
    <3>7. s \ {One(s)} \notin Bad
      <4>1. Cardinality(s) \in Nat /\ Cardinality(s \ {One(s)}) \in Nat
        BY <3>3, <3>5, Without
      <4> QED BY <3>2, <3>6, <4>1
    <3>8. Fold(S)[s \ {One(s)}] = Fold(T)[s \ {One(s)}]
      BY <3>3, <3>7
    <3> QED BY <3>4, <3>5, <3>8
  <2> QED BY <2>2
<1>2. Folds(Fold(S), S)
  BY FoldExists
<1>3. Fold(S)[S] = IF S = {} THEN 0 ELSE Size[One(S)] + Fold(S)[S \ {One(S)}]
  BY <1>2 DEF Folds
<1>4. Fold(S)[S \ {One(S)}] = Fold(S \ {One(S)})[S \ {One(S)}]
  BY <1>1
<1> QED BY <1>3, <1>4, SamplesFold

-----------------------------------------------------------------------------
LEMMA SamplesType ==
  ASSUME SessionAssumption, NEW S \in SUBSET Pieces
  PROVE  Samples(S) \in Nat /\ IsFiniteSet(S)
<1> DEFINE Bad == {s \in SUBSET Pieces : Samples(s) \notin Nat}
<1>1. \A s \in SUBSET Pieces : IsFiniteSet(s)
  <2>1. IsFiniteSet(Contents)
    <3>1. IsFiniteSet({"sent"})
      BY FS_Singleton
    <3>2. IsFiniteSet({"sent"} \cup {"altered"})
      BY <3>1, FS_AddElement
    <3> QED BY <3>2 DEF Contents
  <2>2. IsFiniteSet(Pieces)
    BY <2>1, FS_Product DEF SessionAssumption, Pieces
  <2> QED BY <2>2, FS_Subset
<1>2. Bad = {}
  <2> SUFFICES ASSUME Bad # {} PROVE FALSE
    OBVIOUS
  <2>1. PICK s \in Bad : \A t \in Bad : Cardinality(s) <= Cardinality(t)
    <3>1. \A t \in Bad : IsFiniteSet(t)
      BY <1>1
    <3> HIDE DEF Bad
    <3> QED BY <3>1, Smallest
  <2>2. s \in SUBSET Pieces /\ Samples(s) \notin Nat /\ IsFiniteSet(s)
    BY <1>1
  <2>3. Samples(s) = IF s = {} THEN 0 ELSE Size[One(s)] + Samples(s \ {One(s)})
    BY <2>2, SamplesOf
  <2>4. s # {} /\ One(s) \in s
    BY <2>2, <2>3, OneIn
  <2>5. Cardinality(s \ {One(s)}) < Cardinality(s) /\ Cardinality(s) \in Nat /\ Cardinality(s \ {One(s)}) \in Nat
    <3>1. Cardinality(s \ {One(s)}) = Cardinality(s) - 1 /\ Cardinality(s) \in Nat /\ Cardinality(s \ {One(s)}) \in Nat
      BY <2>2, <2>4, Without
    <3> QED BY <3>1
  <2>6. s \ {One(s)} \notin Bad
    BY <2>1, <2>5
  <2>7. Samples(s \ {One(s)}) \in Nat
    BY <2>2, <2>6
  <2>8. Size[One(s)] \in Nat
    BY <2>2, <2>4 DEF SessionAssumption
  <2> QED BY <2>2, <2>3, <2>4, <2>7, <2>8
<1> QED BY <1>1, <1>2

\* The order in which the windows are added up does not matter.
LEMMA SamplesAdd ==
  ASSUME SessionAssumption, NEW S \in SUBSET Pieces, NEW w \in S
  PROVE  Samples(S) = Size[w] + Samples(S \ {w})
<1> DEFINE Bad == {s \in SUBSET Pieces : \E v \in s : Samples(s) # Size[v] + Samples(s \ {v})}
<1>1. Bad = {}
  <2> SUFFICES ASSUME Bad # {} PROVE FALSE
    OBVIOUS
  <2>1. PICK s \in Bad : \A t \in Bad : Cardinality(s) <= Cardinality(t)
    <3>1. \A t \in Bad : IsFiniteSet(t)
      BY SamplesType
    <3> HIDE DEF Bad
    <3> QED BY <3>1, Smallest
  <2>2. s \in SUBSET Pieces /\ IsFiniteSet(s)
    BY SamplesType
  <2>3. PICK x \in s : Samples(s) # Size[x] + Samples(s \ {x})
    OBVIOUS
  <2> DEFINE y == One(s)
             sx == s \ {x}
             sy == s \ {y}
  <2>4. y \in s /\ Samples(s) = Size[y] + Samples(sy)
    BY <2>2, <2>3, SamplesOf, OneIn
  <2>5. x # y
    BY <2>3, <2>4
  <2>6. ASSUME NEW v \in s PROVE \A u \in s \ {v} : Samples(s \ {v}) = Size[u] + Samples((s \ {v}) \ {u})
    <3>1. Cardinality(s \ {v}) = Cardinality(s) - 1 /\ Cardinality(s) \in Nat /\ Cardinality(s \ {v}) \in Nat
      BY <2>2, Without
    <3>2. s \ {v} \notin Bad
      <4> HIDE DEF Bad
      <4> QED BY <2>1, <3>1
    <3> QED BY <2>2, <3>2
  <2>7. Samples(sy) = Size[x] + Samples(sy \ {x}) /\ Samples(sx) = Size[y] + Samples(sx \ {y})
    BY <2>4, <2>5, <2>6
  <2>8. sy \ {x} = sx \ {y}
    OBVIOUS
  <2>9. Size[x] \in Nat /\ Size[y] \in Nat /\ Samples(sx \ {y}) \in Nat
    BY <2>2, <2>4, SamplesType DEF SessionAssumption
  <2> DEFINE rest == Samples(sx \ {y})
             p == Size[x]
             q == Size[y]
  <2>10. Samples(s) = q + (p + rest) /\ Samples(sx) = q + rest /\ p \in Nat /\ q \in Nat /\ rest \in Nat
    BY <2>4, <2>7, <2>8, <2>9
  <2>11. Samples(s) = Size[x] + Samples(sx)
    <3> HIDE DEF rest, q, sx
    <3>1. Samples(s) = p + Samples(sx)
      <4> HIDE DEF p
      <4> QED BY <2>10
    <3> QED BY <3>1
  <2> QED BY <2>3, <2>11
<1> QED BY <1>1

\* More windows have no less audio.
LEMMA SamplesGrow ==
  ASSUME SessionAssumption, NEW S \in SUBSET Pieces, NEW T \in SUBSET S
  PROVE  Samples(T) <= Samples(S)
<1> DEFINE Bad == {s \in SUBSET Pieces : T \subseteq s /\ ~(Samples(T) <= Samples(s))}
<1>1. Bad = {}
  <2> SUFFICES ASSUME Bad # {} PROVE FALSE
    OBVIOUS
  <2>1. PICK s \in Bad : \A t \in Bad : Cardinality(s) <= Cardinality(t)
    <3>1. \A t \in Bad : IsFiniteSet(t)
      BY SamplesType
    <3> HIDE DEF Bad
    <3> QED BY <3>1, Smallest
  <2>2. s \in SUBSET Pieces /\ IsFiniteSet(s) /\ T \subseteq s /\ ~(Samples(T) <= Samples(s))
    BY SamplesType
  <2>3. T # s
    BY <2>2, SamplesType
  <2>4. PICK x \in s : x \notin T
    BY <2>2, <2>3
  <2>5. Cardinality(s \ {x}) = Cardinality(s) - 1 /\ Cardinality(s) \in Nat /\ Cardinality(s \ {x}) \in Nat
    BY <2>2, Without
  <2>6. s \ {x} \notin Bad
    BY <2>1, <2>5
  <2>7. Samples(T) <= Samples(s \ {x})
    BY <2>2, <2>4, <2>6
  <2>8. Samples(s) = Size[x] + Samples(s \ {x}) /\ Size[x] \in Nat
    BY <2>2, SamplesAdd DEF SessionAssumption
  <2>9. Samples(s \ {x}) \in Nat /\ Samples(T) \in Nat /\ Samples(s) \in Nat
    BY <2>2, SamplesType
  <2> QED BY <2>2, <2>7, <2>8, <2>9
<1> QED BY <1>1

\* Without a piece that is not empty there is less.
LEMMA SamplesMiss ==
  ASSUME SessionAssumption, NEW S \in SUBSET Pieces, NEW T \in SUBSET S, Samples(T) = Samples(S),
         \A p \in S : Size[p] > 0
  PROVE  T = S
<1> SUFFICES ASSUME NEW x \in S, x \notin T PROVE FALSE
  OBVIOUS
<1>1. Samples(S) = Size[x] + Samples(S \ {x}) /\ Size[x] \in Nat /\ Size[x] > 0
  BY SamplesAdd DEF SessionAssumption
<1>2. Samples(T) <= Samples(S \ {x})
  BY SamplesGrow
<1>3. Samples(S \ {x}) \in Nat /\ Samples(T) \in Nat /\ Samples(S) \in Nat
  BY SamplesType
<1> QED BY <1>1, <1>2, <1>3

-----------------------------------------------------------------------------
(* What is published.  A window has one version in the store, or the session is *)
(* cancelled; so the audio a thread was handed is what was delivered, and when  *)
(* it has as many samples as the session and nothing in it was altered, it has  *)
(* all of its windows.                                                          *)

\* Audio of some windows, none of it empty.
Filled(chunks, windows) ==
  Held(chunks) \subseteq windows /\ \A p \in Audio(chunks) : Size[p] > 0

\* An entry that was not cancelled has all that was delivered for it.
EntriesOK ==
  \A k \in Keys :
    LET entry == session[k]
    IN  IF entry = None THEN heard[k] = {}
        ELSE /\ entry.cancelled => entry.chunks = NoChunks
             /\ ~entry.cancelled => heard[k] = Audio(entry.chunks)
             /\ Filled(entry.chunks, WindowsOf[k])

\* So has the audio a thread was handed; past its checks it is whole.
HandedOK ==
  /\ \A f \in Finishes : pc[f] # "new" => key[f] \in Keys
  /\ \A f \in Finishes : audio[f] # None =>
       /\ pc[f] \notin {"new", "accepted"}
       /\ audio[f].heard = Audio(audio[f].chunks) /\ Filled(audio[f].chunks, WindowsOf[key[f]])
  /\ \A f \in Finishes : pc[f] \in {"spawn", "poll", "publish"} => WholeAudio(f)

WholeInv == AudioInv /\ EntriesOK /\ HandedOK /\ PublishedIsWhole

LEMMA AppendedKeeps ==
  ASSUME SessionAssumption, NEW entry \in Entries, NEW w \in Windows, NEW c \in Contents, NEW delivered, NEW W,
         entry.cancelled => entry.chunks = NoChunks,
         ~entry.cancelled => delivered = Audio(entry.chunks),
         Filled(entry.chunks, W), w \in W
  PROVE  LET new == Appended(entry, w, c)
         IN  /\ new.cancelled => new.chunks = NoChunks
             /\ ~new.cancelled => delivered \cup {p \in {<<w, c>>} : Size[p] > 0} = Audio(new.chunks)
             /\ Filled(new.chunks, W)
<1>1. None \notin Contents /\ Held(NoChunks) = {} /\ entry.chunks \in Chunks /\ entry.cancelled \in BOOLEAN
  BY DEF SessionAssumption, Contents, Held, NoChunks, Entries
<1>2. CASE entry.cancelled
  BY <1>1, <1>2 DEF Appended
<1>3. CASE ~entry.cancelled /\ (Size[<<w, c>>] = 0 \/ entry.chunks[w] = c)
  <2>1. Appended(entry, w, c) = entry
    BY <1>3 DEF Appended
  <2>2. {p \in {<<w, c>>} : Size[p] > 0} \subseteq Audio(entry.chunks)
    <3>1. CASE Size[<<w, c>>] = 0
      BY <3>1
    <3>2. CASE entry.chunks[w] = c
      BY <1>1, <3>2 DEF Audio, Held
    <3> QED BY <1>3, <3>1, <3>2
  <2> QED BY <1>3, <2>1, <2>2
<1>4. CASE ~entry.cancelled /\ Appended(entry, w, c) = [chunks |-> NoChunks, cancelled |-> TRUE]
  BY <1>1, <1>4 DEF Filled, Audio
<1>5. CASE /\ ~entry.cancelled /\ entry.chunks[w] = None /\ Size[<<w, c>>] # 0
           /\ Appended(entry, w, c) = [entry EXCEPT !.chunks[w] = c]
  <2> DEFINE new == [entry.chunks EXCEPT ![w] = c]
  <2>1. Appended(entry, w, c).chunks = new /\ ~Appended(entry, w, c).cancelled
    BY <1>5 DEF Entries
  <2>2. new \in Chunks /\ new[w] = c /\ \A v \in Windows \ {w} : new[v] = entry.chunks[v]
    BY <1>1 DEF Chunks
  <2> HIDE DEF new
  <2>3. Held(new) = Held(entry.chunks) \cup {w} /\ w \notin Held(entry.chunks)
    BY <1>1, <1>5, <2>2 DEF Held
  <2>4. Audio(new) = Audio(entry.chunks) \cup {<<w, c>>}
    BY <2>2, <2>3 DEF Audio, Held
  <2>5. Size[<<w, c>>] > 0
    <3>1. Size[<<w, c>>] \in Nat
      BY DEF SessionAssumption, Pieces
    <3> QED BY <1>5, <3>1
  <2>6. {p \in {<<w, c>>} : Size[p] > 0} = {<<w, c>>}
    BY <2>5
  <2>7. Filled(new, W)
    <3>1. Held(new) \subseteq W
      BY <2>3 DEF Filled
    <3>2. \A p \in Audio(new) : Size[p] > 0
      BY <2>4, <2>5 DEF Filled
    <3> QED BY <3>1, <3>2 DEF Filled
  <2> QED BY <1>5, <2>1, <2>4, <2>6, <2>7
<1> QED BY <1>2, <1>3, <1>4, <1>5 DEF Appended

LEMMA EntriesStep ==
  ASSUME SessionAssumption, WholeInv, [Next]_vars
  PROVE  EntriesOK'
<1>1. StoreOK /\ EntriesOK /\ HandedOK
  BY DEF WholeInv, AudioInv
<1>2. ASSUME NEW k \in Keys, NEW w \in WindowsOf[k], StoreWindow(k, w) PROVE EntriesOK'
  <2>1. w \in Windows
    BY DEF SessionAssumption
  <2>2. PICK c \in Contents :
          LET entry == IF k \in Open THEN session[k] ELSE [chunks |-> NoChunks, cancelled |-> FALSE]
          IN  /\ session' = [session EXCEPT ![k] = Appended(entry, w, c)]
              /\ heard' = [heard EXCEPT ![k] = @ \cup {p \in {<<w, c>>} : Size[p] > 0}]
    BY <1>2 DEF StoreWindow
  <2> DEFINE entry == IF k \in Open THEN session[k] ELSE [chunks |-> NoChunks, cancelled |-> FALSE]
             new == Appended(entry, w, c)
  <2>3. entry \in Entries
    BY <1>1 DEF StoreOK, Open, Entries, Chunks, NoChunks
  <2>4. Audio(NoChunks) = {} /\ Filled(NoChunks, WindowsOf[k])
    BY DEF Held, NoChunks, Audio, Filled
  <2>5. /\ entry.cancelled => entry.chunks = NoChunks
        /\ ~entry.cancelled => heard[k] = Audio(entry.chunks)
        /\ Filled(entry.chunks, WindowsOf[k])
    BY <1>1, <2>4 DEF EntriesOK, Open
  <2>6. /\ new.cancelled => new.chunks = NoChunks
        /\ ~new.cancelled => heard[k] \cup {p \in {<<w, c>>} : Size[p] > 0} = Audio(new.chunks)
        /\ Filled(new.chunks, WindowsOf[k])
    <3> HIDE DEF entry
    <3> QED BY <2>1, <2>3, <2>5, AppendedKeeps
  <2>7. new # None
    <3>1. new \in Entries
      BY <2>1, <2>3, AppendedIsEntry
    <3>2. None \notin Entries
      BY DEF SessionAssumption, Entries, Chunks, Contents
    <3> QED BY <3>1, <3>2
  <2>8. session' = [session EXCEPT ![k] = new] /\ heard' = [heard EXCEPT ![k] = @ \cup {p \in {<<w, c>>} : Size[p] > 0}]
    BY <2>2
  <2> HIDE DEF new
  <2> QED BY <1>1, <2>6, <2>7, <2>8 DEF EntriesOK, StoreOK
<1>3. CASE Sweep
  <2>1. PICK stale \in SUBSET Open \ {{}} :
          /\ session' = [k \in Keys |-> IF k \in stale THEN None ELSE session[k]]
          /\ heard' = [k \in Keys |-> IF k \in stale THEN {} ELSE heard[k]]
    BY <1>3 DEF Sweep
  <2> QED BY <1>1, <2>1 DEF EntriesOK
<1>4. ASSUME NEW f \in Finishes, Enter(f) PROVE EntriesOK'
  <2>1. session' = [session EXCEPT ![key[f]] = None] /\ heard' = [heard EXCEPT ![key[f]] = {}]
    BY <1>4 DEF Enter
  <2> QED BY <1>1, <2>1 DEF EntriesOK, StoreOK
<1>5. CASE UNCHANGED <<session, heard>>
  BY <1>1, <1>5 DEF EntriesOK
<1>6. ASSUME NEW f \in Finishes,
             Finish(f) \/ Check(f) \/ Spawn(f) \/ Receive(f) \/ HardTimeout(f) \/ Publish(f) \/ ChildEnds(f)
      PROVE  UNCHANGED <<session, heard>>
  BY <1>6 DEF Finish, Check, Spawn, Receive, HardTimeout, Publish, ChildEnds
<1>7. SurvivorEnds => UNCHANGED <<session, heard>>
  BY DEF SurvivorEnds
<1> QED BY <1>2, <1>3, <1>4, <1>5, <1>6, <1>7 DEF Next, Batch, vars

LEMMA HandedStep ==
  ASSUME SessionAssumption, WholeInv, [Next]_vars
  PROVE  HandedOK'
<1>1. StoreOK /\ EntriesOK /\ HandedOK /\ ThreadsOK
  BY DEF WholeInv, AudioInv, TypeOK, ThreadsOK
<1>2. ASSUME NEW f \in Finishes, Enter(f) PROVE HandedOK'
  <2>1. /\ audio' = [audio EXCEPT ![f] = HandedOut(key[f])] /\ pc' = [pc EXCEPT ![f] = "check"] /\ key' = key
        /\ pc[f] = "accepted" /\ key[f] \in Keys
    BY <1>1, <1>2 DEF Enter, GoTo, HandedOK
  <2>2. HandedOut(key[f]) # None =>
          /\ HandedOut(key[f]).heard = Audio(HandedOut(key[f]).chunks)
          /\ Filled(HandedOut(key[f]).chunks, WindowsOf[key[f]])
    <3> SUFFICES ASSUME HandedOut(key[f]) # None
                 PROVE  /\ HandedOut(key[f]).heard = Audio(HandedOut(key[f]).chunks)
                        /\ Filled(HandedOut(key[f]).chunks, WindowsOf[key[f]])
      OBVIOUS
    <3>1. /\ key[f] \in Open /\ Held(session[key[f]].chunks) # {}
          /\ HandedOut(key[f]) = [chunks |-> session[key[f]].chunks, heard |-> heard[key[f]]]
      BY DEF HandedOut
    <3>2. Held(NoChunks) = {}
      BY DEF Held, NoChunks
    <3>3. ~session[key[f]].cancelled /\ session[key[f]] # None
      BY <1>1, <2>1, <3>1, <3>2 DEF EntriesOK, Open, StoreOK, Entries
    <3> QED BY <1>1, <2>1, <3>1, <3>3 DEF EntriesOK
  <2> DEFINE out == HandedOut(key[f])
  <2>3. /\ audio' = [audio EXCEPT ![f] = out]
        /\ out # None => out.heard = Audio(out.chunks) /\ Filled(out.chunks, WindowsOf[key[f]])
    BY <2>1, <2>2
  <2> HIDE DEF out
  <2>4. \A g \in Finishes : /\ g # f => audio'[g] = audio[g] /\ pc'[g] = pc[g]
                            /\ pc'[f] = "check" /\ audio'[f] = out
    BY <1>1, <2>1, <2>3 DEF ThreadsOK
  <2> QED BY <1>1, <2>1, <2>3, <2>4 DEF HandedOK, WholeAudio, Expected
<1>3. ASSUME NEW f \in Finishes, Finish(f) PROVE HandedOK'
  <2>1. PICK k \in Keys : key' = [key EXCEPT ![f] = k]
    BY <1>3 DEF Finish
  <2>2. pc' = [pc EXCEPT ![f] = "accepted"] /\ pc[f] = "new" /\ audio' = audio
    BY <1>3 DEF Finish, GoTo
  <2>3. audio[f] = None
    BY <1>1, <2>2 DEF HandedOK
  <2>4. \A g \in Finishes : /\ g # f => key'[g] = key[g] /\ pc'[g] = pc[g]
                            /\ pc'[f] = "accepted" /\ key'[f] = k
    BY <1>1, <2>1, <2>2 DEF ThreadsOK
  <2> QED BY <1>1, <2>2, <2>3, <2>4 DEF HandedOK, WholeAudio, Expected
<1>4. ASSUME NEW f \in Finishes, NEW place, pc[f] \notin {"new", "accepted"}, place \notin {"new", "accepted"},
             pc' = [pc EXCEPT ![f] = place], UNCHANGED <<key, audio>>,
             place \in {"spawn", "poll", "publish"} => WholeAudio(f)
      PROVE  HandedOK'
  <2>1. \A g \in Finishes : (g # f => pc'[g] = pc[g]) /\ pc'[f] = place
    BY <1>1, <1>4 DEF ThreadsOK
  <2> QED BY <1>1, <1>4, <2>1 DEF HandedOK, WholeAudio, Expected
<1>5. ASSUME NEW f \in Finishes, Check(f) PROVE HandedOK'
  <2>1. CASE WholeAudio(f)
    BY <1>4, <1>5, <2>1 DEF Check, GoTo
  <2>2. CASE ~WholeAudio(f)
    BY <1>4, <1>5, <2>2 DEF Check, Leave, GoTo
  <2> QED BY <2>1, <2>2
<1>6. ASSUME NEW f \in Finishes, Spawn(f) PROVE HandedOK'
  <2>1. pc[f] = "spawn" /\ UNCHANGED <<key, audio>>
    BY <1>6 DEF Spawn
  <2>2. \E place \in {"poll", "failed"} : pc' = [pc EXCEPT ![f] = place]
    BY <1>6 DEF Spawn, Leave, GoTo
  <2> QED BY <1>1, <1>4, <2>1, <2>2 DEF HandedOK
<1>7. ASSUME NEW f \in Finishes, Receive(f) PROVE HandedOK'
  <2>1. pc[f] = "poll" /\ UNCHANGED <<key, audio>>
    BY <1>7 DEF Receive
  <2>2. \E place \in {"publish", "spawn", "failed"} : pc' = [pc EXCEPT ![f] = place]
    BY <1>7 DEF Receive, Leave, GoTo
  <2> QED BY <1>1, <1>4, <2>1, <2>2 DEF HandedOK
<1>8. ASSUME NEW f \in Finishes, HardTimeout(f) \/ Publish(f) PROVE HandedOK'
  <2>1. pc[f] \in {"poll", "publish"} /\ UNCHANGED <<key, audio>>
    BY <1>8 DEF HardTimeout, Publish
  <2>2. \E place \in {"published", "failed"} : pc' = [pc EXCEPT ![f] = place]
    BY <1>8 DEF HardTimeout, Publish, Leave, GoTo
  <2> QED BY <1>4, <2>1, <2>2
<1>9. CASE UNCHANGED <<pc, key, audio>>
  BY <1>1, <1>9 DEF HandedOK, WholeAudio, Expected
<1>10. ASSUME NEW f \in Finishes, ChildEnds(f) PROVE UNCHANGED <<pc, key, audio>>
  BY <1>10 DEF ChildEnds
<1> QED
  BY <1>2, <1>3, <1>5, <1>6, <1>7, <1>8, <1>9, <1>10
     DEF Next, Batch, StoreWindow, Sweep, SurvivorEnds, vars, threadVars

LEMMA DivIs ==
  ASSUME NEW d \in Nat \ {0}, NEW a \in Nat
  PROVE  a \div d \in Nat /\ d * (a \div d) <= a /\ a < d * (a \div d) + d
OBVIOUS

LEMMA DivGrows ==
  ASSUME NEW d \in Nat \ {0}, NEW a \in Nat, NEW n \in Nat, n >= d
  PROVE  a \div d < (a + n) \div d
<1> DEFINE q == a \div d
           r == (a + n) \div d
<1>1. q \in Nat /\ d * q <= a /\ a < d * q + d
  BY DivIs
<1>2. r \in Nat /\ d * r <= a + n /\ a + n < d * r + d
  BY DivIs, a + n \in Nat
<1> HIDE DEF q, r
<1>3. SUFFICES ASSUME r <= q PROVE FALSE
  BY <1>1, <1>2 DEF q, r
<1>4. d * r <= d * q
  BY <1>1, <1>2, <1>3
<1>5. d * r \in Nat /\ d * q \in Nat
  BY <1>1, <1>2
<1> QED BY <1>1, <1>2, <1>4, <1>5

\* A window of a millisecond has a range on the timeline.
LEMMA SpanOf ==
  ASSUME SessionAssumption, NEW chunks \in Chunks, NEW w \in Held(chunks), Size[<<w, chunks[w]>>] >= PerMs
  PROVE  Span(w, Audio(chunks)).start < Span(w, Audio(chunks)).end
<1> DEFINE p == <<w, chunks[w]>>
           A == Audio(chunks)
           a == Samples(Before(w, A))
<1>1. w \in Nat /\ A \in SUBSET Pieces /\ p \in A /\ \A q \in A : q[1] \in Nat /\ (q[1] = w => q = p)
  BY DEF Held, Audio, Chunks, Pieces, SessionAssumption
<1>2. Before(w + 1, A) \in SUBSET Pieces /\ p \in Before(w + 1, A) /\ Before(w + 1, A) \ {p} = Before(w, A)
  <2> HIDE DEF A
  <2>1. \A q \in A : q[1] < w + 1 <=> q[1] < w \/ q = p
    BY <1>1
  <2>2. ~(p[1] < w) /\ p[1] = w
    BY <1>1
  <2> HIDE DEF p
  <2> QED BY <1>1, <2>1, <2>2 DEF Before
<1>3. Samples(Before(w + 1, A)) = Size[p] + a
  <2> HIDE DEF p, A
  <2> QED BY <1>2, SamplesAdd
<1>4. a \in Nat
  <2>1. Before(w, A) \in SUBSET Pieces
    BY <1>1 DEF Before
  <2> HIDE DEF A
  <2> QED BY <2>1, SamplesType
<1>5. Size[p] \in Nat /\ PerMs \in Nat \ {0} /\ Size[p] >= PerMs
  BY <1>1 DEF SessionAssumption
<1>6. /\ Span(w, A).start = a \div PerMs
      /\ Span(w, A).end = (a + Size[p]) \div PerMs
  <2> HIDE DEF A
  <2>1. Size[p] + a = a + Size[p]
    BY <1>4, <1>5
  <2> QED BY <1>3, <2>1 DEF Span
<1> HIDE DEF a, p, A
<1>7. a \div PerMs < (a + Size[p]) \div PerMs
  BY <1>4, <1>5, DivGrows
<1> QED BY <1>6, <1>7 DEF A

LEMMA EventIsWhole ==
  ASSUME SessionAssumption, WholeInv, NEW f \in Finishes, pc[f] = "publish"
  PROVE  LET event == Event(f)
         IN  /\ Samples(event.heard) = Expected(event.key)
             /\ \A p, q \in event.heard : p[1] = q[1] => p = q
             /\ (\A p \in event.heard : p[2] = "sent") => event.heard = Whole(event.key)
             /\ \A p \in event.heard :
                  \/ p[1] \in DOMAIN event.spans /\ event.spans[p[1]] = Span(p[1], event.heard)
                  \/ p[1] \notin DOMAIN event.spans /\ Size[p] < PerMs
<1> DEFINE chunks == audio[f].chunks
           k == key[f]
<1>1. WholeAudio(f) /\ k \in Keys /\ audio[f] # None
  BY DEF WholeInv, HandedOK, WholeAudio
<1>2. chunks \in Chunks /\ audio[f].heard = Audio(chunks) /\ Filled(chunks, WindowsOf[k])
  BY <1>1 DEF WholeInv, AudioInv, TypeOK, HandedOK
<1>3. Samples(Audio(chunks)) = Samples(Whole(k))
  BY <1>1 DEF WholeAudio, Expected
<1>4. Event(f).key = k /\ Event(f).heard = Audio(chunks) /\ Event(f).spans = TimeMap(chunks)
  BY <1>2 DEF Event
<1> HIDE DEF chunks, k
<1>5. /\ Audio(chunks) \in SUBSET Pieces
      /\ \A p \in Audio(chunks) : p[1] \in Held(chunks) /\ p = <<p[1], chunks[p[1]]>> /\ p \in WindowsOf[k] \X Contents
  BY <1>1, <1>2 DEF Audio, Held, Chunks, Pieces, Filled, SessionAssumption
<1>6. ASSUME \A p \in Audio(chunks) : p[2] = "sent" PROVE Audio(chunks) = Whole(k)
  <2>1. Audio(chunks) \subseteq Whole(k)
    <3>1. \A p \in Audio(chunks) : p \in WindowsOf[k] \X {"sent"}
      BY <1>5, <1>6
    <3> QED BY <1>2, <3>1 DEF Whole, Filled
  <2>2. Whole(k) \in SUBSET Pieces /\ \A p \in Whole(k) : Size[p] > 0
    BY <1>1 DEF Whole, Pieces, Contents, SessionAssumption
  <2> QED BY <1>3, <2>1, <2>2, SamplesMiss
<1>7. ASSUME NEW p \in Audio(chunks)
      PROVE  \/ p[1] \in DOMAIN TimeMap(chunks) /\ TimeMap(chunks)[p[1]] = Span(p[1], Audio(chunks))
             \/ p[1] \notin DOMAIN TimeMap(chunks) /\ Size[p] < PerMs
  <2> DEFINE w == p[1]
             span == [v \in Held(chunks) |-> Span(v, Audio(chunks))]
  <2>1. w \in Held(chunks) /\ span[w] = Span(w, Audio(chunks))
    BY <1>5
  <2>2. TimeMap(chunks) = [v \in {u \in Held(chunks) : span[u].start < span[u].end} |-> span[v]]
    BY DEF TimeMap
  <2>3. CASE span[w].start < span[w].end
    <3> HIDE DEF span, w
    <3> QED BY <2>1, <2>2, <2>3 DEF w
  <2>4. CASE ~(span[w].start < span[w].end)
    <3>1. ~(Size[<<w, chunks[w]>>] >= PerMs)
      BY <1>2, <2>1, <2>4, SpanOf
    <3>2. Size[p] \in Nat /\ PerMs \in Nat
      BY <1>5 DEF SessionAssumption
    <3>3. Size[p] < PerMs
      BY <1>5, <3>1, <3>2
    <3>4. w \notin DOMAIN TimeMap(chunks)
      <4> HIDE DEF span, w
      <4> QED BY <2>2, <2>4
    <3> QED BY <3>3, <3>4
  <2> QED BY <2>3, <2>4
<1>8. \A p, q \in Audio(chunks) : p[1] = q[1] => p = q
  BY <1>5
<1> HIDE DEF Event
<1>9. Expected(k) = Samples(Whole(k))
  BY DEF Expected
<1> QED BY <1>3, <1>4, <1>6, <1>7, <1>8, <1>9

LEMMA PublishedStep ==
  ASSUME SessionAssumption, WholeInv, [Next]_vars
  PROVE  PublishedIsWhole'
<1>1. PublishedIsWhole
  BY DEF WholeInv
<1>2. ASSUME NEW f \in Finishes, Publish(f) PROVE PublishedIsWhole'
  <2>1. published' \subseteq published \cup {Event(f)} /\ pc[f] = "publish"
    BY <1>2 DEF Publish
  <2> HIDE DEF Event
  <2> QED BY <1>1, <2>1, EventIsWhole DEF PublishedIsWhole
<1>3. CASE published' = published
  BY <1>1, <1>3 DEF PublishedIsWhole
<1>4. ASSUME NEW f \in Finishes,
             Finish(f) \/ Enter(f) \/ Check(f) \/ Spawn(f) \/ Receive(f) \/ HardTimeout(f) \/ ChildEnds(f)
      PROVE  published' = published
  BY <1>4 DEF Finish, Enter, Check, Spawn, Receive, HardTimeout, ChildEnds
<1> QED BY <1>2, <1>3, <1>4 DEF Next, Batch, StoreWindow, Sweep, SurvivorEnds, vars, threadVars

LEMMA WholeInit == ASSUME SessionAssumption PROVE Init => WholeInv
<1> SUFFICES ASSUME Init PROVE WholeInv
  OBVIOUS
<1>1. AudioInv
  BY AudioInit
<1> QED BY <1>1 DEF Init, WholeInv, EntriesOK, HandedOK, PublishedIsWhole

LEMMA WholeNext == ASSUME SessionAssumption PROVE WholeInv /\ [Next]_vars => WholeInv'
<1> SUFFICES ASSUME WholeInv, [Next]_vars PROVE WholeInv'
  OBVIOUS
<1>1. AudioInv'
  BY AudioNext DEF WholeInv
<1>2. EntriesOK' /\ HandedOK' /\ PublishedIsWhole'
  BY EntriesStep, HandedStep, PublishedStep
<1> QED BY <1>1, <1>2 DEF WholeInv

\* For any sizes of any versions, caps, millisecond and orders of arrival: an attribution
\* that is published is about all audio that came in, no window of it in two versions,
\* as much as the gateway counted, so that without an altered window it is the whole
\* session; each label is at its window's place in that audio, and only a window
\* shorter than a millisecond has none (append, finish, run_attribution_job).
THEOREM OnlyWholeIsPublished == ASSUME SessionAssumption PROVE Spec => []PublishedIsWhole
<1>1. WholeInv => PublishedIsWhole
  BY DEF WholeInv
<1> QED BY <1>1, WholeInit, WholeNext, PTL DEF Spec

-----------------------------------------------------------------------------
(* FinalStt.  The invariant adds to FinalSound which entries the thread still  *)
(* has before it, and how far the one in its hand has got.                     *)

LEMMA FinalCounts ==
  /\ \A S : Final!Cardinality(S) = Cardinality(S)
  /\ \A S : Final!IsFiniteSet(S) <=> IsFiniteSet(S)
BY DEF Final!Cardinality, Cardinality, Final!IsFiniteSet, IsFiniteSet

JobCount == Final!Cardinality(Jobs)

JobWords ==
  (UNION {Final!Range(Committed[e]) : e \in Jobs}) \cup (UNION {Final!Range(JobDraft[e]) : e \in Jobs}) \cup
  (UNION {Final!Range(text) : text \in JobTexts})

Said4 == [state : {"draft", "stabilizing", "final", "revised"}, text : Seq(JobWords)]

LEMMA Widened ==
  ASSUME NEW s, NEW S, s \in Seq(Final!Range(s)), Final!Range(s) \subseteq S
  PROVE  s \in Seq(S)
<1>1. PICK n \in Nat : s \in [1..n -> Final!Range(s)]
  BY SeqDef
<1>2. s \in [1..n -> S]
  BY <1>1
<1> QED BY <1>2, SeqDef

LEMMA JobsGiven ==
  ASSUME Final!FinalAssumption
  PROVE  /\ JobCount \in Nat /\ Jobs = 1..JobCount /\ BatchSize \in Nat /\ MaxJobFaults \in Nat
         /\ \A e \in Jobs : Committed[e] \in Seq(JobWords) /\ JobDraft[e] \in Seq(JobWords)
         /\ JobTexts \subseteq Seq(JobWords)
<1>1. JobCount \in Nat /\ Jobs = 1..JobCount /\ BatchSize \in Nat /\ MaxJobFaults \in Nat
  BY FS_CardinalityType, FinalCounts DEF Final!FinalAssumption, JobCount
<1>2. ASSUME NEW e \in Jobs PROVE Committed[e] \in Seq(JobWords) /\ JobDraft[e] \in Seq(JobWords)
  <2>1. Final!Range(Committed[e]) \subseteq JobWords /\ Final!Range(JobDraft[e]) \subseteq JobWords
    <3>1. Final!Range(Committed[e]) \in {Final!Range(Committed[d]) : d \in Jobs} /\ Final!Range(JobDraft[e]) \in {Final!Range(JobDraft[d]) : d \in Jobs}
      OBVIOUS
    <3> QED BY <3>1 DEF JobWords
  <2>2. Committed[e] \in Seq(Final!Range(Committed[e])) /\ JobDraft[e] \in Seq(Final!Range(JobDraft[e]))
    BY DEF Final!FinalAssumption
  <2> QED BY <2>1, <2>2, Widened
<1>3. ASSUME NEW text \in JobTexts PROVE text \in Seq(JobWords)
  <2>1. Final!Range(text) \subseteq JobWords
    <3>1. Final!Range(text) \in {Final!Range(t) : t \in JobTexts}
      OBVIOUS
    <3> QED BY <3>1 DEF JobWords
  <2>2. text \in Seq(Final!Range(text))
    BY DEF Final!FinalAssumption
  <2> QED BY <2>1, <2>2, Widened
<1> QED BY <1>1, <1>2, <1>3

-----------------------------------------------------------------------------
InHand == job \notin {"next", "off"}

\* The first entry the thread has not done with.
Mark == next - Len(jobBatch)

Handling == {"draft", "stabilizing", "transcribe", "final", "revised", "ack", "reject", "ackRejected"}

HowMany(where) ==
  CASE where = "draft" -> {0} [] where = "stabilizing" -> {1} [] where \in {"transcribe", "final"} -> {2}
    [] where = "revised" -> {3} [] where = "ack" -> {4} [] where \in {"reject", "ackRejected"} -> {0, 2}

FinalTypes ==
  /\ next \in 1..(JobCount + 1) /\ jobFaults \in 0..MaxJobFaults
  /\ job \in {"next", "off"} \cup Handling
  /\ jobBatch \in Seq(Nat) /\ chunk \in Seq(JobWords)
  /\ events \in Seq(Seq(Said4)) /\ Len(events) = JobCount
  /\ pending \cap acked = {} /\ pending \cup acked = 1..(next - 1)

BatchOK ==
  /\ Len(jobBatch) < next /\ \A i \in DOMAIN jobBatch : jobBatch[i] = Mark + i - 1
  /\ InHand => jobBatch # <<>>
  /\ job = "off" => jobBatch = <<>>

\* What lies ahead is untouched; what is in hand has got as far as the thread has.
AheadOK ==
  /\ \A e \in Jobs : e >= Mark => e \notin acked
  /\ \A e \in Jobs : e >= Mark /\ ~(InHand /\ e = Mark) => events[e] = <<>> /\ e \notin rejected
  /\ InHand => /\ Len(events[Mark]) \in HowMany(job)
               /\ Mark \in rejected <=> job = "ackRejected"
               /\ job = "revised" => events[Mark][3].text = chunk

Revised(e) ==
  LET Plainly(text) == [i \in DOMAIN text |-> Plain(text[i])]
  IN  /\ Final!IsPrefix(Committed[e], events[e][4].text)
      /\ Final!IsSuffix(Plainly(events[e][3].text), Plainly(events[e][4].text))

PublishedOK ==
  \A e \in Jobs :
    /\ Len(events[e]) <= 4 /\ \A i \in DOMAIN events[e] : events[e][i].state = Final!Life[i]
    /\ e \in acked => Len(events[e]) = 4 \/ e \in rejected
    /\ e \in rejected => Len(events[e]) \in {0, 2}
    /\ Len(events[e]) = 4 => Revised(e)

FinalInv == FinalTypes /\ BatchOK /\ AheadOK /\ PublishedOK

\* The entry in hand.
LEMMA JobIsMark ==
  ASSUME Final!FinalAssumption, FinalTypes, BatchOK, jobBatch # <<>>
  PROVE  /\ Final!Job = Mark /\ Mark \in Jobs /\ Mark \in 1..(next - 1)
         /\ Tail(jobBatch) \in Seq(Nat) /\ Len(Tail(jobBatch)) = Len(jobBatch) - 1
         /\ next - Len(Tail(jobBatch)) = Mark + 1
         /\ \A i \in DOMAIN Tail(jobBatch) : Tail(jobBatch)[i] = Mark + i
<1>1. jobBatch \in Seq(Nat) /\ Len(jobBatch) \in Nat \ {0} /\ next \in 1..(JobCount + 1) /\ Len(jobBatch) < next /\ JobCount \in Nat
      /\ Jobs = 1..JobCount
  BY JobsGiven DEF FinalTypes, BatchOK
<1>2. jobBatch[1] = Mark + 1 - 1 /\ Final!Job = jobBatch[1]
  BY <1>1 DEF BatchOK, Final!Job
<1>3. Tail(jobBatch) \in Seq(Nat) /\ Len(Tail(jobBatch)) = Len(jobBatch) - 1
  BY <1>1
<1>4. ASSUME NEW i \in DOMAIN Tail(jobBatch) PROVE Tail(jobBatch)[i] = Mark + i
  <2>1. i \in 1..(Len(jobBatch) - 1) /\ Tail(jobBatch)[i] = jobBatch[i + 1] /\ i + 1 \in DOMAIN jobBatch
    BY <1>1, <1>3
  <2>2. jobBatch[i + 1] = Mark + (i + 1) - 1
    BY <2>1 DEF BatchOK
  <2> QED BY <1>1, <2>1, <2>2 DEF Mark
<1> QED BY <1>1, <1>2, <1>3, <1>4 DEF Mark

\* The thread goes on to the next entry.
LEMMA FinalLeave ==
  ASSUME Final!FinalAssumption, FinalInv, InHand, Final!Leave, jobFaults' \in 0..MaxJobFaults
  PROVE  FinalInv'
<1>1. FinalTypes /\ BatchOK /\ AheadOK /\ PublishedOK /\ jobBatch # <<>>
  BY DEF FinalInv, BatchOK
<1>2. /\ Final!Job = Mark /\ Mark \in Jobs /\ Mark \in 1..(next - 1)
      /\ Tail(jobBatch) \in Seq(Nat) /\ Len(Tail(jobBatch)) = Len(jobBatch) - 1
      /\ next - Len(Tail(jobBatch)) = Mark + 1
      /\ \A i \in DOMAIN Tail(jobBatch) : Tail(jobBatch)[i] = Mark + i
  BY <1>1, JobIsMark
<1>3. /\ job' = "next" /\ jobBatch' = Tail(jobBatch) /\ chunk' = chunk /\ next' = next
      /\ pending' = pending /\ acked' = acked /\ events' = events /\ rejected' = rejected
  BY DEF Final!Leave, Final!stream
<1>4. Mark' = Mark + 1
  BY <1>2, <1>3 DEF Mark
<1>5. FinalTypes'
  BY <1>1, <1>2, <1>3 DEF FinalTypes
<1>6. BatchOK'
  <2>1. Len(jobBatch') < next' /\ next \in Nat /\ Mark \in Nat
    BY <1>1, <1>2, <1>3 DEF BatchOK, FinalTypes
  <2>2. ASSUME NEW i \in DOMAIN jobBatch' PROVE jobBatch'[i] = Mark' + i - 1
    <3>1. i \in Nat
      BY <1>2, <1>3
    <3> QED BY <1>2, <1>3, <1>4, <2>1, <3>1
  <2> QED BY <1>3, <2>1, <2>2 DEF BatchOK, InHand
<1>7. AheadOK'
  BY <1>1, <1>2, <1>3, <1>4, JobsGiven DEF AheadOK, InHand
<1>8. PublishedOK'
  BY <1>1, <1>3 DEF PublishedOK, Revised
<1> QED BY <1>5, <1>6, <1>7, <1>8 DEF FinalInv

LEMMA FinalAck ==
  ASSUME Final!FinalAssumption, FinalInv, Final!Ack
  PROVE  FinalInv'
<1>1. FinalTypes /\ BatchOK /\ AheadOK /\ PublishedOK /\ jobBatch # <<>> /\ InHand /\ job \in {"ack", "ackRejected"}
  BY DEF FinalInv, BatchOK, Final!Ack, InHand
<1>2. /\ Final!Job = Mark /\ Mark \in Jobs /\ Mark \in 1..(next - 1)
      /\ Tail(jobBatch) \in Seq(Nat) /\ Len(Tail(jobBatch)) = Len(jobBatch) - 1
      /\ next - Len(Tail(jobBatch)) = Mark + 1
      /\ \A i \in DOMAIN Tail(jobBatch) : Tail(jobBatch)[i] = Mark + i
  BY <1>1, JobIsMark
<1>3. /\ job' = "next" /\ jobBatch' = Tail(jobBatch) /\ chunk' = chunk /\ next' = next /\ jobFaults' = jobFaults
      /\ pending' = pending \ {Mark} /\ acked' = acked \cup {Mark} /\ events' = events /\ rejected' = rejected
  BY <1>2 DEF Final!Ack
<1>4. Mark' = Mark + 1
  BY <1>2, <1>3 DEF Mark
<1>5. FinalTypes'
  BY <1>1, <1>2, <1>3 DEF FinalTypes
<1>6. BatchOK'
  <2>1. Len(jobBatch') < next' /\ next \in Nat /\ Mark \in Nat
    BY <1>1, <1>2, <1>3 DEF BatchOK, FinalTypes
  <2>2. ASSUME NEW i \in DOMAIN jobBatch' PROVE jobBatch'[i] = Mark' + i - 1
    <3>1. i \in Nat
      BY <1>2, <1>3
    <3> QED BY <1>2, <1>3, <1>4, <2>1, <3>1
  <2> QED BY <1>3, <2>1, <2>2 DEF BatchOK, InHand
<1>7. AheadOK'
  <2>1. Jobs \subseteq Nat /\ Mark \in Nat
    BY <1>2, JobsGiven
  <2>2. ASSUME NEW e \in Jobs, e >= Mark' PROVE e >= Mark /\ e # Mark /\ e \in Nat
    BY <1>4, <2>1, <2>2
  <2>3. ASSUME NEW e \in Jobs, e >= Mark' PROVE e \notin acked' /\ events'[e] = <<>> /\ e \notin rejected'
    BY <1>1, <1>3, <2>2, <2>3 DEF AheadOK
  <2>4. ~InHand'
    BY <1>3 DEF InHand
  <2> QED BY <2>3, <2>4 DEF AheadOK
<1>8. Len(events[Mark]) = 4 \/ Mark \in rejected
  BY <1>1 DEF AheadOK, HowMany
<1>9. PublishedOK'
  BY <1>1, <1>3, <1>8 DEF PublishedOK, Revised
<1> QED BY <1>5, <1>6, <1>7, <1>9 DEF FinalInv

LEMMA FinalRead ==
  ASSUME Final!FinalAssumption, FinalInv, Final!Read
  PROVE  FinalInv'
<1> DEFINE n == IF next + BatchSize > JobCount + 1 THEN JobCount + 1 - next ELSE BatchSize
<1>1. FinalTypes /\ BatchOK /\ AheadOK /\ PublishedOK /\ JobCount \in Nat /\ BatchSize \in Nat
  BY JobsGiven DEF FinalInv
<1>2. n \in Nat /\ next + n \in 1..(JobCount + 1) /\ next \in Nat \ {0} /\ next \in 1..(JobCount + 1)
  BY <1>1 DEF FinalTypes
<1>3. /\ job = "next" /\ jobBatch = <<>> /\ jobBatch' = [i \in 1..n |-> next + i - 1] /\ next' = next + n
      /\ pending' = pending \cup {next + i - 1 : i \in 1..n}
      /\ UNCHANGED <<acked, events, rejected, job, chunk, jobFaults>>
  BY <1>1 DEF Final!Read, FinalTypes
<1> HIDE DEF n
<1>4. jobBatch' \in Seq(Nat) /\ Len(jobBatch') = n /\ DOMAIN jobBatch' = 1..n
  <2>1. \A i \in 1..n : next + i - 1 \in Nat
    BY <1>2
  <2> QED BY <1>2, <1>3, <2>1
<1>5. Mark = next /\ Mark' = next
  BY <1>2, <1>3, <1>4 DEF Mark
<1>6. {next + i - 1 : i \in 1..n} = next..(next + n - 1)
  <2>1. ASSUME NEW x \in next..(next + n - 1) PROVE \E i \in 1..n : x = next + i - 1
    <3>1. x - next + 1 \in 1..n /\ x = next + (x - next + 1) - 1
      BY <1>2
    <3> QED BY <3>1
  <2>2. \A i \in 1..n : next + i - 1 \in next..(next + n - 1)
    BY <1>2
  <2> QED BY <2>1, <2>2
<1>7. FinalTypes'
  <2>1. pending' \cap acked' = {} /\ pending' \cup acked' = 1..(next' - 1)
    <3> DEFINE new == next..(next + n - 1)
    <3>1. new \cap 1..(next - 1) = {} /\ 1..(next - 1) \cup new = 1..(next + n - 1)
      BY <1>2
    <3>2. pending' = pending \cup new /\ acked' = acked
      BY <1>3, <1>6
    <3>3. pending \cap acked = {} /\ pending \cup acked = 1..(next - 1)
      BY <1>1 DEF FinalTypes
    <3> HIDE DEF new
    <3>4. next' - 1 = next + n - 1
      BY <1>2, <1>3
    <3>5. pending' \cup acked' = 1..(next + n - 1)
      BY <3>1, <3>2, <3>3
    <3>6. pending' \cap acked' = {}
      BY <3>1, <3>2, <3>3
    <3> QED BY <3>4, <3>5, <3>6
  <2> QED BY <1>1, <1>2, <1>3, <1>4, <2>1 DEF FinalTypes
<1>8. BatchOK'
  BY <1>1, <1>2, <1>3, <1>4, <1>5 DEF BatchOK, InHand
<1>9. AheadOK'
  BY <1>1, <1>3, <1>5 DEF AheadOK, InHand
<1>10. PublishedOK'
  BY <1>1, <1>3 DEF PublishedOK, Revised
<1> QED BY <1>7, <1>8, <1>9, <1>10 DEF FinalInv

LEMMA FinalEnds ==
  ASSUME Final!FinalAssumption, FinalInv, Final!Die \/ Final!Restart \/ UNCHANGED Final!vars
  PROVE  FinalInv'
<1>1. FinalTypes /\ BatchOK /\ AheadOK /\ PublishedOK /\ JobCount \in Nat /\ Jobs = 1..JobCount
  BY JobsGiven DEF FinalInv
<1>2. CASE Final!Die
  <2>1. /\ job' = "off" /\ jobBatch' = <<>> /\ chunk' = chunk /\ next' = next /\ jobFaults' \in 0..MaxJobFaults
        /\ pending' = pending /\ acked' = acked /\ events' = events /\ rejected' = rejected
    BY <1>1, <1>2, JobsGiven DEF Final!Die, Final!stream, Final!Fault, FinalTypes
  <2>2. Mark' = next /\ Mark <= next /\ Mark \in Int /\ next \in Nat \ {0}
        /\ (InHand => Mark < next)
    BY <1>1, <2>1 DEF Mark, FinalTypes, BatchOK
  <2>3. FinalTypes'
    BY <1>1, <2>1 DEF FinalTypes
  <2>4. BatchOK'
    BY <2>1, <2>2 DEF BatchOK, InHand
  <2>5. AheadOK'
    BY <1>1, <2>1, <2>2 DEF AheadOK, InHand
  <2>6. PublishedOK'
    BY <1>1, <2>1 DEF PublishedOK, Revised
  <2> QED BY <2>3, <2>4, <2>5, <2>6 DEF FinalInv
<1>3. ASSUME UNCHANGED <<next, pending, acked, events, rejected, jobBatch, chunk, jobFaults>>,
             job' = job \/ (job = "off" /\ job' = "next")
      PROVE  FinalInv'
  <2>1. Mark' = Mark /\ (InHand' <=> InHand)
    BY <1>3 DEF Mark, InHand
  <2>2. FinalTypes'
    BY <1>1, <1>3 DEF FinalTypes
  <2>3. BatchOK'
    BY <1>1, <1>3, <2>1 DEF BatchOK
  <2>4. AheadOK'
    BY <1>1, <1>3, <2>1 DEF AheadOK, InHand
  <2>5. PublishedOK'
    BY <1>1, <1>3 DEF PublishedOK, Revised
  <2> QED BY <2>2, <2>3, <2>4, <2>5 DEF FinalInv
<1> QED BY <1>2, <1>3 DEF Final!Restart, Final!vars, Final!stream

\* Steps that publish nothing.
LEMMA FinalHand ==
  ASSUME Final!FinalAssumption, FinalInv, jobBatch # <<>>, job' \in Handling, chunk' \in Seq(JobWords),
         UNCHANGED <<next, pending, acked, events, jobBatch, jobFaults>>,
         rejected' = rejected \/ (rejected' = rejected \cup {Final!Job} /\ job' = "ackRejected"),
         Len(events[Mark]) \in HowMany(job'), job' # "revised",
         Mark \in rejected' <=> job' = "ackRejected",
         job = "next" \/ InHand
  PROVE  FinalInv'
<1>1. FinalTypes /\ BatchOK /\ AheadOK /\ PublishedOK /\ JobCount \in Nat /\ Jobs = 1..JobCount
  BY JobsGiven DEF FinalInv
<1>2. Final!Job = Mark /\ Mark \in Jobs /\ Mark' = Mark
  BY <1>1, JobIsMark DEF Mark
<1>3. FinalTypes'
  BY <1>1 DEF FinalTypes
<1>4. BatchOK'
  BY <1>1, <1>2 DEF BatchOK, InHand, Handling
<1>5. AheadOK'
  <2>1. \A e \in Jobs : e # Mark => (e \in rejected' <=> e \in rejected)
    BY <1>2
  <2>2. InHand'
    BY DEF InHand, Handling
  <2> QED BY <1>1, <1>2, <2>1, <2>2 DEF AheadOK
<1>6. PublishedOK'
  <2>1. rejected' = rejected \/ Len(events[Mark]) \in {0, 2}
    BY DEF HowMany
  <2>2. rejected' \subseteq rejected \cup {Mark} /\ rejected \subseteq rejected'
    BY <1>2
  <2> QED BY <1>1, <2>1, <2>2 DEF PublishedOK, Revised
<1> QED BY <1>3, <1>4, <1>5, <1>6 DEF FinalInv

LEMMA FinalQuiet ==
  ASSUME Final!FinalAssumption, FinalInv, Final!Validate \/ Final!Reject \/ (Final!Transcribe /\ ~Final!Leave)
  PROVE  FinalInv'
<1>1. FinalTypes /\ BatchOK /\ AheadOK /\ PublishedOK /\ jobBatch # <<>> /\ (job = "next" \/ InHand)
  BY DEF FinalInv, BatchOK, InHand, Final!Validate, Final!Reject, Final!Transcribe
<1>2. Final!Job = Mark /\ Mark \in Jobs
  BY <1>1, JobIsMark
<1>3. CASE Final!Validate
  <2>1. /\ job = "next" /\ job' \in {"draft", "reject"} /\ UNCHANGED <<next, pending, acked, events, rejected, jobBatch, chunk, jobFaults>>
    BY <1>3 DEF Final!Validate, Final!stream
  <2>2. events[Mark] = <<>> /\ Mark \notin rejected
    <3>1. Mark >= Mark
      BY <1>2, JobsGiven
    <3> QED BY <1>1, <1>2, <2>1, <3>1 DEF AheadOK, InHand
  <2>3. Len(events[Mark]) \in HowMany(job') /\ job' \in Handling
    BY <2>1, <2>2 DEF HowMany, Handling
  <2> QED BY <1>1, <1>2, <2>1, <2>2, <2>3, FinalHand DEF FinalTypes
<1>4. CASE Final!Reject
  <2>1. /\ job = "reject" /\ job' = "ackRejected" /\ rejected' = rejected \cup {Final!Job}
        /\ UNCHANGED <<next, pending, acked, events, jobBatch, chunk, jobFaults>>
    BY <1>4 DEF Final!Reject
  <2>2. Len(events[Mark]) \in HowMany(job') /\ job' \in Handling /\ InHand
    BY <1>1, <2>1 DEF AheadOK, HowMany, Handling, InHand
  <2> QED BY <1>1, <1>2, <2>1, <2>2, FinalHand DEF FinalTypes
<1>5. CASE Final!Transcribe /\ ~Final!Leave
  <2>1. /\ job = "transcribe" /\ job' \in {"final", "reject"} /\ chunk' \in JobTexts \cup {chunk}
        /\ UNCHANGED <<next, pending, acked, events, rejected, jobBatch, jobFaults>>
    BY <1>5 DEF Final!Transcribe, Final!stream
  <2>2. Len(events[Mark]) \in HowMany(job') /\ job' \in Handling /\ InHand /\ Mark \notin rejected
    BY <1>1, <2>1 DEF AheadOK, HowMany, Handling, InHand
  <2>3. chunk' \in Seq(JobWords)
    BY <1>1, <2>1, JobsGiven DEF FinalTypes
  <2> QED BY <1>1, <1>2, <2>1, <2>2, <2>3, FinalHand
<1> QED BY <1>3, <1>4, <1>5

-----------------------------------------------------------------------------
(* merge_transcripts: what it keeps of both texts. *)

LEMMA SamePrefix ==
  ASSUME NEW s, NEW t, Len(s) \in Nat, Len(s) <= Len(t), \A i \in 1..Len(s) : s[i] = t[i]
  PROVE  Final!IsPrefix(s, t)
<1> DEFINE n == Len(s)
           S == {s[i] : i \in 1..n}
<1>1. \A i \in 1..n : s[i] \in S /\ t[i] \in S
  OBVIOUS
<1> HIDE DEF S
<1>2. n \in Int /\ 1 \in Int /\ (IF 1 <= n THEN n - 1 + 1 ELSE 0) = n
  OBVIOUS
<1>3. /\ SubSeq(s, 1, n) \in Seq(S) /\ Len(SubSeq(s, 1, n)) = IF 1 <= n THEN n - 1 + 1 ELSE 0
      /\ \A i \in 1..(n - 1 + 1) : SubSeq(s, 1, n)[i] = s[1 + i - 1]
  BY <1>1, <1>2, SubSeqProperties
<1>4. /\ SubSeq(t, 1, n) \in Seq(S) /\ Len(SubSeq(t, 1, n)) = IF 1 <= n THEN n - 1 + 1 ELSE 0
      /\ \A i \in 1..(n - 1 + 1) : SubSeq(t, 1, n)[i] = t[1 + i - 1]
  BY <1>1, <1>2, SubSeqProperties
<1>5. \A i \in 1..n : SubSeq(s, 1, n)[i] = SubSeq(t, 1, n)[i]
  BY <1>3, <1>4
<1>6. SubSeq(s, 1, n) = SubSeq(t, 1, n)
  BY <1>2, <1>3, <1>4, <1>5, SeqEqual
<1> QED BY <1>6 DEF Final!IsPrefix

LEMMA MergedKeeps ==
  ASSUME NEW W, NEW c \in Seq(W), NEW r \in Seq(W)
  PROVE  LET Plainly(text) == [i \in DOMAIN text |-> Plain(text[i])]
         IN  /\ Final!Merged(c, r) \in Seq(W) /\ Final!IsPrefix(c, Final!Merged(c, r))
             /\ Final!IsSuffix(Plainly(r), Plainly(Final!Merged(c, r)))
<1> DEFINE Same(n) == \A i \in 1..n : Plain(c[Len(c) - n + i]) = Plain(r[i])
           sizes == {n \in 1..Len(r) : n <= Len(c) /\ Same(n)}
           m == Final!Max(sizes \cup {0})
           rest == SubSeq(r, 1 + m, Len(r))
           Plainly(text) == [i \in DOMAIN text |-> Plain(text[i])]
           a == Len(c)
           b == Len(r)
           all == Final!Merged(c, r)
<1>1. a \in Nat /\ b \in Nat
  OBVIOUS
<1>2. m \in sizes \cup {0}
  <2>1. sizes \cup {0} \in SUBSET (0..b) /\ sizes \cup {0} # {}
    BY <1>1
  <2> HIDE DEF sizes
  <2> QED BY <1>1, <2>1, Greatest DEF Final!Max
<1>3. m \in 0..b /\ m <= a /\ Same(m)
  <2>1. ASSUME NEW k \in sizes \cup {0} PROVE k \in 0..b /\ k <= a /\ Same(k)
    BY <1>1
  <2> HIDE DEF m, sizes
  <2> QED BY <1>2, <2>1
<1>4. all = c \o rest
  BY DEF Final!Merged
<1> HIDE DEF m, all
<1>5. rest \in Seq(W) /\ Len(rest) = b - m /\ \A i \in 1..(b - m) : rest[i] = r[m + i]
  BY <1>1, <1>3
<1> HIDE DEF rest
<1>6. /\ all \in Seq(W) /\ Len(all) = a + b - m /\ DOMAIN all = 1..(a + b - m)
      /\ \A i \in 1..a : all[i] = c[i]
      /\ \A i \in 1..(b - m) : all[a + i] = r[m + i]
  <2>1. /\ all \in Seq(W) /\ Len(all) = a + (b - m)
        /\ \A i \in 1..(a + (b - m)) : all[i] = IF i <= a THEN c[i] ELSE rest[i - a]
    <3>1. /\ c \o rest \in Seq(W) /\ Len(c \o rest) = Len(c) + Len(rest)
          /\ \A i \in 1..(Len(c) + Len(rest)) : (c \o rest)[i] = IF i <= Len(c) THEN c[i] ELSE rest[i - Len(c)]
      BY <1>5, ConcatProperties
    <3>2. Len(rest) = b - m
      BY <1>5
    <3> QED BY <1>4, <3>1, <3>2
  <2>2. DOMAIN all = 1..(a + (b - m)) /\ a + (b - m) = a + b - m
    BY <1>1, <1>3, <2>1
  <2>3. ASSUME NEW i \in 1..a PROVE all[i] = c[i]
    BY <1>1, <1>3, <2>1
  <2>4. ASSUME NEW i \in 1..(b - m) PROVE all[a + i] = r[m + i]
    <3>1. a + i \in 1..(a + (b - m)) /\ ~(a + i <= a) /\ a + i - a = i
      BY <1>1, <1>3
    <3> QED BY <1>5, <2>1, <3>1
  <2> QED BY <2>1, <2>2, <2>3, <2>4
<1>7. Final!IsPrefix(c, all)
  <2>1. Len(c) \in Nat /\ Len(c) <= Len(all)
    BY <1>1, <1>3, <1>6
  <2>2. \A i \in 1..Len(c) : c[i] = all[i]
    BY <1>6
  <2> QED BY <2>1, <2>2, SamePrefix
<1>8. Final!IsSuffix(Plainly(r), Plainly(all))
  <2> DEFINE p == Plainly(r)
             q == Plainly(all)
             n == a + b - m
  <2>1. /\ p = [i \in 1..b |-> Plain(r[i])] /\ q = [i \in 1..n |-> Plain(all[i])] /\ n \in Nat /\ b <= n
    BY <1>1, <1>3, <1>6
  <2>2. Len(p) = b /\ Len(q) = n
    BY <1>1, <2>1
  <2>3. ASSUME NEW i \in 1..b PROVE p[b - i + 1] = q[n - i + 1]
    <3>1. b - i + 1 \in 1..b /\ n - i + 1 \in 1..n
      BY <1>1, <2>1
    <3>2. p[b - i + 1] = Plain(r[b - i + 1]) /\ q[n - i + 1] = Plain(all[n - i + 1])
      BY <2>1, <3>1
    <3>3. CASE i <= b - m
      <4>1. b - m - i + 1 \in 1..(b - m) /\ n - i + 1 = a + (b - m - i + 1) /\ m + (b - m - i + 1) = b - i + 1
        BY <1>1, <1>3, <3>3
      <4> QED BY <1>6, <3>2, <4>1
    <3>4. CASE i > b - m
      <4>1. b - i + 1 \in 1..m /\ n - i + 1 = a - m + (b - i + 1) /\ n - i + 1 \in 1..a
        BY <1>1, <1>3, <3>1, <3>4
      <4>2. Plain(c[a - m + (b - i + 1)]) = Plain(r[b - i + 1])
        BY <1>3, <4>1
      <4> QED BY <1>6, <3>2, <4>1, <4>2
    <3> QED BY <1>1, <1>3, <3>3, <3>4
  <2> HIDE DEF p, q
  <2>4. Final!Reverse(p) = [i \in 1..b |-> p[b - i + 1]] /\ Final!Reverse(q) = [i \in 1..n |-> q[n - i + 1]]
    BY <2>2 DEF Final!Reverse
  <2> DEFINE rp == Final!Reverse(p)
             rq == Final!Reverse(q)
  <2>5. Len(rp) = b /\ Len(rq) = n
    BY <1>1, <2>1, <2>4
  <2>6. ASSUME NEW i \in 1..b PROVE rp[i] = rq[i]
    <3>1. rp[i] = p[b - i + 1]
      BY <2>4
    <3>2. i \in 1..n
      BY <1>1, <2>1
    <3>3. rq[i] = q[n - i + 1]
      BY <2>4, <3>2
    <3> QED BY <2>3, <3>1, <3>3
  <2> HIDE DEF rp, rq
  <2>8. Final!IsPrefix(rp, rq)
    BY <1>1, <2>1, <2>5, <2>6, SamePrefix
  <2> QED BY <2>8 DEF Final!IsSuffix, p, q, rp, rq
<1> QED BY <1>6, <1>7, <1>8 DEF all

\* Where the state machine stands.
Stage == [draft |-> 0, stabilizing |-> 1, final |-> 2, revised |-> 3]

LEMMA FinalPublish ==
  ASSUME Final!FinalAssumption, FinalInv, job \in {"draft", "stabilizing", "final", "revised"},
         events' = [events EXCEPT ![Final!Job] = Append(@, [state |-> job, text |-> Final!Said(job)])],
         job' = Final!Following[job],
         UNCHANGED <<next, pending, acked, rejected, jobBatch, chunk, jobFaults>>
  PROVE  FinalInv'
<1> DEFINE said == [state |-> job, text |-> Final!Said(job)]
           old == events[Mark]
           k == Stage[job]
<1>1. FinalTypes /\ BatchOK /\ AheadOK /\ PublishedOK /\ jobBatch # <<>> /\ InHand /\ JobCount \in Nat /\ Jobs = 1..JobCount
  BY JobsGiven DEF FinalInv, BatchOK, InHand
<1>2. Final!Job = Mark /\ Mark \in Jobs /\ Mark' = Mark
  BY <1>1, JobIsMark DEF Mark
<1>3. /\ k \in 0..3 /\ Final!Life[k + 1] = job /\ k + 1 \in HowMany(job') /\ job' \in Handling
      /\ job' # "ackRejected" /\ (job' = "revised" => job = "final" /\ k = 2) /\ (k = 3 => job = "revised")
      /\ HowMany(job) = {k}
  BY DEF Stage, Final!Life, Final!Following, HowMany, Handling
<1>4. Final!Said(job) \in Seq(JobWords) /\ (job = "final" => Final!Said(job) = chunk) /\ (job = "revised" => Final!Said(job) = Final!Merged(Committed[Mark], chunk))
  <2>1. Committed[Mark] \in Seq(JobWords) /\ JobDraft[Mark] \in Seq(JobWords) /\ chunk \in Seq(JobWords)
    BY <1>1, <1>2, JobsGiven DEF FinalTypes
  <2>2. Final!Merged(Committed[Mark], chunk) \in Seq(JobWords)
    BY <2>1, MergedKeeps
  <2> QED BY <1>2, <2>1, <2>2 DEF Final!Said
<1>5. said \in Said4 /\ said.state = job /\ said.text = Final!Said(job)
  BY <1>4 DEF Said4
<1>6. old \in Seq(Said4) /\ Len(old) = k /\ Mark \notin rejected /\ Mark \notin acked
      /\ (job = "revised" => old[3].text = chunk)
  <2>1. Mark >= Mark
    BY <1>1, <1>2
  <2> QED BY <1>1, <1>2, <1>3, <2>1 DEF AheadOK, FinalTypes
<1> HIDE DEF said, k
<1> DEFINE new == Append(old, said)
<1>7. /\ new \in Seq(Said4) /\ Len(new) = k + 1 /\ new[k + 1] = said /\ DOMAIN new = 1..(k + 1)
      /\ \A i \in 1..k : new[i] = old[i]
  BY <1>3, <1>5, <1>6
<1>8. /\ events' = [events EXCEPT ![Mark] = new] /\ DOMAIN events = 1..JobCount
      /\ events' \in Seq(Seq(Said4)) /\ Len(events') = JobCount
      /\ events'[Mark] = new /\ \A e \in Jobs : e # Mark => events'[e] = events[e]
  BY <1>1, <1>2, <1>7 DEF FinalTypes, said
<1> HIDE DEF new, old
<1>9. FinalTypes'
  BY <1>1, <1>3, <1>8 DEF FinalTypes
<1>10. BatchOK'
  BY <1>1, <1>2, <1>3 DEF BatchOK, InHand, Handling
<1>11. job' = "revised" => new[3].text = chunk
  BY <1>3, <1>4, <1>5, <1>7
<1>12. AheadOK'
  <2>1. InHand'
    BY <1>3 DEF InHand, Handling
  <2>2. Len(events'[Mark']) \in HowMany(job')
    BY <1>2, <1>3, <1>7, <1>8
  <2>3. \A e \in Jobs : e >= Mark' /\ e # Mark' => events'[e] = <<>> /\ e \notin rejected'
    BY <1>1, <1>2, <1>8 DEF AheadOK
  <2> QED BY <1>1, <1>2, <1>3, <1>6, <1>8, <1>11, <2>1, <2>2, <2>3 DEF AheadOK
<1>13. \A i \in DOMAIN new : new[i].state = Final!Life[i]
  <2>1. DOMAIN old = 1..k /\ \A i \in DOMAIN old : old[i].state = Final!Life[i]
    BY <1>1, <1>2, <1>3, <1>6 DEF PublishedOK, old
  <2> QED BY <1>3, <1>5, <1>7, <2>1
<1>14. Len(new) = 4 => Revised(Mark)'
  <2> SUFFICES ASSUME Len(new) = 4 PROVE Revised(Mark)'
    OBVIOUS
  <2>1. k = 3 /\ job = "revised"
    <3>1. k \in 0..3 /\ Len(new) = k + 1 /\ (k = 3 => job = "revised")
      BY <1>3, <1>7
    <3> QED BY <3>1
  <2>2. new[3].text = chunk /\ new[4].text = Final!Merged(Committed[Mark], chunk)
    BY <1>4, <1>5, <1>6, <1>7, <2>1
  <2>3. events'[Mark] = new
    BY <1>8
  <2>4. Committed[Mark] \in Seq(JobWords) /\ chunk \in Seq(JobWords)
    BY <1>1, <1>2, JobsGiven DEF FinalTypes
  <2>5. LET Plainly(text) == [i \in DOMAIN text |-> Plain(text[i])]
        IN  /\ Final!IsPrefix(Committed[Mark], Final!Merged(Committed[Mark], chunk))
            /\ Final!IsSuffix(Plainly(chunk), Plainly(Final!Merged(Committed[Mark], chunk)))
    BY <2>4, MergedKeeps
  <2>6. Revised(Mark)' <=>
          LET Plainly(text) == [i \in DOMAIN text |-> Plain(text[i])]
          IN  /\ Final!IsPrefix(Committed[Mark'], events'[Mark'][4].text)
              /\ Final!IsSuffix(Plainly(events'[Mark'][3].text), Plainly(events'[Mark'][4].text))
    BY DEF Revised
  <2>7. /\ Committed[Mark'] = Committed[Mark] /\ events'[Mark'][3].text = chunk
        /\ events'[Mark'][4].text = Final!Merged(Committed[Mark], chunk)
    BY <1>2, <2>2, <2>3
  <2> QED BY ONLY <2>5, <2>6, <2>7
<1>15. PublishedOK'
  <2>1. ASSUME NEW e \in Jobs, e # Mark
        PROVE  /\ Len(events'[e]) <= 4 /\ \A i \in DOMAIN events'[e] : events'[e][i].state = Final!Life[i]
               /\ e \in acked' => Len(events'[e]) = 4 \/ e \in rejected'
               /\ e \in rejected' => Len(events'[e]) \in {0, 2}
               /\ Len(events'[e]) = 4 => Revised(e)'
    <3>1. events'[e] = events[e]
      BY <1>8, <2>1
    <3> QED BY <1>1, <3>1 DEF PublishedOK, Revised
  <2>2. Len(new) <= 4
    BY <1>3, <1>7
  <2> QED BY <1>2, <1>6, <1>8, <1>13, <1>14, <2>1, <2>2 DEF PublishedOK
<1> QED BY <1>9, <1>10, <1>12, <1>15 DEF FinalInv

LEMMA FinalInit ==
  ASSUME Final!FinalAssumption, Final!Init
  PROVE  FinalInv
<1>1. JobCount \in Nat /\ Jobs = 1..JobCount /\ MaxJobFaults \in Nat
  BY JobsGiven
<1>2. Len(events) = JobCount /\ events \in Seq(Seq(Said4)) /\ \A e \in Jobs : events[e] = <<>>
  BY <1>1 DEF Final!Init
<1>3. Mark = 1 /\ ~InHand
  BY DEF Final!Init, Mark, InHand
<1>4. FinalTypes
  BY <1>1, <1>2 DEF Final!Init, FinalTypes
<1>5. BatchOK
  BY <1>3 DEF Final!Init, BatchOK, InHand
<1>6. AheadOK
  BY <1>2, <1>3 DEF Final!Init, AheadOK
<1>7. PublishedOK
  BY <1>2 DEF Final!Init, PublishedOK
<1> QED BY <1>4, <1>5, <1>6, <1>7 DEF FinalInv

LEMMA FinalNext ==
  ASSUME Final!FinalAssumption, FinalInv, [Final!Next]_(Final!vars)
  PROVE  FinalInv'
<1>1. CASE Final!Fault /\ Final!Leave /\ InHand
  <2>1. jobFaults' \in 0..MaxJobFaults
    BY <1>1, JobsGiven DEF Final!Fault, FinalInv, FinalTypes
  <2> QED BY <1>1, <2>1, FinalLeave
<1>2. CASE Final!Publish
  BY <1>1, <1>2, FinalPublish DEF Final!Publish, InHand
<1>3. CASE Final!Transcribe
  BY <1>1, <1>3, FinalQuiet DEF Final!Transcribe, Final!Leave, InHand
<1>4. CASE Final!AckFails
  BY <1>1, <1>4 DEF Final!AckFails, InHand
<1> QED BY <1>2, <1>3, <1>4, FinalRead, FinalQuiet, FinalAck, FinalEnds
    DEF Final!Next, Final!Process

LEMMA FinalAlways ==
  ASSUME Final!FinalAssumption
  PROVE  Final!Spec => []FinalInv
<1>1. Final!Init => FinalInv
  BY FinalInit
<1>2. FinalInv /\ [Final!Next]_(Final!vars) => FinalInv'
  BY FinalNext
<1> QED BY <1>1, <1>2, PTL DEF Final!Spec

\* What the invariant says of the published events.
LEMMA FinalFromInv ==
  ASSUME Final!FinalAssumption, FinalInv
  PROVE  Final!FinalSound
<1>1. FinalTypes /\ PublishedOK /\ JobCount \in Nat /\ Jobs = 1..JobCount
  BY JobsGiven DEF FinalInv
<1>2. Final!TypeOK
  BY <1>1 DEF FinalTypes, Final!TypeOK
<1>3. Final!EventsSound
  <2> SUFFICES ASSUME NEW e \in Jobs
               PROVE  LET states == [i \in DOMAIN events[e] |-> events[e][i].state]
                      IN  /\ Final!IsPrefix(states, Final!Life)
                          /\ e \in acked => states = Final!Life \/ e \in rejected
                          /\ e \in rejected => Len(states) \in {0, 2}
    BY DEF Final!EventsSound
  <2> DEFINE states == [i \in DOMAIN events[e] |-> events[e][i].state]
             n == Len(events[e])
  <2>1. events[e] \in Seq(Said4)
    BY <1>1 DEF FinalTypes
  <2>2. n \in 0..4 /\ DOMAIN events[e] = 1..n /\ \A i \in 1..n : events[e][i].state = Final!Life[i]
    <3>1. n \in Nat /\ DOMAIN events[e] = 1..n
      BY <2>1
    <3>2. n <= 4 /\ \A i \in DOMAIN events[e] : events[e][i].state = Final!Life[i]
      BY <1>1 DEF PublishedOK
    <3> HIDE DEF n
    <3>3. n \in 0..4
      BY <3>1, <3>2
    <3>4. \A i \in 1..n : events[e][i].state = Final!Life[i]
      BY <3>1, <3>2
    <3> QED BY <3>1, <3>3, <3>4
  <2>3. states = [i \in 1..n |-> Final!Life[i]] /\ Len(states) = n /\ Len(Final!Life) = 4
    BY <2>2 DEF Final!Life
  <2>4. /\ e \in acked => n = 4 \/ e \in rejected
        /\ e \in rejected => n \in {0, 2}
    BY <1>1 DEF PublishedOK
  <2>5. n = 4 => states = Final!Life
    BY <2>3 DEF Final!Life
  <2> HIDE DEF n
  <2>6. \A i \in 1..Len(states) : states[i] = Final!Life[i]
    BY <2>3
  <2> HIDE DEF states
  <2>7. Final!IsPrefix(states, Final!Life)
    <3>1. Len(states) \in Nat /\ Len(states) <= Len(Final!Life)
      BY <2>2, <2>3
    <3> QED BY <2>6, <3>1, SamePrefix
  <2>8. /\ Final!IsPrefix(states, Final!Life)
        /\ e \in acked => states = Final!Life \/ e \in rejected
        /\ e \in rejected => Len(states) \in {0, 2}
    BY <2>3, <2>4, <2>5, <2>7
  <2> QED BY <2>8 DEF states
<1>4. Final!RevisionSound
  BY <1>1 DEF PublishedOK, Final!RevisionSound, Revised
<1> QED BY <1>2, <1>3, <1>4 DEF Final!FinalSound

\* For any jobs, texts, batches and faults: the states of a job are published in order,
\* it is acknowledged when its revision is out or it is refused, and the revision keeps
\* the committed text and all of the final chunk (process_message, merge_transcripts).
THEOREM FinalIsSound ==
  ASSUME Final!FinalAssumption
  PROVE  Final!Spec => []FinalSound
<1>1. FinalInv => FinalSound
  BY FinalFromInv DEF FinalSound
<1> QED BY <1>1, FinalAlways, PTL

-----------------------------------------------------------------------------
(* ChunkConsumer.  The invariant adds to ChunkSound what each thread has before *)
(* it: only entries the group handed out, and to acknowledge only one whose    *)
(* message is handled or not valid.                                            *)

LEMMA GroupCounts ==
  /\ \A S : Group!Cardinality(S) = Cardinality(S)
  /\ \A S : Group!IsFiniteSet(S) <=> IsFiniteSet(S)
BY DEF Group!Cardinality, Cardinality, Group!IsFiniteSet, IsFiniteSet

\* The partition a loop goes on with is one of those left.
LEMMA SmallestIn ==
  ASSUME NEW T \in SUBSET Nat, T # {}
  PROVE  Group!Min(T) \in T
BY Least DEF Group!Min

\* The entries the group has handed out.
Delivered == {e \in Partitions \X Nat : 1 <= e[2] /\ e[2] < chunkNext[e[1]]}

\* The streams, and how far they are read and trimmed.
LogOK ==
  /\ stream \in [Partitions -> Seq(Messages)]
  /\ first \in [Partitions -> Nat] /\ chunkNext \in [Partitions -> Nat]
  /\ \A p \in Partitions : first[p] \in 1..(Len(stream[p]) + 1) /\ chunkNext[p] \in 1..(Len(stream[p]) + 1)
  /\ IsFiniteSet(Group!Everything) /\ Cardinality(Group!Everything) <= MaxEntries

\* What the group knows of each entry it handed out.
GroupOK ==
  /\ DOMAIN chunkPending = Partitions /\ DOMAIN chunkAcked = Partitions /\ DOMAIN idle = Partitions
  /\ \A p \in Partitions :
       /\ idle[p] \subseteq chunkPending[p] /\ chunkPending[p] \cap chunkAcked[p] = {}
       /\ chunkPending[p] \cup chunkAcked[p] \subseteq 1..(chunkNext[p] - 1)
       /\ \A i \in 1..(chunkNext[p] - 1) : i \in chunkPending[p] \cup chunkAcked[p] \/ i < first[p]
       /\ \A i \in chunkAcked[p] : stream[p][i] \in BadMessages \cup handled

\* What each thread has before it and remembers; what it acknowledges is done with.
HostsOK ==
  /\ batch \in [Consumers -> Seq(Delivered)] /\ seen \in [Consumers -> Seq(handled)]
  /\ left \in [Consumers -> SUBSET Partitions] /\ loops \in [Consumers -> 0..(ClaimEvery - 1)]
  /\ DOMAIN step = Consumers /\ DOMAIN mode = Consumers
  /\ \A c \in Consumers : Len(seen[c]) <= Capacity
  /\ \A c \in Consumers : step[c] = "ack" => batch[c] # <<>> /\ Group!Message(Head(batch[c])) \in BadMessages \cup handled

ChunkInv == LogOK /\ GroupOK /\ HostsOK

\* A sequence over a set is one over a larger set.
LEMMA SeqGrows ==
  ASSUME NEW S, NEW T, S \subseteq T, NEW s \in Seq(S)
  PROVE  s \in Seq(T)
<1>1. PICK n \in Nat : s \in [1..n -> S]
  BY SeqDef
<1>2. s \in [1..n -> T]
  BY <1>1
<1> QED BY <1>2, SeqDef

\* A stream holds no more entries than all streams together.
LEMMA LogIsBounded ==
  ASSUME Group!ChunkAssumption, LogOK, NEW p \in Partitions
  PROVE  Len(stream[p]) \in 0..MaxEntries
<1> DEFINE n == Len(stream[p])
<1>1. n \in Nat /\ DOMAIN stream[p] = 1..n
  BY DEF LogOK
<1>2. {p} \X (1..n) \subseteq Group!Everything
  BY <1>1 DEF Group!Everything
<1>3. Cardinality({p} \X (1..n)) = n
  <2>1. IsFiniteSet({p}) /\ Cardinality({p}) = 1
    BY FS_Singleton
  <2>2. IsFiniteSet(1..n) /\ Cardinality(1..n) = n
    BY <1>1, FS_Interval
  <2> HIDE DEF n
  <2>3. Cardinality({p} \X (1..n)) = Cardinality({p}) * Cardinality(1..n)
    BY <2>1, <2>2, FS_Product
  <2>4. 1 * n = n
    BY <1>1
  <2> QED BY <2>1, <2>2, <2>3, <2>4
<1>4. n <= Cardinality(Group!Everything) /\ Cardinality(Group!Everything) \in Nat
  <2> HIDE DEF n
  <2>1. Cardinality({p} \X (1..n)) <= Cardinality(Group!Everything)
    BY <1>2, FS_Subset DEF LogOK
  <2> QED BY <1>3, <2>1, FS_CardinalityType DEF LogOK
<1>5. MaxEntries \in Nat /\ Cardinality(Group!Everything) <= MaxEntries
  BY DEF Group!ChunkAssumption, LogOK
<1> HIDE DEF n
<1>6. n \in 0..MaxEntries
  BY <1>1, <1>4, <1>5
<1> QED BY <1>6 DEF n

\* The entries handed out together are a sequence of these entries.
LEMMA OrderedIsSeq ==
  ASSUME NEW entries, IsFiniteSet(entries), NEW given \in Group!InOrder(entries)
  PROVE  given \in Seq(entries)
<1>1. Cardinality(entries) \in Nat /\ given \in [1..Cardinality(entries) -> entries]
  BY FS_CardinalityType, GroupCounts DEF Group!InOrder
<1> QED BY <1>1, SeqDef

\* _LruSeenSet stays within its capacity and remembers nothing it was not given.
LEMMA RememberKeeps ==
  ASSUME Group!ChunkAssumption, NEW S, NEW lru \in Seq(S), NEW m \in S, Len(lru) <= Capacity
  PROVE  Group!Remember(lru, m) \in Seq(S) /\ Len(Group!Remember(lru, m)) <= Capacity
<1> DEFINE i == CHOOSE j \in DOMAIN lru : lru[j] = m
           others == IF m \in Group!ToSet(lru) THEN Group!RemoveAt(lru, i) ELSE lru
           kept == Append(others, m)
           n == Len(lru)
<1>1. n \in Nat /\ Capacity \in Nat /\ n <= Capacity
  BY DEF Group!ChunkAssumption
<1>2. others \in Seq(S) /\ Len(others) \in Nat /\ Len(others) <= n /\ (others # lru => Len(others) = n - 1)
  <2>1. CASE m \in Group!ToSet(lru)
    <3>1. i \in 1..n
      BY <2>1 DEF Group!ToSet
    <3> HIDE DEF i
    <3> DEFINE a == SubSeq(lru, 1, i - 1)
               b == SubSeq(lru, i + 1, n)
    <3>2. a \in Seq(S) /\ Len(a) = i - 1
      BY <1>1, <3>1
    <3>3. b \in Seq(S) /\ Len(b) = n - i
      BY <1>1, <3>1
    <3> HIDE DEF a, b
    <3>4. a \o b \in Seq(S) /\ Len(a \o b) = n - 1
      BY <1>1, <3>1, <3>2, <3>3
    <3>5. others = a \o b
      BY <2>1 DEF Group!RemoveAt, a, b
    <3>6. others \in Seq(S) /\ Len(others) = n - 1
      BY <3>4, <3>5
    <3> HIDE DEF others, n
    <3> QED BY <1>1, <3>1, <3>6
  <2>2. CASE m \notin Group!ToSet(lru)
    BY <1>1, <2>2
  <2> QED BY <2>1, <2>2
<1>3. Group!Remember(lru, m) = IF Len(kept) > Capacity THEN Tail(kept) ELSE kept
  BY DEF Group!Remember
<1> HIDE DEF others
<1>4. kept \in Seq(S) /\ Len(kept) = Len(others) + 1 /\ kept # <<>>
  BY <1>2
<1> HIDE DEF kept
<1>5. Len(kept) > Capacity => Tail(kept) \in Seq(S) /\ Len(Tail(kept)) = Len(kept) - 1
  BY <1>4
<1> QED BY <1>1, <1>2, <1>3, <1>4, <1>5

-----------------------------------------------------------------------------
LEMMA PublishKeeps ==
  ASSUME Group!ChunkAssumption, ChunkInv, NEW m \in Messages, Group!Publish(m)
  PROVE  ChunkInv'
<1> DEFINE p == PartitionOf[m]
           n == Len(stream[p])
<1>1. /\ LogOK /\ GroupOK /\ HostsOK /\ p \in Partitions /\ MaxEntries \in Nat
  BY DEF ChunkInv, Group!ChunkAssumption
<1>2. /\ Cardinality(Group!Everything) < MaxEntries /\ stream' = [stream EXCEPT ![p] = Append(@, m)]
      /\ UNCHANGED <<first, chunkNext, chunkPending, idle, chunkAcked, handled, step, mode, batch, left, loops, seen>>
  BY GroupCounts DEF Group!Publish, Group!thread
<1>3. /\ n \in Nat /\ stream[p] \in Seq(Messages)
  BY <1>1 DEF LogOK
<1> HIDE DEF p
<1>4. /\ stream' \in [Partitions -> Seq(Messages)]
      /\ stream'[p] = Append(stream[p], m) /\ Len(stream'[p]) = n + 1
      /\ \A q \in Partitions : q # p => stream'[q] = stream[q]
      /\ \A i \in 1..n : stream'[p][i] = stream[p][i]
  BY <1>1, <1>2, <1>3 DEF LogOK
<1>5. Group!Everything' \subseteq Group!Everything \cup {<<p, n + 1>>}
  <2>1. DOMAIN stream'[p] = DOMAIN stream[p] \cup {n + 1}
    BY <1>3, <1>4
  <2> QED BY <1>4, <2>1 DEF Group!Everything
<1>6. IsFiniteSet(Group!Everything') /\ Cardinality(Group!Everything') <= MaxEntries
  <2> DEFINE more == Group!Everything \cup {<<p, n + 1>>}
  <2>0. IsFiniteSet(Group!Everything) /\ Cardinality(Group!Everything) \in Nat
    BY <1>1, FS_CardinalityType DEF LogOK
  <2>1. IsFiniteSet(more) /\ Cardinality(more) <= Cardinality(Group!Everything) + 1 /\ Cardinality(Group!Everything) \in Nat
    <3>1. /\ IsFiniteSet(more)
          /\ Cardinality(more) \in {Cardinality(Group!Everything), Cardinality(Group!Everything) + 1}
      BY <2>0, FS_AddElement
    <3> QED BY <2>0, <3>1
  <2>2. IsFiniteSet(Group!Everything') /\ Cardinality(Group!Everything') <= Cardinality(more)
    BY <1>5, <2>1, FS_Subset
  <2>3. Cardinality(Group!Everything') \in Nat /\ Cardinality(more) \in Nat
    BY <2>1, <2>2, FS_CardinalityType
  <2> QED BY <1>1, <1>2, <2>1, <2>2, <2>3
<1>7. \A q \in Partitions : Len(stream[q]) \in Nat /\ Len(stream'[q]) \in {Len(stream[q]), Len(stream[q]) + 1}
  <2> SUFFICES ASSUME NEW q \in Partitions
               PROVE  Len(stream[q]) \in Nat /\ Len(stream'[q]) \in {Len(stream[q]), Len(stream[q]) + 1}
    OBVIOUS
  <2>1. Len(stream[q]) \in Nat
    BY <1>1 DEF LogOK
  <2>2. CASE q = p
    BY <1>4, <2>1, <2>2
  <2>3. CASE q # p
    BY <1>4, <2>1, <2>3
  <2> QED BY <2>2, <2>3
<1>8. LogOK'
  <2>1. \A q \in Partitions : first'[q] \in 1..(Len(stream'[q]) + 1) /\ chunkNext'[q] \in 1..(Len(stream'[q]) + 1)
    BY <1>1, <1>2, <1>7 DEF LogOK
  <2> QED BY <1>1, <1>2, <1>4, <1>6, <2>1 DEF LogOK
<1>9. \A q \in Partitions : \A i \in 1..(chunkNext[q] - 1) : stream'[q][i] = stream[q][i]
  <2>1. \A q \in Partitions : chunkNext[q] - 1 <= Len(stream[q]) /\ chunkNext[q] \in Nat
    BY <1>1, <1>7 DEF LogOK
  <2>2. ASSUME NEW i \in 1..(chunkNext[p] - 1) PROVE i \in 1..n
    BY <1>1, <1>3, <2>1, <2>2
  <2> QED BY <1>4, <2>2
<1>10. GroupOK'
  <2> USE DEF GroupOK
  <2>1. \A q \in Partitions : \A i \in chunkAcked[q] : stream'[q][i] = stream[q][i]
    BY <1>1, <1>9
  <2> QED BY <1>1, <1>2, <2>1
<1>11. Delivered' = Delivered
  BY <1>2 DEF Delivered
<1>12. \A e \in Delivered : Group!Message(e)' = Group!Message(e)
  <2> SUFFICES ASSUME NEW e \in Delivered PROVE Group!Message(e)' = Group!Message(e)
    OBVIOUS
  <2>1. e[1] \in Partitions /\ e[2] \in Nat /\ 1 <= e[2] /\ e[2] < chunkNext[e[1]]
    BY DEF Delivered
  <2>2. chunkNext[e[1]] \in Nat
    BY <1>1, <2>1 DEF LogOK
  <2>3. e[2] \in 1..(chunkNext[e[1]] - 1)
    BY <2>1, <2>2
  <2> QED BY <1>9, <2>1, <2>3 DEF Group!Message
<1>13. HostsOK'
  <2>1. \A c \in Consumers : batch[c] # <<>> => Head(batch[c]) \in Delivered
    BY <1>1 DEF HostsOK
  <2>2. \A c \in Consumers : step'[c] = "ack" => batch'[c] # <<>> /\ Group!Message(Head(batch[c]))' \in BadMessages \cup handled'
    <3> SUFFICES ASSUME NEW c \in Consumers, step[c] = "ack"
                 PROVE  batch[c] # <<>> /\ stream'[Head(batch[c])[1]][Head(batch[c])[2]] \in BadMessages \cup handled
      BY <1>2 DEF Group!Message
    <3>1. batch[c] # <<>> /\ Group!Message(Head(batch[c])) \in BadMessages \cup handled /\ Head(batch[c]) \in Delivered
      BY <1>1, <2>1 DEF HostsOK
    <3> QED BY <1>12, <3>1 DEF Group!Message
  <2> QED BY <1>1, <1>2, <1>11, <2>2 DEF HostsOK
<1> QED BY <1>8, <1>10, <1>13 DEF ChunkInv

\* A thread that takes over entries of the group.
LEMMA TakesOver ==
  ASSUME HostsOK, NEW c \in Consumers, NEW given \in Seq(Delivered'), Delivered \subseteq Delivered',
         batch' = [batch EXCEPT ![c] = given], step[c] # "ack",
         step' \in {step, [step EXCEPT ![c] = "run"]}, DOMAIN mode' = Consumers,
         left' \in [Consumers -> SUBSET Partitions], UNCHANGED <<stream, handled, loops, seen>>
  PROVE  HostsOK'
<1>1. batch' \in [Consumers -> Seq(Delivered')]
  <2>1. \A d \in Consumers : batch[d] \in Seq(Delivered')
    <3> SUFFICES ASSUME NEW d \in Consumers PROVE batch[d] \in Seq(Delivered')
      OBVIOUS
    <3>1. batch[d] \in Seq(Delivered)
      BY DEF HostsOK
    <3> HIDE DEF Delivered
    <3> QED BY <3>1, SeqGrows
  <2> QED BY <2>1 DEF HostsOK
<1>2. \A d \in Consumers : step'[d] = "ack" => step[d] = "ack" /\ batch'[d] = batch[d]
  BY DEF HostsOK
<1> QED BY <1>1, <1>2 DEF HostsOK, Group!Message

LEMMA ReadKeeps ==
  ASSUME Group!ChunkAssumption, ChunkInv, NEW c \in Consumers, Group!Read(c)
  PROVE  ChunkInv'
<1> DEFINE all == UNION {{p} \X Group!Fresh(p) : p \in Partitions}
<1>1. LogOK /\ GroupOK /\ HostsOK
  BY DEF ChunkInv
<1>2. PICK given \in Group!InOrder(all) : batch' = [batch EXCEPT ![c] = given]
  BY DEF Group!Read
<1>3. /\ step[c] = "read"
      /\ chunkNext' = [p \in Partitions |-> IF Group!Fresh(p) = {} THEN chunkNext[p] ELSE 1 + Group!Max(Group!Fresh(p))]
      /\ chunkPending' = [p \in Partitions |-> chunkPending[p] \cup Group!Fresh(p)]
      /\ left' = [left EXCEPT ![c] = {p \in Partitions : Group!Fresh(p) # {}}]
      /\ step' = [step EXCEPT ![c] = "run"] /\ mode' = [mode EXCEPT ![c] = "trim"]
      /\ UNCHANGED <<stream, first, idle, chunkAcked, handled, loops, seen>>
  BY DEF Group!Read, Group!GoTo
<1>4. ASSUME NEW p \in Partitions
      PROVE  /\ Group!Fresh(p) \subseteq chunkNext[p]..Len(stream[p])
             /\ chunkNext'[p] \in chunkNext[p]..(Len(stream[p]) + 1)
             /\ Group!Fresh(p) \subseteq 1..(chunkNext'[p] - 1)
             /\ \A i \in 1..(chunkNext'[p] - 1) : i < chunkNext[p] \/ i \in Group!Fresh(p) \/ i < first[p]
  <2> DEFINE n == Len(stream[p])
             open == {i \in chunkNext[p]..n : i >= first[p]}
  <2>1. n \in Nat /\ chunkNext[p] \in 1..(n + 1) /\ first[p] \in Nat /\ ChunkBatch \in Nat
    BY <1>1 DEF LogOK, Group!ChunkAssumption
  <2>2. Group!Fresh(p) = {i \in open : Cardinality({j \in open : j < i}) < ChunkBatch}
    BY GroupCounts DEF Group!Fresh, Group!Oldest
  <2>3. open \subseteq chunkNext[p]..n
    OBVIOUS
  <2>4. CASE Group!Fresh(p) = {}
    <3>1. chunkNext'[p] = chunkNext[p]
      BY <1>3, <2>4
    <3> QED BY <2>1, <2>4, <3>1
  <2>5. CASE Group!Fresh(p) # {}
    <3> DEFINE m == Group!Max(Group!Fresh(p))
    <3>1. Group!Fresh(p) \in SUBSET (0..n) /\ Group!Fresh(p) \subseteq chunkNext[p]..n
      BY <2>1, <2>2
    <3>2. m \in Group!Fresh(p) /\ \A x \in Group!Fresh(p) : m >= x
      BY <2>1, <2>5, <3>1, Greatest DEF Group!Max
    <3>3. chunkNext'[p] = 1 + m
      BY <1>3, <2>5
    <3> HIDE DEF m, n
    <3>4. m \in chunkNext[p]..n
      BY <3>1, <3>2
    <3>5. Group!Fresh(p) \subseteq 1..(chunkNext'[p] - 1)
      BY <2>1, <3>1, <3>2, <3>3, <3>4
    <3>6. ASSUME NEW i \in 1..(chunkNext'[p] - 1), i >= chunkNext[p], i >= first[p] PROVE i \in Group!Fresh(p)
      <4>1. i \in chunkNext[p]..n /\ i <= m
        BY <2>1, <3>3, <3>4, <3>6
      <4>2. i \in open
        BY <3>6, <4>1
      <4>3. {j \in open : j < i} \subseteq {j \in open : j < m}
        <5>1. \A j \in open : j < i => j < m
          BY <2>1, <2>3, <4>1, <3>4
        <5> QED BY <5>1
      <4>4. IsFiniteSet({j \in open : j < m})
        <5>1. IsFiniteSet(chunkNext[p]..n)
          <6>1. chunkNext[p] \in Int /\ n \in Int
            BY <2>1
          <6> QED BY <6>1, FS_Interval
        <5>2. {j \in open : j < m} \subseteq chunkNext[p]..n
          OBVIOUS
        <5> QED BY <5>1, <5>2, FS_Subset
      <4>5. /\ Cardinality({j \in open : j < i}) <= Cardinality({j \in open : j < m})
            /\ IsFiniteSet({j \in open : j < i})
        BY <4>3, <4>4, FS_Subset
      <4>6. Cardinality({j \in open : j < m}) < ChunkBatch
        BY <2>2, <3>2
      <4>7. Cardinality({j \in open : j < i}) \in Nat /\ Cardinality({j \in open : j < m}) \in Nat
        BY <4>4, <4>5, FS_CardinalityType
      <4>8. Cardinality({j \in open : j < i}) < ChunkBatch
        BY <2>1, <4>5, <4>6, <4>7
      <4> QED BY <2>2, <4>2, <4>8
    <3>7. chunkNext'[p] \in chunkNext[p]..(n + 1)
      BY <2>1, <3>3, <3>4
    <3>8. \A i \in 1..(chunkNext'[p] - 1) : i < chunkNext[p] \/ i \in Group!Fresh(p) \/ i < first[p]
      BY <2>1, <3>6, <3>7
    <3> QED BY <3>1, <3>5, <3>7, <3>8 DEF n
  <2> QED BY <2>4, <2>5
<1>5. LogOK'
  <2>1. Group!Everything' = Group!Everything
    BY <1>3 DEF Group!Everything
  <2>2. \A p \in Partitions : chunkNext'[p] \in 1..(Len(stream[p]) + 1) /\ chunkNext'[p] \in Nat /\ DOMAIN chunkNext' = Partitions
    <3> SUFFICES ASSUME NEW p \in Partitions PROVE chunkNext'[p] \in 1..(Len(stream[p]) + 1)
      BY <1>3
    <3>1. chunkNext'[p] \in chunkNext[p]..(Len(stream[p]) + 1) /\ chunkNext[p] \in 1..(Len(stream[p]) + 1) /\ Len(stream[p]) \in Nat
      BY <1>1, <1>4 DEF LogOK
    <3> QED BY <3>1
  <2>3. chunkNext' \in [Partitions -> Nat]
    BY <1>3, <2>2
  <2> QED BY <1>1, <1>3, <2>1, <2>2, <2>3 DEF LogOK
<1>6. GroupOK'
  <2>1. ASSUME NEW p \in Partitions
        PROVE  /\ idle'[p] \subseteq chunkPending'[p] /\ chunkPending'[p] \cap chunkAcked'[p] = {}
               /\ chunkPending'[p] \cup chunkAcked'[p] \subseteq 1..(chunkNext'[p] - 1)
               /\ \A i \in 1..(chunkNext'[p] - 1) : i \in chunkPending'[p] \cup chunkAcked'[p] \/ i < first'[p]
               /\ \A i \in chunkAcked'[p] : stream'[p][i] \in BadMessages \cup handled'
    <3>1. chunkPending'[p] = chunkPending[p] \cup Group!Fresh(p) /\ chunkAcked'[p] = chunkAcked[p] /\ idle'[p] = idle[p]
      BY <1>3
    <3>2. chunkNext[p] \in Nat /\ Len(stream[p]) \in Nat /\ chunkNext'[p] \in Nat /\ chunkNext[p] <= chunkNext'[p]
      <4>1. chunkNext[p] \in Nat /\ Len(stream[p]) \in Nat
        BY <1>1 DEF LogOK
      <4> QED BY <1>4, <4>1
    <3>3. Group!Fresh(p) \cap chunkAcked[p] = {}
      BY <1>1, <1>4, <3>2 DEF GroupOK
    <3>4. 1..(chunkNext[p] - 1) \subseteq 1..(chunkNext'[p] - 1)
      BY <3>2
    <3>5. chunkPending'[p] \cup chunkAcked'[p] \subseteq 1..(chunkNext'[p] - 1)
      BY <1>1, <1>4, <3>1, <3>4 DEF GroupOK
    <3>6. ASSUME NEW i \in 1..(chunkNext'[p] - 1) PROVE i \in chunkPending'[p] \cup chunkAcked'[p] \/ i < first'[p]
      <4>1. CASE i < chunkNext[p]
        <5>1. i \in 1..(chunkNext[p] - 1)
          BY <3>2, <4>1
        <5> QED BY <1>1, <1>3, <3>1, <5>1 DEF GroupOK
      <4>2. CASE i \in Group!Fresh(p) \/ i < first[p]
        BY <1>3, <3>1, <4>2
      <4> QED BY <1>4, <4>1, <4>2
    <3> QED BY <1>1, <1>3, <3>1, <3>3, <3>5, <3>6 DEF GroupOK
  <2>2. DOMAIN chunkPending' = Partitions /\ DOMAIN chunkAcked' = Partitions /\ DOMAIN idle' = Partitions
    BY <1>1, <1>3 DEF GroupOK
  <2> QED BY <2>1, <2>2 DEF GroupOK
<1>7. Delivered \subseteq Delivered' /\ all \subseteq Delivered' /\ all \subseteq Group!Everything
  <2>1. \A p \in Partitions : chunkNext[p] \in Nat /\ Len(stream[p]) \in Nat /\ DOMAIN stream[p] = 1..Len(stream[p]) /\ chunkNext[p] >= 1
    BY <1>1 DEF LogOK
  <2>2. \A p \in Partitions : chunkNext'[p] \in Nat /\ chunkNext[p] <= chunkNext'[p]
    BY <1>4, <2>1
  <2>3. Delivered \subseteq Delivered'
    BY <2>1, <2>2 DEF Delivered
  <2>4. ASSUME NEW e \in all PROVE e \in Delivered' /\ e \in Group!Everything
    <3>1. PICK p \in Partitions : e \in {p} \X Group!Fresh(p)
      OBVIOUS
    <3>2. e = <<p, e[2]>> /\ e[2] \in Group!Fresh(p)
      BY <3>1
    <3>3. e[2] \in 1..(chunkNext'[p] - 1) /\ e[2] \in DOMAIN stream[p]
      BY <1>4, <2>1, <3>2
    <3>4. e \in Group!Everything
      BY <3>2, <3>3 DEF Group!Everything
    <3>5. e \in Partitions \X Nat /\ 1 <= e[2] /\ e[2] < chunkNext'[e[1]]
      BY <2>2, <3>2, <3>3
    <3> QED BY <3>4, <3>5 DEF Delivered
  <2> HIDE DEF all
  <2> QED BY <2>3, <2>4
<1>8. given \in Seq(Delivered')
  <2> HIDE DEF all, Delivered
  <2>1. IsFiniteSet(all)
    BY <1>1, <1>7, FS_Subset DEF LogOK
  <2>2. given \in Seq(all)
    BY <2>1, OrderedIsSeq
  <2> QED BY <1>7, <2>2, SeqGrows
<1>9. HostsOK'
  <2>1. left' \in [Consumers -> SUBSET Partitions] /\ DOMAIN mode' = Consumers
    BY <1>1, <1>3 DEF HostsOK
  <2>2. step[c] # "ack" /\ step' \in {step, [step EXCEPT ![c] = "run"]} /\ UNCHANGED <<stream, handled, loops, seen>>
    BY <1>3
  <2> HIDE DEF all, Delivered
  <2> QED BY <1>1, <1>2, <1>7, <1>8, <2>1, <2>2, TakesOver
<1> QED BY <1>5, <1>6, <1>9 DEF ChunkInv

\* Steps that leave the streams and the group as they are.
LEMMA QuietKeeps ==
  ASSUME LogOK, GroupOK, HostsOK', UNCHANGED Group!redis, handled \subseteq handled'
  PROVE  ChunkInv'
<1>1. LogOK' /\ Delivered' = Delivered
  BY DEF LogOK, Group!Everything, Group!redis, Delivered
<1>2. GroupOK'
  BY DEF GroupOK, Group!redis
<1> QED BY <1>1, <1>2 DEF ChunkInv

LEMMA WorkKeeps ==
  ASSUME Group!ChunkAssumption, ChunkInv, NEW c \in Consumers, Group!Invalid(c) \/ Group!Duplicate(c) \/ Group!Handle(c)
  PROVE  ChunkInv'
<1> DEFINE m == Group!Message(Head(batch[c]))
<1>1. LogOK /\ GroupOK /\ HostsOK
  BY DEF ChunkInv
<1>2. /\ UNCHANGED <<Group!redis, mode, left, loops>> /\ step[c] = "run" /\ batch[c] # <<>>
  BY DEF Group!Invalid, Group!Duplicate, Group!Handle
<1>3. Delivered' = Delivered /\ \A e : Group!Message(e)' = Group!Message(e)
  BY <1>2 DEF Delivered, Group!Message, Group!redis
<1>4. batch[c] \in Seq(Delivered) /\ Tail(batch[c]) \in Seq(Delivered) /\ seen[c] \in Seq(handled)
      /\ Len(seen[c]) <= Capacity
  BY <1>1, <1>2 DEF HostsOK
<1>5. ASSUME UNCHANGED <<handled, batch>>, NEW lru \in Seq(handled), Len(lru) <= Capacity,
             seen' = [seen EXCEPT ![c] = lru], step' = [step EXCEPT ![c] = "ack"], m \in BadMessages \cup handled
      PROVE  ChunkInv'
  <2>1. HostsOK'
    BY <1>1, <1>2, <1>3, <1>5 DEF HostsOK
  <2> QED BY <1>1, <1>2, <1>5, <2>1, QuietKeeps
<1>6. CASE Group!Invalid(c)
  <2>1. /\ UNCHANGED <<handled, batch, seen>> /\ step' = [step EXCEPT ![c] = "ack"] /\ m \in BadMessages
    BY <1>6 DEF Group!Invalid, Group!GoTo
  <2>2. seen' = [seen EXCEPT ![c] = seen[c]]
    BY <1>1, <2>1 DEF HostsOK
  <2> QED BY <1>4, <1>5, <2>1, <2>2
<1>7. CASE Group!Duplicate(c)
  <2>1. /\ UNCHANGED <<handled, batch>> /\ step' = [step EXCEPT ![c] = "ack"] /\ m \in Group!ToSet(seen[c])
        /\ seen' = [seen EXCEPT ![c] = Group!Remember(seen[c], m)]
    BY <1>1, <1>7 DEF Group!Duplicate, Group!GoTo, HostsOK
  <2>2. m \in handled
    BY <1>4, <2>1 DEF Group!ToSet
  <2> HIDE DEF m
  <2>3. Group!Remember(seen[c], m) \in Seq(handled) /\ Len(Group!Remember(seen[c], m)) <= Capacity
    BY <1>4, <2>2, RememberKeeps
  <2> HIDE DEF Group!Message
  <2> QED BY <1>5, <2>1, <2>2, <2>3
<1>8. CASE /\ handled' = handled \cup {m} /\ step' = [step EXCEPT ![c] = "ack"] /\ UNCHANGED batch
           /\ seen' = [seen EXCEPT ![c] = Group!RememberedAfter(c, m, TRUE)]
  <2>1. UNCHANGED batch /\ seen' = [seen EXCEPT ![c] = Group!Remember(seen[c], m)]
    BY <1>8 DEF Group!RememberedAfter
  <2> HIDE DEF m
  <2>2. seen[c] \in Seq(handled')
    BY <1>4, <1>8, SeqGrows
  <2>3. Group!Remember(seen[c], m) \in Seq(handled') /\ Len(Group!Remember(seen[c], m)) <= Capacity
    BY <1>4, <1>8, <2>2, RememberKeeps
  <2>4. \A d \in Consumers : seen[d] \in Seq(handled')
    <3> SUFFICES ASSUME NEW d \in Consumers PROVE seen[d] \in Seq(handled')
      OBVIOUS
    <3>1. seen[d] \in Seq(handled)
      BY <1>1 DEF HostsOK
    <3> QED BY <1>8, <3>1, SeqGrows
  <2>5. HostsOK'
    <3> DEFINE lru == Group!Remember(seen[c], m)
    <3>1. lru \in Seq(handled') /\ Len(lru) <= Capacity /\ seen' = [seen EXCEPT ![c] = lru]
      BY <2>1, <2>3
    <3> HIDE DEF lru
    <3>2. seen' \in [Consumers -> Seq(handled')] /\ \A d \in Consumers : Len(seen'[d]) <= Capacity
      BY <1>1, <2>4, <3>1 DEF HostsOK
    <3>3. \A d \in Consumers :
            step'[d] = "ack" => batch[d] # <<>> /\ Group!Message(Head(batch[d])) \in BadMessages \cup handled'
      BY <1>1, <1>2, <1>8 DEF HostsOK, m
    <3>4. \A d \in Consumers : Group!Message(Head(batch[d]))' = Group!Message(Head(batch[d]))
      BY <1>2, <2>1 DEF Group!Message, Group!redis
    <3> QED BY <1>1, <1>2, <1>3, <1>8, <2>1, <3>2, <3>3, <3>4 DEF HostsOK
  <2> QED BY <1>1, <1>2, <1>8, <2>5, QuietKeeps
<1>9. CASE /\ UNCHANGED <<handled, step>> /\ batch' = [batch EXCEPT ![c] = Tail(@)]
           /\ seen' = [seen EXCEPT ![c] = Group!RememberedAfter(c, m, FALSE)]
  <2>1. seen' = seen
    BY <1>1, <1>9 DEF Group!RememberedAfter, HostsOK
  <2>2. HostsOK'
    BY <1>1, <1>2, <1>3, <1>4, <1>9, <2>1 DEF HostsOK
  <2> QED BY <1>1, <1>2, <1>9, <2>2, QuietKeeps
<1> QED BY <1>6, <1>7, <1>8, <1>9 DEF Group!Handle, Group!GoTo

LEMMA AckKeeps ==
  ASSUME Group!ChunkAssumption, ChunkInv, NEW c \in Consumers, Group!Ack(c)
  PROVE  ChunkInv'
<1> DEFINE e == Head(batch[c])
           q == e[1]
           i == e[2]
<1>1. LogOK /\ GroupOK /\ HostsOK
  BY DEF ChunkInv
<1>2. /\ step[c] = "ack"
      /\ chunkPending' = [chunkPending EXCEPT ![q] = @ \ {i}]
      /\ idle' = [idle EXCEPT ![q] = @ \ {i}]
      /\ chunkAcked' = [chunkAcked EXCEPT ![q] = @ \cup {i}]
      /\ batch' = [batch EXCEPT ![c] = Tail(@)] /\ step' = [step EXCEPT ![c] = "run"]
      /\ UNCHANGED <<stream, first, chunkNext, handled, mode, left, loops, seen>>
  BY DEF Group!Ack, Group!GoTo
<1>3. /\ batch[c] \in Seq(Delivered) /\ batch[c] # <<>> /\ Group!Message(e) \in BadMessages \cup handled
  BY <1>1, <1>2 DEF HostsOK
<1>4. e \in Delivered /\ Tail(batch[c]) \in Seq(Delivered)
  BY <1>3
<1>5. q \in Partitions /\ i \in 1..(chunkNext[q] - 1) /\ stream[q][i] \in BadMessages \cup handled
  BY <1>1, <1>3, <1>4 DEF Delivered, Group!Message, LogOK
<1>6. LogOK' /\ Delivered' = Delivered
  BY <1>1, <1>2 DEF LogOK, Group!Everything, Delivered
<1> HIDE DEF e, q, i
<1>7. GroupOK'
  BY <1>1, <1>2, <1>5 DEF GroupOK
<1>8. HostsOK'
  BY <1>1, <1>2, <1>4, <1>6 DEF HostsOK, Group!Message
<1> QED BY <1>6, <1>7, <1>8 DEF ChunkInv

LEMMA TrimKeeps ==
  ASSUME Group!ChunkAssumption, ChunkInv, NEW c \in Consumers, Group!Trim(c)
  PROVE  ChunkInv'
<1> DEFINE p == Group!Min(left[c])
           n == Len(stream[p])
           upto == Group!Max({first[p], 1 + n - TrimMaxLen})
<1>1. LogOK /\ GroupOK /\ HostsOK
  BY DEF ChunkInv
<1>2. /\ left[c] # {} /\ left' = [left EXCEPT ![c] = @ \ {p}]
      /\ first' \in {[first EXCEPT ![p] = i] : i \in first[p]..upto}
      /\ UNCHANGED <<stream, chunkNext, chunkPending, idle, chunkAcked, handled, step, mode, batch, loops, seen>>
  BY DEF Group!Trim
<1>3. p \in Partitions
  <2>1. left[c] \in SUBSET Partitions /\ Partitions \subseteq Nat
    BY <1>1 DEF HostsOK, Group!ChunkAssumption
  <2>2. Group!Min(left[c]) \in left[c]
    BY <1>2, <2>1, SmallestIn
  <2> QED BY <2>1, <2>2
<1> HIDE DEF p
<1>4. n \in Nat /\ first[p] \in 1..(n + 1) /\ TrimMaxLen \in Nat
  BY <1>1, <1>3 DEF LogOK, Group!ChunkAssumption
<1>5. upto \in {first[p], 1 + n - TrimMaxLen}
  <2> DEFINE T == {first[p], 1 + n - TrimMaxLen}
  <2>1. \E x \in T : \A y \in T : x >= y
    <3> HIDE DEF n
    <3>1. CASE first[p] >= 1 + n - TrimMaxLen
      BY <1>4, <3>1
    <3>2. CASE ~(first[p] >= 1 + n - TrimMaxLen)
      BY <1>4, <3>2
    <3> QED BY <3>1, <3>2
  <2> HIDE DEF T
  <2>2. Group!Max(T) \in T
    BY <2>1 DEF Group!Max
  <2> QED BY <2>2 DEF T
<1> HIDE DEF upto, n
<1>6. PICK i \in first[p]..upto : first' = [first EXCEPT ![p] = i]
  BY <1>2
<1>7. i \in 1..(n + 1) /\ first[p] <= i /\ i \in Nat
  BY <1>4, <1>5
<1>8. LogOK'
  BY <1>1, <1>2, <1>3, <1>6, <1>7 DEF LogOK, Group!Everything, n
<1>9. GroupOK'
  <2>1. \A q \in Partitions : \A j \in Nat : j < first[q] => j < first'[q]
    BY <1>1, <1>3, <1>4, <1>6, <1>7 DEF LogOK
  <2>2. \A q \in Partitions : chunkNext[q] \in Nat
    BY <1>1 DEF LogOK
  <2> QED BY <1>1, <1>2, <2>1, <2>2 DEF GroupOK
<1>10. HostsOK'
  <2>1. Delivered' = Delivered
    BY <1>2 DEF Delivered
  <2> QED BY <1>1, <1>2, <2>1 DEF HostsOK, Group!Message
<1> QED BY <1>8, <1>9, <1>10 DEF ChunkInv

LEMMA ClaimKeeps ==
  ASSUME Group!ChunkAssumption, ChunkInv, NEW c \in Consumers, Group!Claim(c)
  PROVE  ChunkInv'
<1> DEFINE p == Group!Min(left[c])
           gone == {i \in idle[p] : i < first[p]}
           mine == Group!Oldest(Group!StaleEntries(p), ChunkBatch)
<1>1. LogOK /\ GroupOK /\ HostsOK
  BY DEF ChunkInv
<1>2. /\ left[c] # {} /\ left' = [left EXCEPT ![c] = @ \ {p}] /\ step[c] = "run"
      /\ chunkPending' = [chunkPending EXCEPT ![p] = @ \ gone]
      /\ idle' = [idle EXCEPT ![p] = @ \ (gone \cup mine)]
      /\ UNCHANGED <<stream, first, chunkNext, chunkAcked, handled, step, mode, loops, seen>>
  BY DEF Group!Claim
<1>3. PICK given \in Group!InOrder({p} \X mine) : batch' = [batch EXCEPT ![c] = given]
  BY DEF Group!Claim
<1>4. p \in Partitions
  <2>1. left[c] \in SUBSET Partitions /\ Partitions \subseteq Nat
    BY <1>1 DEF HostsOK, Group!ChunkAssumption
  <2>2. Group!Min(left[c]) \in left[c]
    BY <1>2, <2>1, SmallestIn
  <2> QED BY <2>1, <2>2
<1>5. mine \subseteq idle[p]
  BY DEF Group!Oldest, Group!StaleEntries
<1> HIDE DEF p
<1>6. idle[p] \subseteq 1..(chunkNext[p] - 1) /\ chunkNext[p] \in 1..(Len(stream[p]) + 1) /\ Len(stream[p]) \in Nat
      /\ DOMAIN stream[p] = 1..Len(stream[p])
  BY <1>1, <1>4 DEF GroupOK, LogOK
<1> HIDE DEF mine
<1>7. LogOK' /\ Delivered' = Delivered
  BY <1>1, <1>2 DEF LogOK, Group!Everything, Delivered
<1>8. GroupOK'
  <2>1. \A i \in gone : i < first[p]
    OBVIOUS
  <2> HIDE DEF gone
  <2> QED BY <1>1, <1>2, <1>4, <2>1 DEF GroupOK
<1>9. {p} \X mine \subseteq Delivered /\ {p} \X mine \subseteq Group!Everything
  <2>1. ASSUME NEW i \in mine PROVE <<p, i>> \in Delivered /\ <<p, i>> \in Group!Everything
    <3>1. i \in 1..(chunkNext[p] - 1) /\ i \in DOMAIN stream[p]
      BY <1>5, <1>6
    <3>2. <<p, i>> \in Group!Everything
      BY <1>4, <3>1 DEF Group!Everything
    <3>3. <<p, i>> \in Delivered
      BY <1>4, <1>6, <3>1 DEF Delivered
    <3> QED BY <3>2, <3>3
  <2> QED BY <2>1
<1>10. given \in Seq(Delivered')
  <2>1. IsFiniteSet({p} \X mine)
    BY <1>1, <1>9, FS_Subset DEF LogOK
  <2>2. given \in Seq({p} \X mine)
    BY <1>3, <2>1, OrderedIsSeq
  <2> HIDE DEF Delivered
  <2>3. given \in Seq(Delivered)
    BY <1>9, <2>2, SeqGrows
  <2> QED BY <1>7, <2>3
<1>11. HostsOK'
  <2>1. left' \in [Consumers -> SUBSET Partitions] /\ DOMAIN mode' = Consumers
    BY <1>1, <1>2 DEF HostsOK
  <2>2. step[c] # "ack" /\ step' \in {step, [step EXCEPT ![c] = "run"]} /\ UNCHANGED <<stream, handled, loops, seen>>
    BY <1>2
  <2>3. Delivered \subseteq Delivered'
    BY <1>7
  <2> HIDE DEF Delivered
  <2> QED BY <1>1, <1>3, <1>10, <2>1, <2>2, <2>3, TakesOver
<1> QED BY <1>7, <1>8, <1>11 DEF ChunkInv

LEMMA RestKeeps ==
  ASSUME Group!ChunkAssumption, ChunkInv, NEW c \in Consumers, Group!EndLoop(c) \/ Group!Die(c) \/ Group!Start(c)
  PROVE  ChunkInv'
<1>1. LogOK /\ GroupOK /\ HostsOK /\ ClaimEvery \in Nat \ {0} /\ Capacity \in Nat
  BY DEF ChunkInv, Group!ChunkAssumption
<1>2. UNCHANGED <<Group!redis, handled>>
  BY DEF Group!EndLoop, Group!Die, Group!Start
<1>3. Delivered' = Delivered /\ \A e : Group!Message(e)' = Group!Message(e)
  BY <1>2 DEF Delivered, Group!Message, Group!redis
<1>4. CASE Group!EndLoop(c)
  <2>1. UNCHANGED <<batch, seen>> /\ step[c] = "run" /\ step' \in {step, [step EXCEPT ![c] = "read"]}
        /\ DOMAIN mode' = Consumers
    BY <1>1, <1>4 DEF Group!EndLoop, Group!GoTo, HostsOK
  <2>2. left' \in [Consumers -> SUBSET Partitions]
    BY <1>1, <1>4 DEF Group!EndLoop, HostsOK
  <2>3. loops' \in [Consumers -> 0..(ClaimEvery - 1)]
    <3>1. CASE mode[c] = "trim" /\ Group!ClaimDue(c)
      <4>1. loops' = [loops EXCEPT ![c] = 0]
        BY <1>4, <3>1 DEF Group!EndLoop
      <4> QED BY <1>1, <4>1 DEF HostsOK
    <3>2. CASE ~(mode[c] = "trim" /\ Group!ClaimDue(c))
      <4>1. loops' = [loops EXCEPT ![c] = IF mode[c] = "trim" THEN @ + 1 ELSE @]
        BY <1>4, <3>2 DEF Group!EndLoop
      <4>2. loops[c] \in 0..(ClaimEvery - 1)
        BY <1>1 DEF HostsOK
      <4>3. mode[c] = "trim" => loops[c] + 1 \in 0..(ClaimEvery - 1)
        BY <1>1, <3>2, <4>2 DEF Group!ClaimDue
      <4> QED BY <1>1, <4>1, <4>2, <4>3 DEF HostsOK
    <3> QED BY <3>1, <3>2
  <2>4. HostsOK'
    BY <1>1, <1>2, <1>3, <2>1, <2>2, <2>3 DEF HostsOK
  <2> QED BY <1>1, <1>2, <2>4, QuietKeeps
<1>5. CASE Group!Die(c)
  <2>1. /\ step' = [step EXCEPT ![c] = "off"] /\ mode' = [mode EXCEPT ![c] = "trim"] /\ loops' = [loops EXCEPT ![c] = 0]
        /\ batch' = [batch EXCEPT ![c] = <<>>] /\ left' = [left EXCEPT ![c] = {}] /\ seen' = [seen EXCEPT ![c] = <<>>]
    BY <1>5 DEF Group!Die, Group!GoTo
  <2>2. <<>> \in Seq(Delivered) /\ <<>> \in Seq(handled) /\ Len(<<>>) = 0 /\ 0 \in 0..(ClaimEvery - 1)
    BY <1>1
  <2>3. batch' \in [Consumers -> Seq(Delivered')] /\ seen' \in [Consumers -> Seq(handled')]
        /\ \A d \in Consumers : Len(seen'[d]) <= Capacity
    BY <1>1, <1>2, <1>3, <2>1, <2>2 DEF HostsOK
  <2>4. HostsOK'
    BY <1>1, <1>2, <1>3, <2>1, <2>2, <2>3 DEF HostsOK
  <2> QED BY <1>1, <1>2, <2>4, QuietKeeps
<1>6. CASE Group!Start(c)
  <2>1. HostsOK'
    BY <1>1, <1>2, <1>3, <1>6 DEF Group!Start, Group!GoTo, HostsOK
  <2> QED BY <1>1, <1>2, <2>1, QuietKeeps
<1> QED BY <1>4, <1>5, <1>6

LEMMA ChunkInit ==
  ASSUME Group!ChunkAssumption, Group!Init
  PROVE  ChunkInv
<1>1. Group!Everything = {} /\ IsFiniteSet(Group!Everything) /\ Cardinality(Group!Everything) = 0
  <2>1. Group!Everything = {}
    BY DEF Group!Init, Group!Everything
  <2> QED BY <2>1, FS_EmptySet
<1>2. LogOK
  BY <1>1 DEF Group!Init, LogOK, Group!ChunkAssumption
<1>3. GroupOK
  BY DEF Group!Init, GroupOK
<1>4. HostsOK
  BY DEF Group!Init, HostsOK, Group!ChunkAssumption
<1> QED BY <1>2, <1>3, <1>4 DEF ChunkInv

LEMMA ChunkNext ==
  ASSUME Group!ChunkAssumption, ChunkInv, [Group!Next]_(Group!vars)
  PROVE  ChunkInv'
<1>1. LogOK /\ GroupOK /\ HostsOK
  BY DEF ChunkInv
<1>2. ASSUME NEW p \in Partitions, NEW i \in chunkPending[p], Group!GrowStale(p, i) PROVE ChunkInv'
  <2>1. LogOK' /\ HostsOK'
    BY <1>1, <1>2
       DEF Group!GrowStale, LogOK, HostsOK, Group!Everything, Delivered, Group!Message, Group!thread
  <2>2. GroupOK'
    BY <1>1, <1>2 DEF Group!GrowStale, GroupOK
  <2> QED BY <2>1, <2>2 DEF ChunkInv
<1>3. CASE UNCHANGED Group!vars
  <2>1. HostsOK'
    BY <1>1, <1>3 DEF Group!vars, Group!thread, Group!redis, HostsOK, Delivered, Group!Message
  <2> QED BY <1>1, <1>3, <2>1, QuietKeeps DEF Group!vars
<1> QED
  BY <1>2, <1>3, PublishKeeps, ReadKeeps, WorkKeeps, AckKeeps, TrimKeeps, ClaimKeeps, RestKeeps
     DEF Group!Next, Group!Loop

LEMMA ChunkFromInv ==
  ASSUME Group!ChunkAssumption, ChunkInv
  PROVE  Group!ChunkSound
<1>1. LogOK /\ GroupOK /\ HostsOK /\ MaxEntries \in Nat
  BY DEF ChunkInv, Group!ChunkAssumption
<1>2. ASSUME NEW p \in Partitions
      PROVE  /\ stream[p] \in Group!BoundedSeq(Messages, MaxEntries)
             /\ first[p] \in 1..(MaxEntries + 1) /\ chunkNext[p] \in 1..(MaxEntries + 1)
  <2>1. stream[p] \in Seq(Messages) /\ Len(stream[p]) \in 0..MaxEntries
    BY <1>1, LogIsBounded DEF LogOK
  <2>2. stream[p] \in [1..Len(stream[p]) -> Messages]
    BY <2>1
  <2>3. stream[p] \in Group!BoundedSeq(Messages, MaxEntries)
    BY <2>1, <2>2 DEF Group!BoundedSeq, Group!SeqOf
  <2> QED BY <1>1, <2>1, <2>3 DEF LogOK
<1>3. Group!TypeOK
  BY <1>1, <1>2 DEF Group!TypeOK, GroupOK, HostsOK
<1>4. ASSUME NEW p \in Partitions, NEW i \in 1..MaxEntries
      PROVE  /\ i < chunkNext[p] => i \in chunkPending[p] \cup chunkAcked[p] \/ i < first[p]
             /\ i \in chunkAcked[p] => stream[p][i] \in BadMessages \cup handled
  <2>1. i < chunkNext[p] => i \in 1..(chunkNext[p] - 1)
    BY <1>1 DEF LogOK
  <2> QED BY <1>1, <2>1 DEF GroupOK
<1> QED BY <1>3, <1>4 DEF Group!ChunkSound

\* For any streams, batches, consumers, failures and deaths: an entry the group has
\* delivered is acknowledged, pending or trimmed, an acknowledged one was handled or
\* is not valid, and what a consumer remembers stays within its bound (run_forever,
\* process_message, _ack, _LruSeenSet).
THEOREM ChunkIsSound == ASSUME Group!ChunkAssumption PROVE Group!Spec => []ChunkSound
<1>1. Group!Init => ChunkInv
  BY ChunkInit
<1>2. ChunkInv /\ [Group!Next]_(Group!vars) => ChunkInv'
  BY ChunkNext
<1>3. ChunkInv => ChunkSound
  BY ChunkFromInv DEF ChunkSound
<1> QED BY <1>1, <1>2, <1>3, PTL DEF Group!Spec

-----------------------------------------------------------------------------
(* RollingText.  The invariant is the types of the texts; the work is in what   *)
(* the operations on texts keep of them.                                       *)

LEMMA TextPrefix == \A s, t : Text!IsPrefix(s, t) <=> Final!IsPrefix(s, t)
BY DEF Text!IsPrefix, Final!IsPrefix

\* FlattenSeq, unfolded: the initial parts of s, flattened.
Flats(f, s) == f = [i \in 1..Len(s) |-> IF i = 1 THEN s[i] ELSE f[i - 1] \o s[i]]

Flat(s) == CHOOSE f : Flats(f, s)

LEMMA FlattenIsFlat == \A s : Text!FlattenSeq(s) = IF Len(s) = 0 THEN s ELSE Flat(s)[Len(s)]
BY DEF Text!FlattenSeq, Flat, Flats

\* The recursion is defined: the shortest initial part on which it were not could
\* be reached from the one before.
LEMMA FlatExists ==
  ASSUME NEW s, Len(s) \in Nat
  PROVE  Flats(Flat(s), s)
<1> DEFINE Part(f, n) == f = [i \in 1..n |-> IF i = 1 THEN s[i] ELSE f[i - 1] \o s[i]]
           Undefined == {n \in Nat : ~\E f : Part(f, n)}
<1>1. ASSUME NEW n \in Undefined, \A m \in Undefined : n <= m PROVE FALSE
  <2>1. CASE n = 0
    <3> DEFINE f == [i \in 1..0 |-> s[i]]
    <3>1. Part(f, 0)
      OBVIOUS
    <3> QED BY <2>1, <3>1
  <2>2. CASE n # 0
    <3>1. n - 1 \in Nat /\ n \in Nat /\ n - 1 \notin Undefined
      <4>1. n \in Nat
        BY <1>1
      <4> HIDE DEF Undefined
      <4>2. n - 1 \in Undefined => n <= n - 1
        BY <1>1
      <4> QED BY <2>2, <4>1, <4>2
    <3>2. PICK g : Part(g, n - 1)
      BY <3>1
    <3> DEFINE f == [i \in 1..n |-> IF i = 1 THEN s[i] ELSE g[i - 1] \o s[i]]
    <3>3. ASSUME NEW i \in 1..(n - 1) PROVE f[i] = g[i]
      <4>1. i \in 1..n
        BY <3>1
      <4> QED BY <3>2, <4>1
    <3>5. f = [i \in 1..n |-> IF i = 1 THEN s[i] ELSE g[i - 1] \o s[i]]
      OBVIOUS
    <3> HIDE DEF f
    <3>4. ASSUME NEW i \in 1..n, i # 1 PROVE f[i - 1] = g[i - 1]
      <4>1. i - 1 \in 1..(n - 1)
        BY <3>1, <3>4
      <4> QED BY <3>3, <4>1
    <3>6. Part(f, n)
      BY <3>4, <3>5
    <3> QED BY <3>6
  <2> QED BY <2>1, <2>2
<1>2. Undefined = {}
  <2> HIDE DEF Undefined
  <2>1. Undefined \subseteq Nat
    BY DEF Undefined
  <2> QED BY <1>1, <2>1, Least
<1>3. \E f : Part(f, Len(s))
  BY <1>2
<1> QED BY <1>3 DEF Flat, Flats

LEMMA FlatSteps ==
  ASSUME NEW s, Len(s) \in Nat
  PROVE  \A i \in 1..Len(s) : Flat(s)[i] = IF i = 1 THEN s[i] ELSE Flat(s)[i - 1] \o s[i]
<1> DEFINE f == Flat(s)
<1>1. Flats(f, s)
  BY FlatExists
<1> HIDE DEF f
<1>2. f = [i \in 1..Len(s) |-> IF i = 1 THEN s[i] ELSE f[i - 1] \o s[i]]
  BY <1>1 DEF Flats
<1>3. \A i \in 1..Len(s) : f[i] = IF i = 1 THEN s[i] ELSE f[i - 1] \o s[i]
  BY <1>2
<1> QED BY <1>3 DEF f

LEMMA FlattenIsSeq ==
  ASSUME NEW S, NEW s \in Seq(Seq(S))
  PROVE  Text!FlattenSeq(s) \in Seq(S)
<1> DEFINE n == Len(s)
           Odd == {i \in 1..n : Flat(s)[i] \notin Seq(S)}
<1>1. n \in Nat /\ \A i \in 1..n : s[i] \in Seq(S)
  OBVIOUS
<1>2. ASSUME NEW i \in Odd, \A j \in Odd : i <= j PROVE FALSE
  <2>1. i \in 1..n /\ s[i] \in Seq(S) /\ Flat(s)[i] \notin Seq(S)
    BY <1>1
  <2>2. Flat(s)[i] = IF i = 1 THEN s[i] ELSE Flat(s)[i - 1] \o s[i]
    BY <1>1, <2>1, FlatSteps
  <2>3. CASE i = 1
    BY <2>1, <2>2, <2>3
  <2>4. CASE i # 1
    <3>1. i - 1 \in 1..n /\ i - 1 < i
      BY <1>1, <2>1, <2>4
    <3>2. Flat(s)[i - 1] \in Seq(S)
      BY <1>2, <2>1, <3>1
    <3> QED BY <2>1, <2>2, <2>4, <3>2
  <2> QED BY <2>3, <2>4
<1>3. Odd = {}
  <2>1. Odd \subseteq Nat
    BY <1>1
  <2> HIDE DEF Odd
  <2> QED BY <1>2, <2>1, Least
<1>4. CASE n = 0
  <2>1. s = <<>> /\ Len(s) = 0
    BY <1>4
  <2>2. Text!FlattenSeq(s) = s
    BY <2>1, FlattenIsFlat
  <2>3. <<>> \in Seq(S)
    OBVIOUS
  <2> QED BY <2>1, <2>2, <2>3
<1>5. CASE n # 0
  <2>1. n \in 1..n
    BY <1>1, <1>5
  <2> QED BY <1>3, <1>5, <2>1, FlattenIsFlat
<1> QED BY <1>4, <1>5

-----------------------------------------------------------------------------
LEMMA SmallerOf ==
  ASSUME NEW a \in Nat, NEW b \in Nat
  PROVE  Text!Min({a, b}) = (IF a <= b THEN a ELSE b) /\ Text!Max({a, b}) = (IF a <= b THEN b ELSE a)
BY DEF Text!Min, Text!Max

\* What a text begins and ends with.
LEMMA Slices ==
  ASSUME NEW S, NEW s \in Seq(S), NEW i \in Nat
  PROVE  /\ Text!Upto(s, i) \in Seq(S) /\ Text!From(s, i) \in Seq(S)
         /\ Len(Text!Upto(s, i)) = (IF i <= Len(s) THEN i ELSE Len(s))
         /\ Len(Text!From(s, i)) = (IF i <= Len(s) THEN Len(s) - i ELSE 0)
         /\ \A j \in 1..Len(Text!Upto(s, i)) : Text!Upto(s, i)[j] = s[j]
         /\ \A j \in 1..Len(Text!From(s, i)) : Text!From(s, i)[j] = s[i + j]
<1> DEFINE n == Len(s)
           m == IF i <= n THEN i ELSE n
<1>1. n \in Nat
  OBVIOUS
<1>2. Text!Upto(s, i) = SubSeq(s, 1, m)
  BY <1>1, SmallerOf DEF Text!Upto
<1>3. Text!From(s, i) = SubSeq(s, i + 1, n)
  BY DEF Text!From
<1>4. m \in Nat /\ m <= n
  BY <1>1
<1>5. Text!Upto(s, i) \in Seq(S) /\ Len(Text!Upto(s, i)) = m
  <2> HIDE DEF m
  <2> QED BY <1>2, <1>4
<1>6. Text!From(s, i) \in Seq(S) /\ Len(Text!From(s, i)) = (IF i <= n THEN n - i ELSE 0)
  <2>1. CASE i <= n
    BY <1>1, <1>3, <2>1
  <2>2. CASE ~(i <= n)
    <3>1. Text!From(s, i) = <<>>
      BY <1>1, <1>3, <2>2
    <3> QED BY <2>2, <3>1
  <2> QED BY <2>1, <2>2
<1>7. \A j \in 1..m : Text!Upto(s, i)[j] = s[j]
  <2> HIDE DEF m
  <2> QED BY <1>2, <1>4
<1>8. \A j \in 1..Len(Text!From(s, i)) : Text!From(s, i)[j] = s[i + j]
  BY <1>1, <1>3, <1>6
<1> QED BY <1>5, <1>6, <1>7, <1>8

LEMMA NormalizedIsSeq ==
  ASSUME Text!RollingAssumption, NEW text \in Seq(Words)
  PROVE  Text!Normalized(text) \in Seq(DOMAIN Family) /\ Len(Text!Normalized(text)) \in Nat
<1> DEFINE parts == [i \in DOMAIN text |-> WordParts[text[i]]]
<1>1. parts \in Seq(Seq(DOMAIN Family))
  <2>1. DOMAIN text = 1..Len(text) /\ Len(text) \in Nat /\ \A i \in DOMAIN text : WordParts[text[i]] \in Seq(DOMAIN Family)
    BY DEF Text!RollingAssumption
  <2>2. parts \in [1..Len(text) -> Seq(DOMAIN Family)]
    BY <2>1
  <2> QED BY <2>1, <2>2, SeqDef
<1> HIDE DEF parts
<1>2. Text!FlattenSeq(parts) \in Seq(DOMAIN Family)
  BY <1>1, FlattenIsSeq
<1> QED BY <1>2 DEF Text!Normalized, parts

LEMMA FamiliesIsSeq ==
  ASSUME NEW words \in Seq(DOMAIN Family)
  PROVE  /\ Text!Families(words) \in Seq(Text!Range(Family)) /\ Len(Text!Families(words)) = Len(words)
         /\ \A i \in 1..Len(words) : Text!Families(words)[i] = Family[words[i]]
<1>1. Text!Families(words) \in [1..Len(words) -> Text!Range(Family)] /\ Len(words) \in Nat
  BY DEF Text!Families, Text!Range
<1> QED BY <1>1, SeqDef DEF Text!Families

\* An overlap is as long as the two parts that are equal.
LEMMA OverlapIs ==
  ASSUME NEW S, NEW p \in Seq(S), NEW q \in Seq(S)
  PROVE  LET n == Text!SuffixPrefixOverlap(p, q)
         IN  n \in Nat /\ n <= Len(p) /\ n <= Len(q) /\ (n > 0 => Text!From(p, Len(p) - n) = Text!Upto(q, n))
<1> DEFINE sizes == {n \in 1..Len(p) : n <= Len(q) /\ Text!From(p, Len(p) - n) = Text!Upto(q, n)}
           n == Text!Max({0} \cup sizes)
<1>1. Len(p) \in Nat /\ Len(q) \in Nat
  OBVIOUS
<1>2. n \in {0} \cup sizes
  <2>1. {0} \cup sizes \in SUBSET (0..Len(p)) /\ {0} \cup sizes # {}
    BY <1>1
  <2> HIDE DEF sizes
  <2>2. PICK x \in {0} \cup sizes : \A y \in {0} \cup sizes : x >= y
    BY <1>1, <2>1, Greatest
  <2> QED BY <2>2 DEF Text!Max
<1>3. Text!SuffixPrefixOverlap(p, q) = n
  BY DEF Text!SuffixPrefixOverlap
<1> HIDE DEF n
<1> QED BY <1>1, <1>2, <1>3

LEMMA SpeechOverlapIs ==
  ASSUME NEW p \in Seq(DOMAIN Family), NEW q \in Seq(DOMAIN Family)
  PROVE  LET n == Text!SpeechOverlap(p, q)
         IN  /\ n \in Nat /\ n <= Len(p) /\ n <= Len(q)
             /\ n > 0 => Text!From(Text!Families(p), Len(p) - n) = Text!Upto(Text!Families(q), n)
<1> DEFINE fp == Text!Families(p)
           fq == Text!Families(q)
           exact == Text!SuffixPrefixOverlap(p, q)
           fuzzy == Text!SuffixPrefixOverlap(fp, fq)
           n == Text!SpeechOverlap(p, q)
<1>1. /\ fp \in Seq(Text!Range(Family)) /\ Len(fp) = Len(p) /\ \A i \in 1..Len(p) : fp[i] = Family[p[i]]
      /\ fq \in Seq(Text!Range(Family)) /\ Len(fq) = Len(q) /\ \A i \in 1..Len(q) : fq[i] = Family[q[i]]
  BY FamiliesIsSeq
<1>2. n = IF exact > 0 THEN exact ELSE IF fuzzy >= 2 THEN fuzzy ELSE 0
  BY DEF Text!SpeechOverlap
<1>3. /\ exact \in Nat /\ exact <= Len(p) /\ exact <= Len(q)
      /\ exact > 0 => Text!From(p, Len(p) - exact) = Text!Upto(q, exact)
  BY OverlapIs
<1> HIDE DEF fp, fq
<1>4. /\ fuzzy \in Nat /\ fuzzy <= Len(p) /\ fuzzy <= Len(q)
      /\ fuzzy > 0 => Text!From(fp, Len(p) - fuzzy) = Text!Upto(fq, fuzzy)
  BY <1>1, OverlapIs
<1> HIDE DEF exact, fuzzy, n
<1>5. Len(p) \in Nat /\ Len(q) \in Nat
  OBVIOUS
<1>6. CASE exact > 0
  <2> DEFINE m == Len(p) - exact
  <2>1. n = exact /\ m \in Nat /\ m <= Len(p) /\ Len(p) - m = exact
    BY <1>2, <1>3, <1>5, <1>6
  <2> HIDE DEF m
  <2>2. /\ Len(Text!From(p, m)) = exact /\ \A j \in 1..exact : Text!From(p, m)[j] = p[m + j]
        /\ Len(Text!Upto(q, exact)) = exact /\ \A j \in 1..exact : Text!Upto(q, exact)[j] = q[j]
    <3>1. Len(Text!From(p, m)) = exact
      BY <2>1, Slices
    <3>2. \A j \in 1..exact : Text!From(p, m)[j] = p[m + j]
      BY <2>1, <3>1, Slices
    <3>3. Len(Text!Upto(q, exact)) = exact
      BY <1>3, Slices
    <3>4. \A j \in 1..exact : Text!Upto(q, exact)[j] = q[j]
      BY <1>3, <3>3, Slices
    <3> QED BY <3>1, <3>2, <3>3, <3>4
  <2>3. /\ Text!From(fp, m) \in Seq(Text!Range(Family)) /\ Text!Upto(fq, exact) \in Seq(Text!Range(Family))
        /\ Len(Text!From(fp, m)) = exact /\ \A j \in 1..exact : Text!From(fp, m)[j] = fp[m + j]
        /\ Len(Text!Upto(fq, exact)) = exact /\ \A j \in 1..exact : Text!Upto(fq, exact)[j] = fq[j]
    <3>1. fp \in Seq(Text!Range(Family)) /\ fq \in Seq(Text!Range(Family)) /\ Len(fp) = Len(p) /\ Len(fq) = Len(q)
      BY <1>1
    <3>2. Text!From(fp, m) \in Seq(Text!Range(Family)) /\ Len(Text!From(fp, m)) = exact
      BY <1>3, <1>5, <2>1, <3>1, Slices
    <3>3. \A j \in 1..exact : Text!From(fp, m)[j] = fp[m + j]
      BY <2>1, <3>1, <3>2, Slices
    <3>4. Text!Upto(fq, exact) \in Seq(Text!Range(Family)) /\ Len(Text!Upto(fq, exact)) = exact
      BY <1>3, <1>5, <3>1, Slices
    <3>5. \A j \in 1..exact : Text!Upto(fq, exact)[j] = fq[j]
      BY <1>3, <3>1, <3>4, Slices
    <3> QED BY <3>2, <3>3, <3>4, <3>5
  <2>4. ASSUME NEW j \in 1..exact PROVE Text!From(fp, m)[j] = Text!Upto(fq, exact)[j]
    <3>1. m + j \in 1..Len(p) /\ j \in 1..Len(q)
      BY <1>3, <1>5, <2>1
    <3>2. p[m + j] = q[j]
      BY <1>3, <1>6, <2>2 DEF m
    <3> QED BY <1>1, <2>3, <3>1, <3>2
  <2>5. Text!From(fp, m) = Text!Upto(fq, exact)
    BY <2>3, <2>4, SeqEqual
  <2> QED BY <1>3, <2>1, <2>5 DEF m, fp, fq, n
<1>7. CASE ~(exact > 0) /\ fuzzy >= 2
  BY <1>2, <1>4, <1>7 DEF fp, fq, n
<1>8. CASE ~(exact > 0) /\ ~(fuzzy >= 2)
  BY <1>2, <1>5, <1>8 DEF n
<1> QED BY <1>6, <1>7, <1>8

LEMMA PlaceIs ==
  ASSUME NEW S, NEW h \in Seq(S), NEW n \in Seq(S), Text!HasRun(h, n)
  PROVE  Text!Min(Text!Places(h, n)) \in Text!Places(h, n) /\ Text!Min(Text!Places(h, n)) \in Nat
<1>1. Text!Places(h, n) # {} /\ Text!Places(h, n) \in SUBSET Nat
  <2>1. Len(h) - Len(n) \in Int
    OBVIOUS
  <2>2. \A i \in 0..(Len(h) - Len(n)) : i \in Nat
    BY <2>1
  <2> QED BY <2>2 DEF Text!HasRun, Text!Places
<1>2. PICK x \in Text!Places(h, n) : \A y \in Text!Places(h, n) : x <= y
  BY <1>1, Least
<1>3. Text!Min(Text!Places(h, n)) \in Text!Places(h, n)
  BY <1>2 DEF Text!Min
<1> QED BY <1>1, <1>3

LEMMA CommonPrefixIs ==
  ASSUME NEW S, NEW head \in Seq(S), NEW other \in Seq(S)
  PROVE  Text!CommonPrefix(head, other) \in Nat
<1> DEFINE C == Text!CommonPrefixes({head, other})
           Lens == {Len(x) : x \in C}
<1>1. ASSUME NEW x \in C PROVE Len(x) \in 0..Len(head)
  <2>1. Len(head) \in Nat /\ Len(other) \in Nat /\ Len(x) <= Len(head)
    BY DEF Text!CommonPrefixes, Text!IsPrefix
  <2>2. PICK s \in {head, other} : x \in Text!Prefixes(s)
    BY DEF Text!CommonPrefixes
  <2>3. PICK l \in 0..Len(s) : x = SubSeq(s, 1, l)
    BY <2>2 DEF Text!Prefixes
  <2>4. s \in Seq(S) /\ l \in Nat /\ l <= Len(s)
    BY <2>1
  <2>5. Len(x) = l
    BY <2>3, <2>4
  <2> QED BY <2>1, <2>4, <2>5
<1>2. C # {}
  <2>1. <<>> = SubSeq(head, 1, 0) /\ 0 \in 0..Len(head)
    OBVIOUS
  <2>2. <<>> \in Text!Prefixes(head)
    BY <2>1 DEF Text!Prefixes
  <2>3. \A t \in {head, other} : Text!IsPrefix(<<>>, t)
    BY DEF Text!IsPrefix
  <2> QED BY <2>2, <2>3 DEF Text!CommonPrefixes
<1> HIDE DEF C
<1>3. Lens \in SUBSET (0..Len(head)) /\ Lens # {} /\ Len(head) \in Nat
  <2>1. PICK x \in C : TRUE
    BY <1>2
  <2>2. Len(x) \in Lens
    OBVIOUS
  <2>3. Len(head) \in Nat
    OBVIOUS
  <2>4. \A l \in Lens : l \in 0..Len(head)
    BY <1>1
  <2> QED BY <2>2, <2>3, <2>4
<1>4. PICK u \in Lens : \A v \in Lens : u >= v
  <2> HIDE DEF Lens
  <2> QED BY <1>3, Greatest
<1>5. PICK x \in C : u = Len(x)
  OBVIOUS
<1>6. \A y \in C : Len(y) <= Len(x)
  <2>1. ASSUME NEW y \in C PROVE Len(y) <= Len(x)
    <3>1. Len(y) \in Lens /\ Len(y) \in Nat /\ Len(x) \in Nat
      BY <1>1
    <3> QED BY <1>4, <1>5, <3>1
  <2> QED BY <2>1
<1>7. Text!LongestCommonPrefix({head, other}) \in C
  BY <1>6 DEF Text!LongestCommonPrefix, C
<1> QED BY <1>1, <1>7 DEF Text!CommonPrefix

\* A run in the middle is a run.
LEMMA RunInside ==
  ASSUME NEW S, NEW a \in Seq(S), NEW b \in Seq(S), NEW c \in Seq(S), b # <<>>
  PROVE  Text!HasRun(a \o b \o c, b)
<1> DEFINE h == a \o b \o c
           k == Len(a)
<1>1. h \in Seq(S) /\ Len(h) = k + Len(b) + Len(c) /\ k \in Nat /\ Len(b) \in Nat /\ Len(c) \in Nat
  OBVIOUS
<1>2. \A i \in 1..Len(b) : h[k + i] = b[i]
  OBVIOUS
<1> HIDE DEF h, k
<1>3. /\ SubSeq(h, k + 1, k + Len(b)) \in Seq(S) /\ Len(SubSeq(h, k + 1, k + Len(b))) = Len(b)
      /\ \A i \in 1..Len(b) : SubSeq(h, k + 1, k + Len(b))[i] = h[k + i]
  BY <1>1
<1>4. SubSeq(h, k + 1, k + Len(b)) = b
  BY <1>2, <1>3, SeqEqual
<1>5. k \in Text!Places(h, b)
  BY <1>1, <1>4 DEF Text!Places
<1> QED BY <1>5 DEF Text!HasRun, h

-----------------------------------------------------------------------------
\* What is prepared ends with the confirmed words.
LEMMA PreparedKeeps ==
  ASSUME Text!RollingAssumption, NEW conf \in Seq(Words), NEW candidate \in Seq(Words)
  PROVE  /\ \E a \in Seq(Words) : Text!Prepared(conf, candidate)[1] = a \o conf
         /\ Text!Prepared(conf, candidate)[2] \in Seq(Words)
<1> DEFINE c == Text!Normalized(conf)
           n == Text!Normalized(candidate)
           at == Text!Min(Text!Places(n, c))
<1>1. c \in Seq(DOMAIN Family) /\ n \in Seq(DOMAIN Family) /\ Len(c) \in Nat
  BY NormalizedIsSeq
<1>2. Text!Prepared(conf, candidate) =
        (IF c = <<>> \/ n = <<>> THEN <<conf, candidate>>
         ELSE IF Text!HasRun(n, c) THEN <<Text!Upto(candidate, at) \o conf, Text!From(candidate, at + Len(c))>>
         ELSE IF Text!HasRun(c, n) THEN <<conf, <<>>>>
         ELSE IF Text!SpeechOverlap(c, n) >= 2 THEN <<conf, Text!From(candidate, Text!SpeechOverlap(c, n))>>
         ELSE <<conf, candidate>>)
  BY DEF Text!Prepared
<1>3. Text!HasRun(n, c) => at \in Nat
  BY <1>1, PlaceIs
<1>4. Text!SpeechOverlap(c, n) \in Nat
  BY <1>1, SpeechOverlapIs
<1>5. <<>> \in Seq(Words) /\ <<>> \o conf = conf
  OBVIOUS
<1> HIDE DEF c, n, at
<1>6. CASE ~(c = <<>> \/ n = <<>>) /\ Text!HasRun(n, c)
  <2>1. Text!Upto(candidate, at) \in Seq(Words) /\ Text!From(candidate, at + Len(c)) \in Seq(Words)
    <3>1. at \in Nat /\ at + Len(c) \in Nat
      BY <1>1, <1>3, <1>6
    <3> QED BY <3>1, Slices
  <2>2. Text!Prepared(conf, candidate) = <<Text!Upto(candidate, at) \o conf, Text!From(candidate, at + Len(c))>>
    BY <1>2, <1>6
  <2>3. Text!Prepared(conf, candidate)[1] = Text!Upto(candidate, at) \o conf
    BY <2>2
  <2>4. Text!Prepared(conf, candidate)[2] = Text!From(candidate, at + Len(c))
    BY <2>2
  <2> QED BY <2>1, <2>3, <2>4
<1>7. CASE ~(~(c = <<>> \/ n = <<>>) /\ Text!HasRun(n, c))
  <2>1. Text!From(candidate, Text!SpeechOverlap(c, n)) \in Seq(Words)
    BY <1>4, Slices
  <2>2. /\ Text!Prepared(conf, candidate)[1] = conf
        /\ Text!Prepared(conf, candidate)[2] \in {candidate, <<>>, Text!From(candidate, Text!SpeechOverlap(c, n))}
    BY <1>2, <1>7
  <2> QED BY <1>5, <2>1, <2>2
<1> QED BY <1>6, <1>7

\* What is promoted comes after the confirmed words.
LEMMA PromotedKeeps ==
  ASSUME Text!RollingAssumption, NEW conf \in Seq(Words), NEW addition \in Seq(Words)
  PROVE  \E b \in Seq(Words) : Text!Promoted(conf, addition) = conf \o b
<1> DEFINE overlap == Text!SpeechOverlap(Text!Normalized(conf), Text!Normalized(addition))
<1>1. overlap \in Nat
  BY NormalizedIsSeq, SpeechOverlapIs
<1>2. Text!From(addition, overlap) \in Seq(Words)
  BY <1>1, Slices
<1>3. Text!Promoted(conf, addition) = IF conf = <<>> THEN addition ELSE conf \o Text!From(addition, overlap)
  BY DEF Text!Promoted, Text!AppendConfirmed
<1> HIDE DEF overlap
<1>4. conf = <<>> => addition = conf \o addition
  OBVIOUS
<1> QED BY <1>2, <1>3, <1>4

\* What a draft makes of the display has the confirmed words in it.
LEMMA StabilizedKeeps ==
  ASSUME Text!RollingAssumption, NEW conf \in Seq(Words), NEW previous \in Seq(Words), NEW text \in Seq(Words)
  PROVE  /\ \E a, b \in Seq(Words) : Text!Stabilized(conf, previous, text)[1] = a \o conf \o b
         /\ Text!Stabilized(conf, previous, text)[2] \in Seq(Words)
<1> DEFINE stable == Text!Prepared(conf, text)[1]
           candidate == Text!Prepared(conf, text)[2]
           p == Text!Normalized(previous)
           n == Text!Normalized(candidate)
           overlap == Text!SpeechOverlap(p, n)
           common == Text!CommonPrefix(p, n)
           said == Text!Stabilized(conf, previous, text)
<1>1. PICK a \in Seq(Words) : stable = a \o conf
  BY PreparedKeeps
<1>2. candidate \in Seq(Words) /\ stable \in Seq(Words)
  <2>1. candidate \in Seq(Words)
    BY PreparedKeeps
  <2>2. stable \in Seq(Words)
    BY <1>1
  <2> QED BY <2>1, <2>2
<1>3. said =
        CASE candidate = <<>> -> <<stable, previous>>
          [] previous = <<>> -> <<stable, candidate>>
          [] Text!IsPrefix(n, p) -> <<stable, previous>>
          [] Text!IsPrefix(p, n) -> <<Text!Promoted(stable, previous), Text!From(candidate, Len(p))>>
          [] Text!HasRun(n, p) -> <<stable, candidate>>
          [] Text!HasRun(p, n) -> <<stable, previous>>
          [] overlap > 0 -> <<Text!Promoted(stable, previous), Text!From(candidate, overlap)>>
          [] common > 0 -> <<Text!Promoted(stable, Text!Upto(previous, common)), Text!From(candidate, common)>>
          [] Text!SharedRatio(p, n) >= 50 -> <<stable, candidate>>
          [] OTHER -> <<Text!Promoted(stable, previous), candidate>>
  BY DEF Text!Stabilized
<1> HIDE DEF stable, candidate
<1>4. p \in Seq(DOMAIN Family) /\ n \in Seq(DOMAIN Family) /\ Len(p) \in Nat
  BY <1>2, NormalizedIsSeq
<1> HIDE DEF p, n
<1>5. overlap \in Nat
  BY <1>4, SpeechOverlapIs
<1>6. common \in Nat
  BY <1>4, CommonPrefixIs
<1> HIDE DEF overlap, common, said
<1>7. /\ Text!From(candidate, Len(p)) \in Seq(Words) /\ Text!From(candidate, overlap) \in Seq(Words)
      /\ Text!From(candidate, common) \in Seq(Words) /\ Text!Upto(previous, common) \in Seq(Words)
  BY <1>2, <1>4, <1>5, <1>6, Slices
<1>8. /\ said[1] \in {stable, Text!Promoted(stable, previous), Text!Promoted(stable, Text!Upto(previous, common))}
      /\ said[2] \in {previous, candidate, Text!From(candidate, Len(p)), Text!From(candidate, overlap), Text!From(candidate, common)}
  BY ONLY <1>3
<1>9. said[2] \in Seq(Words)
  BY <1>2, <1>7, <1>8
<1>10. \E b \in Seq(Words) : said[1] = stable \o b
  <2>1. stable = stable \o <<>> /\ <<>> \in Seq(Words)
    BY <1>2
  <2>2. \E b \in Seq(Words) : Text!Promoted(stable, previous) = stable \o b
    BY <1>2, PromotedKeeps
  <2>3. \E b \in Seq(Words) : Text!Promoted(stable, Text!Upto(previous, common)) = stable \o b
    BY <1>2, <1>7, PromotedKeeps
  <2> QED BY <1>8, <2>1, <2>2, <2>3
<1> QED BY <1>1, <1>9, <1>10 DEF said

-----------------------------------------------------------------------------
\* Finals are texts, too.
LEMMA MergedIsText ==
  ASSUME Text!RollingAssumption, NEW previous \in Seq(Words), NEW text \in Seq(Words)
  PROVE  Text!MergeFinal(previous, text) \in Seq(Words)
<1> DEFINE p == Text!Normalized(previous)
           n == Text!Normalized(text)
           overlap == Text!SpeechOverlap(p, n)
           at == Text!Min(Text!Places(p, n))
           short == /\ Len(p) >= ShortFinalMinPrevious /\ Len(n) < Len(p)
                    /\ 100 * Len(n) <= ShortFinalRatio * Len(p) /\ Text!SharedRatio(p, n) = 0
           merged == Text!MergeFinal(previous, text)
<1>1. p \in Seq(DOMAIN Family) /\ n \in Seq(DOMAIN Family)
  BY NormalizedIsSeq
<1>2. merged =
        CASE Text!HasSamePrefix(previous, text) -> text
          [] Text!HasSamePrefix(text, previous) -> previous
          [] Text!HasRun(p, n) -> Text!Upto(previous, at) \o text \o Text!From(previous, at + Len(text))
          [] Text!HasRun(n, p) -> text
          [] overlap >= 2 -> previous \o Text!From(text, overlap)
          [] short -> previous
          [] OTHER -> text
  BY DEF Text!MergeFinal
<1> HIDE DEF p, n
<1>3. overlap \in Nat
  BY <1>1, SpeechOverlapIs
<1>4. Text!HasRun(p, n) => at \in Nat
  BY <1>1, PlaceIs
<1> HIDE DEF overlap, at, short, merged
<1>5. \/ merged = text \/ merged = previous \/ merged = previous \o Text!From(text, overlap)
      \/ Text!HasRun(p, n) /\ merged = Text!Upto(previous, at) \o text \o Text!From(previous, at + Len(text))
  BY ONLY <1>2
<1>6. previous \o Text!From(text, overlap) \in Seq(Words)
  <2>1. Text!From(text, overlap) \in Seq(Words)
    BY <1>3, Slices
  <2> QED BY <2>1
<1>7. Text!HasRun(p, n) => Text!Upto(previous, at) \o text \o Text!From(previous, at + Len(text)) \in Seq(Words)
  <2>1. SUFFICES ASSUME Text!HasRun(p, n) PROVE Text!Upto(previous, at) \o text \o Text!From(previous, at + Len(text)) \in Seq(Words)
    OBVIOUS
  <2>2. at \in Nat /\ at + Len(text) \in Nat
    BY <1>4, <2>1
  <2>3. Text!Upto(previous, at) \in Seq(Words) /\ Text!From(previous, at + Len(text)) \in Seq(Words)
    BY <2>2, Slices
  <2> QED BY <2>3
<1> QED BY <1>5, <1>6, <1>7 DEF merged

LEMMA SelectedIsText ==
  ASSUME Text!RollingAssumption, NEW text \in Seq(Words), NEW draft \in Seq(Words)
  PROVE  Text!Selected(text, draft) \in Seq(Words)
<1>1. Text!Selected(text, draft) \in {<<>>, text, draft, Text!MergeFinal(draft, text)}
  BY DEF Text!Selected
<1>2. Text!MergeFinal(draft, text) \in Seq(Words)
  BY MergedIsText
<1>3. <<>> \in Seq(Words)
  OBVIOUS
<1> QED BY <1>1, <1>2, <1>3

LEMMA SentIsText ==
  ASSUME Text!RollingAssumption, NEW previous \in Seq(Words), NEW text \in Seq(Words)
  PROVE  Text!Unmatched(previous, text) \in Seq(Words)
<1> DEFINE overlap == Text!SpeechOverlap(Text!Normalized(previous), Text!Normalized(text))
<1>1. overlap \in Nat
  BY NormalizedIsSeq, SpeechOverlapIs
<1>2. Text!Unmatched(previous, text) \in {text, Text!From(text, overlap)}
  BY DEF Text!Unmatched, Text!WithoutTail
<1> HIDE DEF overlap
<1>3. Text!From(text, overlap) \in Seq(Words)
  BY <1>1, Slices
<1> QED BY <1>2, <1>3

-----------------------------------------------------------------------------
\* The texts of a stream are texts.
WordsOK == confirmed \in Seq(Words) /\ tentative \in Seq(Words) /\ recent \in Seq(Words)

LEMMA TextsAre ==
  ASSUME NEW n \in Nat, NEW text \in Text!Texts(n)
  PROVE  text \in Seq(Words)
<1>1. PICK k \in 0..n : text \in [1..k -> Words]
  BY DEF Text!Texts
<1>2. k \in Nat
  OBVIOUS
<1> QED BY <1>1, <1>2, SeqDef

LEMMA DraftKeeps ==
  ASSUME Text!RollingAssumption, WordsOK, NEW text \in Text!Texts(DraftWords), Text!Draft(text)
  PROVE  WordsOK' /\ (confirmed = <<>> \/ Text!HasRun(confirmed', confirmed)) /\ final' = Text!NoFinal
<1> DEFINE parts == Text!Stabilized(confirmed, tentative, text)
<1>1. confirmed \in Seq(Words) /\ tentative \in Seq(Words) /\ recent \in Seq(Words) /\ text \in Seq(Words)
  BY TextsAre DEF WordsOK, Text!RollingAssumption
<1>2. confirmed' = parts[1] /\ tentative' = parts[2] /\ recent' = recent /\ final' = Text!NoFinal
  BY DEF Text!Draft
<1>3. PICK a, b \in Seq(Words) : parts[1] = a \o confirmed \o b
  BY <1>1, StabilizedKeeps
<1>4. parts[2] \in Seq(Words)
  BY <1>1, StabilizedKeeps
<1> HIDE DEF parts
<1>5. a \o confirmed \o b \in Seq(Words)
  BY <1>1
<1>6. confirmed # <<>> => Text!HasRun(a \o confirmed \o b, confirmed)
  BY <1>1, RunInside
<1> QED BY <1>1, <1>2, <1>3, <1>4, <1>5, <1>6 DEF WordsOK

LEMMA CommitKeeps ==
  ASSUME Text!RollingAssumption, WordsOK, NEW text \in Text!Texts(FinalWords), Text!Commit(text)
  PROVE  /\ WordsOK' /\ confirmed' = <<>>
         /\ \/ final' = Text!NoFinal
            \/ \E selected \in Seq(Words) : final' = [selected |-> selected, sent |-> Text!Unmatched(recent, selected)]
<1> DEFINE selected == Text!Selected(text, confirmed \o tentative)
           sent == Text!Unmatched(recent, selected)
           excess == Text!Max({0, Len(recent \o sent) - MaxRecent})
<1>1. /\ confirmed \o tentative \in Seq(Words) /\ recent \in Seq(Words)
      /\ text \in Seq(Words) /\ MaxRecent \in Nat
  BY TextsAre DEF WordsOK, Text!RollingAssumption
<1>2. /\ confirmed' = <<>> /\ tentative' = <<>>
      /\ \/ final' = Text!NoFinal /\ recent' = recent
         \/ final' = [selected |-> selected, sent |-> sent] /\ recent' = Text!From(recent \o sent, excess)
  BY DEF Text!Commit
<1>3. selected \in Seq(Words)
  BY <1>1, SelectedIsText
<1> HIDE DEF selected
<1>4. sent \in Seq(Words)
  BY <1>1, <1>3, SentIsText
<1>5. Text!From(recent \o sent, excess) \in Seq(Words)
  <2> HIDE DEF sent
  <2>1. recent \o sent \in Seq(Words) /\ Len(recent \o sent) \in Nat
    BY <1>1, <1>4
  <2> DEFINE d == Len(recent \o sent) - MaxRecent
  <2>2. d \in Int
    BY <1>1, <2>1
  <2>3. excess \in Nat
    <3> HIDE DEF d
    <3>1. Text!Max({0, d}) \in Nat
      BY <2>2 DEF Text!Max
    <3> QED BY <3>1 DEF d
  <2> HIDE DEF d, excess
  <2> QED BY <2>1, <2>3, Slices
<1> QED BY <1>1, <1>2, <1>3, <1>5 DEF WordsOK

LEMMA WordsInit == Text!Init => WordsOK
BY DEF Text!Init, WordsOK

LEMMA WordsNext == ASSUME Text!RollingAssumption PROVE WordsOK /\ [Text!Next]_(Text!vars) => WordsOK'
<1> SUFFICES ASSUME WordsOK, [Text!Next]_(Text!vars) PROVE WordsOK'
  OBVIOUS
<1>1. ASSUME NEW text \in Text!Texts(DraftWords), Text!Draft(text) PROVE WordsOK'
  BY <1>1, DraftKeeps
<1>2. ASSUME NEW text \in Text!Texts(FinalWords), Text!Commit(text) PROVE WordsOK'
  BY <1>2, CommitKeeps
<1>3. CASE UNCHANGED Text!vars
  BY <1>3 DEF Text!vars, WordsOK
<1> QED BY <1>1, <1>2, <1>3 DEF Text!Next

\* For any words, forms, lengths and decodes: until its segment ends, what is on display
\* as confirmed stays there, in its place (_prepare_candidate_after_confirmed,
\* _append_confirmed, _stabilize_rolling_partial).
THEOREM ConfirmedStays == ASSUME Text!RollingAssumption PROVE Text!Spec => ConfirmedIsKept
<1>1. Text!Init => WordsOK
  BY WordsInit
<1>2. WordsOK /\ [Text!Next]_(Text!vars) => WordsOK'
  BY WordsNext
<1>3. WordsOK /\ [Text!Next]_(Text!vars) => [confirmed' = <<>> \/ confirmed = <<>> \/ Text!HasRun(confirmed', confirmed)]_(Text!vars)
  <2> SUFFICES ASSUME WordsOK, Text!Next PROVE confirmed' = <<>> \/ confirmed = <<>> \/ Text!HasRun(confirmed', confirmed)
    OBVIOUS
  <2>1. ASSUME NEW text \in Text!Texts(DraftWords), Text!Draft(text) PROVE confirmed = <<>> \/ Text!HasRun(confirmed', confirmed)
    BY <2>1, DraftKeeps
  <2>2. ASSUME NEW text \in Text!Texts(FinalWords), Text!Commit(text) PROVE confirmed' = <<>>
    BY <2>2, CommitKeeps
  <2> QED BY <2>1, <2>2 DEF Text!Next
<1> QED BY <1>1, <1>2, <1>3, PTL DEF Text!Spec, Text!ConfirmedIsKept, ConfirmedIsKept

-----------------------------------------------------------------------------
\* Every raw word normalizes to one word; an apostrophe may make two of it.
OneWordEach == \A w \in Words : Len(WordParts[w]) = 1

\* Flattened, sequences of one element are their elements.
LEMMA FlattenOnes ==
  ASSUME NEW S, NEW s \in Seq(Seq(S)), \A i \in 1..Len(s) : Len(s[i]) = 1
  PROVE  Len(Text!FlattenSeq(s)) = Len(s) /\ \A j \in 1..Len(s) : Text!FlattenSeq(s)[j] = s[j][1]
<1> DEFINE n == Len(s)
           Right(i) == Flat(s)[i] \in Seq(S) /\ Len(Flat(s)[i]) = i /\ \A j \in 1..i : Flat(s)[i][j] = s[j][1]
           Odd == {i \in 1..n : ~Right(i)}
<1>1. n \in Nat /\ \A i \in 1..n : s[i] \in Seq(S) /\ Len(s[i]) = 1
  OBVIOUS
<1>2. ASSUME NEW i \in Odd, \A j \in Odd : i <= j PROVE FALSE
  <2>1. i \in 1..n /\ i \in Nat /\ s[i] \in Seq(S) /\ Len(s[i]) = 1
    BY <1>1
  <2>2. Flat(s)[i] = IF i = 1 THEN s[i] ELSE Flat(s)[i - 1] \o s[i]
    BY <1>1, <2>1, FlatSteps
  <2>3. CASE i = 1
    <3>1. Flat(s)[i] = s[i]
      BY <2>2, <2>3
    <3> QED BY <2>1, <2>3, <3>1
  <2>4. CASE i # 1
    <3> DEFINE f == Flat(s)[i - 1]
               g == Flat(s)[i]
    <3>1. i - 1 \in 1..n /\ i - 1 < i
      BY <1>1, <2>1, <2>4
    <3>2. Right(i - 1)
      <4> HIDE DEF Right
      <4>1. i - 1 \in Odd => i <= i - 1
        BY <1>2
      <4> QED BY <2>1, <3>1, <4>1
    <3>3. f \in Seq(S) /\ Len(f) = i - 1 /\ \A j \in 1..(i - 1) : f[j] = s[j][1]
      BY <3>2
    <3>4. g = f \o s[i]
      BY <2>2, <2>4
    <3>8. ~Right(i)
      OBVIOUS
    <3> HIDE DEF f, g
    <3>5. g \in Seq(S) /\ Len(g) = i
      <4>1. f \o s[i] \in Seq(S) /\ Len(f \o s[i]) = Len(f) + Len(s[i])
        <5>1. f \in Seq(S) /\ s[i] \in Seq(S)
          BY <2>1, <3>3
        <5> QED BY ONLY <5>1, ConcatProperties
      <4>2. Len(f) + Len(s[i]) = i
        BY <2>1, <3>3
      <4> QED BY <3>4, <4>1, <4>2
    <3>6. ASSUME NEW j \in 1..i PROVE g[j] = s[j][1]
      <4>1. CASE j = i
        <5>1. g[i] = s[i][1]
          BY <2>1, <3>3, <3>4
        <5> QED BY <4>1, <5>1
      <4>2. CASE j # i
        <5>1. j \in 1..(i - 1)
          BY <2>1, <4>2
        <5>2. g[j] = f[j]
          BY <2>1, <3>3, <3>4, <5>1
        <5> QED BY <3>3, <5>1, <5>2
      <4> QED BY <4>1, <4>2
    <3> QED BY <3>5, <3>6, <3>8 DEF g
  <2> QED BY <2>3, <2>4
<1>3. Odd = {}
  <2>1. Odd \subseteq Nat
    BY <1>1
  <2> HIDE DEF Odd
  <2> QED BY <1>2, <2>1, Least
<1>4. CASE n = 0
  <2>1. Text!FlattenSeq(s) = s /\ Len(s) = 0
    BY <1>4, FlattenIsFlat
  <2> QED BY <2>1
<1>5. CASE n # 0
  <2>1. n \in 1..n
    BY <1>1, <1>5
  <2>2. Right(n)
    <3> HIDE DEF Right
    <3> QED BY <1>3, <2>1
  <2>3. Text!FlattenSeq(s) = Flat(s)[n]
    BY <1>5, FlattenIsFlat
  <2> QED BY <2>2, <2>3
<1> QED BY <1>4, <1>5

LEMMA NormalizedOnes ==
  ASSUME Text!RollingAssumption, OneWordEach, NEW text \in Seq(Words)
  PROVE  Len(Text!Normalized(text)) = Len(text) /\ \A i \in 1..Len(text) : Text!Normalized(text)[i] = WordParts[text[i]][1]
<1> DEFINE parts == [i \in DOMAIN text |-> WordParts[text[i]]]
<1>0. DOMAIN text = 1..Len(text) /\ Len(text) \in Nat /\ \A i \in 1..Len(text) : text[i] \in Words
  OBVIOUS
<1>1. parts \in Seq(Seq(DOMAIN Family))
  <2>1. \A i \in DOMAIN text : WordParts[text[i]] \in Seq(DOMAIN Family)
    BY <1>0 DEF Text!RollingAssumption
  <2>2. parts \in [1..Len(text) -> Seq(DOMAIN Family)]
    BY <1>0, <2>1
  <2> QED BY <1>0, <2>2, SeqDef
<1>2. Len(parts) = Len(text)
  BY <1>0, <1>1
<1>3. \A i \in 1..Len(text) : parts[i] = WordParts[text[i]]
  BY <1>0
<1> HIDE DEF parts
<1>4. \A i \in 1..Len(parts) : Len(parts[i]) = 1
  BY <1>0, <1>2, <1>3 DEF OneWordEach
<1>5. Len(Text!FlattenSeq(parts)) = Len(parts) /\ \A j \in 1..Len(parts) : Text!FlattenSeq(parts)[j] = parts[j][1]
  BY <1>1, <1>4, FlattenOnes
<1> QED BY <1>2, <1>3, <1>5 DEF Text!Normalized, parts

LEMMA SuffixBy ==
  ASSUME NEW S, NEW s \in Seq(S), NEW t \in Seq(S), Len(s) <= Len(t),
         \A i \in 1..Len(s) : s[i] = t[Len(t) - Len(s) + i]
  PROVE  Text!IsSuffix(s, t)
<1>1. Len(s) \in Nat /\ Len(t) \in Nat
  OBVIOUS
<1>2. ASSUME NEW r \in Seq(S) PROVE Len(Text!Reverse(r)) = Len(r) /\ \A i \in 1..Len(r) : Text!Reverse(r)[i] = r[Len(r) - i + 1]
  <2>1. Len(r) \in Nat
    OBVIOUS
  <2>2. \A i \in 1..Len(r) : r[Len(r) - i + 1] \in S
    BY <2>1
  <2>3. Text!Reverse(r) \in [1..Len(r) -> S]
    BY <2>2 DEF Text!Reverse
  <2>4. Len(Text!Reverse(r)) = Len(r)
    BY <2>1, <2>3
  <2> QED BY <2>4 DEF Text!Reverse
<1>3. ASSUME NEW i \in 1..Len(s) PROVE Text!Reverse(s)[i] = Text!Reverse(t)[i]
  <2> DEFINE j == Len(s) - i + 1
  <2>1. j \in 1..Len(s) /\ i \in 1..Len(t) /\ Len(t) - Len(s) + j = Len(t) - i + 1
    BY <1>1
  <2>2. s[j] = t[Len(t) - Len(s) + j]
    BY <2>1
  <2>3. Text!Reverse(s)[i] = s[j] /\ Text!Reverse(t)[i] = t[Len(t) - i + 1]
    BY <1>2, <2>1
  <2> HIDE DEF j
  <2> QED BY <2>1, <2>2, <2>3
<1>4. Len(Text!Reverse(s)) = Len(s) /\ Len(Text!Reverse(t)) = Len(t)
  BY <1>2
<1>5. Text!IsPrefix(Text!Reverse(s), Text!Reverse(t))
  BY <1>1, <1>3, <1>4, SamePrefix, TextPrefix
<1> QED BY <1>5 DEF Text!IsSuffix

\* What is removed repeats what was said before.
LEMMA RemovedRepeats ==
  ASSUME Text!RollingAssumption, OneWordEach, NEW previous \in Seq(Words), NEW text \in Seq(Words),
         NEW sent, sent = Text!Unmatched(previous, text)
  PROVE  LET cut == Len(text) - Len(sent)
         IN  /\ Text!From(text, cut) = sent
             /\ Text!IsSuffix(Text!Families(Text!Normalized(Text!Upto(text, cut))), Text!Families(Text!Normalized(previous)))
<1> DEFINE c == Text!Normalized(previous)
           n == Text!Normalized(text)
           overlap == Text!SpeechOverlap(c, n)
           k == IF sent = text THEN 0 ELSE overlap
           head == Text!Upto(text, k)
           repeat == Text!Families(Text!Normalized(head))
           before == Text!Families(c)
<1>1. /\ c \in Seq(DOMAIN Family) /\ n \in Seq(DOMAIN Family)
      /\ Len(n) = Len(text) /\ Len(text) \in Nat /\ Len(c) \in Nat
      /\ \A i \in 1..Len(text) : n[i] = WordParts[text[i]][1]
  BY NormalizedIsSeq, NormalizedOnes
<1>2. /\ overlap \in Nat /\ overlap <= Len(c) /\ overlap <= Len(n)
      /\ overlap > 0 => Text!From(Text!Families(c), Len(c) - overlap) = Text!Upto(Text!Families(n), overlap)
  BY <1>1, SpeechOverlapIs
<1>3. sent = text \/ sent = Text!From(text, overlap)
  BY DEF Text!Unmatched, Text!WithoutTail
<1>4. Text!From(text, 0) = text
  BY <1>1 DEF Text!From
<1> HIDE DEF c, n, overlap
<1>5. sent = Text!From(text, k)
  BY <1>3, <1>4
<1>6. /\ k \in Nat /\ k <= Len(c) /\ k <= Len(text)
      /\ k > 0 => Text!From(Text!Families(c), Len(c) - k) = Text!Upto(Text!Families(n), k)
  BY <1>1, <1>2
<1> HIDE DEF k
<1>7. Len(sent) = Len(text) - k
  BY <1>5, <1>6, Slices
<1>8. Len(text) - Len(sent) = k
  BY <1>1, <1>6, <1>7
<1>9. head \in Seq(Words) /\ Len(head) = k /\ \A i \in 1..k : head[i] = text[i]
  <2>1. head \in Seq(Words) /\ Len(head) = k
    BY <1>1, <1>6, Slices
  <2> QED BY <1>6, <2>1, Slices
<1>10. before \in Seq(Text!Range(Family)) /\ Len(before) = Len(c)
  BY <1>1, FamiliesIsSeq
<1> HIDE DEF head, before
<1>11. /\ Text!Normalized(head) \in Seq(DOMAIN Family) /\ Len(Text!Normalized(head)) = k
       /\ \A i \in 1..k : Text!Normalized(head)[i] = WordParts[head[i]][1]
  BY <1>9, NormalizedIsSeq, NormalizedOnes
<1>12. /\ repeat \in Seq(Text!Range(Family)) /\ Len(repeat) = k
       /\ \A i \in 1..k : repeat[i] = Family[Text!Normalized(head)[i]]
  BY <1>11, FamiliesIsSeq
<1> HIDE DEF repeat
<1>13. ASSUME NEW i \in 1..k PROVE repeat[i] = before[Len(before) - k + i]
  <2> DEFINE m == Len(c) - k
             fn == Text!Families(n)
  <2>1. k > 0 /\ i \in 1..Len(text) /\ m \in Nat /\ m <= Len(c) /\ Len(c) - m = k
    BY <1>1, <1>6
  <2>2. Text!From(before, m) = Text!Upto(fn, k)
    BY <1>6, <2>1 DEF before
  <2>3. fn \in Seq(Text!Range(Family)) /\ Len(fn) = Len(text) /\ fn[i] = Family[n[i]]
    BY <1>1, <2>1, FamiliesIsSeq
  <2> HIDE DEF m, fn
  <2>4. Len(Text!Upto(fn, k)) = k /\ Len(Text!From(before, m)) = k
    BY <1>1, <1>6, <1>10, <2>1, <2>3, Slices
  <2>5. Text!Upto(fn, k)[i] = fn[i]
    BY <1>6, <2>3, <2>4, Slices
  <2>6. Text!From(before, m)[i] = before[m + i]
    BY <1>10, <2>1, <2>4, Slices
  <2>7. repeat[i] = Family[n[i]]
    BY <1>1, <1>9, <1>11, <1>12, <2>1
  <2>8. before[m + i] = repeat[i]
    BY <2>2, <2>3, <2>5, <2>6, <2>7
  <2> QED BY <1>10, <2>8 DEF m
<1>14. Text!IsSuffix(repeat, before)
  BY <1>6, <1>10, <1>12, <1>13, SuffixBy
<1> QED BY <1>5, <1>8, <1>14 DEF repeat, head, before, c

LEMMA NothingRemoved ==
  ASSUME Text!RollingAssumption, OneWordEach, NEW previous \in Seq(Words)
  PROVE  /\ Text!From(<<>>, 0) = <<>>
         /\ Text!IsSuffix(Text!Families(Text!Normalized(Text!Upto(<<>>, 0))), Text!Families(Text!Normalized(previous)))
<1>1. <<>> \in Seq(Words) /\ Len(<<>>) = 0
  OBVIOUS
<1>2. Text!Unmatched(previous, <<>>) = <<>>
  <2>1. Text!SpeechOverlap(Text!Normalized(previous), Text!Normalized(<<>>)) \in Nat
    BY <1>1, NormalizedIsSeq, SpeechOverlapIs
  <2> QED BY <1>1, <2>1 DEF Text!Unmatched, Text!WithoutTail
<1>3. Len(<<>>) - Len(<<>>) = 0
  BY <1>1
<1> DEFINE empty == <<>>
           cut == Len(empty) - Len(empty)
<1>4. empty \in Seq(Words) /\ empty = Text!Unmatched(previous, empty) /\ cut = 0
  BY <1>1, <1>2, <1>3
<1> HIDE DEF empty
<1>5. /\ Text!From(empty, cut) = empty
      /\ Text!IsSuffix(Text!Families(Text!Normalized(Text!Upto(empty, cut))), Text!Families(Text!Normalized(previous)))
  BY <1>4, RemovedRepeats
<1> HIDE DEF cut
<1>6. /\ Text!From(empty, 0) = empty
      /\ Text!IsSuffix(Text!Families(Text!Normalized(Text!Upto(empty, 0))), Text!Families(Text!Normalized(previous)))
  BY <1>4, <1>5
<1> QED BY <1>6 DEF empty

\* OnlyRepeatsAreDropped, of one step.
Removed ==
  LET cut == Len(final'.selected) - Len(final'.sent)
      repeat == Text!Families(Text!Normalized(Text!Upto(final'.selected, cut)))
  IN  /\ Text!From(final'.selected, cut) = final'.sent
      /\ Text!IsSuffix(repeat, Text!Families(Text!Normalized(recent)))

\* For any words each of which normalizes to one word: what is removed from the front of
\* a final is what the finals before it ended with (_drop_leading_tail_overlap_decision).
\* Without OneWordEach it is false: the run CompoundWords shows it.
THEOREM RepeatsAreDropped == ASSUME Text!RollingAssumption, OneWordEach PROVE Text!Spec => OnlyRepeatsAreDropped
<1>1. Text!Init => WordsOK
  BY WordsInit
<1>2. WordsOK /\ [Text!Next]_(Text!vars) => WordsOK'
  BY WordsNext
<1>3. WordsOK /\ [Text!Next]_(Text!vars) => [Removed]_(Text!vars)
  <2> SUFFICES ASSUME WordsOK, Text!Next PROVE Removed
    OBVIOUS
  <2>0. recent \in Seq(Words)
    BY DEF WordsOK
  <2>1. ASSUME final' = Text!NoFinal PROVE Removed
    <3>1. final'.selected = <<>> /\ final'.sent = <<>> /\ Len(<<>>) - Len(<<>>) = 0
      BY <2>1 DEF Text!NoFinal
    <3> QED BY <2>0, <3>1, NothingRemoved DEF Removed
  <2>2. ASSUME NEW selected \in Seq(Words), final' = [selected |-> selected, sent |-> Text!Unmatched(recent, selected)]
        PROVE  Removed
    <3>1. final'.selected = selected /\ final'.sent = Text!Unmatched(recent, selected)
      BY <2>2
    <3> QED BY <2>0, <3>1, RemovedRepeats DEF Removed
  <2>3. ASSUME NEW text \in Text!Texts(DraftWords), Text!Draft(text) PROVE Removed
    BY <2>1, <2>3, DraftKeeps
  <2>4. ASSUME NEW text \in Text!Texts(FinalWords), Text!Commit(text) PROVE Removed
    BY <2>1, <2>2, <2>4, CommitKeeps
  <2> QED BY <2>3, <2>4 DEF Text!Next
<1>4. OnlyRepeatsAreDropped <=> [][Removed]_(Text!vars)
  BY DEF OnlyRepeatsAreDropped, Text!OnlyRepeatsAreDropped, Removed
<1> QED BY <1>1, <1>2, <1>3, <1>4, PTL DEF Text!Spec

=============================================================================
