------------------------ MODULE StreamSessionProofs ------------------------
(* A drained stream is complete, and what the client is told is in order       *)
(* unless the loop outlived its cancellation, for every length of stream,      *)
(* every segment and tail length and any number of drafts and faults. The      *)
(* argument is one inductive invariant about where the frames are: a frame of  *)
(* speech was considered for a final or is still in the buffer, at a place not *)
(* before its own place in the stream, so that what a slow commit cuts off     *)
(* later was in the copy it started from.                                      *)
EXTENDS StreamSession, FiniteSetTheorems, SequenceTheorems, WellFoundedInduction, TLAPS

Pos == Nat \ {0}

DraftPcs == {"none", "start", "decode", "send", "done", "raised", "cancelled"}

DraftShapes == [pc : DraftPcs, seq : Nat]

CommitShapes ==
  [pc : {"none", "decode", "send", "sent", "ready"}, reason : {"none", "forced", "silence", "eof"},
   audio : Seq(Pos), seq : Nat, start : Nat, end : Nat, upto : Nat]

EventShapes ==
  [type : {"final", "partial", "eof_ack", "drained"}, seq : Nat, start : Nat, end : Nat,
   frames : SUBSET Pos]

\* The frames of a piece of audio that ends at a place of the stream lie no
\* later than their positions in it say.
Placed(frames, end) ==
  /\ Len(frames) <= end
  /\ \A j \in DOMAIN frames : frames[j] + Len(frames) <= end + j

Speech == {i \in DOMAIN heard : heard[i] = "speech"}

Pending(a) == commit[a].pc \in {"decode", "send", "sent"}

\* What the buffer holds beyond a place came in beyond it.
LaterThan(n) == \A j \in DOMAIN buffer : bufferStart + j > n => buffer[j] > n

Finals == Positions("final")

-----------------------------------------------------------------------------
(* The inductive invariant. *)

Typed ==
  /\ main \in {"open", "terminal", "closed"}
  /\ heard \in Seq({"speech", "silence"}) /\ buffer \in Seq(Pos)
  /\ bufferStart \in Nat /\ segIndex \in Nat /\ finalized \in Nat
  /\ failures \in Nat /\ drafts \in Nat /\ faults \in Nat
  /\ speechSeen \in BOOLEAN /\ draftTask \in BOOLEAN /\ circuit \in BOOLEAN /\ outlived \in BOOLEAN
  /\ loop \in {"tick", "reap", "commit", "done", "failed", "cancelled"}
  /\ phase \in {"idle", "draft", "commit"}
  /\ draft \in DraftShapes
  /\ term \in {"none", "stop", "reap", "join", "ack", "begin", "commit", "publish", "drain", "close"}
  /\ commit \in [Actors -> CommitShapes]
  /\ sent \in Seq(EventShapes)
  /\ decoded \subseteq 1..Total

\* A frame of speech is in the buffer until it is decoded, and what counts as
\* final was.
BufferOK ==
  /\ Placed(buffer, Total) /\ bufferStart = Total - Len(buffer)
  /\ \A i \in Speech \ decoded : \E j \in DOMAIN buffer : buffer[j] = i
  /\ \A i \in Speech : i <= finalized => i \in decoded
  /\ finalized <= Total
  /\ LaterThan(finalized)

\* Until the terminal pipeline is done with the loop, and once its commit is.
Early == {"none", "stop", "reap", "join"}

Committed == {"publish", "drain", "close"}

\* Who may commit: the loop beside the terminal pipeline only when it came out
\* of the wait for a cancelled draft after EOF, with the whole stream in its copy.
ControlOK ==
  /\ main = "open" => term = "none"
  /\ (loop = "commit") <=> Pending("loop")
  /\ commit["loop"].pc # "ready" /\ commit["terminal"].pc \in {"none", "decode", "ready"}
  /\ commit["terminal"].pc = "decode" => term = "commit"
  /\ commit["terminal"].pc = "ready" => term \in {"publish", "drain", "close"}
  /\ loop = "commit" => phase = "commit"
  /\ loop \in {"reap", "commit"} => ~draftTask /\ commit["loop"].reason \in {"forced", "silence"}
  /\ term \notin {"none", "stop"} => ~draftTask
  /\ term = "reap" => loop \notin {"reap", "commit"}
  /\ term \notin Early /\ loop = "commit" =>
       commit["loop"].upto = Total
  /\ commit["terminal"].pc = "decode" => commit["terminal"].upto = Total
  /\ term \notin Early /\ ~outlived => loop \in {"done", "cancelled"}

\* The copy a commit started from: all speech before its end is decoded, and
\* the buffer has only grown behind it.
CommitOK(c) ==
  /\ bufferStart <= c.upto /\ c.upto <= Total /\ c.end <= c.upto /\ finalized <= c.upto
  /\ c.reason # "silence" => c.end = c.upto
  /\ c.audio # <<>> /\ Placed(c.audio, c.end)
  /\ \A i \in Speech : i <= c.upto => i \in decoded
  /\ LaterThan(c.upto)

PendingOK == \A a \in Actors : Pending(a) => CommitOK(commit[a])

Complete ==
  /\ term \in {"commit", "publish", "drain", "close"} => Speech \subseteq decoded
  /\ Positions("drained") # {} => term = "close"

\* A draft that can still speak is one the loop knows, about this segment.
DraftOK ==
  /\ ~draftTask => draft.pc \in {"none", "cancelled"}
  /\ draft.pc \in {"decode", "send"} => draft.seq = segIndex

\* The loop has no commit.
Quiet == {"tick", "reap", "done", "cancelled"}

SeqOK ==
  /\ \A a \in Actors : commit[a].pc # "none" => commit[a].seq <= segIndex
  /\ commit["terminal"].pc = "ready" => commit["terminal"].seq < segIndex
  /\ \A i \in Finals : sent[i].seq <= segIndex
  /\ loop \in Quiet \/ draftTask => \A i \in Finals : sent[i].seq < segIndex

\* Audio shares at most its first TailFrames frames with a final.
OnlyTailOf(frames, i) == \A j \in DOMAIN frames : j > TailFrames => frames[j] \notin sent[i].frames

Before(n) == \A i \in Finals : \A f \in sent[i].frames : f <= n

\* A segment that is newer than all finals.
Fresh(c) ==
  /\ c.audio # <<>>
  /\ \A i \in Finals :
       /\ sent[i].seq < c.seq /\ OnlyTailOf(c.audio, i)
       /\ \A f \in sent[i].frames : f < c.audio[Len(c.audio)]

\* Unless the loop outlived its cancellation.
Windows ==
  /\ commit["loop"].pc # "sent" /\ term \notin Committed =>
       Before(finalized) /\ \A i \in Finals : OnlyTailOf(buffer, i)
  /\ commit["loop"].pc \in {"decode", "send"} =>
       /\ commit["loop"].audio[Len(commit["loop"].audio)] > finalized
       /\ \A i \in Finals : sent[i].seq < commit["loop"].seq /\ OnlyTailOf(commit["loop"].audio, i)
  /\ commit["loop"].pc = "sent" => Before(commit["loop"].end)
  /\ Pending("loop") => finalized < commit["loop"].end
  /\ term \in {"commit", "publish"} /\ commit["terminal"].pc # "none" => Fresh(commit["terminal"])

Told ==
  /\ SeqOK
  /\ ~outlived => Windows
  /\ NoStalePartial /\ WindowsAdvance

IInv == Typed /\ BufferOK /\ ControlOK /\ PendingOK /\ Complete /\ DraftOK /\ Told

-----------------------------------------------------------------------------
(* Positions in sequences. *)

Below == {p \in Nat \X Nat : p[1] < p[2]}

LEMMA Least ==
  ASSUME NEW T \in SUBSET Nat, T # {}
  PROVE  \E x \in T : \A y \in T : x <= y
<1>1. IsWellFoundedOn(Below, Nat)
  <2>1. Below = OpToRel(<, Nat)
    BY DEF Below, OpToRel
  <2> QED BY <2>1, NatLessThanWellFounded
<1>2. \E x \in T : \A y \in T : ~(<<y, x>> \in Below)
  BY <1>1, WFMin
<1>3. PICK x \in T : \A y \in T : ~(<<y, x>> \in Below)
  BY <1>2
<1>4. ASSUME NEW y \in T PROVE x <= y
  <2>1. ~(<<y, x>> \in Below) /\ x \in Nat /\ y \in Nat
    BY <1>3
  <2>2. y < x => <<y, x>> \in Below
    BY <2>1 DEF Below
  <2> QED BY <2>1, <2>2
<1> QED BY <1>4

LEMMA Greatest ==
  ASSUME NEW n \in Nat, NEW T \in SUBSET (0..n), T # {}
  PROVE  \E x \in T : \A y \in T : y <= x
<1> DEFINE U == {n - x : x \in T}
<1>1. U \in SUBSET Nat
  OBVIOUS
<1>2. U # {}
  <2> PICK x \in T : TRUE
    OBVIOUS
  <2> n - x \in U
    OBVIOUS
  <2> QED OBVIOUS
<1>3. PICK u \in U : \A v \in U : u <= v
  BY <1>1, <1>2, Least
<1>4. PICK x \in T : u = n - x
  OBVIOUS
<1>5. ASSUME NEW y \in T PROVE y <= x
  <2>1. n - y \in U
    OBVIOUS
  <2> QED BY <1>3, <1>4, <2>1
<1> QED BY <1>5

\* A piece of a sequence.
LEMMA Slice ==
  ASSUME NEW s \in Seq(Pos), NEW m \in Pos, NEW n \in Nat, n <= Len(s), m <= n + 1
  PROVE  /\ SubSeq(s, m, n) \in Seq(Pos)
         /\ Len(SubSeq(s, m, n)) = n + 1 - m
         /\ DOMAIN SubSeq(s, m, n) = 1..(n + 1 - m)
         /\ \A k \in 1..(n + 1 - m) : SubSeq(s, m, n)[k] = s[k + m - 1]
<1>1. \A i \in m..n : s[i] \in Pos
  BY DEF Pos
<1>2. m \in Int /\ n \in Int
  BY DEF Pos
<1>3. /\ SubSeq(s, m, n) \in Seq(Pos)
      /\ Len(SubSeq(s, m, n)) = IF m <= n THEN n - m + 1 ELSE 0
      /\ \A i \in 1..n - m + 1 : SubSeq(s, m, n)[i] = s[m + i - 1]
  BY <1>1, <1>2, SubSeqProperties
<1>4. Len(SubSeq(s, m, n)) = n + 1 - m
  BY <1>2, <1>3
<1> QED BY <1>2, <1>3, <1>4, LenProperties

\* A piece of placed audio is placed where it ends.
LEMMA SlicePlaced ==
  ASSUME NEW s \in Seq(Pos), NEW m \in Pos, NEW n \in Nat, n <= Len(s), m <= n + 1,
         NEW end \in Nat, Placed(s, end), NEW last \in Nat, last + Len(s) >= end + n
  PROVE  Placed(SubSeq(s, m, n), last)
<1> DEFINE t == SubSeq(s, m, n)
<1>1. /\ t \in Seq(Pos) /\ Len(t) = n + 1 - m /\ DOMAIN t = 1..(n + 1 - m)
      /\ \A k \in 1..(n + 1 - m) : t[k] = s[k + m - 1]
  BY Slice
<1> HIDE DEF t
<1>2. Len(t) <= last
  BY <1>1 DEF Placed, Pos
<1>3. ASSUME NEW k \in DOMAIN t PROVE t[k] + Len(t) <= last + k
  <2>0. k \in 1..(n + 1 - m) /\ DOMAIN s = 1..Len(s) /\ Len(s) \in Nat /\ m \in Nat /\ m > 0
    BY <1>1, LenProperties DEF Pos
  <2>1. k + m - 1 \in DOMAIN s /\ t[k] = s[k + m - 1]
    BY <1>1, <2>0
  <2>2. s[k + m - 1] + Len(s) <= end + (k + m - 1)
    BY <2>1 DEF Placed
  <2>3. PICK v \in Nat : v = s[k + m - 1]
    BY <2>0, <2>1 DEF Pos
  <2>4. v + Len(s) <= end + (k + m - 1)
    BY <2>2, <2>3
  <2>5. v + (n + 1 - m) <= last + k
    BY <2>0, <2>4
  <2> QED BY <1>1, <2>1, <2>3, <2>5
<1> QED BY <1>2, <1>3 DEF Placed, t

\* _trim_to_active_audio cuts off nothing that was heard as speech.
LEMMA TrimIsSlice ==
  ASSUME NEW s \in Seq(Pos)
  PROVE  \E m \in Pos, n \in Nat :
           /\ n <= Len(s) /\ m <= n + 1
           /\ Trimmed(s) = SubSeq(s, m, n)
           /\ \A i \in Active(s) : m <= i /\ i <= n
           /\ Active(s) # {} =>
                m <= n /\ m = CHOOSE i \in Active(s) : \A j \in Active(s) : i <= j
<1>1. CASE Active(s) = {}
  <2>1. SubSeq(s, 1, 0) = <<>>
    BY SubSeqEmpty
  <2> 1 \in Pos /\ 0 \in Nat
    BY DEF Pos
  <2>3. Trimmed(s) = SubSeq(s, 1, 0) /\ Len(s) \in Nat
    BY <1>1, <2>1, LenProperties DEF Trimmed
  <2>4. 0 <= Len(s) /\ 1 <= 0 + 1
    BY <2>3
  <2> WITNESS 1 \in Pos, 0 \in Nat
  <2>5. \A i \in Active(s) : 1 <= i /\ i <= 0
    BY <1>1
  <2> QED BY <1>1, <2>3, <2>4, <2>5
<1>2. CASE Active(s) # {}
  <2> DEFINE A == Active(s)
             m == CHOOSE i \in A : \A j \in A : i <= j
             n == CHOOSE i \in A : \A j \in A : j <= i
  <2>1. A \subseteq 1..Len(s) /\ Len(s) \in Nat
    BY DEF Active
  <2>2. A \in SUBSET Nat /\ A \in SUBSET (0..Len(s))
    BY <2>1
  <2>3. m \in A /\ \A j \in A : m <= j
    BY <1>2, <2>2, Least
  <2>4. n \in A /\ \A j \in A : j <= n
    BY <1>2, <2>1, <2>2, Greatest
  <2>5. Trimmed(s) = SubSeq(s, m, n)
    BY <1>2 DEF Trimmed
  <2>6. m \in Pos /\ n \in Nat /\ n <= Len(s) /\ m <= n
    BY <2>1, <2>3, <2>4 DEF Pos
  <2> HIDE DEF m, n
  <2>7. m <= n + 1 /\ \A i \in A : m <= i /\ i <= n
    BY <2>3, <2>4, <2>6 DEF Pos
  <2>8. m = CHOOSE i \in A : \A j \in A : i <= j
    BY DEF m
  <2> QED BY <2>5, <2>6, <2>7, <2>8
<1> QED BY <1>1, <1>2

-----------------------------------------------------------------------------
(* The copy a commit starts from, and the buffer it leaves. *)

\* The copy holds all speech of the buffer, its place is one it does not run
\* ahead of, and if that is new then its last frame is.
CopyOK(c, reason) ==
  /\ c.audio \in Seq(Pos) /\ c.start \in Nat /\ c.end \in Nat /\ c.upto = Total
  /\ c.end <= c.upto /\ Placed(c.audio, c.end)
  /\ reason # "silence" => c.end = c.upto
  /\ \A j \in DOMAIN buffer :
       buffer[j] \in Speech => buffer[j] <= c.end /\ \E k \in DOMAIN c.audio : c.audio[k] = buffer[j]
  /\ c.end > finalized /\ c.audio # <<>> => c.audio[Len(c.audio)] > finalized
  /\ \A k \in DOMAIN c.audio : \E j \in DOMAIN buffer : k <= j /\ c.audio[k] = buffer[j]

LEMMA TotalIsNat ==
  ASSUME Typed
  PROVE  /\ Total \in Nat /\ DOMAIN heard = 1..Total /\ Speech \subseteq 1..Total
         /\ Len(buffer) \in Nat /\ DOMAIN buffer = 1..Len(buffer)
         /\ \A j \in DOMAIN buffer : buffer[j] \in Pos
<1>1. heard \in Seq({"speech", "silence"}) /\ buffer \in Seq(Pos)
  BY DEF Typed
<1> QED BY <1>1, LenProperties DEF Total, Speech

LEMMA CopyIsGood ==
  ASSUME Typed, BufferOK, NEW reason
  PROVE  CopyOK(Copied(reason), reason)
<1> DEFINE c == Copied(reason)
<1>1. /\ Total \in Nat /\ Len(buffer) \in Nat /\ DOMAIN buffer = 1..Len(buffer)
      /\ \A j \in DOMAIN buffer : buffer[j] \in Pos
      /\ bufferStart \in Nat /\ buffer \in Seq(Pos) /\ finalized \in Nat
  BY TotalIsNat DEF Typed
<1>2. /\ bufferStart + Len(buffer) = Total /\ Placed(buffer, Total) /\ LaterThan(finalized)
  BY <1>1 DEF BufferOK
<1>3. c.upto = Total
  BY <1>2 DEF Copied
<1>4. CASE reason # "silence"
  <2>1. c.audio = buffer /\ c.end = Total /\ c.start = bufferStart
    BY <1>1, <1>2, <1>4 DEF Copied
  <2>2. ASSUME NEW j \in DOMAIN buffer PROVE buffer[j] <= Total
    BY <1>1, <1>2 DEF Placed, Pos
  <2>3. ASSUME Total > finalized, buffer # <<>> PROVE buffer[Len(buffer)] > finalized
    <3>1. Len(buffer) \in DOMAIN buffer
      BY <1>1, <2>3
    <3>2. bufferStart + Len(buffer) > finalized
      BY <1>2, <2>3
    <3> QED BY <3>1, <3>2, <1>2 DEF LaterThan
  <2>4. \A k \in DOMAIN buffer : k <= k
    BY <1>1
  <2> QED BY <1>1, <1>2, <1>3, <2>1, <2>2, <2>3, <2>4 DEF CopyOK
<1>5. CASE reason = "silence"
  <2>1. PICK m \in Pos, n \in Nat :
           /\ n <= Len(buffer) /\ m <= n + 1
           /\ Trimmed(buffer) = SubSeq(buffer, m, n)
           /\ \A i \in Active(buffer) : m <= i /\ i <= n
           /\ Active(buffer) # {} =>
                m <= n /\ m = CHOOSE i \in Active(buffer) : \A j \in Active(buffer) : i <= j
    BY <1>1, TrimIsSlice
  <2> DEFINE t == SubSeq(buffer, m, n)
  <2>2. /\ t \in Seq(Pos) /\ Len(t) = n + 1 - m /\ DOMAIN t = 1..(n + 1 - m)
        /\ \A k \in 1..(n + 1 - m) : t[k] = buffer[k + m - 1]
    BY <1>1, <2>1, Slice
  <2>3. c.audio = t
    BY <1>5, <2>1 DEF Copied
  <2>4. \A j \in DOMAIN buffer : buffer[j] \in Speech => j \in Active(buffer)
    BY DEF Speech, Active
  <2>5. CASE t = <<>>
    <3>1. Active(buffer) = {}
      <4>1. Len(t) = 0
        BY <2>5
      <4> QED BY <2>1, <2>2, <4>1 DEF Pos
    <3>2. c.end = Total /\ c.start = Total
      BY <1>2, <1>5, <2>3, <2>5 DEF Copied
    <3>3. Placed(t, Total) /\ DOMAIN t = {}
      BY <1>1, <2>5 DEF Placed
    <3>4. \A j \in DOMAIN buffer : buffer[j] \notin Speech
      BY <2>4, <3>1
    <3> HIDE DEF t, c
    <3>5. c.audio = <<>> /\ DOMAIN c.audio = {}
      BY <2>3, <2>5, <3>3
    <3>6. /\ c.audio \in Seq(Pos) /\ c.start \in Nat /\ c.end \in Nat
          /\ c.end <= c.upto /\ Placed(c.audio, c.end)
      BY <1>1, <1>3, <2>2, <2>3, <3>2, <3>3
    <3>7. CopyOK(c, reason)
      BY <1>3, <1>5, <3>4, <3>5, <3>6 DEF CopyOK
    <3> QED BY <3>7 DEF c
  <2>6. CASE t # <<>>
    <3>1. Active(buffer) # {}
      BY <2>1, <2>6 DEF Trimmed
    <3>2. m <= n /\ m = CHOOSE i \in Active(buffer) : \A j \in Active(buffer) : i <= j
      BY <2>1, <3>1
    <3>3. c.start = bufferStart + (m - 1) /\ c.end = bufferStart + (m - 1) + Len(t)
      <4>1. Trimmed(buffer) = t
        BY <2>1
      <4> HIDE DEF t
      <4> QED BY <1>5, <2>6, <3>2, <4>1 DEF Copied
    <3> HIDE DEF t, c
    <3>4. m \in Nat /\ m > 0 /\ n <= Len(buffer) /\ m <= n
      BY <2>1, <3>2 DEF Pos
    <3>5. c.end = bufferStart + n /\ c.start \in Nat /\ c.end \in Nat /\ c.end <= Total
      BY <1>1, <1>2, <2>2, <3>3, <3>4
    <3>6. Placed(t, c.end)
      BY <1>1, <1>2, <2>1, <3>5, SlicePlaced DEF t
    <3>7. ASSUME NEW j \in DOMAIN buffer, buffer[j] \in Speech
          PROVE  buffer[j] <= c.end /\ \E k \in DOMAIN t : t[k] = buffer[j]
      <4>1. j \in Nat /\ m <= j /\ j <= n
        BY <1>1, <2>1, <2>4, <3>7
      <4>2. buffer[j] \in Nat /\ buffer[j] + Len(buffer) <= Total + j
        BY <1>1, <1>2 DEF Placed, Pos
      <4>3. buffer[j] <= c.end
        BY <1>1, <1>2, <3>5, <4>1, <4>2
      <4>4. j + 1 - m \in DOMAIN t /\ (j + 1 - m) + m - 1 = j
        BY <1>1, <2>2, <3>4, <4>1
      <4>5. t[j + 1 - m] = buffer[j]
        BY <2>2, <4>4
      <4> QED BY <4>3, <4>4, <4>5
    <3>8. ASSUME c.end > finalized PROVE t[Len(t)] > finalized
      <4>1. Len(t) \in DOMAIN t /\ Len(t) + m - 1 = n /\ n \in DOMAIN buffer
        BY <1>1, <2>2, <3>4
      <4>2. t[Len(t)] = buffer[n]
        BY <2>2, <4>1
      <4> QED BY <1>2, <3>5, <3>8, <4>1, <4>2 DEF LaterThan
    <3>9. ASSUME NEW k \in DOMAIN t
          PROVE  \E j \in DOMAIN buffer : k <= j /\ t[k] = buffer[j]
      <4>1. k + m - 1 \in DOMAIN buffer /\ k <= k + m - 1
        BY <1>1, <2>1, <2>2, <3>4
      <4> QED BY <2>2, <4>1
    <3> QED BY <1>3, <1>5, <2>2, <2>3, <3>5, <3>6, <3>7, <3>8, <3>9 DEF CopyOK, c
  <2> QED BY <2>5, <2>6
<1> QED BY <1>4, <1>5

\* What came in after the copy ended.
LEMMA AppendedIsLate ==
  ASSUME Typed, BufferOK, NEW upto \in Nat, bufferStart <= upto, upto <= Total, LaterThan(upto)
  PROVE  /\ Appended(upto) \in Seq(Pos) /\ Len(Appended(upto)) = Total - upto
         /\ DOMAIN Appended(upto) = 1..(Total - upto)
         /\ Placed(Appended(upto), Total)
         /\ \A k \in DOMAIN Appended(upto) : Appended(upto)[k] > upto
         /\ \A j \in DOMAIN buffer :
              buffer[j] > upto => \E k \in DOMAIN Appended(upto) : Appended(upto)[k] = buffer[j]
<1> DEFINE d == upto - bufferStart
           t == Appended(upto)
<1>1. /\ Total \in Nat /\ Len(buffer) \in Nat /\ DOMAIN buffer = 1..Len(buffer)
      /\ \A j \in DOMAIN buffer : buffer[j] \in Pos
      /\ bufferStart \in Nat /\ buffer \in Seq(Pos)
  BY TotalIsNat DEF Typed
<1>2. bufferStart + Len(buffer) = Total /\ Placed(buffer, Total)
  BY <1>1 DEF BufferOK
<1>3. d \in Nat /\ d + 1 \in Pos /\ d + 1 <= Len(buffer) + 1 /\ Len(buffer) - d = Total - upto
  BY <1>1, <1>2 DEF Pos
<1>4. t = SubSeq(buffer, d + 1, Len(buffer))
  BY <1>1, <1>3 DEF Appended, Most
<1> HIDE DEF d, t
<1> PICK m \in Pos : m = d + 1
  BY <1>3
<1>5. /\ t \in Seq(Pos) /\ Len(t) = Len(buffer) + 1 - m
      /\ DOMAIN t = 1..(Len(buffer) + 1 - m)
      /\ \A k \in 1..(Len(buffer) + 1 - m) : t[k] = buffer[k + m - 1]
  <2>1. m <= Len(buffer) + 1 /\ Len(buffer) <= Len(buffer) /\ t = SubSeq(buffer, m, Len(buffer))
    BY <1>1, <1>3, <1>4
  <2> QED BY <1>1, <2>1, Slice
<1>6. /\ Len(t) = Total - upto /\ DOMAIN t = 1..(Total - upto)
      /\ \A k \in 1..(Total - upto) : k + d \in DOMAIN buffer /\ t[k] = buffer[k + d]
  <2>1. Len(buffer) + 1 - m = Total - upto
    BY <1>1, <1>3
  <2>2. \A k \in 1..(Total - upto) : k + d \in DOMAIN buffer /\ k + m - 1 = k + d
    BY <1>1, <1>3
  <2> QED BY <1>5, <2>1, <2>2
<1>7. Placed(t, Total)
  BY <1>1, <1>2, <1>3, <1>4, SlicePlaced
<1>8. ASSUME NEW k \in DOMAIN t PROVE t[k] > upto
  <2>1. k \in Nat /\ k > 0 /\ bufferStart + (k + d) > upto
    BY <1>1, <1>6 DEF d
  <2> QED BY <1>6, <2>1 DEF LaterThan
<1>9. ASSUME NEW j \in DOMAIN buffer, buffer[j] > upto PROVE \E k \in DOMAIN t : t[k] = buffer[j]
  <2>1. buffer[j] \in Nat /\ buffer[j] + Len(buffer) <= Total + j
    BY <1>1, <1>2 DEF Placed, Pos
  <2>2. j \in Nat /\ j <= Len(buffer) /\ j > d
    BY <1>1, <1>2, <1>9, <2>1 DEF d
  <2>3. j - d \in DOMAIN t /\ (j - d) + d = j
    BY <1>1, <1>3, <1>6, <2>2
  <2> QED BY <1>6, <2>3
<1> QED BY <1>5, <1>6, <1>7, <1>8, <1>9 DEF t

\* advance_segment: what is left is what came in after the copy, silence around
\* it cut off, or all of it behind a short tail of the copy.
AdvancedTo(retain, upto) ==
  /\ segIndex' = segIndex + 1 /\ speechSeen' \in BOOLEAN
  /\ buffer' \in Seq(Pos) /\ Placed(buffer', Total)
  /\ bufferStart' = Total - Len(buffer') /\ bufferStart' \in Nat /\ bufferStart' <= Total
  /\ \A j \in DOMAIN buffer : buffer[j] \in Speech /\ buffer[j] > upto =>
       \E k \in DOMAIN buffer' : buffer'[k] = buffer[j]
  /\ \A k \in DOMAIN buffer' :
       buffer'[k] > upto \/ (retain /\ k <= TailFrames /\ bufferStart' + k <= upto)

LEMMA AdvanceShape ==
  ASSUME Typed, BufferOK, NEW upto \in Nat, bufferStart <= upto, upto <= Total, LaterThan(upto),
         NEW retain \in BOOLEAN, NEW audio \in Seq(Pos), Placed(audio, upto),
         Advance(retain, upto, audio)
  PROVE  AdvancedTo(retain, upto)
<1> DEFINE t == Appended(upto)
           L == Len(audio)
           tail == IF retain /\ L > TailFrames THEN SubSeq(audio, L - TailFrames + 1, L) ELSE <<>>
           rest == IF retain THEN t ELSE Trimmed(t)
<1>1. /\ t \in Seq(Pos) /\ Len(t) = Total - upto /\ DOMAIN t = 1..(Total - upto)
      /\ Placed(t, Total) /\ \A k \in DOMAIN t : t[k] > upto
      /\ \A j \in DOMAIN buffer : buffer[j] > upto => \E k \in DOMAIN t : t[k] = buffer[j]
  BY AppendedIsLate
<1>2. Total \in Nat /\ L \in Nat /\ TailFrames \in Nat
  BY TotalIsNat, StreamAssumption
<1>3. /\ segIndex' = segIndex + 1 /\ speechSeen' \in BOOLEAN
      /\ buffer' = tail \o rest
  BY DEF Advance
<1>6. bufferStart' = Most(0, Total - Len(buffer'))
  BY DEF Advance
<1> HIDE DEF t
<1>4. CASE retain
  <2>1. PICK p \in Pos : p <= L + 1 /\ L + 1 - p <= TailFrames /\ tail = SubSeq(audio, p, L)
    <3>1. CASE L > TailFrames
      <4>1. L - TailFrames + 1 \in Pos /\ L - TailFrames + 1 <= L + 1
            /\ L + 1 - (L - TailFrames + 1) <= TailFrames
        BY <1>2, <3>1 DEF Pos
      <4>2. tail = SubSeq(audio, L - TailFrames + 1, L)
        BY <1>4, <3>1
      <4> QED BY <4>1, <4>2
    <3>2. CASE ~(L > TailFrames)
      <4>1. SubSeq(audio, L + 1, L) = <<>> /\ L + 1 \in Pos
        BY <1>2, SubSeqEmpty DEF Pos
      <4> QED BY <1>2, <3>2, <4>1
    <3> QED BY <3>1, <3>2
  <2> DEFINE n == L + 1 - p
  <2> HIDE DEF tail
  <2>2. tail \in Seq(Pos) /\ Len(tail) = n /\ DOMAIN tail = 1..n
    BY <1>2, <2>1, Slice
  <2>3. Placed(tail, upto)
    BY <1>2, <2>1, SlicePlaced
  <2>4. rest = t
    BY <1>4
  <2> HIDE DEF tail, rest, n
  <2>5. /\ buffer' \in Seq(Pos) /\ Len(buffer') = Len(tail) + Len(t)
        /\ \A i \in 1..Len(tail) + Len(t) :
             buffer'[i] = IF i <= Len(tail) THEN tail[i] ELSE t[i - Len(tail)]
    BY <1>1, <1>3, <2>2, <2>4, ConcatProperties
  <2>6. n \in Nat /\ n <= upto /\ n <= TailFrames
    BY <1>2, <2>1, <2>2, <2>3 DEF Placed, n, Pos
  <2>7. Len(buffer') = n + (Total - upto) /\ DOMAIN buffer' = 1..(n + (Total - upto))
    BY <1>1, <2>2, <2>5, LenProperties
  <2>8. bufferStart' = Total - Len(buffer') /\ bufferStart' = upto - n
    BY <1>2, <1>6, <2>6, <2>7 DEF Most
  <2>9. ASSUME NEW k \in 1..n
        PROVE  /\ buffer'[k] + Len(buffer') <= Total + k
               /\ k <= TailFrames /\ bufferStart' + k <= upto
    <3>1. buffer'[k] = tail[k] /\ k \in DOMAIN tail
      BY <1>1, <1>2, <2>2, <2>5, <2>6
    <3>2. PICK v \in Nat : v = tail[k]
      BY <2>2, <3>1 DEF Pos
    <3>3. v + n <= upto + k
      BY <2>2, <2>3, <3>1, <3>2 DEF Placed
    <3> QED BY <1>2, <2>6, <2>7, <2>8, <3>1, <3>2, <3>3
  <2>10. ASSUME NEW k \in 1..(Total - upto)
         PROVE  /\ buffer'[n + k] = t[k] /\ n + k \in DOMAIN buffer'
                /\ buffer'[n + k] + Len(buffer') <= Total + (n + k)
                /\ buffer'[n + k] > upto
    <3>1. buffer'[n + k] = t[k] /\ n + k \in DOMAIN buffer'
      <4>1. n + k \in 1..Len(tail) + Len(t) /\ ~(n + k <= Len(tail)) /\ n + k - Len(tail) = k
        BY <1>1, <1>2, <2>2, <2>6
      <4> QED BY <2>5, <2>7, <4>1, <1>1, <2>2
    <3>2. PICK v \in Nat : v = t[k]
      BY <1>1 DEF Pos
    <3>3. v + (Total - upto) <= Total + k /\ v > upto
      BY <1>1, <3>2 DEF Placed
    <3> QED BY <1>2, <2>6, <2>7, <3>1, <3>2, <3>3
  <2>11. \A k \in DOMAIN buffer' : k \in 1..n \/ \E i \in 1..(Total - upto) : k = n + i
    <3> TAKE k \in DOMAIN buffer'
    <3>1. k \in 1..n \/ k - n \in 1..(Total - upto)
      BY <1>2, <2>6, <2>7
    <3>2. k = n + (k - n)
      BY <1>2, <2>6, <2>7
    <3> QED BY <3>1, <3>2
  <2>12. Placed(buffer', Total)
    <3>1. Len(buffer') <= Total
      BY <1>2, <2>6, <2>7
    <3> QED BY <2>9, <2>10, <2>11, <3>1 DEF Placed
  <2>13. bufferStart' \in Nat /\ bufferStart' <= Total
    BY <1>2, <2>6, <2>8
  <2>14. \A j \in DOMAIN buffer : buffer[j] > upto =>
           \E k \in DOMAIN buffer' : buffer'[k] = buffer[j]
    <3>1. \A k \in DOMAIN t : n + k \in DOMAIN buffer' /\ buffer'[n + k] = t[k]
      BY <1>1, <2>10
    <3> QED BY <1>1, <3>1
  <2>15. \A k \in DOMAIN buffer' :
           buffer'[k] > upto \/ (retain /\ k <= TailFrames /\ bufferStart' + k <= upto)
    BY <1>4, <2>9, <2>10, <2>11
  <2> QED BY <1>3, <2>5, <2>8, <2>12, <2>13, <2>14, <2>15 DEF AdvancedTo
<1>5. CASE ~retain
  <2>1. PICK m \in Pos, n \in Nat :
           /\ n <= Len(t) /\ m <= n + 1
           /\ Trimmed(t) = SubSeq(t, m, n)
           /\ \A i \in Active(t) : m <= i /\ i <= n
    BY <1>1, TrimIsSlice
  <2> DEFINE u == SubSeq(t, m, n)
  <2>2. /\ u \in Seq(Pos) /\ Len(u) = n + 1 - m /\ DOMAIN u = 1..(n + 1 - m)
        /\ \A k \in 1..(n + 1 - m) : u[k] = t[k + m - 1]
    BY <1>1, <2>1, Slice
  <2>3. Placed(u, Total)
    BY <1>1, <1>2, <2>1, SlicePlaced
  <2>4. u = buffer'
    BY <1>3, <1>5, <2>1, <2>2, ConcatEmptySeq
  <2>5. m \in Nat /\ m > 0 /\ n \in Nat /\ m <= n + 1 /\ n <= Total - upto
    BY <1>1, <2>1 DEF Pos
  <2> HIDE DEF u, tail, rest
  <2>7. /\ bufferStart' = Total - Len(buffer') /\ bufferStart' \in Nat /\ bufferStart' <= Total
    BY <1>2, <1>6, <2>2, <2>4, <2>5 DEF Most
  <2>8. ASSUME NEW k \in DOMAIN u PROVE u[k] > upto
    <3>1. k + m - 1 \in DOMAIN t
      BY <1>1, <1>2, <2>2, <2>5
    <3> QED BY <1>1, <2>2, <3>1
  <2>9. ASSUME NEW j \in DOMAIN buffer, buffer[j] \in Speech, buffer[j] > upto
        PROVE  \E k \in DOMAIN u : u[k] = buffer[j]
    <3>1. PICK i \in DOMAIN t : t[i] = buffer[j]
      BY <1>1, <2>9
    <3>2. i \in Active(t)
      BY <2>9, <3>1 DEF Active, Speech
    <3>3. i \in Nat /\ m <= i /\ i <= n
      BY <1>1, <2>1, <3>1, <3>2
    <3>4. PICK k \in Nat : k + m = i + 1
      <4>1. i + 1 - m \in Nat /\ (i + 1 - m) + m = i + 1
        BY <2>5, <3>3
      <4> QED BY <4>1
    <3>5. k \in 1..(n + 1 - m) /\ k + m - 1 = i
      BY <2>5, <3>3, <3>4
    <3>6. k \in DOMAIN u /\ u[k] = t[i]
      BY <2>2, <3>5
    <3> QED BY <3>1, <3>6
  <2>10. \A k \in DOMAIN buffer' :
           buffer'[k] > upto \/ (retain /\ k <= TailFrames /\ bufferStart' + k <= upto)
    BY <2>4, <2>8
  <2>11. \A j \in DOMAIN buffer : buffer[j] \in Speech /\ buffer[j] > upto =>
           \E k \in DOMAIN buffer' : buffer'[k] = buffer[j]
    BY <2>4, <2>9
  <2>12. buffer' \in Seq(Pos) /\ Placed(buffer', Total)
    BY <2>2, <2>3, <2>4
  <2> QED BY <1>3, <2>7, <2>10, <2>11, <2>12 DEF AdvancedTo
<1> QED BY <1>4, <1>5

\* The copy and what is decoded cover all speech; a copy that ends nowhere new
\* held none that was not.
LEMMA CopyCoversSpeech ==
  ASSUME Typed, BufferOK, NEW reason, NEW c, c = Copied(reason)
  PROVE  /\ Speech \subseteq decoded \cup Range(c.audio)
         /\ ~Progress(c.end) => Speech \subseteq decoded
<1>1. CopyOK(c, reason)
  BY CopyIsGood
<1>2. ASSUME NEW i \in Speech, i \notin decoded
      PROVE  i \in Range(c.audio) /\ i <= c.end
  <2>1. PICK j \in DOMAIN buffer : buffer[j] = i
    BY <1>2 DEF BufferOK
  <2> QED BY <1>1, <2>1 DEF CopyOK, Range
<1>3. ASSUME ~Progress(c.end), NEW i \in Speech, i \notin decoded
      PROVE  FALSE
  <2>1. i <= c.end /\ c.end \in Nat /\ finalized \in Nat /\ i \in Nat
    BY <1>1, <1>2, <1>3, TotalIsNat DEF CopyOK, Typed
  <2>2. i <= finalized
    BY <1>3, <2>1 DEF Progress
  <2> QED BY <1>3, <2>2 DEF BufferOK
<1> QED BY <1>2, <1>3

LEMMA BufferAfterAdvance ==
  ASSUME Typed, BufferOK, NEW upto \in Nat, upto <= Total, NEW retain \in BOOLEAN,
         AdvancedTo(retain, upto),
         heard' = heard, decoded \subseteq decoded',
         \A i \in Speech : i <= upto => i \in decoded',
         finalized' \in Nat, finalized' <= upto, retain => finalized' = upto
  PROVE  BufferOK'
<1>1. /\ Total \in Nat /\ DOMAIN buffer = 1..Len(buffer) /\ Len(buffer) \in Nat
      /\ \A j \in DOMAIN buffer : buffer[j] \in Pos
      /\ Speech \subseteq 1..Total
  BY TotalIsNat
<1>2. Total' = Total /\ Speech' = Speech
  BY DEF Total, Speech
<1>3. Placed(buffer', Total) /\ bufferStart' = Total - Len(buffer')
  BY DEF AdvancedTo
<1>4. ASSUME NEW i \in Speech, i \notin decoded'
      PROVE  \E k \in DOMAIN buffer' : buffer'[k] = i
  <2>1. PICK j \in DOMAIN buffer : buffer[j] = i
    BY <1>4 DEF BufferOK
  <2>2. i > upto
    BY <1>1, <1>4
  <2> QED BY <2>1, <2>2 DEF AdvancedTo
<1>5. \A i \in Speech : i <= finalized' => i \in decoded'
  BY <1>1
<1>6. finalized' <= Total
  BY <1>1
<1>7. ASSUME NEW k \in DOMAIN buffer', bufferStart' + k > finalized'
      PROVE  buffer'[k] > finalized'
  <2>1. buffer'[k] > upto \/ (retain /\ k <= TailFrames /\ bufferStart' + k <= upto)
    BY DEF AdvancedTo
  <2>2. k \in Nat /\ bufferStart' \in Nat /\ buffer'[k] \in Nat
    BY LenProperties DEF AdvancedTo, Pos
  <2>3. CASE buffer'[k] > upto
    BY <2>2, <2>3
  <2>4. CASE retain /\ k <= TailFrames /\ bufferStart' + k <= upto
    BY <1>7, <2>2, <2>4
  <2> QED BY <2>1, <2>3, <2>4
<1>8. Placed(buffer', Total') /\ bufferStart' = Total' - Len(buffer')
  BY <1>2, <1>3
<1>9. (\A j \in DOMAIN buffer : bufferStart + j > finalized => buffer[j] > finalized)'
  BY <1>7
<1> QED BY <1>2, <1>4, <1>5, <1>6, <1>8, <1>9 DEF BufferOK, LaterThan

\* One commit does not disturb another whose copy reaches to the end.
LEMMA OtherCommitStays ==
  ASSUME Typed, NEW c, CommitOK(c), c.upto = Total,
         heard' = heard, decoded \subseteq decoded', BufferOK', buffer' \in Seq(Pos)
  PROVE  CommitOK(c)'
<1>1. Total \in Nat /\ Total' = Total /\ Speech' = Speech
  BY TotalIsNat DEF Total, Speech
<1>2. bufferStart' = Total - Len(buffer') /\ finalized' <= Total /\ Placed(buffer', Total)
  BY <1>1 DEF BufferOK
<1>3. Len(buffer') \in Nat /\ DOMAIN buffer' = 1..Len(buffer')
  BY LenProperties
<1>4. bufferStart' <= c.upto
  BY <1>1, <1>2, <1>3
<1>5. LaterThan(c.upto)'
  BY <1>1, <1>2, <1>3 DEF LaterThan
<1> QED BY <1>1, <1>2, <1>4, <1>5 DEF CommitOK

\* Where the events of each kind are after one more.
LEMMA SentGrows ==
  ASSUME Typed, NEW e \in EventShapes, Send(e)
  PROVE  /\ DOMAIN sent = 1..Len(sent) /\ Len(sent) \in Nat
         /\ DOMAIN sent' = 1..(Len(sent) + 1)
         /\ \A i \in DOMAIN sent : sent'[i] = sent[i]
         /\ sent'[Len(sent) + 1] = e
         /\ sent' \in Seq(EventShapes)
<1>1. sent \in Seq(EventShapes)
  BY DEF Typed
<1> QED BY <1>1, AppendProperties, LenProperties DEF Send

\* Audio that shares only its tail with a final shares few frames with it.
LEMMA OverlapBound ==
  ASSUME NEW frames \in Seq(Pos), NEW shown,
         \A k \in DOMAIN frames : k > TailFrames => frames[k] \notin shown
  PROVE  Cardinality(shown \cap Range(frames)) <= TailFrames
<1> DEFINE A == {k \in DOMAIN frames : k <= TailFrames}
           B == {frames[k] : k \in A}
           f == [k \in A |-> frames[k]]
<1>1. TailFrames \in Nat /\ Len(frames) \in Nat /\ DOMAIN frames = 1..Len(frames)
  BY StreamAssumption, LenProperties
<1>2. A \subseteq 1..TailFrames
  BY <1>1
<1>3. IsFiniteSet(1..TailFrames) /\ Cardinality(1..TailFrames) = TailFrames
  BY <1>1, FS_Interval
<1>4. IsFiniteSet(A) /\ Cardinality(A) <= TailFrames
  BY <1>2, <1>3, FS_Subset
<1>5. f \in Surjection(A, B)
  BY DEF Surjection
<1>6. IsFiniteSet(B) /\ Cardinality(B) <= Cardinality(A)
  BY <1>4, <1>5, FS_Surjection
<1>7. shown \cap Range(frames) \subseteq B
  BY <1>1 DEF Range
<1>8. IsFiniteSet(shown \cap Range(frames)) /\ Cardinality(shown \cap Range(frames)) <= Cardinality(B)
  BY <1>6, <1>7, FS_Subset
<1>9. /\ Cardinality(B) \in Nat /\ Cardinality(A) \in Nat
      /\ Cardinality(shown \cap Range(frames)) \in Nat
  BY <1>4, <1>6, <1>8, FS_CardinalityType
<1> QED BY <1>1, <1>4, <1>6, <1>8, <1>9

-----------------------------------------------------------------------------
(* A commit begins. *)

\* The commit that goes on to decode its copy, and the one that has none to decode.
Started(a, new) ==
  /\ new \in CommitShapes /\ new.end > finalized /\ new.audio # <<>>
  /\ commit' = [commit EXCEPT ![a] = new]
  /\ IF a = "loop" THEN loop' = "commit" /\ phase' = "commit" /\ UNCHANGED term
                   ELSE term' = "commit" /\ UNCHANGED <<loop, phase>>
  /\ UNCHANGED <<buffer, bufferStart, speechSeen, segIndex>>

Skipped(a) == AdvancedTo(FALSE, Total) /\ Return(a) /\ UNCHANGED commit

Begun(reason, c) ==
  [pc |-> "decode", reason |-> reason, audio |-> c.audio, seq |-> segIndex, start |-> c.start,
   end |-> c.end, upto |-> c.upto]

LEMMA BeginShape ==
  ASSUME Typed, BufferOK, NEW a \in Actors, NEW reason \in {"forced", "silence", "eof"},
         NEW c, c = Copied(reason), Begin(a, reason), heard' = heard
  PROVE  /\ CopyOK(c, reason)
         /\ Started(a, Begun(reason, c)) \/ Skipped(a)
         /\ decoded \subseteq decoded' /\ decoded' \subseteq 1..Total
         /\ Speech \subseteq decoded'
<1>1. CopyOK(c, reason)
  BY CopyIsGood
<1>2. /\ Speech \subseteq decoded \cup Range(c.audio)
      /\ ~Progress(c.end) => Speech \subseteq decoded
  BY CopyCoversSpeech
<1>3. /\ Total \in Nat /\ Len(buffer) \in Nat /\ DOMAIN buffer = 1..Len(buffer)
      /\ \A j \in DOMAIN buffer : buffer[j] \in Pos
      /\ Speech \subseteq 1..Total /\ bufferStart \in Nat /\ finalized \in Nat
  BY TotalIsNat DEF Typed
<1>4. bufferStart = Total - Len(buffer) /\ Placed(buffer, Total)
  BY DEF BufferOK
<1>5. /\ c.audio \in Seq(Pos) /\ c.start \in Nat /\ c.end \in Nat /\ c.upto = Total /\ c.end <= Total
      /\ Placed(c.audio, c.end)
  BY <1>1 DEF CopyOK
<1>6. Range(c.audio) \subseteq 1..Total
  <2>1. ASSUME NEW k \in DOMAIN c.audio PROVE c.audio[k] \in 1..Total
    <3>1. PICK j \in DOMAIN buffer : c.audio[k] = buffer[j]
      BY <1>1 DEF CopyOK
    <3>2. buffer[j] \in Nat /\ buffer[j] > 0 /\ buffer[j] + Len(buffer) <= Total + j
      BY <1>3, <1>4 DEF Placed, Pos
    <3> QED BY <1>3, <3>1, <3>2
  <2> QED BY <2>1 DEF Range
<1>7. decoded \subseteq 1..Total
  BY DEF Typed
<1>8. CASE /\ Progress(c.end) /\ Len(c.audio) >= MinFrames
           /\ commit' = [commit EXCEPT ![a] = Begun(reason, c)]
           /\ decoded' = decoded \cup Range(c.audio)
           /\ IF a = "loop" THEN loop' = "commit" /\ phase' = "commit" /\ UNCHANGED term
                            ELSE term' = "commit" /\ UNCHANGED <<loop, phase>>
           /\ UNCHANGED <<buffer, bufferStart, speechSeen, segIndex>>
  <2>1. c.end > finalized
    BY <1>8 DEF Progress
  <2>2. c.audio # <<>>
    BY <1>8, StreamAssumption
  <2>3. Begun(reason, c) \in CommitShapes
    BY <1>3, <1>5 DEF Begun, CommitShapes, Typed
  <2>4. Started(a, Begun(reason, c))
    <3>1. Begun(reason, c).end = c.end /\ Begun(reason, c).audio = c.audio
      BY DEF Begun
    <3> QED BY <1>8, <2>1, <2>2, <2>3, <3>1 DEF Started
  <2> QED BY <1>1, <1>2, <1>6, <1>7, <1>8, <2>1, <2>2, <2>4
<1>9. CASE /\ Advance(FALSE, c.upto, c.audio)
           /\ decoded' = IF Progress(c.end) THEN decoded \cup Range(c.audio) ELSE decoded
           /\ Return(a) /\ UNCHANGED commit
  <2>1. bufferStart <= Total /\ LaterThan(Total)
    BY <1>3, <1>4 DEF LaterThan
  <2>2. Placed(c.audio, Total)
    <3>1. /\ Len(c.audio) \in Nat /\ DOMAIN c.audio = 1..Len(c.audio)
         /\ \A k \in DOMAIN c.audio : c.audio[k] \in Nat
      BY <1>5, LenProperties DEF Pos
    <3> QED BY <1>3, <1>5, <3>1 DEF Placed
  <2>3. AdvancedTo(FALSE, Total)
    <3>1. PICK audio \in Seq(Pos), upto \in Nat : audio = c.audio /\ upto = c.upto
      BY <1>3, <1>5
    <3>2. Advance(FALSE, upto, audio)
      BY <1>9, <3>1
    <3>3. /\ bufferStart <= upto /\ upto <= Total /\ LaterThan(upto) /\ Placed(audio, upto)
      BY <1>3, <1>5, <2>1, <2>2, <3>1 DEF LaterThan
    <3>4. AdvancedTo(FALSE, upto)
      BY <3>2, <3>3, AdvanceShape
    <3> QED BY <1>5, <3>1, <3>4 DEF AdvancedTo
  <2>4. Skipped(a)
    BY <1>9, <2>3 DEF Skipped
  <2> QED BY <1>1, <1>2, <1>6, <1>7, <1>9, <2>4
<1> QED BY <1>8, <1>9 DEF Begin, Begun

\* What Begin leaves of the buffer and of the commits.
LEMMA BeginKeeps ==
  ASSUME IInv, NEW a \in Actors, NEW reason \in {"forced", "silence", "eof"},
         NEW c, c = Copied(reason), Begin(a, reason), heard' = heard, finalized' = finalized,
         \A b \in Actors : Pending(b) => b # a /\ commit[b].upto = Total
  PROVE  BufferOK' /\ PendingOK'
<1> USE DEF IInv
<1>1. /\ CopyOK(c, reason)
      /\ decoded \subseteq decoded' /\ Speech \subseteq decoded'
  BY BeginShape
<1>2. /\ Total \in Nat /\ Total' = Total /\ Speech' = Speech
      /\ Len(buffer) \in Nat /\ DOMAIN buffer = 1..Len(buffer) /\ Speech \subseteq 1..Total
      /\ bufferStart \in Nat /\ finalized \in Nat /\ commit \in [Actors -> CommitShapes]
  BY TotalIsNat DEF Total, Speech, Typed
<1>3. bufferStart = Total - Len(buffer) /\ finalized <= Total
  BY DEF BufferOK
<1>4. CASE Started(a, Begun(reason, c))
  <2>0. /\ c.audio # <<>> /\ commit' = [commit EXCEPT ![a] = Begun(reason, c)]
        /\ UNCHANGED <<buffer, bufferStart, speechSeen, segIndex>>
    BY <1>4 DEF Started, Begun
  <2>1. BufferOK'
    BY <1>1, <1>2, <2>0 DEF BufferOK, LaterThan
  <2>2. PICK new : new = Begun(reason, c)
    OBVIOUS
  <2>3. /\ new.pc = "decode" /\ new.reason = reason /\ new.audio = c.audio
        /\ new.end = c.end /\ new.upto = Total
    BY <1>1, <2>2 DEF Begun, CopyOK
  <2>4. CommitOK(new)'
    <3>1. bufferStart <= Total /\ LaterThan(Total)
      BY <1>2, <1>3 DEF LaterThan
    <3>2. LaterThan(new.upto)'
      BY <2>0, <2>3, <3>1 DEF LaterThan
    <3>3. c.end <= Total /\ Placed(c.audio, c.end) /\ (reason # "silence" => c.end = Total)
      BY <1>1 DEF CopyOK
    <3> QED BY <1>1, <1>2, <1>3, <2>0, <2>3, <3>1, <3>2, <3>3 DEF CommitOK
  <2>5. ASSUME NEW b \in Actors, b # a, Pending(b) PROVE CommitOK(commit[b])'
    <3>1. PICK d : d = commit[b]
      OBVIOUS
    <3>2. CommitOK(d)
      BY <2>5, <3>1 DEF PendingOK
    <3>3. CommitOK(d)'
      BY <1>1, <1>2, <2>0, <3>2 DEF CommitOK, LaterThan
    <3>4. commit'[b] = d
      BY <1>2, <2>0, <2>5, <3>1
    <3> QED BY <3>3, <3>4 DEF CommitOK, LaterThan
  <2>6. ASSUME NEW b \in Actors, Pending(b)' PROVE CommitOK(commit[b])'
    <3>1. CASE b = a
      <4>1. commit'[b] = new
        BY <1>2, <2>0, <2>2, <3>1
      <4> QED BY <2>4, <4>1 DEF CommitOK, LaterThan
    <3>2. CASE b # a
      <4>1. commit'[b] = commit[b]
        BY <1>2, <2>0, <3>2
      <4> QED BY <2>5, <2>6, <3>2, <4>1 DEF Pending
    <3> QED BY <3>1, <3>2
  <2> QED BY <2>1, <2>6 DEF PendingOK
<1>5. CASE Skipped(a)
  <2>0. AdvancedTo(FALSE, Total) /\ UNCHANGED commit
    BY <1>5 DEF Skipped
  <2>1. buffer' \in Seq(Pos)
    BY <2>0 DEF AdvancedTo
  <2>2. BufferOK'
    <3>1. /\ FALSE \in BOOLEAN /\ Total <= Total /\ finalized' \in Nat /\ finalized' <= Total
          /\ \A i \in Speech : i <= Total => i \in decoded'
      BY <1>1, <1>2, <1>3
    <3>2. FALSE => finalized' = Total
      OBVIOUS
    <3> QED BY <1>1, <1>2, <2>0, <3>1, <3>2, BufferAfterAdvance
  <2>3. ASSUME NEW b \in Actors, Pending(b)' PROVE CommitOK(commit[b])'
    <3>1. PICK d : d = commit[b]
      OBVIOUS
    <3>2. Pending(b) /\ d.upto = Total /\ CommitOK(d)
      BY <2>0, <2>3, <3>1 DEF Pending, PendingOK
    <3>3. CommitOK(d)'
      BY <1>1, <2>1, <2>2, <3>2, OtherCommitStays
    <3>4. commit'[b] = d
      BY <2>0, <3>1
    <3> QED BY <3>3, <3>4 DEF CommitOK, LaterThan
  <2> QED BY <2>2, <2>3 DEF PendingOK
<1> QED BY <1>4, <1>5, BeginShape

\* Whoever begins: the loop, also out of the wait for a cancelled draft, and the
\* terminal pipeline.
BeginBy(a, reason) ==
  /\ Begin(a, reason)
  /\ UNCHANGED <<main, heard, finalized, draftVars, outlived, sent, faults>>
  /\ ~draftTask
  /\ \/ /\ a = "loop" /\ reason \in {"forced", "silence"}
        /\ loop = "reap" \/ (loop = "tick" /\ term = "none")
     \/ a = "terminal" /\ reason = "eof" /\ term = "begin" /\ main = "terminal"

Beginning == \E a \in Actors, reason \in {"forced", "silence", "eof"} : BeginBy(a, reason)

LEMMA BeginnersBegin ==
  ASSUME Typed, ControlOK, (Decide /\ ~draftTask) \/ AfterReap \/ TermCommit
  PROVE  Beginning
<1>1. CASE Decide /\ ~draftTask
  <2>1. PICK reason \in {"forced", "silence"} : Begin("loop", reason)
    BY <1>1 DEF Decide
  <2>2. BeginBy("loop", reason)
    BY <1>1, <2>1 DEF Decide, BeginBy, Stopping, draftVars
  <2> QED BY <2>2 DEF Beginning, Actors
<1>2. CASE AfterReap
  <2>1. PICK reason : reason = commit["loop"].reason
    OBVIOUS
  <2>2. reason \in {"forced", "silence"} /\ ~draftTask
    BY <1>2, <2>1 DEF AfterReap, ControlOK
  <2>3. BeginBy("loop", reason)
    BY <1>2, <2>1, <2>2 DEF AfterReap, BeginBy, draftVars
  <2> QED BY <2>2, <2>3 DEF Beginning, Actors
<1>3. CASE TermCommit
  <2>1. BeginBy("terminal", "eof")
    BY <1>3 DEF TermCommit, BeginBy, ControlOK, draftVars
  <2> QED BY <2>1 DEF Beginning, Actors
<1> QED BY <1>1, <1>2, <1>3

-----------------------------------------------------------------------------
(* A commit ends. *)

\* The segment advances past the commit of a, which counts or was filtered.
EndBy(a, c, retain) ==
  /\ c = commit[a] /\ Pending(a) /\ retain \in BOOLEAN
  /\ retain => c.reason = "forced" /\ finalized' = c.end
  /\ Advance(retain, c.upto, c.audio)
  /\ heard' = heard /\ decoded' = decoded
  /\ finalized' \in {finalized, c.end}
  /\ commit'[a].pc \in {"none", "ready"}
  /\ \A b \in Actors : b # a => commit'[b] = commit[b]

LEMMA EndAdvances ==
  ASSUME IInv, NEW a \in Actors, NEW c, NEW retain, EndBy(a, c, retain)
  PROVE  /\ CommitOK(c) /\ c \in CommitShapes /\ c.upto \in Nat /\ c.end \in Nat
         /\ AdvancedTo(retain, c.upto)
<1>1. Typed /\ BufferOK /\ PendingOK
  BY DEF IInv
<1>2. CommitOK(c) /\ c \in CommitShapes
  BY <1>1 DEF EndBy, PendingOK, Typed
<1>3. c.upto \in Nat /\ c.end \in Nat /\ c.audio \in Seq(Pos)
  BY <1>2 DEF CommitShapes
<1>4. Placed(c.audio, c.upto)
  <2>1. \A k \in DOMAIN c.audio : c.audio[k] \in Nat /\ k \in Nat
    BY <1>3, LenProperties DEF Pos
  <2>2. Len(c.audio) \in Nat
    BY <1>3, LenProperties
  <2> QED BY <1>2, <1>3, <2>1, <2>2 DEF CommitOK, Placed
<1>5. PICK upto \in Nat, audio \in Seq(Pos) : upto = c.upto /\ audio = c.audio
  BY <1>3
<1>6. /\ bufferStart <= upto /\ upto <= Total /\ LaterThan(upto) /\ Placed(audio, upto)
      /\ Advance(retain, upto, audio) /\ retain \in BOOLEAN
  BY <1>2, <1>4, <1>5 DEF CommitOK, EndBy
<1>7. AdvancedTo(retain, upto)
  BY <1>1, <1>6, AdvanceShape
<1> QED BY <1>2, <1>3, <1>5, <1>7

LEMMA EndKeeps ==
  ASSUME IInv, NEW a \in Actors, NEW c, NEW retain, EndBy(a, c, retain)
  PROVE  BufferOK' /\ PendingOK'
<1>1. Typed /\ BufferOK /\ PendingOK /\ ControlOK
  BY DEF IInv
<1>2. /\ CommitOK(c) /\ c.upto \in Nat /\ c.end \in Nat /\ AdvancedTo(retain, c.upto)
  BY EndAdvances
<1>3. Total \in Nat /\ Speech \subseteq 1..Total /\ finalized \in Nat
  BY <1>1, TotalIsNat DEF Typed
<1>4. BufferOK'
  <2>1. PICK upto \in Nat : upto = c.upto
    BY <1>2
  <2>2. /\ finalized' \in Nat /\ finalized' <= upto /\ upto <= Total
        /\ retain \in BOOLEAN /\ heard' = heard /\ decoded \subseteq decoded'
        /\ \A i \in Speech : i <= upto => i \in decoded'
    BY <1>2, <1>3, <2>1 DEF CommitOK, EndBy
  <2>3. retain => finalized' = upto
    BY <1>2, <2>1 DEF CommitOK, EndBy
  <2>4. AdvancedTo(retain, upto)
    BY <1>2, <2>1
  <2> QED BY <1>1, <2>2, <2>3, <2>4, BufferAfterAdvance
<1>5. ASSUME NEW b \in Actors, Pending(b)' PROVE CommitOK(commit[b])'
  <2>1. b # a /\ commit'[b] = commit[b] /\ Pending(b) /\ Pending(a)
    BY <1>5 DEF EndBy, Pending
  <2>2. PICK d : d = commit[b]
    OBVIOUS
  <2>3. CommitOK(d)
    BY <1>1, <2>1, <2>2 DEF PendingOK
  <2>4. d.upto = Total
    <3>1. (a = "loop" /\ b = "terminal") \/ (a = "terminal" /\ b = "loop")
      BY <2>1 DEF Actors
    <3> QED BY <1>1, <2>1, <2>2, <3>1 DEF ControlOK, Pending, Early
  <2>5. buffer' \in Seq(Pos) /\ heard' = heard /\ decoded \subseteq decoded'
    BY <1>2 DEF AdvancedTo, EndBy
  <2>6. CommitOK(d)'
    BY <1>1, <1>4, <2>3, <2>4, <2>5, OtherCommitStays
  <2> QED BY <2>1, <2>2, <2>6 DEF CommitOK, LaterThan
<1> QED BY <1>4, <1>5 DEF PendingOK

LEMMA AdvancedEnds ==
  ASSUME Typed, NEW c, c = commit["loop"], Advanced
  PROVE  \E retain \in BOOLEAN : EndBy("loop", c, retain)
<1>1. PICK retain \in BOOLEAN : retain = (c.reason = "forced")
  OBVIOUS
<1>2. EndBy("loop", c, retain)
  BY <1>1 DEF Advanced, EndBy, Pending, Typed, NoCommit, Actors
<1> QED BY <1>2

\* A decode ends with text, with none to keep, or with an error.
DecodedToSend(a) ==
  /\ a = "loop" /\ commit' = [commit EXCEPT ![a].pc = "send"]
  /\ UNCHANGED <<main, loop, phase, term, faults, audioVars>>

DecodedToReady(a) ==
  /\ a = "terminal" /\ commit' = [commit EXCEPT ![a].pc = "ready"]
  /\ finalized' = commit[a].end
  /\ Return(a) /\ UNCHANGED <<main, faults>>

DecodedToNone(a) ==
  /\ commit' = [commit EXCEPT ![a] = NoCommit]
  /\ Return(a) /\ UNCHANGED <<main, faults, finalized>>

DecodedToError(a) ==
  /\ commit' = [commit EXCEPT ![a] = NoCommit]
  /\ Fault /\ Raise(a) /\ UNCHANGED audioVars

LEMMA DecodedCases ==
  ASSUME Typed, NEW a \in Actors, NEW c, c = commit[a], Decoded(a)
  PROVE  /\ c.pc = "decode" /\ main # "closed" /\ Pending(a)
         /\ UNCHANGED <<heard, draftVars, outlived, sent, decoded>>
         /\ \/ DecodedToSend(a)
            \/ DecodedToReady(a) /\ EndBy(a, c, FALSE)
            \/ DecodedToNone(a) /\ EndBy(a, c, FALSE)
            \/ DecodedToError(a)
<1>1. /\ c.pc = "decode" /\ main # "closed" /\ Pending(a)
      /\ UNCHANGED <<heard, draftVars, outlived, sent, decoded>>
  BY DEF Decoded, Pending, draftVars
<1>2. CASE /\ NoFault
           /\ IF a = "loop"
              THEN /\ commit' = [commit EXCEPT ![a].pc = "send"]
                   /\ UNCHANGED <<loop, phase, term, finalized, buffer, bufferStart, speechSeen,
                                  segIndex>>
              ELSE /\ commit' = [commit EXCEPT ![a].pc = "ready"]
                   /\ finalized' = c.end
                   /\ Advance(FALSE, c.upto, c.audio) /\ Return(a)
           /\ UNCHANGED main
  <2>1. CASE a = "loop"
    BY <1>1, <1>2, <2>1 DEF DecodedToSend, NoFault, audioVars
  <2>2. CASE a # "loop"
    <3>1. a = "terminal" /\ commit'[a].pc = "ready" /\ \A b \in Actors : b # a => commit'[b] = commit[b]
      BY <1>2, <2>2 DEF Actors, Typed, CommitShapes
    <3>2. DecodedToReady(a)
      BY <1>2, <2>2, <3>1 DEF DecodedToReady, NoFault
    <3>3. EndBy(a, c, FALSE)
      BY <1>1, <1>2, <2>2, <3>1 DEF EndBy
    <3> QED BY <1>1, <3>2, <3>3
  <2> QED BY <2>1, <2>2
<1>3. CASE /\ NoFault
           /\ commit' = [commit EXCEPT ![a] = NoCommit]
           /\ Advance(FALSE, c.upto, c.audio) /\ Return(a)
           /\ UNCHANGED <<main, finalized>>
  <2>1. commit'[a].pc = "none" /\ \A b \in Actors : b # a => commit'[b] = commit[b]
    BY <1>3 DEF Typed, NoCommit
  <2>2. DecodedToNone(a)
    BY <1>3 DEF DecodedToNone, NoFault
  <2>3. EndBy(a, c, FALSE)
    BY <1>1, <1>3, <2>1 DEF EndBy
  <2> QED BY <1>1, <2>2, <2>3
<1>4. CASE /\ Fault
           /\ commit' = [commit EXCEPT ![a] = NoCommit]
           /\ Raise(a)
           /\ UNCHANGED <<finalized, buffer, bufferStart, speechSeen, segIndex>>
  BY <1>1, <1>4 DEF DecodedToError, audioVars
<1> QED BY <1>2, <1>3, <1>4 DEF Decoded

-----------------------------------------------------------------------------
(* Types. *)

LEMMA EventsAreTyped ==
  ASSUME Typed, NEW seq \in Nat
  PROVE  /\ \A type \in {"partial", "eof_ack", "drained"} : Event(type, seq) \in EventShapes
         /\ \A c \in CommitShapes : Final(c) \in EventShapes
<1>1. ASSUME NEW c \in CommitShapes PROVE Final(c) \in EventShapes
  <2>1. c.seq \in Nat /\ c.start \in Nat /\ c.end \in Nat /\ c.audio \in Seq(Pos)
    BY DEF CommitShapes
  <2>2. Range(c.audio) \subseteq Pos
    BY <2>1, LenProperties DEF Range
  <2> QED BY <2>1, <2>2 DEF Final, EventShapes
<1> QED BY <1>1 DEF Event, EventShapes

LEMMA TypedBegin ==
  ASSUME IInv, NEW a \in Actors, NEW reason \in {"forced", "silence", "eof"}, BeginBy(a, reason)
  PROVE  Typed'
<1>1. Typed /\ BufferOK
  BY DEF IInv
<1>2. PICK c : c = Copied(reason)
  OBVIOUS
<1>3. PICK new : new = Begun(reason, c)
  OBVIOUS
<1>4. /\ Started(a, new) \/ Skipped(a)
      /\ decoded' \subseteq 1..Total
  BY <1>1, <1>2, <1>3, BeginShape DEF BeginBy
<1>5. Total' = Total
  BY DEF BeginBy, Total
<1>6. CASE Started(a, new)
  <2>1. commit' \in [Actors -> CommitShapes]
    BY <1>1, <1>6 DEF Started, Typed
  <2> QED BY <1>1, <1>4, <1>5, <1>6, <2>1 DEF Started, BeginBy, Typed, draftVars
<1>7. CASE Skipped(a)
  <2>1. /\ buffer' \in Seq(Pos) /\ bufferStart' \in Nat /\ segIndex' \in Nat
        /\ speechSeen' \in BOOLEAN /\ commit' = commit
    BY <1>1, <1>7 DEF Skipped, AdvancedTo, Typed
  <2>2. /\ loop' \in {"tick", "reap", "commit", "done", "failed", "cancelled"}
        /\ phase' \in {"idle", "draft", "commit"}
        /\ term' \in {"none", "stop", "reap", "join", "ack", "begin", "commit", "publish", "drain",
                      "close"}
    BY <1>1, <1>7 DEF Skipped, Return, Typed
  <2> QED BY <1>1, <1>4, <1>5, <2>1, <2>2 DEF BeginBy, Typed, draftVars
<1> QED BY <1>4, <1>6, <1>7

LEMMA CommitShapesKept ==
  /\ NoCommit \in CommitShapes
  /\ \A c \in CommitShapes :
       /\ [c EXCEPT !.pc = "send"] \in CommitShapes
       /\ [c EXCEPT !.pc = "sent"] \in CommitShapes
       /\ [c EXCEPT !.pc = "ready"] \in CommitShapes
<1>1. NoCommit \in CommitShapes
  BY DEF NoCommit, CommitShapes, Pos
<1> QED BY <1>1 DEF CommitShapes

LEMMA TypedDecoded ==
  ASSUME IInv, NEW a \in Actors, Decoded(a)
  PROVE  Typed'
<1>1. Typed /\ BufferOK /\ ControlOK
  BY DEF IInv
<1>2. PICK c \in CommitShapes : c = commit[a]
  BY <1>1 DEF Typed
<1>3. Total' = Total /\ decoded' \subseteq 1..Total'
  BY <1>1 DEF Decoded, Total, Typed
<1>4. commit' \in [Actors -> CommitShapes]
  BY <1>1, <1>2, CommitShapesKept DEF Decoded, Typed
<1>5. /\ finalized' \in Nat /\ faults' \in Nat
      /\ main' \in {"open", "terminal", "closed"}
  <2>1. finalized' \in {finalized, c.end} /\ c.end \in Nat /\ finalized \in Nat
    BY <1>1, <1>2 DEF Decoded, Typed, CommitShapes
  <2>2. faults' \in {faults, faults + 1} /\ main' \in {main, "closed"}
    BY <1>1, DecodedCases, <1>2 DEF DecodedToSend, DecodedToReady, DecodedToNone, DecodedToError,
       Fault, Raise, Close
  <2> QED BY <1>1, <2>1, <2>2 DEF Typed
<1>6. /\ loop' \in {"tick", "reap", "commit", "done", "failed", "cancelled"}
      /\ phase' \in {"idle", "draft", "commit"}
      /\ term' \in {"none", "stop", "reap", "join", "ack", "begin", "commit", "publish", "drain",
                    "close"}
  BY <1>1 DEF Decoded, Typed, Raise, Return
<1>7. /\ buffer' \in Seq(Pos) /\ bufferStart' \in Nat /\ segIndex' \in Nat
      /\ speechSeen' \in BOOLEAN
  <2>1. CASE UNCHANGED audioVars
    BY <1>1, <2>1 DEF Typed, audioVars
  <2>2. CASE EndBy(a, c, FALSE)
    <3>1. AdvancedTo(FALSE, c.upto)
      BY <2>2, EndAdvances
    <3> QED BY <1>1, <3>1 DEF AdvancedTo, Typed
  <2> QED BY <1>1, <1>2, <2>1, <2>2, DecodedCases DEF DecodedToSend, DecodedToError
<1> QED BY <1>1, <1>3, <1>4, <1>5, <1>6, <1>7 DEF Decoded, Typed

LEMMA TypedReceive ==
  ASSUME IInv, Receive
  PROVE  Typed'
<1>1. Typed
  BY DEF IInv
<1>2. PICK kind \in {"speech", "silence"} : heard' = Append(heard, kind)
  BY DEF Receive
<1>3. /\ heard' \in Seq({"speech", "silence"}) /\ Len(heard') = Total + 1
      /\ Total \in Nat /\ Len(buffer) \in Nat
  BY <1>1, <1>2, AppendProperties, TotalIsNat DEF Typed, Total
<1>4. buffer' \in Seq(Pos)
  <2>1. Total + 1 \in Pos /\ buffer \in Seq(Pos)
    BY <1>1, <1>3 DEF Pos, Typed
  <2>2. buffer' = Append(buffer, Total + 1)
    BY DEF Receive
  <2> QED BY <2>1, <2>2, AppendProperties
<1>5. decoded' \subseteq 1..Total'
  <2>1. decoded' = decoded /\ Total' = Total + 1 /\ decoded \subseteq 1..Total
    BY <1>1, <1>3 DEF Receive, Typed, Total
  <2> QED BY <1>3, <2>1
<1>6. bufferStart' \in Nat
  BY <1>1, <1>3 DEF Receive, Typed, Most
<1>7. speechSeen' \in BOOLEAN
  BY <1>1 DEF Receive, Typed
<1>8. main' \in {"open", "terminal", "closed"}
  BY <1>1 DEF Receive, Typed, Close
<1> QED BY <1>1, <1>3, <1>4, <1>5, <1>6, <1>7, <1>8 DEF Receive, Typed, draftVars

LEMMA TypedSent ==
  ASSUME Typed, NEW e \in EventShapes, Send(e)
  PROVE  sent' \in Seq(EventShapes)
BY SentGrows

LEMMA TypedNext ==
  ASSUME IInv, [Next]_vars
  PROVE  Typed'
<1>1. Typed /\ ControlOK
  BY DEF IInv
<1> USE DEF audioVars, draftVars
<1>2. ASSUME UNCHANGED <<audioVars, decoded>>,
             main' \in {"open", "terminal", "closed"},
             loop' \in {"tick", "reap", "commit", "done", "failed", "cancelled"},
             phase' \in {"idle", "draft", "commit"},
             term' \in {"none", "stop", "reap", "join", "ack", "begin", "commit", "publish", "drain",
                        "close"},
             draftTask' \in BOOLEAN, circuit' \in BOOLEAN, outlived' \in BOOLEAN,
             failures' \in Nat, drafts' \in Nat, faults' \in Nat, draft' \in DraftShapes,
             commit' \in [Actors -> CommitShapes], sent' \in Seq(EventShapes)
      PROVE  Typed'
  BY <1>1, <1>2 DEF Typed, Total
<1>3. /\ NoDraft \in DraftShapes /\ CancelledDraft \in DraftShapes
      /\ \A pc \in DraftPcs : [draft EXCEPT !.pc = pc] \in DraftShapes
      /\ [pc |-> "start", seq |-> 0] \in DraftShapes /\ [pc |-> "decode", seq |-> segIndex] \in DraftShapes
      /\ draft.seq \in Nat
  BY <1>1 DEF Typed, NoDraft, CancelledDraft, DraftShapes, DraftPcs
<1>4. CASE Receive BY <1>4, TypedReceive
<1>5. CASE Eof BY <1>1, <1>2, <1>5 DEF Eof, Typed
<1>6. CASE Abort BY <1>1, <1>2, <1>6 DEF Abort, Typed, Fault, Close
<1>7. CASE LoopFailed BY <1>1, <1>2, <1>7 DEF LoopFailed, Typed, Close
<1>8. CASE CooldownEnds BY <1>1, <1>2, <1>8 DEF CooldownEnds, Typed
<1>9. CASE Stop BY <1>1, <1>2, <1>9 DEF Stop, Typed
<1>10. CASE ReapDraft BY <1>1, <1>2, <1>3, <1>10 DEF ReapDraft, Typed
<1>11. CASE Decide
  <2>1. CASE draftTask
    <3>1. PICK reason \in {"forced", "silence"} : commit' = [commit EXCEPT !["loop"].reason = reason]
      BY <1>11, <2>1 DEF Decide
    <3>2. commit' \in [Actors -> CommitShapes]
      BY <1>1, <3>1 DEF Typed, CommitShapes
    <3> QED BY <1>1, <1>2, <1>3, <1>11, <2>1, <3>2 DEF Decide, Typed
  <2>2. CASE ~draftTask
    BY <1>1, <1>11, <2>2, BeginnersBegin, TypedBegin DEF Beginning
  <2> QED BY <2>1, <2>2
<1>12. CASE AfterReap BY <1>1, <1>12, BeginnersBegin, TypedBegin DEF Beginning
<1>13. CASE StartDraft BY <1>1, <1>2, <1>3, <1>13 DEF StartDraft, Typed
<1>14. CASE EmitFinal
  <2>1. commit["loop"] \in CommitShapes
    BY <1>1 DEF Typed, Actors
  <2>2. sent' \in Seq(EventShapes)
    BY <1>1, <1>14, <2>1, EventsAreTyped, TypedSent DEF EmitFinal, Typed
  <2>3. commit' \in [Actors -> CommitShapes]
    BY <1>1, <1>14, <2>1, CommitShapesKept DEF EmitFinal, Typed
  <2> QED BY <1>1, <1>2, <1>14, <2>2, <2>3 DEF EmitFinal, Typed, Raise, Fault, NoFault
<1>15. CASE Advanced
  <2>1. PICK c \in CommitShapes : c = commit["loop"]
    BY <1>1 DEF Typed, Actors
  <2>2. PICK retain \in BOOLEAN : EndBy("loop", c, retain)
    BY <1>1, <1>15, <2>1, AdvancedEnds
  <2>3. AdvancedTo(retain, c.upto) /\ c.end \in Nat
    BY <2>2, EndAdvances DEF Actors
  <2>4. commit' \in [Actors -> CommitShapes]
    BY <1>1, <1>15, CommitShapesKept DEF Advanced, Typed
  <2>5. finalized' \in Nat
    BY <1>15, <2>1, <2>3 DEF Advanced
  <2>6. /\ segIndex' \in Nat /\ speechSeen' \in BOOLEAN /\ buffer' \in Seq(Pos) /\ bufferStart' \in Nat
    BY <1>1, <2>3 DEF AdvancedTo, Typed
  <2>7. loop' = "tick" /\ phase' = "idle" /\ term' = term
    BY <1>15 DEF Advanced, Return
  <2> QED BY <1>1, <1>15, <2>4, <2>5, <2>6, <2>7 DEF Advanced, Typed, Total
<1>0. ASSUME NEW pc \in {"done", "send", "raised"}, DraftGoes(pc) PROVE draft' \in DraftShapes
  BY <1>0, <1>3 DEF DraftGoes, DraftPcs
<1>16. CASE DraftBegins
  <2>1. draft' \in DraftShapes
    BY <1>0, <1>3, <1>16 DEF DraftBegins
  <2> QED BY <1>1, <1>2, <1>16, <2>1 DEF DraftBegins, Typed
<1>17. CASE DraftDecoded
  <2>1. draft' \in DraftShapes
    BY <1>0, <1>17 DEF DraftDecoded
  <2>2. failures' \in Nat /\ faults' \in Nat
    BY <1>1, <1>17 DEF DraftDecoded, Typed, Fault, NoFault
  <2>3. circuit' \in BOOLEAN
    <3>1. circuit' = FALSE \/ circuit' = (circuit \/ failures + 1 >= DraftLimit)
      BY <1>17 DEF DraftDecoded
    <3> QED BY <3>1
  <2> QED BY <1>1, <1>2, <1>17, <2>1, <2>2, <2>3 DEF DraftDecoded, Typed
<1>18. CASE DraftSends
  <2>1. sent' \in Seq(EventShapes)
    BY <1>1, <1>3, <1>18, EventsAreTyped, TypedSent DEF DraftSends, Typed
  <2>2. draft' \in DraftShapes
    BY <1>0, <1>18 DEF DraftSends
  <2> QED BY <1>1, <1>2, <1>18, <2>1, <2>2 DEF DraftSends, Typed, Fault, NoFault
<1>19. CASE DraftDies BY <1>1, <1>2, <1>3, <1>19 DEF DraftDies, Typed
<1>30. ASSUME JoinLoop PROVE outlived' \in BOOLEAN
  <2>1. outlived' = outlived \/ outlived' = (outlived \/ loop = "reap")
    BY <1>30 DEF JoinLoop
  <2> QED BY <1>1, <2>1 DEF Typed
<1>20. CASE TermStop
  <2>1. outlived' \in BOOLEAN
    BY <1>1, <1>20, <1>30 DEF TermStop, Typed
  <2> QED BY <1>1, <1>2, <1>3, <1>20, <2>1 DEF TermStop, Typed, JoinLoop, Close
<1>21. CASE TermReap
  <2>1. outlived' \in BOOLEAN
    BY <1>21, <1>30 DEF TermReap
  <2> QED BY <1>1, <1>2, <1>21, <2>1 DEF TermReap, Typed, JoinLoop, Close
<1>22. CASE TermJoin BY <1>1, <1>2, <1>22 DEF TermJoin, Typed, Close
<1>23. CASE TermAck
  <2>1. sent' \in Seq(EventShapes)
    BY <1>1, <1>23, EventsAreTyped, TypedSent DEF TermAck, Typed
  <2> QED BY <1>1, <1>2, <1>23, <2>1 DEF TermAck, Typed
<1>24. CASE TermCommit BY <1>1, <1>24, BeginnersBegin, TypedBegin DEF Beginning
<1>25. CASE TermPublish
  <2>1. commit["terminal"] \in CommitShapes
    BY <1>1 DEF Typed, Actors
  <2>2. sent' \in Seq(EventShapes)
    BY <1>1, <1>25, <2>1, EventsAreTyped, TypedSent DEF TermPublish, Typed
  <2> QED BY <1>1, <1>2, <1>25, <2>2 DEF TermPublish, Typed
<1>26. CASE TermDrain
  <2>1. sent' \in Seq(EventShapes)
    BY <1>1, <1>26, EventsAreTyped, TypedSent DEF TermDrain, Typed
  <2> QED BY <1>1, <1>2, <1>26, <2>1 DEF TermDrain, Typed
<1>27. CASE TermClose BY <1>1, <1>2, <1>27 DEF TermClose, Typed, Close
<1>28. CASE \E a \in Actors : Decoded(a) BY <1>28, TypedDecoded
<1>29. CASE UNCHANGED vars BY <1>1, <1>2, <1>29 DEF vars, Typed
<1> QED BY <1>4, <1>5, <1>6, <1>7, <1>8, <1>9, <1>10, <1>11, <1>12, <1>13, <1>14, <1>15, <1>16,
           <1>17, <1>18, <1>19, <1>20, <1>21, <1>22, <1>23, <1>24, <1>25, <1>26, <1>27, <1>28, <1>29
        DEF Next, LoopSteps, DraftSteps, TermSteps

-----------------------------------------------------------------------------
(* Control: who commits when, and what the terminal pipeline waits for. *)

LEMMA ControlBegin ==
  ASSUME IInv, NEW a \in Actors, NEW reason \in {"forced", "silence", "eof"}, BeginBy(a, reason)
  PROVE  ControlOK'
<1>1. Typed /\ BufferOK /\ ControlOK
  BY DEF IInv
<1>2. PICK c : c = Copied(reason)
  OBVIOUS
<1>3. PICK new : new = Begun(reason, c)
  OBVIOUS
<1>4. Started(a, new) \/ Skipped(a)
  BY <1>1, <1>2, <1>3, BeginShape DEF BeginBy
<1>5. /\ Total' = Total /\ main' = main /\ draftTask' = draftTask /\ ~draftTask
      /\ outlived' = outlived
  BY DEF BeginBy, Total, draftVars
<1>6. new.pc = "decode" /\ new.reason = reason /\ new.upto = Total
  BY <1>1, <1>2, <1>3, BeginShape DEF Begun, CopyOK, BeginBy
<1>7. commit \in [Actors -> CommitShapes]
  BY <1>1 DEF Typed
<1>8. CASE a = "loop"
  <2>1. /\ reason \in {"forced", "silence"}
        /\ loop = "reap" \/ (loop = "tick" /\ term = "none")
    BY <1>8 DEF BeginBy
  <2>2. CASE Started(a, new)
    <3>1. commit'["loop"] = new /\ commit'["terminal"] = commit["terminal"]
      BY <1>7, <1>8, <2>2 DEF Started, Actors
    <3>2. loop' = "commit" /\ phase' = "commit" /\ term' = term
      BY <1>8, <2>2 DEF Started
    <3> QED BY <1>1, <1>5, <1>6, <2>1, <3>1, <3>2 DEF ControlOK, Pending, Early
  <2>3. CASE Skipped(a)
    <3>1. loop' = "tick" /\ phase' = "idle" /\ term' = term /\ commit' = commit
      BY <1>8, <2>3 DEF Skipped, Return
    <3> QED BY <1>1, <1>5, <2>1, <3>1 DEF ControlOK, Pending, Early
  <2> QED BY <1>4, <2>2, <2>3
<1>9. CASE a # "loop"
  <2>1. a = "terminal" /\ reason = "eof" /\ term = "begin" /\ main = "terminal"
    BY <1>9 DEF BeginBy
  <2>2. CASE Started(a, new)
    <3>1. commit'["terminal"] = new /\ commit'["loop"] = commit["loop"]
      BY <1>7, <2>1, <2>2 DEF Started, Actors
    <3>2. loop' = loop /\ phase' = phase /\ term' = "commit"
      BY <1>9, <2>2 DEF Started
    <3> QED BY <1>1, <1>5, <1>6, <2>1, <3>1, <3>2 DEF ControlOK, Pending, Early
  <2>3. CASE Skipped(a)
    <3>1. loop' = loop /\ phase' = phase /\ term' = "publish" /\ commit' = commit
      BY <2>1, <2>3 DEF Skipped, Return
    <3> QED BY <1>1, <1>5, <2>1, <3>1 DEF ControlOK, Pending, Early
  <2> QED BY <1>4, <2>2, <2>3
<1> QED BY <1>8, <1>9

LEMMA ControlDecoded ==
  ASSUME IInv, NEW a \in Actors, Decoded(a)
  PROVE  ControlOK'
<1>1. Typed /\ ControlOK
  BY DEF IInv
<1>2. PICK c \in CommitShapes : c = commit[a]
  BY <1>1 DEF Typed
<1>3. /\ c.pc = "decode" /\ Pending(a)
      /\ DecodedToSend(a) \/ DecodedToReady(a) \/ DecodedToNone(a) \/ DecodedToError(a)
      /\ heard' = heard /\ draftTask' = draftTask /\ outlived' = outlived
  BY <1>1, <1>2, DecodedCases DEF draftVars
<1>4. Total' = Total /\ commit \in [Actors -> CommitShapes]
  BY <1>1, <1>3 DEF Total, Typed
<1>5. CASE a = "loop"
  <2>1. loop = "commit" /\ phase = "commit" /\ ~draftTask /\ commit'["terminal"] = commit["terminal"]
    BY <1>1, <1>3, <1>4, <1>5 DEF ControlOK, DecodedToSend, DecodedToReady, DecodedToNone,
       DecodedToError, Actors
  <2>2. CASE DecodedToSend(a)
    <3>1. /\ commit'["loop"].pc = "send" /\ commit'["loop"].reason = c.reason
          /\ commit'["loop"].upto = c.upto
      BY <1>2, <1>4, <1>5, <2>2 DEF DecodedToSend, CommitShapes, Actors
    <3> QED BY <1>1, <1>2, <1>3, <1>4, <1>5, <2>1, <2>2, <3>1 DEF DecodedToSend, ControlOK, Pending, Early
  <2>3. CASE DecodedToReady(a)
    BY <1>5, <2>3 DEF DecodedToReady
  <2>4. CASE DecodedToNone(a)
    <3>1. commit'["loop"].pc = "none" /\ loop' = "tick" /\ phase' = "idle" /\ term' = term /\ main' = main
      BY <1>4, <1>5, <2>4 DEF DecodedToNone, Return, NoCommit, Actors
    <3> QED BY <1>1, <1>3, <1>4, <2>1, <3>1 DEF ControlOK, Pending, Early
  <2>5. CASE DecodedToError(a)
    <3>1. commit'["loop"].pc = "none" /\ loop' = "failed" /\ phase' = "idle" /\ term' = term /\ main' = main
      BY <1>4, <1>5, <2>5 DEF DecodedToError, Raise, NoCommit, Actors
    <3> QED BY <1>1, <1>3, <1>4, <2>1, <3>1 DEF ControlOK, Pending, Early
  <2> QED BY <1>3, <2>2, <2>3, <2>4, <2>5
<1>6. CASE a # "loop"
  <2>1. /\ a = "terminal" /\ term = "commit" /\ commit'["loop"] = commit["loop"]
        /\ ~draftTask
    BY <1>1, <1>2, <1>3, <1>4, <1>6 DEF ControlOK, DecodedToSend, DecodedToReady, DecodedToNone,
       DecodedToError, Actors
  <2>2. CASE DecodedToSend(a)
    BY <1>6, <2>2 DEF DecodedToSend
  <2>3. CASE DecodedToReady(a)
    <3>1. /\ commit'["terminal"].pc = "ready" /\ term' = "publish" /\ loop' = loop /\ phase' = phase
          /\ main' = main
      BY <1>2, <1>4, <2>1, <2>3 DEF DecodedToReady, Return, CommitShapes, Actors
    <3> QED BY <1>1, <1>3, <1>4, <2>1, <3>1 DEF ControlOK, Pending, Early
  <2>4. CASE DecodedToNone(a)
    <3>1. /\ commit'["terminal"].pc = "none" /\ term' = "publish" /\ loop' = loop /\ phase' = phase
          /\ main' = main
      BY <1>4, <2>1, <2>4 DEF DecodedToNone, Return, NoCommit, Actors
    <3> QED BY <1>1, <1>3, <1>4, <2>1, <3>1 DEF ControlOK, Pending, Early
  <2>5. CASE DecodedToError(a)
    <3>1. /\ commit'["terminal"].pc = "none" /\ main' = "closed"
          /\ UNCHANGED <<loop, phase, term>>
      BY <1>4, <2>1, <2>5 DEF DecodedToError, Raise, NoCommit, Close, Actors
    <3> QED BY <1>1, <1>3, <1>4, <2>1, <3>1 DEF ControlOK, Pending, Early
  <2> QED BY <1>3, <2>2, <2>3, <2>4, <2>5
<1> QED BY <1>5, <1>6

LEMMA ControlNext ==
  ASSUME IInv, [Next]_vars
  PROVE  ControlOK'
<1>1. Typed /\ ControlOK
  BY DEF IInv
<1> USE DEF audioVars, draftVars
<1>2. ASSUME UNCHANGED <<heard, commit>>,
             main' = "open" => term' = "none",
             loop' = "commit" <=> loop = "commit",
             loop' = "commit" => phase' = "commit",
             loop' = "reap" => loop = "reap",
             commit["terminal"].pc = "decode" => term' = "commit",
             commit["terminal"].pc = "ready" => term' \in {"publish", "drain", "close"},
             loop' \in {"reap", "commit"} => ~draftTask',
             term' \notin {"none", "stop"} => ~draftTask',
             term' = "reap" => loop' \notin {"reap", "commit"},
             term' \notin Early /\ loop' = "commit" =>
               commit["loop"].upto = Total,
             term' \notin Early /\ ~outlived' => loop' \in {"done", "cancelled"}
      PROVE  ControlOK'
  BY <1>1, <1>2 DEF ControlOK, Pending, Total
<1>3. CASE Receive
  <2>1. /\ main = "open" /\ term = "none" /\ main' \in {"open", "closed"}
        /\ UNCHANGED <<loop, phase, draftTask, term, outlived, commit>>
    BY <1>1, <1>3 DEF Receive, ControlOK, Close
  <2> QED BY <1>1, <2>1 DEF ControlOK, Pending, Early
<1> USE DEF ControlOK, Early
<1>4. CASE Eof BY <1>1, <1>2, <1>4 DEF Eof
<1>5. CASE Abort BY <1>1, <1>2, <1>5 DEF Abort, Close
<1>6. CASE LoopFailed BY <1>1, <1>2, <1>6 DEF LoopFailed, Close
<1>7. CASE CooldownEnds BY <1>1, <1>2, <1>7 DEF CooldownEnds
<1>8. CASE Stop BY <1>1, <1>2, <1>8 DEF Stop, Stopping
<1>9. CASE ReapDraft BY <1>1, <1>2, <1>9 DEF ReapDraft, Stopping
<1>10. CASE Decide
  <2>1. CASE draftTask
    <3>1. PICK reason \in {"forced", "silence"} : commit' = [commit EXCEPT !["loop"].reason = reason]
      BY <1>10, <2>1 DEF Decide
    <3>2. /\ commit'["loop"].pc = commit["loop"].pc /\ commit'["loop"].upto = commit["loop"].upto
          /\ commit'["loop"].reason = reason /\ commit'["terminal"] = commit["terminal"]
      BY <1>1, <3>1 DEF Typed, CommitShapes, Actors
    <3>3. /\ loop = "tick" /\ loop' = "reap" /\ draftTask' = FALSE /\ term = "none"
          /\ UNCHANGED <<main, phase, term, outlived, heard>>
      BY <1>10, <2>1 DEF Decide, Stopping
    <3> QED BY <1>1, <3>2, <3>3 DEF Pending, Total
  <2>2. CASE ~draftTask
    BY <1>1, <1>10, <2>2, BeginnersBegin, ControlBegin DEF Beginning
  <2> QED BY <2>1, <2>2
<1>11. CASE AfterReap BY <1>1, <1>11, BeginnersBegin, ControlBegin DEF Beginning
<1>12. CASE StartDraft BY <1>1, <1>2, <1>12 DEF StartDraft, Stopping
<1>13. CASE EmitFinal
  <2>1. loop = "commit" /\ phase = "commit" /\ ~draftTask
    BY <1>1, <1>13 DEF EmitFinal, Pending
  <2>2. commit \in [Actors -> CommitShapes]
    BY <1>1 DEF Typed
  <2>3. CASE commit' = [commit EXCEPT !["loop"].pc = "sent"] /\ UNCHANGED <<loop, phase, term, main>>
    <3>1. /\ commit'["loop"].pc = "sent" /\ commit'["loop"].upto = commit["loop"].upto
          /\ commit'["loop"].reason = commit["loop"].reason
          /\ commit'["terminal"] = commit["terminal"]
      BY <2>2, <2>3 DEF CommitShapes, Actors
    <3> QED BY <1>1, <1>13, <2>1, <2>3, <3>1 DEF EmitFinal, Pending, Total
  <2>4. CASE commit' = [commit EXCEPT !["loop"] = NoCommit] /\ Raise("loop")
    <3>1. commit'["loop"].pc = "none" /\ commit'["terminal"] = commit["terminal"]
      BY <2>2, <2>4 DEF NoCommit, Actors
    <3> QED BY <1>1, <1>13, <2>1, <2>4, <3>1 DEF EmitFinal, Pending, Total, Raise
  <2> QED BY <1>13, <2>3, <2>4 DEF EmitFinal
<1>14. CASE Advanced
  <2>1. loop = "commit" /\ phase = "commit" /\ ~draftTask
    BY <1>1, <1>14 DEF Advanced, Pending
  <2>2. commit'["loop"].pc = "none" /\ commit'["terminal"] = commit["terminal"]
    BY <1>1, <1>14 DEF Advanced, Typed, NoCommit, Actors
  <2>3. loop' = "tick" /\ UNCHANGED <<main, heard, term, outlived, draftTask>>
    BY <1>14 DEF Advanced, Return
  <2> QED BY <1>1, <2>1, <2>2, <2>3 DEF Pending, Total
<1>15. CASE DraftBegins BY <1>1, <1>2, <1>15 DEF DraftBegins
<1>16. CASE DraftDecoded BY <1>1, <1>2, <1>16 DEF DraftDecoded
<1>17. CASE DraftSends BY <1>1, <1>2, <1>17 DEF DraftSends
<1>18. CASE DraftDies BY <1>1, <1>2, <1>18 DEF DraftDies
<1>30. ASSUME JoinLoop, term \in {"stop", "reap"}, main = "terminal",
              UNCHANGED <<heard, commit>>, ~draftTask',
              loop = "commit" => phase' = "commit"
       PROVE  ControlOK'
  <2>1. CASE UNCHANGED <<loop, term>>
    BY <1>1, <1>2, <1>30, <2>1 DEF JoinLoop, Close
  <2>2. CASE term' = "join" /\ UNCHANGED loop
    BY <1>1, <1>2, <1>30, <2>2 DEF JoinLoop
  <2>3. CASE /\ loop # "failed" /\ ~(LoopCommits /\ loop # "done")
             /\ loop' = (IF loop = "tick" THEN "cancelled" ELSE loop)
             /\ outlived' = (outlived \/ loop = "reap")
             /\ term' = "ack" /\ UNCHANGED main
    <3>1. loop \in {"tick", "reap", "done", "cancelled"}
      BY <1>1, <2>3 DEF LoopCommits, Typed
    <3>2. ~outlived' => loop' \in {"done", "cancelled"}
      BY <2>3, <3>1
    <3>3. /\ loop' # "commit" /\ loop # "commit" /\ (loop' = "reap" => loop = "reap")
          /\ commit["terminal"].pc = "none"
      BY <1>1, <1>30, <2>3, <3>1 DEF Typed
    <3> QED BY <1>2, <1>30, <2>3, <3>2, <3>3
  <2> QED BY <1>30, <2>1, <2>2, <2>3 DEF JoinLoop
<1>19. CASE TermStop
  <2>1. CASE JoinLoop
    BY <1>1, <1>19, <1>30, <2>1 DEF TermStop
  <2>2. CASE ~JoinLoop
    BY <1>1, <1>2, <1>19, <2>2 DEF TermStop, Close
  <2> QED BY <2>1, <2>2
<1>20. CASE TermReap
  <2>1. ~draftTask' /\ UNCHANGED <<heard, commit>> /\ (loop = "commit" => phase' = "commit")
    BY <1>1, <1>20 DEF TermReap
  <2> QED BY <1>20, <1>30, <2>1 DEF TermReap
<1>21. CASE TermJoin BY <1>1, <1>2, <1>21 DEF TermJoin, Close
<1>22. CASE TermAck BY <1>1, <1>2, <1>22 DEF TermAck
<1>23. CASE TermCommit BY <1>1, <1>23, BeginnersBegin, ControlBegin DEF Beginning
<1>24. CASE TermPublish BY <1>1, <1>2, <1>24 DEF TermPublish
<1>25. CASE TermDrain BY <1>1, <1>2, <1>25 DEF TermDrain
<1>26. CASE TermClose BY <1>1, <1>2, <1>26 DEF TermClose, Close
<1>27. CASE \E a \in Actors : Decoded(a) BY <1>27, ControlDecoded
<1>28. CASE UNCHANGED vars BY <1>1, <1>2, <1>28 DEF vars
<1> QED BY <1>3, <1>4, <1>5, <1>6, <1>7, <1>8, <1>9, <1>10, <1>11, <1>12, <1>13, <1>14, <1>15, <1>16,
           <1>17, <1>18, <1>19, <1>20, <1>21, <1>22, <1>23, <1>24, <1>25, <1>26, <1>27, <1>28
        DEF Next, LoopSteps, DraftSteps, TermSteps

-----------------------------------------------------------------------------
(* Where the frames are. *)

LEMMA FramesReceive ==
  ASSUME IInv, Receive
  PROVE  BufferOK' /\ PendingOK' /\ Total' = Total + 1 /\ bufferStart' = bufferStart
<1>1. Typed /\ BufferOK /\ PendingOK
  BY DEF IInv
<1>2. /\ Total \in Nat /\ DOMAIN heard = 1..Total /\ Speech \subseteq 1..Total
      /\ Len(buffer) \in Nat /\ DOMAIN buffer = 1..Len(buffer)
      /\ \A j \in DOMAIN buffer : buffer[j] \in Nat
      /\ buffer \in Seq(Pos) /\ bufferStart \in Nat /\ finalized \in Nat
  BY <1>1, TotalIsNat DEF Typed, Pos
<1>3. PICK kind \in {"speech", "silence"} : heard' = Append(heard, kind)
  BY DEF Receive
<1>4. /\ Total' = Total + 1 /\ DOMAIN heard' = 1..(Total + 1)
      /\ \A i \in 1..Total : heard'[i] = heard[i]
  <2>1. heard \in Seq({"speech", "silence"})
    BY <1>1 DEF Typed
  <2> QED BY <1>3, <2>1, AppendProperties, LenProperties DEF Total
<1>5. /\ Len(buffer') = Len(buffer) + 1 /\ DOMAIN buffer' = 1..(Len(buffer) + 1)
      /\ \A j \in DOMAIN buffer : buffer'[j] = buffer[j]
      /\ buffer'[Len(buffer) + 1] = Total + 1
  <2>1. buffer' = Append(buffer, Total + 1) /\ Total + 1 \in Pos
    BY <1>2 DEF Receive, Pos
  <2> QED BY <1>2, <2>1, AppendProperties, LenProperties
<1>6. bufferStart = Total - Len(buffer) /\ Placed(buffer, Total)
  BY <1>1 DEF BufferOK
<1>7. bufferStart' = bufferStart
  BY <1>2, <1>6 DEF Receive, Most
<1>8. finalized' = finalized /\ decoded' = decoded /\ commit' = commit
  BY DEF Receive
<1>9. Speech' \subseteq Speech \cup {Total + 1}
  BY <1>2, <1>4 DEF Speech
<1>10. Placed(buffer', Total')
  <2>1. ASSUME NEW j \in DOMAIN buffer' PROVE buffer'[j] + Len(buffer') <= Total' + j
    <3>1. CASE j = Len(buffer) + 1
      BY <1>2, <1>4, <1>5, <3>1
    <3>2. CASE j \in DOMAIN buffer
      <4>1. PICK v \in Nat : v = buffer[j] /\ v + Len(buffer) <= Total + j
        BY <1>2, <1>6, <3>2 DEF Placed
      <4> QED BY <1>2, <1>4, <1>5, <3>2, <4>1
    <3> QED BY <1>2, <1>5, <3>1, <3>2
  <2>2. Len(buffer') <= Total'
    BY <1>2, <1>4, <1>5, <1>6
  <2> QED BY <2>1, <2>2 DEF Placed
<1>11. ASSUME NEW n \in Nat, n <= Total, LaterThan(n)
       PROVE  \A j \in DOMAIN buffer' : bufferStart' + j > n => buffer'[j] > n
  <2> TAKE j \in DOMAIN buffer'
  <2>1. CASE j = Len(buffer) + 1
    BY <1>2, <1>5, <1>11, <2>1
  <2>2. CASE j \in DOMAIN buffer
    BY <1>5, <1>7, <1>11, <2>2 DEF LaterThan
  <2> QED BY <1>2, <1>5, <2>1, <2>2
<1>12. BufferOK'
  <2>1. LaterThan(finalized)'
    BY <1>1, <1>2, <1>8, <1>11 DEF BufferOK, LaterThan
  <2>2. \A i \in Speech' \ decoded' : \E j \in DOMAIN buffer' : buffer'[j] = i
    <3> TAKE i \in Speech' \ decoded'
    <3>1. CASE i = Total + 1
      BY <1>2, <1>5, <3>1
    <3>2. CASE i \in Speech
      <4>1. PICK j \in DOMAIN buffer : buffer[j] = i
        BY <1>1, <1>8, <3>2 DEF BufferOK
      <4>2. j \in DOMAIN buffer' /\ buffer'[j] = i
        BY <1>2, <1>5, <4>1
      <4> QED BY <4>2
    <3> QED BY <1>9, <3>1, <3>2
  <2>3. \A i \in Speech' : i <= finalized' => i \in decoded'
    <3> TAKE i \in Speech'
    <3>1. finalized <= Total /\ \A k \in Speech : k <= finalized => k \in decoded
      BY <1>1 DEF BufferOK
    <3> QED BY <1>2, <1>8, <1>9, <3>1
  <2>4. finalized' <= Total' /\ bufferStart' = Total' - Len(buffer')
    BY <1>1, <1>2, <1>4, <1>5, <1>6, <1>7, <1>8 DEF BufferOK
  <2> QED BY <1>10, <2>1, <2>2, <2>3, <2>4 DEF BufferOK
<1>13. PendingOK'
  <2>1. ASSUME NEW b \in Actors, Pending(b)' PROVE CommitOK(commit[b])'
    <3>1. PICK d : d = commit[b]
      OBVIOUS
    <3>2. CommitOK(d) /\ d.upto \in Nat /\ d \in CommitShapes
      BY <1>1, <1>8, <2>1, <3>1 DEF PendingOK, Pending, Typed, CommitShapes
    <3>3. bufferStart <= d.upto /\ d.upto <= Total /\ LaterThan(d.upto)
      BY <3>2 DEF CommitOK
    <3>4. LaterThan(d.upto)'
      BY <1>11, <3>2, <3>3 DEF LaterThan
    <3>5. \A i \in Speech' : i <= d.upto => i \in decoded'
      <4> TAKE i \in Speech'
      <4>1. \A k \in Speech : k <= d.upto => k \in decoded
        BY <3>2 DEF CommitOK
      <4> QED BY <1>2, <1>8, <1>9, <3>2, <3>3, <4>1
    <3>6. d.upto <= Total'
      BY <1>2, <1>4, <3>2, <3>3
    <3>7. CommitOK(d)'
      BY <1>7, <1>8, <3>2, <3>4, <3>5, <3>6 DEF CommitOK
    <3> QED BY <1>8, <3>1, <3>7 DEF CommitOK, LaterThan
  <2> QED BY <2>1 DEF PendingOK
<1> QED BY <1>4, <1>7, <1>12, <1>13

LEMMA FramesSame ==
  ASSUME BufferOK, PendingOK, UNCHANGED <<audioVars, decoded>>,
         \A a \in Actors : Pending(a)' =>
           /\ Pending(a)
           /\ \A f \in {"reason", "audio", "end", "upto"} : commit'[a][f] = commit[a][f]
  PROVE  BufferOK' /\ PendingOK'
<1>1. BufferOK'
  BY DEF BufferOK, LaterThan, Speech, Total, audioVars
<1>2. ASSUME NEW b \in Actors, Pending(b)' PROVE CommitOK(commit[b])'
  <2>1. CommitOK(commit[b])
    BY <1>2 DEF PendingOK
  <2>2. /\ commit'[b].reason = commit[b].reason /\ commit'[b].audio = commit[b].audio
        /\ commit'[b].end = commit[b].end /\ commit'[b].upto = commit[b].upto
    BY <1>2
  <2> QED BY <2>1, <2>2 DEF CommitOK, LaterThan, Speech, Total, audioVars
<1> QED BY <1>1, <1>2 DEF PendingOK

LEMMA FramesNext ==
  ASSUME IInv, [Next]_vars
  PROVE  BufferOK' /\ PendingOK'
<1>1. Typed /\ ControlOK /\ BufferOK /\ PendingOK
  BY DEF IInv
<1>2. commit \in [Actors -> CommitShapes]
  BY <1>1 DEF Typed
<1>3. CASE UNCHANGED <<audioVars, decoded, commit>>
  BY <1>1, <1>3, FramesSame DEF Pending
<1>4. CASE Receive BY <1>4, FramesReceive
<1>5. CASE Beginning
  <2>1. PICK a \in Actors, reason \in {"forced", "silence", "eof"} : BeginBy(a, reason)
    BY <1>5 DEF Beginning
  <2>2. PICK c : c = Copied(reason)
    OBVIOUS
  <2>3. \A b \in Actors : Pending(b) => b # a /\ commit[b].upto = Total
    BY <1>1, <2>1 DEF BeginBy, ControlOK, Pending, Actors, Early
  <2> QED BY <2>1, <2>2, <2>3, BeginKeeps DEF BeginBy
<1>6. CASE Decide /\ draftTask
  <2>1. PICK reason \in {"forced", "silence"} : commit' = [commit EXCEPT !["loop"].reason = reason]
    BY <1>6 DEF Decide
  <2>2. \A a \in Actors : Pending(a)' => a # "loop" /\ commit'[a] = commit[a]
    <3> TAKE a \in Actors
    <3>1. commit'[a].pc = commit[a].pc /\ (a # "loop" => commit'[a] = commit[a])
      BY <1>2, <2>1 DEF CommitShapes
    <3>2. ~Pending("loop")
      BY <1>1, <1>6 DEF Decide, ControlOK
    <3> QED BY <3>1, <3>2 DEF Pending
  <2>3. UNCHANGED <<audioVars, decoded>>
    BY <1>6 DEF Decide
  <2> QED BY <1>1, <2>2, <2>3, FramesSame DEF Pending
<1>7. CASE EmitFinal
  <2>1. ASSUME NEW a \in Actors, Pending(a)'
        PROVE  /\ Pending(a)
               /\ \A f \in {"reason", "audio", "end", "upto"} : commit'[a][f] = commit[a][f]
    <3>1. CASE a # "loop"
      BY <1>2, <1>7, <2>1, <3>1 DEF EmitFinal, Pending
    <3>2. CASE a = "loop"
      <4>1. Pending(a)
        BY <1>7, <3>2 DEF EmitFinal, Pending
      <4>2. commit' # [commit EXCEPT !["loop"] = NoCommit]
        BY <1>2, <2>1, <3>2 DEF Pending, NoCommit
      <4>3. commit' = [commit EXCEPT !["loop"].pc = "sent"]
        BY <1>7, <4>2 DEF EmitFinal
      <4> QED BY <1>2, <3>2, <4>1, <4>3 DEF CommitShapes
    <3> QED BY <3>1, <3>2
  <2>2. UNCHANGED <<audioVars, decoded>>
    BY <1>7 DEF EmitFinal
  <2> QED BY <1>1, <2>1, <2>2, FramesSame
<1>8. CASE Advanced
  <2>1. PICK c : c = commit["loop"]
    OBVIOUS
  <2> QED BY <1>1, <1>8, <2>1, AdvancedEnds, EndKeeps DEF Actors
<1>9. ASSUME NEW a \in Actors, Decoded(a) PROVE BufferOK' /\ PendingOK'
  <2>1. PICK c : c = commit[a]
    OBVIOUS
  <2>2. /\ Pending(a) /\ heard' = heard /\ decoded' = decoded
        /\ DecodedToSend(a) \/ EndBy(a, c, FALSE) \/ DecodedToError(a)
    BY <1>1, <1>9, <2>1, DecodedCases
  <2>3. CASE EndBy(a, c, FALSE) BY <2>3, EndKeeps
  <2>4. CASE DecodedToSend(a) \/ DecodedToError(a)
    <3>1. ASSUME NEW b \in Actors, Pending(b)'
          PROVE  /\ Pending(b)
                 /\ \A f \in {"reason", "audio", "end", "upto"} : commit'[b][f] = commit[b][f]
      <4>1. CASE b # a
        BY <1>2, <2>4, <3>1, <4>1 DEF DecodedToSend, DecodedToError, Pending
      <4>2. CASE b = a
        <5>1. commit' # [commit EXCEPT ![a] = NoCommit]
          BY <1>2, <3>1, <4>2 DEF Pending, NoCommit
        <5>2. commit' = [commit EXCEPT ![a].pc = "send"]
          BY <2>4, <5>1 DEF DecodedToSend, DecodedToError
        <5> QED BY <1>2, <2>2, <4>2, <5>2 DEF CommitShapes
      <4> QED BY <4>1, <4>2
    <3>2. UNCHANGED <<audioVars, decoded>>
      BY <2>2, <2>4 DEF DecodedToSend, DecodedToError
    <3> QED BY <1>1, <3>1, <3>2, FramesSame
  <2> QED BY <2>2, <2>3, <2>4
<1>10. CASE Decide \/ AfterReap \/ TermCommit
  BY <1>1, <1>5, <1>6, <1>10, BeginnersBegin
<1>11. CASE \/ Eof \/ Abort \/ LoopFailed \/ CooldownEnds \/ Stop \/ ReapDraft \/ StartDraft
            \/ DraftSteps \/ TermStop \/ TermReap \/ TermJoin \/ TermAck \/ TermPublish \/ TermDrain
            \/ TermClose \/ UNCHANGED vars
  <2>1. UNCHANGED <<audioVars, decoded, commit>>
    BY <1>11 DEF Eof, Abort, LoopFailed, CooldownEnds, Stop, ReapDraft, StartDraft, DraftSteps,
       DraftBegins, DraftDecoded, DraftSends, DraftDies, TermStop, TermReap, TermJoin, TermAck,
       TermPublish, TermDrain, TermClose, vars
  <2> QED BY <1>3, <2>1
<1> QED BY <1>4, <1>7, <1>8, <1>9, <1>10, <1>11 DEF Next, LoopSteps, TermSteps

-----------------------------------------------------------------------------
(* What has been decoded when the client is told that the stream is drained. *)

LEMMA PositionsGrow ==
  ASSUME Typed, NEW e \in EventShapes, Send(e)
  PROVE  \A type : Positions(type)' = Positions(type) \cup {i \in {Len(sent) + 1} : e.type = type}
<1>1. /\ DOMAIN sent = 1..Len(sent) /\ Len(sent) \in Nat
      /\ DOMAIN sent' = 1..(Len(sent) + 1)
      /\ \A i \in DOMAIN sent : sent'[i] = sent[i]
      /\ sent'[Len(sent) + 1] = e
  BY SentGrows
<1>2. DOMAIN sent' = DOMAIN sent \cup {Len(sent) + 1} /\ Len(sent) + 1 \notin DOMAIN sent
  BY <1>1
<1> QED BY <1>1, <1>2 DEF Positions

LEMMA CompleteNext ==
  ASSUME IInv, [Next]_vars
  PROVE  Complete'
<1>1. Typed /\ ControlOK /\ Complete
  BY DEF IInv
<1> DEFINE Late == {"commit", "publish", "drain", "close"}
<1>2. ASSUME UNCHANGED <<heard, sent>>, decoded \subseteq decoded',
             term' \in Late => term \in Late \/ Speech \subseteq decoded',
             term = "close" => term' = "close"
      PROVE  Complete'
  BY <1>1, <1>2 DEF Complete, Speech, Positions
<1>3. ASSUME NEW e \in EventShapes, Send(e), UNCHANGED <<heard, decoded>>,
             term' \in Late => term \in Late,
             term = "close" \/ e.type = "drained" => term' = "close"
      PROVE  Complete'
  <2>1. Positions("drained")' = Positions("drained") \cup {i \in {Len(sent) + 1} : e.type = "drained"}
    BY <1>1, <1>3, PositionsGrow
  <2>2. Speech' = Speech
    BY <1>3 DEF Speech
  <2> QED BY <1>1, <1>3, <2>1, <2>2 DEF Complete
<1> USE DEF audioVars, draftVars
<1>4. CASE Receive
  BY <1>1, <1>4 DEF Receive, ControlOK, Complete, Positions
<1>5. CASE Beginning
  <2>1. PICK a \in Actors, reason \in {"forced", "silence", "eof"} : BeginBy(a, reason)
    BY <1>5 DEF Beginning
  <2>2. PICK c : c = Copied(reason)
    OBVIOUS
  <2>3. /\ Started(a, Begun(reason, c)) \/ Skipped(a)
        /\ decoded \subseteq decoded' /\ Speech \subseteq decoded'
    BY <1>1, <2>1, <2>2, BeginShape DEF BeginBy, IInv
  <2>4. term = "close" => term' = "close"
    BY <2>1, <2>3 DEF BeginBy, Started, Skipped, Return
  <2>5. UNCHANGED <<heard, sent>>
    BY <2>1 DEF BeginBy
  <2> QED BY <1>2, <2>3, <2>4, <2>5
<1>6. CASE Decide /\ draftTask BY <1>2, <1>6 DEF Decide
<1>7. CASE EmitFinal
  <2>1. UNCHANGED <<heard, decoded, term>>
    BY <1>7 DEF EmitFinal, Raise
  <2>2. CASE UNCHANGED sent BY <1>2, <2>1, <2>2
  <2>3. CASE Send(Final(commit["loop"]))
    <3>1. commit["loop"] \in CommitShapes
      BY <1>1 DEF Typed, Actors
    <3>2. Final(commit["loop"]) \in EventShapes /\ Final(commit["loop"]).type = "final"
      BY <1>1, <3>1, EventsAreTyped, 0 \in Nat DEF Final
    <3> QED BY <1>3, <2>1, <2>3, <3>2
  <2> QED BY <1>7, <2>2, <2>3 DEF EmitFinal
<1>8. CASE Advanced
  BY <1>2, <1>8 DEF Advanced, Return
<1>9. ASSUME NEW a \in Actors, Decoded(a) PROVE Complete'
  <2>1. PICK c : c = commit[a]
    OBVIOUS
  <2>2. /\ c.pc = "decode" /\ UNCHANGED <<heard, sent, decoded>>
        /\ DecodedToSend(a) \/ DecodedToReady(a) \/ DecodedToNone(a) \/ DecodedToError(a)
    BY <1>1, <1>9, <2>1, DecodedCases
  <2>3. term' = term \/ (a = "terminal" /\ term' = "publish")
    BY <2>2 DEF DecodedToSend, DecodedToReady, DecodedToNone, DecodedToError, Return, Raise, Actors
  <2>4. a = "terminal" => term = "commit"
    BY <1>1, <2>1, <2>2 DEF ControlOK
  <2> QED BY <1>2, <2>2, <2>3, <2>4
<1>10. CASE Decide \/ AfterReap \/ TermCommit
  BY <1>1, <1>5, <1>6, <1>10, BeginnersBegin
<1>11. CASE \/ Eof \/ Abort \/ LoopFailed \/ CooldownEnds \/ Stop \/ ReapDraft \/ StartDraft
            \/ DraftBegins \/ DraftDecoded \/ DraftDies
  BY <1>1, <1>2, <1>11 DEF Eof, Abort, LoopFailed, CooldownEnds, Stop, ReapDraft, StartDraft,
     DraftBegins, DraftDecoded, DraftDies, ControlOK, Stopping
<1>12. CASE TermStop \/ TermReap \/ TermJoin \/ TermClose
  BY <1>1, <1>2, <1>12 DEF TermStop, TermReap, TermJoin, TermClose, JoinLoop
<1>13. CASE DraftSends
  <2>1. UNCHANGED <<heard, decoded, term>>
    BY <1>13 DEF DraftSends
  <2>2. CASE UNCHANGED sent BY <1>2, <2>1, <2>2
  <2>3. CASE Send(Event("partial", draft.seq))
    <3>1. draft.seq \in Nat
      BY <1>1 DEF Typed, DraftShapes
    <3>2. /\ Event("partial", draft.seq) \in EventShapes
          /\ Event("partial", draft.seq).type = "partial"
      BY <1>1, <3>1, EventsAreTyped DEF Event
    <3> QED BY <1>3, <2>1, <2>3, <3>2
  <2> QED BY <1>13, <2>2, <2>3 DEF DraftSends
<1>14. CASE TermAck
  <2>1. /\ UNCHANGED <<heard, decoded>> /\ term = "ack" /\ term' = "begin"
        /\ Send(Event("eof_ack", segIndex))
    BY <1>14 DEF TermAck
  <2>2. segIndex \in Nat
    BY <1>1 DEF Typed
  <2>3. /\ Event("eof_ack", segIndex) \in EventShapes
        /\ Event("eof_ack", segIndex).type = "eof_ack"
    BY <1>1, <2>2, EventsAreTyped DEF Event
  <2> QED BY <1>3, <2>1, <2>3
<1>15. CASE TermPublish
  <2>1. UNCHANGED <<heard, decoded>> /\ term = "publish" /\ term' = "drain"
    BY <1>15 DEF TermPublish
  <2>2. CASE UNCHANGED sent BY <1>2, <2>1, <2>2
  <2>3. CASE Send(Final(commit["terminal"]))
    <3>1. commit["terminal"] \in CommitShapes
      BY <1>1 DEF Typed, Actors
    <3>2. Final(commit["terminal"]) \in EventShapes /\ Final(commit["terminal"]).type = "final"
      BY <1>1, <3>1, EventsAreTyped, 0 \in Nat DEF Final
    <3> QED BY <1>3, <2>1, <2>3, <3>2
  <2> QED BY <1>15, <2>2, <2>3 DEF TermPublish
<1>16. CASE TermDrain
  <2>1. /\ UNCHANGED <<heard, decoded>> /\ term = "drain" /\ term' = "close"
        /\ Send(Event("drained", segIndex))
    BY <1>16 DEF TermDrain
  <2>2. segIndex \in Nat
    BY <1>1 DEF Typed
  <2>3. Event("drained", segIndex) \in EventShapes
    BY <1>1, <2>2, EventsAreTyped
  <2> QED BY <1>3, <2>1, <2>3
<1>17. CASE UNCHANGED vars BY <1>2, <1>17 DEF vars
<1> QED BY <1>4, <1>7, <1>8, <1>9, <1>10, <1>11, <1>12, <1>13, <1>14, <1>15, <1>16, <1>17
        DEF Next, LoopSteps, DraftSteps, TermSteps

-----------------------------------------------------------------------------
(* A segment ends only when no draft of it can speak any more. *)

LEMMA DraftNext ==
  ASSUME IInv, [Next]_vars
  PROVE  DraftOK'
<1>1. Typed /\ ControlOK /\ DraftOK /\ draft \in DraftShapes
  BY DEF IInv, Typed
<1> USE DEF audioVars, draftVars
<1>2. CASE UNCHANGED <<draftTask, draft>> /\ (draftTask => segIndex' = segIndex)
  BY <1>1, <1>2 DEF DraftOK
<1>3. CASE draft' = CancelledDraft \/ draft' = NoDraft
  <2>1. draft'.pc \in {"none", "cancelled"}
    BY <1>1, <1>3 DEF CancelledDraft, NoDraft, DraftShapes
  <2> QED BY <2>1 DEF DraftOK
<1>4. CASE Beginning BY <1>2, <1>4 DEF Beginning, BeginBy
<1>5. CASE Decide /\ draftTask BY <1>3, <1>5 DEF Decide
<1>6. CASE Decide \/ AfterReap \/ TermCommit
  BY <1>1, <1>4, <1>5, <1>6, BeginnersBegin
<1>7. CASE Advanced BY <1>1, <1>2, <1>7 DEF Advanced, ControlOK, Pending
<1>8. ASSUME NEW a \in Actors, Decoded(a) PROVE DraftOK'
  <2>1. PICK c : c = commit[a]
    OBVIOUS
  <2>2. c.pc = "decode" /\ UNCHANGED draftVars
    BY <1>1, <1>8, <2>1, DecodedCases
  <2>3. ~draftTask
    BY <1>1, <2>1, <2>2 DEF ControlOK, Pending, Actors
  <2> QED BY <1>2, <2>2, <2>3
<1>9. CASE StartDraft
  <2>1. draft'.pc = "start" /\ draftTask'
    BY <1>9 DEF StartDraft
  <2> QED BY <2>1 DEF DraftOK
<1>10. CASE DraftBegins \/ DraftDecoded \/ DraftSends
  <2>1. /\ draftTask /\ draftTask' = draftTask /\ segIndex' = segIndex
        /\ draft.pc \in {"start", "decode", "send"}
    BY <1>1, <1>10 DEF DraftBegins, DraftDecoded, DraftSends, DraftOK
  <2>2. CASE draft' = [pc |-> "decode", seq |-> segIndex]
    <3>1. draft'.seq = segIndex
      BY <2>2
    <3> QED BY <2>1, <3>1 DEF DraftOK
  <2>3. CASE DraftGoes("send") /\ draft.pc = "decode"
    <3>1. draft'.pc = "send" /\ draft'.seq = draft.seq
      BY <1>1, <2>3 DEF DraftGoes, DraftShapes
    <3> QED BY <1>1, <2>1, <2>3, <3>1 DEF DraftOK
  <2>4. CASE DraftGoes("done") \/ DraftGoes("raised")
    <3>1. draft'.pc \in {"done", "raised"}
      BY <1>1, <2>4 DEF DraftGoes, DraftShapes
    <3> QED BY <2>1, <3>1 DEF DraftOK
  <2> QED BY <1>10, <2>2, <2>3, <2>4 DEF DraftBegins, DraftDecoded, DraftSends
<1>11. CASE ReapDraft \/ DraftDies BY <1>3, <1>11 DEF ReapDraft, DraftDies
<1>12. CASE TermStop
  <2>1. CASE draftTask BY <1>3, <1>12, <2>1 DEF TermStop
  <2>2. CASE ~draftTask
    <3>1. UNCHANGED draft /\ segIndex' = segIndex
      BY <1>12, <2>2 DEF TermStop
    <3> QED BY <1>1, <2>2, <3>1 DEF DraftOK
  <2> QED BY <2>1, <2>2
<1>13. CASE \/ Receive \/ Eof \/ Abort \/ LoopFailed \/ CooldownEnds \/ Stop \/ EmitFinal
            \/ TermReap \/ TermJoin \/ TermAck \/ TermPublish \/ TermDrain \/ TermClose
            \/ UNCHANGED vars
  BY <1>2, <1>13 DEF Receive, Eof, Abort, LoopFailed, CooldownEnds, Stop, EmitFinal, TermReap,
     TermJoin, TermAck, TermPublish, TermDrain, TermClose, vars
<1> QED BY <1>6, <1>7, <1>8, <1>9, <1>10, <1>11, <1>12, <1>13
        DEF Next, LoopSteps, DraftSteps, TermSteps

-----------------------------------------------------------------------------
(* What the client has been told. *)

LEMMA FinalsAre ==
  ASSUME Typed
  PROVE  /\ Len(sent) \in Nat /\ Finals \subseteq 1..Len(sent)
         /\ Positions("partial") \subseteq 1..Len(sent)
         /\ \A i \in DOMAIN sent : sent[i].seq \in Nat /\ sent[i].frames \subseteq Pos
         /\ Finals \subseteq DOMAIN sent /\ Positions("partial") \subseteq DOMAIN sent
         /\ segIndex \in Nat /\ finalized \in Nat
<1>1. sent \in Seq(EventShapes) /\ segIndex \in Nat /\ finalized \in Nat
  BY DEF Typed
<1>2. Len(sent) \in Nat /\ DOMAIN sent = 1..Len(sent) /\ \A i \in DOMAIN sent : sent[i] \in EventShapes
  BY <1>1, LenProperties
<1>3. \A i \in DOMAIN sent : sent[i].seq \in Nat /\ sent[i].frames \subseteq Pos
  BY <1>2 DEF EventShapes
<1> QED BY <1>1, <1>2, <1>3 DEF Finals, Positions

\* Nothing happens to the terminal pipeline that a final depends on.
GoesOn ==
  /\ ~outlived' => ~outlived
  /\ term' = term \/ term' \notin {"commit", "publish"}
  /\ term' \notin Committed => term \notin Committed

LEMMA FreshStays ==
  ASSUME NEW c, NEW d, Fresh(c), Finals' = Finals, \A i \in Finals : sent'[i] = sent[i],
         d.audio = c.audio, d.seq = c.seq
  PROVE  /\ d.audio # <<>>
         /\ \A i \in Finals' :
              /\ sent'[i].seq < d.seq
              /\ \A j \in DOMAIN d.audio : j > TailFrames => d.audio[j] \notin sent'[i].frames
              /\ \A f \in sent'[i].frames : f < d.audio[Len(d.audio)]
BY DEF Fresh, OnlyTailOf

\* Nothing is said, and no segment begins or ends.
LEMMA ToldSame ==
  ASSUME Typed, Told, UNCHANGED <<sent, segIndex, finalized, buffer>>,
         GoesOn, loop' \in Quiet \/ draftTask' => loop \in Quiet \/ draftTask,
         \A a \in Actors : commit'[a].pc # "none" =>
           /\ commit[a].pc # "none" /\ commit'[a].seq = commit[a].seq
           /\ commit'[a].audio = commit[a].audio /\ commit'[a].end = commit[a].end,
         commit'["terminal"].pc = "ready" => commit["terminal"].pc = "ready",
         (commit'["loop"].pc = "sent") <=> (commit["loop"].pc = "sent"),
         commit'["loop"].pc \in {"decode", "send"} => commit["loop"].pc \in {"decode", "send"}
  PROVE  Told'
<1>1. Finals' = Finals /\ Positions("partial")' = Positions("partial")
  BY DEF Finals, Positions
<1>2. SeqOK'
  BY <1>1 DEF Told, SeqOK, Actors
<1>3. ASSUME ~outlived' PROVE Windows'
  <2>1. Windows
    BY <1>3 DEF Told, GoesOn
  <2>2. commit'["loop"].pc # "sent" /\ term' \notin Committed =>
          Before(finalized)' /\ \A i \in Finals' : OnlyTailOf(buffer, i)'
    BY <1>1, <2>1 DEF Windows, Before, OnlyTailOf, GoesOn
  <2>3. commit'["loop"].pc \in {"decode", "send"} =>
          /\ commit'["loop"].audio[Len(commit'["loop"].audio)] > finalized'
          /\ \A i \in Finals' : sent'[i].seq < commit'["loop"].seq /\ OnlyTailOf(commit["loop"].audio, i)'
    BY <1>1, <2>1 DEF Windows, OnlyTailOf, Actors
  <2>4. commit'["loop"].pc = "sent" => Before(commit["loop"].end)'
    BY <1>1, <2>1 DEF Windows, Before, Actors
  <2>5. Pending("loop")' => finalized' < commit'["loop"].end
    BY <2>1 DEF Windows, Pending, Actors
  <2>6. term' \in {"commit", "publish"} /\ commit'["terminal"].pc # "none" =>
          Fresh(commit["terminal"])'
    <3> SUFFICES ASSUME term' \in {"commit", "publish"}, commit'["terminal"].pc # "none"
                 PROVE  Fresh(commit["terminal"])'
      OBVIOUS
    <3>1. Fresh(commit["terminal"])
      BY <2>1 DEF Windows, GoesOn, Actors
    <3>2. /\ commit'["terminal"].audio = commit["terminal"].audio
          /\ commit'["terminal"].seq = commit["terminal"].seq
      BY DEF Actors
    <3> QED BY <1>1, <3>1, <3>2, FreshStays DEF Fresh, OnlyTailOf
  <2> QED BY <2>2, <2>3, <2>4, <2>5, <2>6 DEF Windows
<1>4. NoStalePartial'
  BY <1>1 DEF Told, NoStalePartial, Finals
<1>5. WindowsAdvance'
  BY <1>1 DEF Told, WindowsAdvance, Finals, GoesOn
<1> QED BY <1>2, <1>3, <1>4, <1>5 DEF Told

\* An event that is not a final.
LEMMA ToldEvent ==
  ASSUME Typed, Told, NEW e \in EventShapes, Send(e), e.type # "final",
         e.type = "partial" => \A i \in Finals : sent[i].seq < e.seq,
         UNCHANGED <<segIndex, finalized, buffer, commit, loop, draftTask>>, GoesOn
  PROVE  Told'
<1> DEFINE n == Len(sent) + 1
<1>1. /\ n \in Nat /\ Finals \subseteq 1..Len(sent) /\ Positions("partial") \subseteq 1..Len(sent)
      /\ \A i \in 1..Len(sent) : i < n /\ sent'[i] = sent[i]
      /\ sent'[n] = e
  BY SentGrows, FinalsAre
<1>2. /\ Finals' = Finals
      /\ Positions("partial")' \subseteq Positions("partial") \cup {i \in {n} : e.type = "partial"}
  <2>1. \A type : Positions(type)' = Positions(type) \cup {i \in {n} : e.type = type}
    BY PositionsGrow
  <2>2. Positions("final")' = Positions("final") \cup {i \in {n} : e.type = "final"}
    BY <2>1
  <2>3. {i \in {n} : e.type = "final"} = {}
    OBVIOUS
  <2>4. Positions("partial")' = Positions("partial") \cup {i \in {n} : e.type = "partial"}
    BY <2>1
  <2> QED BY <2>2, <2>3, <2>4 DEF Finals
<1> HIDE DEF n
<1>3. \A i \in Finals : sent'[i] = sent[i] /\ i < n
  BY <1>1
<1>4. SeqOK'
  BY <1>2, <1>3 DEF Told, SeqOK
<1>5. ASSUME ~outlived' PROVE Windows'
  BY <1>2, <1>3, <1>5 DEF Told, Windows, Before, OnlyTailOf, Pending, GoesOn, Fresh
<1>6. ASSUME NEW i \in Finals', NEW j \in Positions("partial")', i < j
      PROVE  sent'[i].seq < sent'[j].seq
  <2>1. CASE j \in Positions("partial")
    BY <1>1, <1>2, <1>3, <1>6, <2>1 DEF Told, NoStalePartial, Finals
  <2>2. CASE j = n /\ e.type = "partial"
    BY <1>1, <1>2, <1>3, <2>2
  <2> QED BY <1>2, <2>1, <2>2
<1>7. WindowsAdvance'
  BY <1>2, <1>3 DEF Told, WindowsAdvance, Finals, GoesOn
<1> QED BY <1>4, <1>5, <1>6, <1>7 DEF Told, NoStalePartial, Finals

\* A segment ends.
LEMMA ToldEnded ==
  ASSUME Typed, Told, sent' = sent, segIndex' = segIndex + 1,
         ~outlived' => ~outlived /\ Windows',
         \A a \in Actors : commit'[a].pc # "none" =>
           commit[a].pc # "none" /\ commit[a].seq \in Nat /\ commit'[a].seq = commit[a].seq
  PROVE  Told'
<1>1. Finals' = Finals /\ Positions("partial")' = Positions("partial")
  BY DEF Finals, Positions
<1>2. /\ segIndex \in Nat /\ \A i \in Finals : sent[i].seq \in Nat
  BY FinalsAre
<1>3. SeqOK'
  BY <1>1, <1>2 DEF Told, SeqOK, Actors
<1>4. NoStalePartial'
  BY <1>1 DEF Told, NoStalePartial, Finals
<1>5. WindowsAdvance'
  BY <1>1 DEF Told, WindowsAdvance, Finals
<1> QED BY <1>3, <1>4, <1>5 DEF Told

\* What a commit leaves in the buffer is in no final, but for the tail.
LEMMA AfterAdvance ==
  ASSUME Typed, NEW upto \in Nat, NEW retain \in BOOLEAN, AdvancedTo(retain, upto),
         sent' = sent, NEW last \in Nat, last <= upto, Before(last), finalized' = last,
         commit'["loop"].pc = "none", term' \in Early
  PROVE  Windows'
<1>1. Finals' = Finals /\ Finals \subseteq DOMAIN sent
  BY FinalsAre DEF Finals, Positions
<1>2. ASSUME NEW i \in Finals, NEW j \in DOMAIN buffer', j > TailFrames,
             buffer'[j] \in sent[i].frames
      PROVE  FALSE
  <2>1. buffer'[j] \in Pos /\ j \in Nat
    <3>1. buffer' \in Seq(Pos)
      BY DEF AdvancedTo
    <3> QED BY <3>1, LenProperties
  <2>2. buffer'[j] > upto
    BY <1>2, <2>1, StreamAssumption DEF AdvancedTo
  <2>3. buffer'[j] <= last
    BY <1>2 DEF Before
  <2> QED BY <2>1, <2>2, <2>3 DEF Pos
<1>3. Before(finalized)'
  BY <1>1 DEF Before
<1>4. \A i \in Finals' : OnlyTailOf(buffer, i)'
  BY <1>1, <1>2 DEF OnlyTailOf
<1> QED BY <1>3, <1>4 DEF Windows, Pending, Early

\* What is left to the terminal pipeline when the loop did not outlive it.
LEMMA LoopIsOver ==
  ASSUME Typed, ControlOK, ~outlived, term \notin Early
  PROVE  loop \in {"done", "cancelled"} /\ commit["loop"].pc = "none"
<1>1. commit["loop"].pc \in {"none", "decode", "send", "sent", "ready"}
  BY DEF Typed, Actors, CommitShapes
<1> QED BY <1>1 DEF ControlOK, Pending

LEMMA ToldBegin ==
  ASSUME IInv, NEW a \in Actors, NEW reason \in {"forced", "silence", "eof"}, BeginBy(a, reason)
  PROVE  Told'
<1>1. Typed /\ ControlOK /\ BufferOK /\ Told
  BY DEF IInv
<1>2. /\ commit \in [Actors -> CommitShapes] /\ segIndex \in Nat /\ finalized \in Nat
      /\ Total \in Nat /\ finalized <= Total
  BY <1>1, TotalIsNat DEF Typed, BufferOK
<1>3. \A b \in Actors : commit[b].seq \in Nat
  BY <1>2 DEF CommitShapes
<1>4. PICK c : c = Copied(reason)
  OBVIOUS
<1>5. CopyOK(c, reason) /\ (Started(a, Begun(reason, c)) \/ Skipped(a))
  BY <1>1, <1>4, BeginShape DEF BeginBy
<1>6. /\ sent' = sent /\ finalized' = finalized /\ draftTask' = FALSE /\ ~draftTask
      /\ outlived' = outlived
  BY <1>1 DEF BeginBy, Typed, draftVars
<1>7. a = "loop" => commit["loop"].pc = "none" /\ loop \in {"tick", "reap"}
  BY <1>1, <1>2 DEF BeginBy, ControlOK, Pending, Actors, CommitShapes
<1>8. /\ a = "loop" /\ ~outlived => term \in Early
      /\ a = "terminal" => term = "begin" /\ commit["terminal"].pc = "none"
      /\ a = "terminal" /\ ~outlived => loop \in {"done", "cancelled"} /\ commit["loop"].pc = "none"
  <2>1. a = "loop" /\ ~outlived => term \in Early
    BY <1>1, <1>7, LoopIsOver
  <2>2. a = "terminal" => term = "begin"
    BY DEF BeginBy
  <2>3. a = "terminal" => commit["terminal"].pc = "none"
    BY <1>1, <2>2 DEF ControlOK
  <2> QED BY <1>1, <2>1, <2>2, <2>3, LoopIsOver DEF Early
<1>9. Finals' = Finals /\ Positions("partial")' = Positions("partial")
  BY <1>6 DEF Finals, Positions
<1>10. CASE Skipped(a)
  <2>1. ASSUME ~outlived' PROVE Windows'
    <3>0. ~outlived /\ Windows /\ commit' = commit
      BY <1>1, <1>6, <1>10, <2>1 DEF Told, Skipped
    <3>1. CASE a = "loop"
      <4>1. term \in Early /\ term' = term
        BY <1>8, <1>10, <3>0, <3>1 DEF Skipped, Return
      <4>2. Before(finalized)
        BY <1>7, <3>0, <3>1, <4>1 DEF Windows, Early, Committed
      <4>3. AdvancedTo(FALSE, Total) /\ commit'["loop"].pc = "none"
        BY <1>7, <1>10, <3>0, <3>1 DEF Skipped
      <4> QED BY <1>1, <1>2, <1>6, <4>1, <4>2, <4>3, AfterAdvance
    <3>2. CASE a = "terminal"
      <4>1. term' = "publish" /\ commit'["loop"].pc = "none" /\ commit'["terminal"].pc = "none"
        BY <1>8, <1>10, <3>0, <3>2 DEF Skipped, Return
      <4> QED BY <4>1 DEF Windows, Committed, Pending
    <3> QED BY <3>1, <3>2 DEF Actors
  <2>2. segIndex' = segIndex + 1 /\ commit' = commit
    BY <1>10 DEF Skipped, AdvancedTo
  <2> QED BY <1>1, <1>3, <1>6, <2>1, <2>2, ToldEnded
<1>11. CASE Started(a, Begun(reason, c))
  <2>0. PICK new : new = Begun(reason, c)
    OBVIOUS
  <2>1. /\ commit'[a] = new /\ \A b \in Actors : b # a => commit'[b] = commit[b]
        /\ UNCHANGED <<segIndex, buffer>> /\ new.end > finalized /\ new.audio # <<>>
    BY <1>2, <1>11, <2>0 DEF Started
  <2>2. new.seq = segIndex /\ new.pc = "decode" /\ new.audio = c.audio /\ new.end = c.end
    BY <2>0 DEF Begun
  <2>3. SeqOK'
    <3>1. \A b \in Actors : commit'[b].pc # "none" => commit'[b].seq <= segIndex'
      BY <1>1, <1>2, <2>1, <2>2 DEF Told, SeqOK
    <3>2. commit'["terminal"].pc = "ready" => commit'["terminal"].seq < segIndex'
      BY <1>1, <2>1, <2>2 DEF Told, SeqOK, Actors
    <3>3. \A i \in Finals' : sent'[i].seq <= segIndex'
      BY <1>1, <1>6, <1>9, <2>1 DEF Told, SeqOK
    <3>4. loop' \in Quiet => loop \in Quiet
      BY <1>11 DEF Started, Quiet
    <3>5. loop' \in Quiet \/ draftTask' => \A i \in Finals' : sent'[i].seq < segIndex'
      BY <1>1, <1>6, <1>9, <2>1, <3>4 DEF Told, SeqOK
    <3> QED BY <3>1, <3>2, <3>3, <3>5 DEF SeqOK
  <2>4. ASSUME ~outlived' PROVE Windows'
    <3>1. ~outlived /\ Windows
      BY <1>1, <1>6, <2>4 DEF Told
    <3>2. /\ commit["loop"].pc = "none" /\ loop \in Quiet
          /\ term \notin Committed /\ term' \notin Committed
      BY <1>7, <1>8, <1>11, <3>1 DEF Actors, Started, Early, Committed, Quiet
    <3>3. Before(finalized) /\ \A i \in Finals : OnlyTailOf(buffer, i)
      BY <3>1, <3>2 DEF Windows
    <3>4. \A i \in Finals : sent[i].seq < new.seq
      BY <1>1, <2>2, <3>2 DEF Told, SeqOK
    <3>5. new.audio[Len(new.audio)] > finalized
      BY <1>5, <2>1, <2>2 DEF CopyOK
    <3>6. ASSUME NEW i \in Finals PROVE OnlyTailOf(new.audio, i)
      <4>1. ASSUME NEW k \in DOMAIN new.audio, k > TailFrames PROVE new.audio[k] \notin sent[i].frames
        <5>1. PICK j \in DOMAIN buffer : k <= j /\ new.audio[k] = buffer[j]
          BY <1>5, <2>2 DEF CopyOK
        <5>2. k \in Nat /\ j \in Nat /\ TailFrames \in Nat
          <6>1. DOMAIN c.audio = 1..Len(c.audio)
            BY <1>5, LenProperties DEF CopyOK
          <6> QED BY <1>1, <2>2, <6>1, TotalIsNat, StreamAssumption
        <5>3. j > TailFrames
          BY <4>1, <5>1, <5>2
        <5> QED BY <3>3, <5>1, <5>3 DEF OnlyTailOf
      <4> QED BY <4>1 DEF OnlyTailOf
    <3>7. \A i \in Finals : sent'[i] = sent[i]
      BY <1>6
    <3>8. Before(finalized)' /\ \A i \in Finals' : OnlyTailOf(buffer, i)'
      BY <1>6, <1>9, <2>1, <3>3, <3>7 DEF Before, OnlyTailOf
    <3>9. CASE a = "loop"
      <4>1. commit'["loop"] = new /\ term' \in Early
        BY <1>8, <1>11, <2>1, <3>1, <3>9 DEF Started
      <4>2. \A i \in Finals' : OnlyTailOf(commit["loop"].audio, i)'
        BY <1>9, <3>6, <3>7, <4>1 DEF OnlyTailOf
      <4> QED BY <1>6, <1>9, <2>1, <2>2, <3>4, <3>5, <3>7, <3>8, <4>1, <4>2
              DEF Windows, Pending, Early
    <3>10. CASE a = "terminal"
      <4>1. commit'["terminal"] = new /\ commit'["loop"].pc = "none"
        BY <1>8, <2>1, <3>1, <3>10 DEF Actors
      <4>2. ASSUME NEW i \in Finals, NEW f \in sent[i].frames PROVE f < new.audio[Len(new.audio)]
        <5>1. f \in Pos /\ f <= finalized
          BY <1>1, <3>3, <4>2, FinalsAre DEF Before
        <5>2. new.audio \in Seq(Pos) /\ new.audio # <<>>
          BY <1>5, <2>1, <2>2 DEF CopyOK
        <5>3. Len(new.audio) \in DOMAIN new.audio
          BY <5>2, LenProperties, EmptySeq
        <5>4. new.audio[Len(new.audio)] \in Pos
          BY <5>2, <5>3, LenProperties
        <5> QED BY <1>2, <3>5, <5>1, <5>4 DEF Pos
      <4>3. Fresh(new)
        BY <2>1, <3>4, <3>6, <4>2 DEF Fresh
      <4>4. Fresh(commit["terminal"])'
        BY <1>9, <3>7, <4>1, <4>3, FreshStays DEF Fresh, OnlyTailOf
      <4> QED BY <3>8, <4>1, <4>4 DEF Windows, Pending
    <3> QED BY <3>9, <3>10 DEF Actors
  <2>5. NoStalePartial' /\ WindowsAdvance'
    BY <1>1, <1>6, <1>9 DEF Told, NoStalePartial, WindowsAdvance, Finals
  <2> QED BY <2>3, <2>4, <2>5 DEF Told
<1> QED BY <1>5, <1>10, <1>11

LEMMA ToldReceive ==
  ASSUME IInv, Receive
  PROVE  Told'
<1>1. Typed /\ ControlOK /\ BufferOK /\ Told
  BY DEF IInv
<1>2. /\ Total \in Nat /\ Len(buffer) \in Nat /\ DOMAIN buffer = 1..Len(buffer)
      /\ buffer \in Seq(Pos) /\ finalized \in Nat /\ finalized <= Total
  BY <1>1, TotalIsNat DEF Typed, BufferOK
<1>3. /\ UNCHANGED <<sent, segIndex, finalized, commit, loop, draftTask, term, outlived>>
      /\ term = "none" /\ buffer' = Append(buffer, Total + 1)
  BY <1>1 DEF Receive, draftVars, ControlOK
<1>4. Finals' = Finals /\ Positions("partial")' = Positions("partial") /\ Finals \subseteq DOMAIN sent
  BY <1>1, <1>3, FinalsAre DEF Finals, Positions
<1>5. /\ DOMAIN buffer' = 1..(Len(buffer) + 1) /\ buffer'[Len(buffer) + 1] = Total + 1
      /\ \A j \in DOMAIN buffer : buffer'[j] = buffer[j]
  <2>1. Total + 1 \in Pos
    BY <1>2 DEF Pos
  <2> QED BY <1>2, <1>3, <2>1, AppendProperties, LenProperties
<1>6. ASSUME ~outlived PROVE Windows
  BY <1>1, <1>6 DEF Told
<1>7. ASSUME ~outlived, commit["loop"].pc # "sent", NEW i \in Finals PROVE OnlyTailOf(buffer, i)'
  <2>1. ASSUME NEW j \in DOMAIN buffer', j > TailFrames PROVE buffer'[j] \notin sent[i].frames
    <3>1. CASE j = Len(buffer) + 1
      <4>1. Before(finalized)
        BY <1>3, <1>6, <1>7 DEF Windows, Committed
      <4>2. ~(Total + 1 <= finalized)
        BY <1>2
      <4> QED BY <1>5, <3>1, <4>1, <4>2 DEF Before
    <3>2. CASE j \in DOMAIN buffer
      BY <1>3, <1>5, <1>6, <1>7, <2>1, <3>2 DEF Windows, OnlyTailOf, Committed
    <3> QED BY <1>2, <1>5, <3>1, <3>2
  <2> QED BY <1>3, <2>1 DEF OnlyTailOf
<1>8. ASSUME ~outlived' PROVE Windows'
  <2>0. ~outlived /\ Windows
    BY <1>3, <1>6, <1>8
  <2>1. \A i \in Finals' : sent'[i] = sent[i]
    BY <1>3
  <2>2. commit'["loop"].pc # "sent" => Before(finalized)' /\ \A i \in Finals' : OnlyTailOf(buffer, i)'
    BY <1>3, <1>4, <1>7, <2>0, <2>1 DEF Windows, Before, Committed
  <2>3. commit'["loop"].pc \in {"decode", "send"} =>
          /\ commit'["loop"].audio[Len(commit'["loop"].audio)] > finalized'
          /\ \A i \in Finals' : sent'[i].seq < commit'["loop"].seq /\ OnlyTailOf(commit["loop"].audio, i)'
    BY <1>3, <1>4, <2>0, <2>1 DEF Windows, OnlyTailOf
  <2>4. commit'["loop"].pc = "sent" => Before(commit["loop"].end)'
    BY <1>3, <1>4, <2>0, <2>1 DEF Windows, Before
  <2>5. Pending("loop")' => finalized' < commit'["loop"].end
    BY <1>3, <2>0 DEF Windows, Pending
  <2>6. term' = "none"
    BY <1>3
  <2> QED BY <2>2, <2>3, <2>4, <2>5, <2>6 DEF Windows
<1>9. SeqOK' /\ NoStalePartial' /\ WindowsAdvance'
  BY <1>1, <1>3, <1>4 DEF Told, SeqOK, NoStalePartial, WindowsAdvance, Finals
<1> QED BY <1>8, <1>9 DEF Told

LEMMA ToldDecoded ==
  ASSUME IInv, NEW a \in Actors, Decoded(a)
  PROVE  Told'
<1>1. Typed /\ ControlOK /\ BufferOK /\ PendingOK /\ Told
  BY DEF IInv
<1>2. /\ commit \in [Actors -> CommitShapes] /\ finalized \in Nat
      /\ \A b \in Actors : commit[b].seq \in Nat
  BY <1>1 DEF Typed, CommitShapes
<1>3. PICK c : c = commit[a]
  OBVIOUS
<1>4. /\ c.pc = "decode" /\ Pending(a) /\ UNCHANGED <<heard, draftVars, outlived, sent, decoded>>
      /\ \/ DecodedToSend(a)
         \/ DecodedToReady(a) /\ EndBy(a, c, FALSE)
         \/ DecodedToNone(a) /\ EndBy(a, c, FALSE)
         \/ DecodedToError(a)
  BY <1>1, <1>3, DecodedCases
<1>5. /\ a = "loop" => loop = "commit" /\ (~outlived => term \in Early)
      /\ a = "terminal" => term = "commit" /\ (~outlived => commit["loop"].pc = "none")
      /\ UNCHANGED <<draftTask, sent, outlived>>
  <2>1. a = "loop" => loop = "commit"
    BY <1>1, <1>4 DEF ControlOK
  <2>2. a = "terminal" => term = "commit"
    BY <1>1, <1>3, <1>4 DEF ControlOK
  <2> QED BY <1>1, <1>4, <2>1, <2>2, LoopIsOver DEF draftVars, Early
<1>6. CASE DecodedToSend(a)
  <2>1. /\ a = "loop" /\ UNCHANGED <<loop, term, segIndex, finalized, buffer>>
        /\ commit' = [commit EXCEPT !["loop"].pc = "send"]
    BY <1>6 DEF DecodedToSend, audioVars
  <2>2. /\ commit'["loop"].pc = "send" /\ commit'["loop"].seq = commit["loop"].seq
        /\ commit'["loop"].audio = commit["loop"].audio /\ commit'["loop"].end = commit["loop"].end
        /\ commit'["terminal"] = commit["terminal"] /\ commit["loop"].pc = "decode"
    BY <1>2, <1>3, <1>4, <2>1 DEF CommitShapes, Actors
  <2>3. commit'["loop"].pc = "send" /\ GoesOn
    BY <1>5, <2>1, <2>2 DEF GoesOn
  <2> QED BY <1>1, <1>5, <2>1, <2>2, <2>3, ToldSame DEF Actors
<1>7. CASE DecodedToError(a)
  <2>1. /\ UNCHANGED <<term, segIndex, finalized, buffer>> /\ loop' \in {loop, "failed"}
        /\ GoesOn /\ (loop' \in Quiet => loop \in Quiet)
    BY <1>5, <1>7 DEF DecodedToError, audioVars, Raise, GoesOn, Quiet
  <2>2. commit'[a].pc = "none" /\ \A b \in Actors : b # a => commit'[b] = commit[b]
    BY <1>2, <1>7 DEF DecodedToError, NoCommit
  <2> QED BY <1>1, <1>3, <1>4, <1>5, <2>1, <2>2, ToldSame DEF Actors
<1>8. CASE (DecodedToReady(a) \/ DecodedToNone(a)) /\ EndBy(a, c, FALSE)
  <2>1. /\ CommitOK(c) /\ c.upto \in Nat /\ AdvancedTo(FALSE, c.upto)
    BY <1>8, EndAdvances
  <2>2. \A b \in Actors : commit'[b].pc # "none" =>
          commit[b].pc # "none" /\ commit'[b].seq = commit[b].seq
    <3>1. \A b \in Actors : b # a => commit'[b] = commit[b]
      BY <1>8 DEF EndBy
    <3>2. commit'[a].pc # "none" => commit[a].pc # "none" /\ commit'[a].seq = commit[a].seq
      <4>1. CASE DecodedToReady(a)
        BY <1>2, <1>3, <1>4, <4>1 DEF DecodedToReady, CommitShapes
      <4>2. CASE DecodedToNone(a)
        BY <1>2, <4>2 DEF DecodedToNone, NoCommit
      <4> QED BY <1>8, <4>1, <4>2
    <3> QED BY <3>1, <3>2
  <2>3. segIndex' = segIndex + 1
    BY <2>1 DEF AdvancedTo
  <2>4. ASSUME ~outlived' PROVE Windows'
    <3>0. ~outlived /\ Windows
      BY <1>1, <1>5, <2>4 DEF Told
    <3>1. CASE a = "loop"
      <4>1. DecodedToNone(a) /\ term \in Early /\ term' = term
        BY <1>5, <1>8, <3>0, <3>1 DEF DecodedToReady, DecodedToNone, Return
      <4>2. finalized' = finalized /\ commit'["loop"].pc = "none"
        BY <1>2, <3>1, <4>1 DEF DecodedToNone, NoCommit
      <4>3. Before(finalized) /\ finalized <= c.upto
        BY <1>3, <1>4, <2>1, <3>0, <3>1, <4>1 DEF Windows, CommitOK, Early, Committed
      <4> QED BY <1>1, <1>2, <1>5, <2>1, <4>1, <4>2, <4>3, AfterAdvance
    <3>2. CASE a = "terminal"
      <4>1. /\ term' = "publish" /\ commit'["loop"] = commit["loop"] /\ commit["loop"].pc = "none"
        BY <1>5, <1>8, <3>0, <3>2 DEF DecodedToReady, DecodedToNone, Return, EndBy, Actors
      <4>2. ASSUME commit'["terminal"].pc # "none" PROVE Fresh(commit["terminal"])'
        <5>1. DecodedToReady(a)
          BY <1>2, <1>8, <3>2, <4>2 DEF DecodedToNone, NoCommit
        <5>2. commit'["terminal"].audio = c.audio /\ commit'["terminal"].seq = c.seq
          BY <1>2, <1>3, <3>2, <5>1 DEF DecodedToReady, CommitShapes
        <5>3. Fresh(c)
          BY <1>3, <1>4, <1>5, <3>0, <3>2 DEF Windows
        <5>4. Finals' = Finals /\ \A i \in Finals : sent'[i] = sent[i]
          BY <1>5 DEF Finals, Positions
        <5> QED BY <5>2, <5>3, <5>4, FreshStays DEF Fresh, OnlyTailOf
      <4> QED BY <4>1, <4>2 DEF Windows, Committed, Pending
    <3> QED BY <3>1, <3>2 DEF Actors
  <2> QED BY <1>1, <1>2, <1>5, <2>2, <2>3, <2>4, ToldEnded
<1> QED BY <1>4, <1>6, <1>7, <1>8

LEMMA ToldAdvanced ==
  ASSUME IInv, Advanced
  PROVE  Told'
<1>1. Typed /\ ControlOK /\ Told
  BY DEF IInv
<1>2. /\ commit \in [Actors -> CommitShapes] /\ "loop" \in Actors
      /\ \A b \in Actors : commit[b].seq \in Nat
  BY <1>1 DEF Typed, CommitShapes, Actors
<1>3. PICK c : c = commit["loop"]
  OBVIOUS
<1>4. PICK retain \in BOOLEAN : EndBy("loop", c, retain)
  BY <1>1, <1>3, AdvancedEnds
<1>5. CommitOK(c) /\ c.upto \in Nat /\ c.end \in Nat /\ AdvancedTo(retain, c.upto)
  BY <1>2, <1>4, EndAdvances
<1>6. /\ UNCHANGED <<sent, term, outlived>> /\ finalized' = c.end /\ c.pc = "sent"
      /\ commit' = [commit EXCEPT !["loop"] = NoCommit]
  BY <1>3 DEF Advanced, Return
<1>7. commit'["loop"].pc = "none" /\ \A b \in Actors : b # "loop" => commit'[b] = commit[b]
  BY <1>2, <1>6 DEF NoCommit
<1>8. ASSUME ~outlived' PROVE Windows'
  <2>1. ~outlived /\ Windows
    BY <1>1, <1>6, <1>8 DEF Told
  <2>2. Before(c.end) /\ c.end <= c.upto
    BY <1>3, <1>5, <1>6, <2>1 DEF Windows, CommitOK
  <2>3. term' \in Early
    BY <1>1, <1>3, <1>6, <2>1, LoopIsOver
  <2> QED BY <1>1, <1>5, <1>6, <1>7, <2>2, <2>3, AfterAdvance
<1>9. segIndex' = segIndex + 1
  BY <1>5 DEF AdvancedTo
<1> QED BY <1>1, <1>2, <1>6, <1>7, <1>8, <1>9, ToldEnded

\* A final is added behind what was said.
LEMMA FinalAdded ==
  ASSUME Typed, NEW c \in CommitShapes, Send(Final(c))
  PROVE  /\ Final(c) \in EventShapes /\ Final(c).seq = c.seq /\ Final(c).frames = Range(c.audio)
         /\ Len(sent) \in Nat /\ Finals' = Finals \cup {Len(sent) + 1}
         /\ Positions("partial")' = Positions("partial")
         /\ Finals \subseteq 1..Len(sent) /\ Positions("partial") \subseteq 1..Len(sent)
         /\ \A i \in 1..Len(sent) : sent'[i] = sent[i] /\ i < Len(sent) + 1
         /\ sent'[Len(sent) + 1] = Final(c)
<1>1. /\ Final(c) \in EventShapes /\ Final(c).seq = c.seq /\ Final(c).frames = Range(c.audio)
      /\ Final(c).type = "final"
  BY EventsAreTyped, 0 \in Nat DEF Final
<1>2. PICK e \in EventShapes : e = Final(c)
  BY <1>1
<1>3. Send(e) /\ e.type = "final"
  BY <1>1, <1>2
<1>4. /\ Len(sent) \in Nat /\ \A i \in 1..Len(sent) : sent'[i] = sent[i] /\ i < Len(sent) + 1
      /\ sent'[Len(sent) + 1] = e
  BY <1>3, SentGrows
<1>5. \A type : Positions(type)' = Positions(type) \cup {i \in {Len(sent) + 1} : e.type = type}
  BY <1>3, PositionsGrow
<1>6. Finals' = Finals \cup {Len(sent) + 1}
  <2>1. Positions("final")' = Positions("final") \cup {i \in {Len(sent) + 1} : e.type = "final"}
    BY <1>5
  <2> QED BY <1>3, <2>1 DEF Finals
<1>7. Positions("partial")' = Positions("partial")
  <2>1. Positions("partial")' = Positions("partial") \cup {i \in {Len(sent) + 1} : e.type = "partial"}
    BY <1>5
  <2> QED BY <1>3, <2>1
<1> QED BY <1>1, <1>2, <1>4, <1>6, <1>7, FinalsAre

\* The loop's final is of audio no final had before, but for the tail of the last.
LEMMA ToldEmit ==
  ASSUME IInv, EmitFinal, Send(Final(commit["loop"])),
         commit' = [commit EXCEPT !["loop"].pc = "sent"], UNCHANGED <<loop, phase, term, main>>
  PROVE  Told'
<1>1. Typed /\ ControlOK /\ PendingOK /\ Told
  BY DEF IInv
<1>2. commit \in [Actors -> CommitShapes] /\ finalized \in Nat /\ segIndex \in Nat
  BY <1>1 DEF Typed
<1>3. PICK c \in CommitShapes : c = commit["loop"]
  BY <1>2 DEF Actors
<1>4. c.audio \in Seq(Pos) /\ c.end \in Nat /\ c.seq \in Nat /\ c.pc = "send"
  BY <1>3 DEF EmitFinal, CommitShapes
<1>5. CommitOK(c) /\ loop = "commit" /\ ~draftTask
  BY <1>1, <1>3, <1>4 DEF PendingOK, ControlOK, Pending, Actors
<1>6. /\ UNCHANGED <<segIndex, finalized, buffer, loop, term, outlived, draftTask>>
      /\ commit'["loop"].pc = "sent" /\ commit'["loop"].seq = c.seq /\ commit'["loop"].end = c.end
      /\ commit'["terminal"] = commit["terminal"]
  BY <1>2, <1>3 DEF EmitFinal, audioVars, draftVars, CommitShapes, Actors
<1> DEFINE n == Len(sent) + 1
<1>7. /\ sent'[n].seq = c.seq /\ sent'[n].frames = Range(c.audio)
      /\ Len(sent) \in Nat /\ n \in Nat /\ Finals' = Finals \cup {n}
      /\ Positions("partial")' = Positions("partial")
      /\ Finals \subseteq 1..Len(sent) /\ Positions("partial") \subseteq 1..Len(sent)
      /\ \A i \in 1..Len(sent) : sent'[i] = sent[i] /\ i < n
  BY <1>1, <1>3, FinalAdded
<1>8. \A i \in Finals : i \in Nat /\ i < n /\ sent'[i] = sent[i]
  BY <1>7
<1>9. \A j \in Positions("partial") : j \in Nat /\ j < n /\ sent'[j] = sent[j]
  BY <1>7
<1> HIDE DEF n
<1>10. Len(c.audio) \in DOMAIN c.audio /\ \A k \in DOMAIN c.audio : c.audio[k] <= c.end /\ c.audio[k] \in Pos
  <2>1. /\ Len(c.audio) \in Nat /\ DOMAIN c.audio = 1..Len(c.audio)
       /\ \A k \in DOMAIN c.audio : c.audio[k] \in Pos
    BY <1>4, LenProperties
  <2>2. Len(c.audio) # 0
    BY <1>4, <1>5, EmptySeq DEF CommitOK
  <2>3. ASSUME NEW k \in DOMAIN c.audio PROVE c.audio[k] <= c.end
    <3>1. c.audio[k] + Len(c.audio) <= c.end + k
      BY <1>5 DEF CommitOK, Placed
    <3> QED BY <1>4, <2>1, <3>1 DEF Pos
  <2> QED BY <2>1, <2>2, <2>3
<1>11. SeqOK'
  <2>1. commit["loop"].seq <= segIndex
    BY <1>1, <1>3, <1>4 DEF Told, SeqOK, Actors
  <2> QED BY <1>1, <1>3, <1>5, <1>6, <1>7, <1>8, <2>1 DEF Told, SeqOK, Actors, Quiet
<1>12. ASSUME ~outlived' PROVE Windows' /\ WindowsAdvance'
  <2>1. Windows /\ term' \in Early
    BY <1>1, <1>5, <1>6, <1>12, LoopIsOver DEF Told
  <2>2. /\ Before(finalized) /\ finalized < c.end /\ c.audio[Len(c.audio)] > finalized
        /\ \A i \in Finals : sent[i].seq < c.seq /\ OnlyTailOf(c.audio, i)
    <3>1. commit["loop"] = c /\ c.pc = "send" /\ Pending("loop") /\ term \notin Committed
      BY <1>3, <1>4, <1>6, <2>1 DEF Pending, Early, Committed
    <3> QED BY <2>1, <3>1 DEF Windows
  <2>3. \A i \in Finals : sent[i].frames \subseteq Pos
    BY <1>1, FinalsAre
  <2>4. ASSUME NEW i \in Finals', NEW f \in sent'[i].frames PROVE f <= c.end
    <3>1. CASE i = n
      BY <1>7, <1>10, <2>4, <3>1 DEF Range
    <3>2. CASE i \in Finals
      <4>1. f \in Pos /\ f <= finalized
        BY <1>8, <2>2, <2>3, <2>4, <3>2 DEF Before
      <4> QED BY <1>2, <1>4, <2>2, <4>1 DEF Pos
    <3> QED BY <1>7, <3>1, <3>2
  <2>5. Windows'
    BY <1>6, <2>1, <2>2, <2>4 DEF Windows, Before, Pending, Early
  <2>6. ASSUME NEW i \in Finals', NEW j \in Finals', i < j
        PROVE  /\ sent'[i].seq < sent'[j].seq
               /\ \E f \in sent'[j].frames : \A g \in sent'[i].frames : g < f
               /\ Cardinality(sent'[i].frames \cap sent'[j].frames) <= TailFrames
    <3>1. i \in Finals
      BY <1>7, <1>8, <2>6
    <3>2. CASE j \in Finals
      BY <1>1, <1>6, <1>8, <1>12, <2>6, <3>1, <3>2 DEF Told, WindowsAdvance, Finals
    <3>3. CASE j = n
      <4>1. sent'[i].seq < sent'[j].seq
        BY <1>7, <1>8, <2>2, <3>1, <3>3
      <4>2. \E f \in sent'[j].frames : \A g \in sent'[i].frames : g < f
        <5>1. c.audio[Len(c.audio)] \in sent'[j].frames /\ c.audio[Len(c.audio)] \in Pos
          BY <1>7, <1>10, <3>3 DEF Range
        <5>2. ASSUME NEW g \in sent'[i].frames PROVE g < c.audio[Len(c.audio)]
          <6>1. g <= finalized /\ g \in Pos
            BY <1>8, <2>2, <2>3, <3>1, <5>2 DEF Before
          <6> QED BY <1>2, <2>2, <5>1, <6>1 DEF Pos
        <5> QED BY <5>1, <5>2
      <4>3. Cardinality(sent'[i].frames \cap sent'[j].frames) <= TailFrames
        <5>1. \A k \in DOMAIN c.audio : k > TailFrames => c.audio[k] \notin sent[i].frames
          BY <2>2, <3>1 DEF OnlyTailOf
        <5>2. Cardinality(sent[i].frames \cap Range(c.audio)) <= TailFrames
          BY <1>4, <5>1, OverlapBound
        <5> QED BY <1>7, <1>8, <3>1, <3>3, <5>2
      <4> QED BY <4>1, <4>2, <4>3
    <3> QED BY <1>7, <3>2, <3>3
  <2> QED BY <2>5, <2>6 DEF WindowsAdvance, Finals
<1>13. NoStalePartial'
  <2>1. ASSUME NEW i \in Finals', NEW j \in Positions("partial")', i < j
        PROVE  sent'[i].seq < sent'[j].seq
    <3>1. i \in Finals /\ j \in Positions("partial")
      BY <1>7, <1>8, <1>9, <2>1
    <3> QED BY <1>1, <1>8, <1>9, <2>1, <3>1 DEF Told, NoStalePartial, Finals
  <2> QED BY <2>1 DEF NoStalePartial, Finals
<1>14. outlived' => WindowsAdvance'
  BY DEF WindowsAdvance
<1> QED BY <1>11, <1>12, <1>13, <1>14 DEF Told

LEMMA ToldPublish ==
  ASSUME IInv, TermPublish
  PROVE  Told'
<1>1. Typed /\ ControlOK /\ Told
  BY DEF IInv
<1>2. /\ UNCHANGED <<segIndex, finalized, buffer, commit, loop, draftTask, outlived>>
      /\ term = "publish" /\ term' = "drain" /\ GoesOn
  BY DEF TermPublish, audioVars, draftVars, GoesOn, Committed
<1>3. CASE UNCHANGED sent
  BY <1>1, <1>2, <1>3, ToldSame
<1>4. CASE commit["terminal"].pc = "ready" /\ Send(Final(commit["terminal"]))
  <2>1. PICK c \in CommitShapes : c = commit["terminal"]
    BY <1>1 DEF Typed, Actors
  <2> DEFINE n == Len(sent) + 1
  <2>2. /\ sent'[n].seq = c.seq /\ sent'[n].frames = Range(c.audio) /\ n \in Nat /\ Finals' = Finals \cup {n}
        /\ Positions("partial")' = Positions("partial")
        /\ Finals \subseteq 1..Len(sent) /\ Positions("partial") \subseteq 1..Len(sent)
        /\ \A i \in 1..Len(sent) : sent'[i] = sent[i] /\ i < n /\ i \in Nat
    BY <1>1, <1>4, <2>1, FinalAdded
  <2> HIDE DEF n
  <2>3. c.seq \in Nat /\ segIndex \in Nat /\ c.seq < segIndex
    BY <1>1, <1>4, <2>1 DEF Told, SeqOK, Typed, CommitShapes
  <2>4. SeqOK'
    <3>1. \A i \in Finals : sent'[i] = sent[i]
      BY <2>2
    <3>2. \A i \in Finals' : sent'[i].seq <= segIndex'
      BY <1>1, <1>2, <2>2, <2>3, <3>1 DEF Told, SeqOK
    <3>3. loop' \in Quiet \/ draftTask' => \A i \in Finals' : sent'[i].seq < segIndex'
      BY <1>1, <1>2, <2>2, <2>3, <3>1 DEF Told, SeqOK
    <3> QED BY <1>1, <1>2, <3>2, <3>3 DEF Told, SeqOK
  <2>5. ASSUME NEW i \in Finals', NEW j \in Positions("partial")', i < j
        PROVE  sent'[i].seq < sent'[j].seq
    <3>1. i \in Finals /\ j \in Positions("partial")
      BY <2>2, <2>5
    <3> QED BY <1>1, <2>2, <2>5, <3>1 DEF Told, NoStalePartial, Finals
  <2>6. NoStalePartial'
    BY <2>5 DEF NoStalePartial, Finals
  <2>7. ASSUME ~outlived', NEW i \in Finals', NEW j \in Finals', i < j
        PROVE  /\ sent'[i].seq < sent'[j].seq
               /\ \E f \in sent'[j].frames : \A g \in sent'[i].frames : g < f
               /\ Cardinality(sent'[i].frames \cap sent'[j].frames) <= TailFrames
    <3>0. \A k \in Finals : k \in Nat /\ k < n /\ sent'[k] = sent[k]
      BY <2>2
    <3>1. i \in Finals
      BY <2>2, <2>7, <3>0
    <3>2. CASE j \in Finals
      BY <1>1, <1>2, <2>7, <3>0, <3>1, <3>2 DEF Told, WindowsAdvance, Finals
    <3>3. CASE j = n
      <4>1. Fresh(c) /\ c.audio \in Seq(Pos)
        BY <1>1, <1>2, <1>4, <2>1, <2>7 DEF Told, Windows, CommitShapes
      <4>2. sent'[i].seq < sent'[j].seq
        BY <2>2, <3>0, <3>1, <3>3, <4>1 DEF Fresh
      <4>3. \E f \in sent'[j].frames : \A g \in sent'[i].frames : g < f
        <5>1. Len(c.audio) \in DOMAIN c.audio
          BY <4>1, LenProperties, EmptySeq DEF Fresh
        <5>2. c.audio[Len(c.audio)] \in sent'[j].frames
          BY <2>2, <3>3, <5>1 DEF Range
        <5>3. \A g \in sent'[i].frames : g < c.audio[Len(c.audio)]
          BY <3>0, <3>1, <4>1 DEF Fresh
        <5> QED BY <5>2, <5>3
      <4>4. Cardinality(sent'[i].frames \cap sent'[j].frames) <= TailFrames
        <5>1. \A k \in DOMAIN c.audio : k > TailFrames => c.audio[k] \notin sent[i].frames
          BY <3>1, <4>1 DEF Fresh, OnlyTailOf
        <5>2. Cardinality(sent[i].frames \cap Range(c.audio)) <= TailFrames
          BY <4>1, <5>1, OverlapBound
        <5> QED BY <2>2, <3>0, <3>1, <3>3, <5>2
      <4> QED BY <4>2, <4>3, <4>4
    <3> QED BY <2>2, <3>2, <3>3
  <2>8. WindowsAdvance'
    BY <2>7 DEF WindowsAdvance, Finals
  <2>9. ASSUME ~outlived' PROVE Windows'
    <3>1. commit'["loop"].pc = "none"
      BY <1>1, <1>2, <2>9, LoopIsOver DEF Early
    <3> QED BY <1>2, <3>1 DEF Windows, Pending, Committed
  <2> QED BY <2>4, <2>6, <2>8, <2>9 DEF Told
<1> QED BY <1>3, <1>4 DEF TermPublish

LEMMA ToldNext ==
  ASSUME IInv, [Next]_vars
  PROVE  Told'
<1>1. Typed /\ ControlOK /\ DraftOK /\ Told
  BY DEF IInv
<1>2. /\ commit \in [Actors -> CommitShapes] /\ "loop" \in Actors /\ "terminal" \in Actors
      /\ segIndex \in Nat
  BY <1>1 DEF Typed, Actors
<1> USE DEF audioVars, draftVars
<1>3. ASSUME UNCHANGED <<sent, segIndex, finalized, buffer, commit>>,
             GoesOn, loop' \in Quiet \/ draftTask' => loop \in Quiet \/ draftTask
      PROVE  Told'
  BY <1>1, <1>3, ToldSame
<1>4. CASE Receive BY <1>4, ToldReceive
<1>5. CASE Decide /\ draftTask
  <2>1. PICK reason \in {"forced", "silence"} : commit' = [commit EXCEPT !["loop"].reason = reason]
    BY <1>5 DEF Decide
  <2>2. /\ \A f \in {"pc", "audio", "seq", "end"} : commit'["loop"][f] = commit["loop"][f]
        /\ commit'["terminal"] = commit["terminal"]
    BY <1>2, <2>1 DEF CommitShapes
  <2>3. /\ commit'["loop"].pc = commit["loop"].pc /\ commit'["loop"].audio = commit["loop"].audio
        /\ commit'["loop"].seq = commit["loop"].seq /\ commit'["loop"].end = commit["loop"].end
    BY <2>2
  <2>4. /\ UNCHANGED <<sent, segIndex, finalized, buffer>> /\ loop = "tick"
        /\ GoesOn /\ loop \in Quiet
    BY <1>5 DEF Decide, GoesOn, Quiet
  <2> QED BY <1>1, <2>2, <2>3, <2>4, ToldSame DEF Actors
<1>6. CASE Beginning BY <1>6, ToldBegin DEF Beginning
<1>7. CASE Decide \/ AfterReap \/ TermCommit
  BY <1>1, <1>5, <1>6, <1>7, BeginnersBegin
<1>8. CASE EmitFinal
  <2>1. CASE /\ Send(Final(commit["loop"])) /\ commit' = [commit EXCEPT !["loop"].pc = "sent"]
             /\ UNCHANGED <<loop, phase, term, main>>
    BY <1>8, <2>1, ToldEmit
  <2>2. CASE /\ commit' = [commit EXCEPT !["loop"] = NoCommit] /\ Raise("loop") /\ UNCHANGED sent
    <3>1. /\ UNCHANGED <<segIndex, finalized, buffer, draftTask>> /\ loop' = "failed"
          /\ GoesOn /\ loop' \notin Quiet
      BY <1>8, <2>2 DEF EmitFinal, Raise, GoesOn, Quiet
    <3>2. /\ commit'["loop"].pc = "none" /\ commit'["terminal"] = commit["terminal"]
          /\ commit["loop"].pc = "send"
      BY <1>2, <1>8, <2>2 DEF EmitFinal, NoCommit
    <3> QED BY <1>1, <2>2, <3>1, <3>2, ToldSame DEF Actors
  <2> QED BY <1>8, <2>1, <2>2 DEF EmitFinal
<1>9. CASE Advanced BY <1>9, ToldAdvanced
<1>10. CASE \E a \in Actors : Decoded(a) BY <1>10, ToldDecoded
<1>11. CASE TermPublish BY <1>11, ToldPublish
<1>12. CASE DraftSends
  <2>1. /\ UNCHANGED <<segIndex, finalized, buffer, commit, loop, draftTask>>
        /\ draft.pc = "send" /\ GoesOn
    BY <1>12 DEF DraftSends, GoesOn
  <2>2. CASE UNCHANGED sent BY <1>3, <2>1, <2>2
  <2>3. CASE Send(Event("partial", draft.seq))
    <3>1. draft.seq = segIndex /\ draftTask
      BY <1>1, <2>1 DEF DraftOK
    <3>2. PICK e \in EventShapes : e = Event("partial", segIndex)
      BY <1>1, <1>2, EventsAreTyped
    <3>3. Send(e) /\ e.type = "partial" /\ e.seq = segIndex
      BY <2>3, <3>1, <3>2 DEF Event
    <3>4. \A i \in Finals : sent[i].seq < e.seq
      BY <1>1, <3>1, <3>3 DEF Told, SeqOK
    <3> QED BY <1>1, <2>1, <3>3, <3>4, ToldEvent
  <2> QED BY <1>12, <2>2, <2>3 DEF DraftSends
<1>13. CASE TermAck \/ TermDrain
  <2>1. UNCHANGED <<segIndex, finalized, buffer, commit, loop, draftTask>> /\ GoesOn
    BY <1>13 DEF TermAck, TermDrain, GoesOn, Committed
  <2>2. PICK type \in {"eof_ack", "drained"} : Send(Event(type, segIndex))
    BY <1>13 DEF TermAck, TermDrain
  <2>3. PICK e \in EventShapes : e = Event(type, segIndex)
    BY <1>1, <1>2, EventsAreTyped
  <2>4. Send(e) /\ e.type # "final" /\ e.type # "partial"
    BY <2>2, <2>3 DEF Event
  <2> QED BY <1>1, <2>1, <2>4, ToldEvent
<1>14. CASE \/ Abort \/ LoopFailed \/ CooldownEnds \/ DraftBegins \/ DraftDecoded \/ DraftDies
  BY <1>3, <1>14 DEF Abort, LoopFailed, CooldownEnds, DraftBegins, DraftDecoded, DraftDies, GoesOn
<1>17. CASE Eof
  <2>1. term = "none"
    BY <1>1, <1>17 DEF Eof, ControlOK
  <2> QED BY <1>3, <1>17, <2>1 DEF Eof, GoesOn, Committed
<1>18. CASE Stop \/ ReapDraft \/ StartDraft
  <2>1. loop \in Quiet
    BY <1>18 DEF Stop, ReapDraft, StartDraft, Quiet
  <2> QED BY <1>3, <1>18, <2>1 DEF Stop, ReapDraft, StartDraft, GoesOn
<1>15. CASE TermStop \/ TermReap \/ TermJoin \/ TermClose
  BY <1>3, <1>15 DEF TermStop, TermReap, TermJoin, TermClose, JoinLoop, GoesOn, Quiet, Committed
<1>16. CASE UNCHANGED vars BY <1>3, <1>16 DEF vars, GoesOn
<1> QED BY <1>4, <1>7, <1>8, <1>9, <1>10, <1>11, <1>12, <1>13, <1>14, <1>15, <1>16, <1>17, <1>18
        DEF Next, LoopSteps, DraftSteps, TermSteps

-----------------------------------------------------------------------------
(* The theorems. *)

LEMMA InitIsIInv == Init => IInv
<1> SUFFICES ASSUME Init PROVE IInv
  OBVIOUS
<1>1. /\ main = "open" /\ heard = <<>> /\ buffer = <<>> /\ bufferStart = 0 /\ segIndex = 0
      /\ finalized = 0 /\ loop = "tick" /\ term = "none" /\ sent = <<>> /\ decoded = {}
      /\ commit = [a \in Actors |-> NoCommit] /\ draft = NoDraft
      /\ ~draftTask
  BY DEF Init
<1>2. /\ Total = 0 /\ Len(buffer) = 0 /\ DOMAIN buffer = {} /\ Speech = {} /\ DOMAIN heard = {}
      /\ \A type : Positions(type) = {}
  BY <1>1, EmptySeq DEF Total, Speech, Positions
<1>3. NoCommit \in CommitShapes
  BY CommitShapesKept
<1>4. commit \in [Actors -> CommitShapes] /\ \A a \in Actors : commit[a] = NoCommit
  BY <1>1, <1>3
<1>5. commit["loop"].pc = "none" /\ commit["terminal"].pc = "none"
  BY <1>4 DEF NoCommit, Actors
<1>6. Typed
  <2>1. NoDraft \in DraftShapes
    BY DEF NoDraft, DraftShapes, DraftPcs
  <2>2. heard \in Seq({"speech", "silence"}) /\ buffer \in Seq(Pos) /\ sent \in Seq(EventShapes)
    BY <1>1, EmptySeq
  <2>3. /\ speechSeen = FALSE /\ phase = "idle" /\ failures = 0 /\ circuit = FALSE
        /\ drafts = 0 /\ faults = 0 /\ draftTask = FALSE /\ outlived = FALSE
    BY DEF Init
  <2>4. /\ speechSeen \in BOOLEAN /\ circuit \in BOOLEAN /\ draftTask \in BOOLEAN
        /\ outlived \in BOOLEAN
    BY <2>3
  <2> QED BY <1>1, <1>4, <2>1, <2>2, <2>3, <2>4 DEF Typed
<1>7. BufferOK
  <2>1. Placed(buffer, Total) /\ LaterThan(finalized)
    BY <1>2 DEF Placed, LaterThan
  <2>2. /\ \A i \in Speech \ decoded : \E j \in DOMAIN buffer : buffer[j] = i
        /\ \A i \in Speech : i <= finalized => i \in decoded
    BY <1>2
  <2>3. bufferStart = Total - Len(buffer) /\ finalized <= Total
    <3>1. bufferStart = 0 /\ finalized = 0
      BY <1>1
    <3>2. Total = 0 /\ Len(buffer) = 0
      BY <1>2
    <3> QED BY <3>1, <3>2, SMT
  <2> QED BY <2>1, <2>2, <2>3 DEF BufferOK
<1>8. ControlOK /\ PendingOK
  BY <1>1, <1>5 DEF ControlOK, PendingOK, Pending, Actors, Early
<1>9. Complete /\ DraftOK
  BY <1>1, <1>2 DEF Complete, DraftOK, NoDraft
<1>10. Told
  BY <1>1, <1>2, <1>5
     DEF Told, SeqOK, Windows, NoStalePartial, WindowsAdvance, Finals, Before, Pending, Actors
<1> QED BY <1>6, <1>7, <1>8, <1>9, <1>10 DEF IInv

LEMMA NextIsIInv == IInv /\ [Next]_vars => IInv'
BY TypedNext, FramesNext, ControlNext, CompleteNext, DraftNext, ToldNext DEF IInv

LEMMA IInvIsTypeOK == IInv => TypeOK
<1> SUFFICES ASSUME IInv PROVE TypeOK
  OBVIOUS
<1>1. Typed /\ BufferOK
  BY DEF IInv
<1>2. /\ Total \in Nat /\ Len(buffer) \in Nat /\ DOMAIN buffer = 1..Len(buffer)
      /\ \A j \in DOMAIN buffer : buffer[j] \in Pos
  BY <1>1, TotalIsNat
<1>3. buffer \in Seq(1..Total)
  <2>1. ASSUME NEW j \in 1..Len(buffer) PROVE buffer[j] \in 1..Total
    <3>1. buffer[j] \in Pos /\ buffer[j] + Len(buffer) <= Total + j
      BY <1>1, <1>2 DEF BufferOK, Placed
    <3> QED BY <1>2, <3>1 DEF Pos
  <2>2. buffer \in Seq(Pos)
    BY <1>1 DEF Typed
  <2>3. buffer \in [1..Len(buffer) -> 1..Total]
    BY <2>1, <2>2, LenProperties
  <2> QED BY <1>2, <2>3, SeqDef
<1>4. \A a \in Actors : commit[a].pc \in {"none", "decode", "send", "sent", "ready"}
  BY <1>1 DEF Typed, CommitShapes
<1>5. draft.pc \in DraftPcs
  BY <1>1 DEF Typed, DraftShapes
<1> QED BY <1>1, <1>3, <1>4, <1>5 DEF Typed, TypeOK, DraftPcs

\* A client that is told that its stream is drained has lost no speech: every
\* frame of it was in a segment considered for a final, those skipped as too short
\* or too quiet included, however many frames came in during slow decodes, whichever segments were forced and wherever a draft was cancelled
\* (commit_current and advance_segment in stream.py, drained by terminal_pipeline).
THEOREM StreamIsComplete == Spec => []DrainedIsComplete
<1>1. IInv => DrainedIsComplete
  BY DEF IInv, Complete, DrainedIsComplete, Speech
<1> QED BY <1>1, InitIsIInv, NextIsIInv, PTL DEF Spec

\* What the client is told is in order: no draft speaks about a segment whose
\* final is out (finish_draft_task before a commit), and every final, the one of
\* the terminal pipeline included, has a higher number and newer audio than those
\* before it, of which it repeats at most the tail that advance_segment keeps;
\* except in a stream whose loop swallowed its cancellation at EOF, the only case.
THEOREM StreamIsSound == Spec => []StreamSound
<1>1. IInv => StreamSound
  BY IInvIsTypeOK DEF IInv, Told, StreamSound
<1> QED BY <1>1, InitIsIInv, NextIsIInv, PTL DEF Spec

=============================================================================
