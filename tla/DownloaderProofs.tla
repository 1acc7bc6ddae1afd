-------------------------- MODULE DownloaderProofs --------------------------
(***************************************************************************)
(* The chunks of a download tile its range, and the consumer gets its      *)
(* bytes in order.                                                         *)
(*                                                                         *)
(* First comes the plan: where each chunk starts, counted from the end of  *)
(* the range, where all chunks are whole parts.  Then how the chunks that  *)
(* are sent, the queue, the jobs of the workers, the ring of buffers and   *)
(* the reader fit together, DInv, with the arithmetic it rests on, one     *)
(* lemma per step, and the theorems.                                       *)
(***************************************************************************)
EXTENDS Downloader, TLAPS


TooSmall == 0 < Length % PartSize /\ Length % PartSize < PartSize \div 2

(* Where chunk k starts.                                                   *)
Offset(k) ==
    IF k = 0 THEN 0
    ELSE IF k = 1 /\ TooSmall THEN PartSize \div 2
    ELSE Length - (maxPart - k) * PartSize

Plan == next \in 0..maxPart /\ pos = Offset(next)

(* Division with remainder, as the sizes and the number of chunks use it.  *)
LEMMA Division ==
    \E q \in Nat \ {0} :
       /\ Length = q * PartSize + (Length % PartSize)
       /\ Length % PartSize \in 0..(PartSize - 1)
       /\ maxPart = IF Length % PartSize = 0 THEN q ELSE q + 1
       /\ PartSize \div 2 \in Nat /\ PartSize \div 2 <= PartSize
       /\ 2 * (PartSize \div 2) <= PartSize
<1> DEFINE q == Length \div PartSize
           r == Length % PartSize
<1>1. /\ Length \in Nat /\ PartSize \in Nat \ {0} /\ Length > PartSize
  BY DownloaderAssumption, Zenon
<1>2. q \in Int /\ r \in 0..(PartSize - 1) /\ Length = PartSize * q + r
  BY <1>1
<1>3. q \in Nat \ {0}
  BY <1>1, <1>2
<1>4. maxPart = IF r = 0 THEN q ELSE q + 1
  <2>1. CASE r = 0
    <3>1. Length + PartSize - 1 = PartSize * q + (PartSize - 1)
      BY <1>1, <1>2, <2>1
    <3> QED  BY <1>1, <1>2, <2>1, <3>1 DEF maxPart
  <2>2. CASE r # 0
    <3>1. Length + PartSize - 1 = PartSize * (q + 1) + (r - 1)
      BY <1>1, <1>2, <2>2
    <3>2. r - 1 \in 0..(PartSize - 1)
      BY <1>1, <1>2, <2>2
    <3> QED  BY <1>1, <1>2, <2>2, <3>1, <3>2 DEF maxPart
  <2> QED  BY <2>1, <2>2
<1>5. /\ PartSize \div 2 \in Nat /\ PartSize \div 2 <= PartSize
      /\ 2 * (PartSize \div 2) <= PartSize
  BY <1>1
<1>6. Length = q * PartSize + r
  BY <1>1, <1>2
<1> HIDE DEF q
<1> QED  BY <1>2, <1>3, <1>4, <1>5, <1>6

(* Every chunk has at least one byte and at most a part, so Buf.Reset      *)
(* never refuses its size.                                                 *)
LEMMA SizeFits == \A i \in Nat : ChunkSize(i) \in 1..PartSize
<1> SUFFICES ASSUME NEW i \in Nat PROVE ChunkSize(i) \in 1..PartSize
  BY Zenon
<1>1. PartSize \in Nat \ {0}
  BY DownloaderAssumption, Zenon
<1>2. /\ Length % PartSize \in 0..(PartSize - 1)
      /\ PartSize \div 2 \in Nat /\ PartSize \div 2 <= PartSize
  BY Division, Zenon
<1> QED  BY <1>1, <1>2 DEF ChunkSize

(* Chunk k ends where chunk k + 1 starts, and only the last one ends where *)
(* the range does.                                                         *)
LEMMA Tiling ==
    ASSUME NEW k \in 0..maxPart
    PROVE  /\ Offset(k) = Length <=> k = maxPart
           /\ Offset(k) \in 0..Length
           /\ k < maxPart => Offset(k + 1) = Offset(k) + ChunkSize(k)
<1> DEFINE r == Length % PartSize
           h == PartSize \div 2
<1>1. PICK q \in Nat \ {0} :
         /\ Length = q * PartSize + r
         /\ r \in 0..(PartSize - 1)
         /\ maxPart = IF r = 0 THEN q ELSE q + 1
         /\ h \in Nat /\ h <= PartSize /\ 2 * h <= PartSize
  BY Division, Zenon
<1>2. PartSize \in Nat \ {0} /\ Length \in Nat /\ Length > PartSize
  BY DownloaderAssumption, Zenon
<1>3. maxPart \in Nat /\ maxPart >= 2 /\ k \in Nat
  BY <1>1, <1>2
<1> DEFINE left == maxPart - k
<1>4. left \in Nat /\ left * PartSize \in Nat /\ (left = 0 <=> k = maxPart)
      /\ (left > 0 => left * PartSize = (left - 1) * PartSize + PartSize)
      /\ (left > 0 => left * PartSize >= PartSize)
  BY <1>2, <1>3
<1>5. maxPart * PartSize = IF r = 0 THEN Length ELSE Length - r + PartSize
  BY <1>1, <1>2, <1>3
<1>6. k >= 1 => left * PartSize = maxPart * PartSize - k * PartSize
                /\ k * PartSize >= PartSize
  BY <1>2, <1>3
<1>7. k = 1 => left * PartSize = maxPart * PartSize - PartSize
  BY <1>6, <1>2, <1>3
<1>8. k >= 1 => left * PartSize <= Length
  BY <1>1, <1>2, <1>3, <1>4, <1>5, <1>6
<1> HIDE DEF left
<1>9. /\ Offset(k) = Length <=> k = maxPart
      /\ Offset(k) \in 0..Length
  BY <1>1, <1>2, <1>3, <1>4, <1>8 DEF Offset, TooSmall, left
<1>10. ASSUME k < maxPart PROVE Offset(k + 1) = Offset(k) + ChunkSize(k)
  <2>1. CASE k = 0
    <3>1. (maxPart - 1) * PartSize = maxPart * PartSize - PartSize
      BY <1>2, <1>3
    <3> QED  BY <1>1, <1>2, <1>3, <1>5, <2>1, <3>1 DEF Offset, TooSmall, ChunkSize
  <2>2. CASE k = 1
    <3>1. (maxPart - 2) * PartSize = maxPart * PartSize - 2 * PartSize
      BY <1>2, <1>3
    <3>2. (maxPart - 1) * PartSize = maxPart * PartSize - PartSize
      BY <1>2, <1>3
    <3> QED  BY <1>1, <1>2, <1>3, <1>5, <2>2, <3>1, <3>2 DEF Offset, TooSmall, ChunkSize
  <2>3. CASE k > 1
    <3>1. (maxPart - (k + 1)) * PartSize = (maxPart - k) * PartSize - PartSize
      BY <1>2, <1>3
    <3>2. ChunkSize(k) = PartSize
      BY <1>3, <2>3 DEF ChunkSize
    <3>3. (maxPart - k) * PartSize \in Int
      BY <1>2, <1>3
    <3> QED  BY <1>2, <1>3, <2>3, <3>1, <3>2, <3>3 DEF Offset
  <2> QED  BY <1>3, <2>1, <2>2, <2>3
<1> QED  BY <1>9, <1>10

(* sendChunkTask plans the next chunk, or none.                            *)
LEMMA SendPlan ==
    ASSUME NEW new, NEW pcs, Plan, sendChunkTask(new, pcs)
    PROVE  Plan'
<1>1. CASE UNCHANGED <<next, pos>>
  BY <1>1, Zenon DEF Plan, Offset, TooSmall, maxPart
<1>2. CASE pos < Length /\ pos' = pos + ChunkSize(next) /\ next' = next + 1
  <2>1. /\ (Offset(next) = Length <=> next = maxPart)
        /\ (next < maxPart => Offset(next + 1) = Offset(next) + ChunkSize(next))
    BY Tiling, Zenon DEF Plan
  <2>2. next < maxPart /\ maxPart \in Nat
    <3>1. maxPart \in Nat
      BY Division
    <3> QED  BY <1>2, <2>1, <3>1, DownloaderAssumption DEF Plan
  <2> QED  BY <1>2, <2>1, <2>2 DEF Plan, Offset, TooSmall, maxPart
<1> QED  BY <1>1, <1>2 DEF sendChunkTask, counters

-----------------------------------------------------------------------------
(* The reader gets the bytes in order.  The invariant follows a chunk from *)
(* the queue through the worker that has it into its ring buffer.          *)

Chunk == [id : Nat, start : Nat, size : Nat, buf : Nat, new : BOOLEAN]
Whys  == {"none", "retry", "error", "overload"} \union Answers
Job   == [ch : Chunk, n : Nat, retry : Nat, why : Whys]
Buf   == [size : Nat, data : Seq(Nat), offR : Nat, pending : BOOLEAN, signal : BOOLEAN]

Types ==
    /\ conc \in Int /\ conc <= Conns /\ rPos \in Nat /\ cur \in Nat
    /\ bufs \in Seq(Buf) /\ queue \in Seq(Chunk) /\ out \in Seq(Nat)
    /\ job \in [Workers -> Job] /\ DOMAIN wpc = Workers

Active(w) == wpc[w] \in {"try", "body", "copy", "judge", "over"}

(* The first chunk of the ring the reader is not done with.                *)
Lo == IF rpc = "switch" THEN rPos + 1 ELSE rPos

(* The chunks from Lo on have a buffer each: while connections can be      *)
(* added every chunk gets its own, afterwards the ring is full.            *)
Ring ==
    /\ rpc = "start" =>
         /\ next = 0 /\ bufs = << >> /\ queue = << >> /\ rPos = 0 /\ cur = 1 /\ out = << >>
         /\ \A w \in Workers : wpc[w] = "new"
    /\ rpc # "start" => Len(bufs) >= 1 /\ Lo < next
    /\ conc > 0 => next <= Len(bufs) /\ (next < maxPart => Len(bufs) = next)
    /\ next <= Lo + Len(bufs)

(* The buffer of a chunk holds a prefix of the chunk.                      *)
Holds(b, k) ==
    /\ b.size = ChunkSize(k) /\ Len(b.data) <= ChunkSize(k)
    /\ \A i \in 1..Len(b.data) : b.data[i] = Offset(k) + i - 1

BufsHold == \A k \in Lo..(next - 1) : Holds(bufs[getBuf(k)], k)

(* A chunk of which n bytes have been copied continues its buffer.         *)
Continues(ch, n) ==
    /\ ch.buf = getBuf(ch.id)
    /\ ch.start + n = Offset(ch.id) + Len(bufs[ch.buf].data)
    /\ ch.start + ch.size = Offset(ch.id) + ChunkSize(ch.id)

QueueFits ==
    \A i \in 1..Len(queue) : /\ queue[i].id \in Lo..(next - 1) /\ queue[i].size > 0
                             /\ Continues(queue[i], 0)

(* How far a worker is with its chunk.                                     *)
Progress(pc, j) ==
    /\ j.n <= j.ch.size /\ (pc # "copy" => j.n < j.ch.size)
    /\ pc \in {"try", "body", "over"} \/ (pc = "judge" /\ j.why = "overload") => j.n = 0

(* A job that fetches the same bytes as another from here on.              *)
Alike(j, k) ==
    /\ j.ch.id = k.ch.id /\ j.ch.buf = k.ch.buf /\ j.ch.start + j.n = k.ch.start + k.n
    /\ j.ch.start + j.ch.size = k.ch.start + k.ch.size
    /\ k.n = k.ch.size => j.n = j.ch.size

(* A chunk the reader is done with has been copied to the end.             *)
JobsFit ==
    \A w \in Workers : Active(w) =>
        LET j == job[w] IN
        /\ Progress(wpc[w], j) /\ j.ch.id < next
        /\ IF j.ch.id < Lo THEN j.n = j.ch.size ELSE Continues(j.ch, j.n)

(* No chunk is in two places.                                              *)
OnePlace ==
    /\ \A i, j \in 1..Len(queue) : i # j => queue[i].id # queue[j].id
    /\ \A w \in Workers, i \in 1..Len(queue) : Active(w) => job[w].ch.id # queue[i].id
    /\ \A v, w \in Workers : v # w /\ Active(v) /\ Active(w) => job[v].ch.id # job[w].ch.id

(* Where the reader is, and that it has read of no later chunk.            *)
Reading ==
    /\ rpc \notin {"start", "switch"} =>
         /\ cur = getBuf(rPos)
         /\ bufs[cur].offR <= Len(bufs[cur].data)
         /\ Len(out) = Offset(rPos) + bufs[cur].offR
    /\ rpc = "finish" => bufs[cur].offR >= bufs[cur].size
    /\ rpc = "switch" => Len(out) = Offset(rPos + 1)
    /\ \A k \in Lo..(next - 1) : k # rPos => bufs[getBuf(k)].offR = 0
    /\ InOrder

Flow == Plan /\ Ring /\ BufsHold /\ QueueFits /\ JobsFit /\ OnePlace

DInv == Types /\ Flow /\ Reading

(* Numbers that are less than n apart have different remainders.           *)
LEMMA Remainders ==
    ASSUME NEW n \in Nat \ {0}, NEW a \in Nat
    PROVE  /\ a % n \in 0..(n - 1)
           /\ a < n => a % n = a
           /\ \A b \in Nat : a < b /\ b < a + n => a % n # b % n
<1>1. a % n \in 0..(n - 1) /\ a = n * (a \div n) + (a % n) /\ a \div n \in Int
  OBVIOUS
<1>2. a < n => a % n = a
  OBVIOUS
<1>3. ASSUME NEW b \in Nat, a < b, b < a + n, a % n = b % n PROVE FALSE
  <2>1. b = n * (b \div n) + (b % n) /\ b \div n \in Int
    OBVIOUS
  <2>2. PICK p, q \in Int : p = a \div n /\ q = b \div n
    BY <1>1, <2>1, Zenon
  <2>3. n * q - n * p = b - a
    BY <1>1, <1>3, <2>1, <2>2
  <2>4. n * (q - p) = b - a
    BY <2>2, <2>3
  <2>5. q - p >= 1
    BY <1>3, <2>2, <2>4
  <2>6. n * (q - p) >= n
    BY <2>2, <2>5
  <2> QED  BY <1>3, <2>4, <2>6
<1> QED  BY <1>1, <1>2, <1>3

(* Where the chunks start and how long they are.                           *)
LEMMA Sizes ==
    /\ maxPart \in Nat /\ maxPart >= 2 /\ Length \in Nat
    /\ Offset(0) = 0 /\ Offset(maxPart) = Length
    /\ \A k \in 0..maxPart : Offset(k) \in Nat /\ (Offset(k) = Length <=> k = maxPart)
    /\ \A k \in Nat : ChunkSize(k) \in Nat \ {0}
    /\ \A k \in Nat : k < maxPart => Offset(k + 1) = Offset(k) + ChunkSize(k)
<1>1. maxPart \in Nat /\ maxPart >= 2 /\ Length \in Nat
  BY Division, DownloaderAssumption
<1>2. \A k \in 0..maxPart :
         /\ Offset(k) \in Nat /\ (Offset(k) = Length <=> k = maxPart)
         /\ k < maxPart => Offset(k + 1) = Offset(k) + ChunkSize(k)
  BY <1>1, Tiling
<1>3. \A k \in Nat : ChunkSize(k) \in Nat \ {0}
  BY SizeFits, DownloaderAssumption
<1>4. Offset(0) = 0
  BY Zenon DEF Offset
<1>5. \A k \in Nat : k < maxPart => Offset(k + 1) = Offset(k) + ChunkSize(k)
  <2> SUFFICES ASSUME NEW k \in Nat, k < maxPart
               PROVE  Offset(k + 1) = Offset(k) + ChunkSize(k)
    BY Zenon
  <2>1. k \in 0..maxPart
    BY <1>1
  <2> QED  BY <1>2, <2>1
<1>6. maxPart \in 0..maxPart
  BY <1>1
<1>7. Offset(maxPart) = Length
  BY <1>2, <1>6, Zenon
<1>8. \A k \in 0..maxPart : Offset(k) \in Nat /\ (Offset(k) = Length <=> k = maxPart)
  BY <1>2, Zenon
<1> QED  BY <1>1, <1>3, <1>4, <1>5, <1>7, <1>8, Zenon

(* Typing facts about the parts of sequences.                              *)
LEMMA Elements ==
    ASSUME Types
    PROVE  /\ \A i \in 1..Len(queue) : queue[i] \in Chunk /\ queue[i].id \in Nat
           /\ \A i \in 1..Len(bufs) : /\ bufs[i] \in Buf /\ bufs[i].offR \in Nat
                                      /\ bufs[i].data \in Seq(Nat) /\ Len(bufs[i].data) \in Nat
           /\ \A w \in Workers : job[w] \in Job /\ job[w].ch \in Chunk /\ job[w].ch.id \in Nat
           /\ Len(queue) \in Nat /\ Len(bufs) \in Nat /\ Len(out) \in Nat
<1>1. \A S : \A s \in Seq(S) : Len(s) \in Nat /\ \A i \in 1..Len(s) : s[i] \in S
  OBVIOUS
<1>2. /\ \A i \in 1..Len(queue) : queue[i] \in Chunk
      /\ \A i \in 1..Len(bufs) : bufs[i] \in Buf
      /\ \A w \in Workers : job[w] \in Job
      /\ Len(queue) \in Nat /\ Len(bufs) \in Nat /\ Len(out) \in Nat
  BY <1>1, Zenon DEF Types
<1>3. \A c \in Chunk : c.id \in Nat
  BY Zenon DEF Chunk
<1>4. \A b \in Buf : b.offR \in Nat /\ b.data \in Seq(Nat)
  BY Zenon DEF Buf
<1>5. \A j \in Job : j.ch \in Chunk
  BY Zenon DEF Job
<1> QED  BY <1>1, <1>2, <1>3, <1>4, <1>5, Zenon

(* The chunks from Lo on have buffers of their own.                        *)
LEMMA RingFacts ==
    ASSUME DInv, rpc # "start"
    PROVE  /\ next \in 0..maxPart /\ Lo \in Nat /\ Lo < next /\ Len(bufs) \in Nat \ {0}
           /\ \A k \in Nat : getBuf(k) \in 1..Len(bufs)
           /\ \A j, k \in Lo..(next - 1) : j # k => getBuf(j) # getBuf(k)
<1>1. /\ next \in 0..maxPart /\ Lo \in Nat /\ Lo < next /\ Len(bufs) \in Nat \ {0}
      /\ next <= Lo + Len(bufs)
  BY DEF DInv, Types, Flow, Plan, Ring, Lo
<1>2. \A k \in Nat : getBuf(k) \in 1..Len(bufs)
  <2> SUFFICES ASSUME NEW k \in Nat PROVE getBuf(k) \in 1..Len(bufs)
    BY Zenon
  <2>1. k % Len(bufs) \in 0..(Len(bufs) - 1)
    BY <1>1, Remainders, Zenon
  <2> QED  BY <1>1, <2>1 DEF getBuf
<1>3. ASSUME NEW j \in Lo..(next - 1), NEW k \in Lo..(next - 1), j < k
      PROVE  getBuf(j) # getBuf(k)
  <2>1. j \in Nat /\ k \in Nat /\ k < j + Len(bufs)
    BY <1>1, Sizes
  <2>2. j % Len(bufs) # k % Len(bufs)
    BY <1>1, <1>3, <2>1, Remainders, Zenon
  <2>3. j % Len(bufs) \in 0..(Len(bufs) - 1) /\ k % Len(bufs) \in 0..(Len(bufs) - 1)
    BY <1>1, <2>1, Remainders, Zenon
  <2> QED  BY <2>2, <2>3 DEF getBuf
<1> QED  BY <1>1, <1>2, <1>3, Sizes

(* The bounds of the chunks in flight.                                     *)
LEMMA Bounds ==
    ASSUME DInv, rpc # "start"
    PROVE  /\ next \in Nat /\ Lo \in Nat /\ Lo < next /\ next <= maxPart /\ maxPart \in Nat
           /\ \A k \in Lo..(next - 1) : k \in Nat /\ k \in 0..maxPart /\ k < maxPart /\ k < next
                                         /\ ~(k < Lo)
           /\ \A k \in Nat : ~(k < Lo) /\ k < next => k \in Lo..(next - 1)
<1>1. next \in 0..maxPart /\ Lo \in Nat /\ Lo < next /\ maxPart \in Nat
  BY RingFacts, Sizes, Zenon
<1> QED  BY <1>1

(* The initial states satisfy the invariant.                               *)
LEMMA DInit == Init => DInv
<1> SUFFICES ASSUME Init PROVE DInv
  BY Zenon
<1>1. Conns \in Nat \ {0} /\ Workers = 1..Conns
  BY Sizes, DownloaderAssumption DEF Conns, Workers
<1>2. Types
  BY <1>1 DEF Init, Types, Job, Chunk, NoJob, NoChunk, Whys
<1>3. Flow
  BY <1>1, Sizes DEF Init, Flow, Plan, Ring, BufsHold, QueueFits, JobsFit, OnePlace, Active, Lo
<1>4. Reading
  BY Sizes DEF Init, Reading, InOrder, Lo
<1> QED  BY <1>2, <1>3, <1>4 DEF DInv

(* The buffers of the chunks, their workers and the queue agree as long as *)
(* chunks move no bytes: workers may drop their chunks.                    *)
LEMMA FlowFrame ==
    ASSUME DInv, rpc # "start", rpc' # "start", Lo' = Lo,
           UNCHANGED <<next, pos, queue>>, conc' > 0 => conc > 0, Len(bufs') = Len(bufs),
           \A i \in 1..Len(bufs) : bufs'[i].size = bufs[i].size /\ bufs'[i].data = bufs[i].data,
           \A w \in Workers : Active(w)' => /\ Active(w) /\ Progress(wpc'[w], job'[w])
                                            /\ Alike(job'[w], job[w])
    PROVE  Flow'
<1>1. \A k : getBuf(k)' = getBuf(k)
  BY Zenon DEF getBuf
<1>2. Lo \in Nat /\ \A k \in Nat : getBuf(k) \in 1..Len(bufs)
  BY RingFacts, Zenon
<1>3. Plan' /\ Ring'
  BY Zenon DEF DInv, Flow, Plan, Ring
<1>4. BufsHold'
  <2> SUFFICES ASSUME NEW k \in Lo..(next - 1) PROVE Holds(bufs[getBuf(k)], k)'
    BY Zenon DEF BufsHold
  <2>1. k \in Nat /\ Holds(bufs[getBuf(k)], k)
    BY <1>2, RingFacts DEF DInv, Flow, BufsHold
  <2> QED  BY <1>1, <1>2, <2>1, Zenon DEF Holds
<1>5. ASSUME NEW ch, NEW n, ch.id \in Nat, Continues(ch, n) PROVE Continues(ch, n)'
  BY <1>1, <1>2, <1>5, Zenon DEF Continues
<1>6. QueueFits'
  <2>1. \A i \in 1..Len(queue) : queue[i].id \in Nat
    BY Elements, Zenon DEF DInv
  <2> QED  BY <1>5, <2>1, Zenon DEF DInv, Flow, QueueFits
<1>7. JobsFit'
  <2>1. \A w \in Workers : job[w].ch.id \in Nat
    BY Elements, Zenon DEF DInv
  <2> SUFFICES ASSUME NEW w \in Workers, Active(w)'
               PROVE  /\ Progress(wpc'[w], job'[w]) /\ job'[w].ch.id < next
                      /\ IF job'[w].ch.id < Lo THEN job'[w].n = job'[w].ch.size
                         ELSE Continues(job[w].ch, job[w].n)'
    BY Zenon DEF JobsFit, Progress
  <2>2. /\ Active(w) /\ Alike(job'[w], job[w]) /\ job[w].ch.id < next
        /\ IF job[w].ch.id < Lo THEN job[w].n = job[w].ch.size
           ELSE Continues(job[w].ch, job[w].n)
    BY Zenon DEF DInv, Flow, JobsFit
  <2>3. ASSUME Continues(job[w].ch, job[w].n) PROVE Continues(job[w].ch, job[w].n)'
    BY <1>1, <1>2, <2>1, <2>2, <2>3, Zenon DEF Continues, Alike
  <2> QED  BY <2>2, <2>3, Zenon DEF Alike
<1>8. OnePlace'
  BY DEF DInv, Flow, OnePlace, Alike
<1> QED  BY <1>3, <1>4, <1>6, <1>7, <1>8, Zenon DEF Flow

(* The reader does not notice what workers add to the buffers.             *)
LEMMA ReadingFrame ==
    ASSUME DInv, rpc # "start", UNCHANGED <<rpc, rPos, cur, out, next>>, Len(bufs') = Len(bufs),
           \A i \in 1..Len(bufs) : /\ bufs'[i].size = bufs[i].size /\ bufs'[i].offR = bufs[i].offR
                                   /\ Len(bufs'[i].data) >= Len(bufs[i].data)
    PROVE  Reading'
<1>1. \A k : getBuf(k)' = getBuf(k)
  BY Zenon DEF getBuf
<1>2. Lo \in Nat /\ rPos \in Nat /\ Lo' = Lo /\ \A k \in Nat : getBuf(k) \in 1..Len(bufs)
  BY RingFacts, Zenon DEF DInv, Types, Lo
<1>3. rpc # "switch" => /\ cur = getBuf(rPos) /\ cur \in 1..Len(bufs)
                        /\ bufs[cur].offR <= Len(bufs[cur].data)
                        /\ Len(out) = Offset(rPos) + bufs[cur].offR
  BY <1>2, Zenon DEF DInv, Reading
<1>4. \A i \in 1..Len(bufs) : bufs[i].offR \in Nat /\ Len(bufs[i].data) \in Nat
  BY Elements, Zenon DEF DInv
<1>5. rpc # "switch" => /\ cur' = getBuf(rPos)' /\ Len(out)' = Offset(rPos) + bufs'[cur].offR
                        /\ bufs'[cur].offR <= Len(bufs'[cur].data)
  <2>1. ASSUME NEW i \in 1..Len(bufs), bufs[i].offR <= Len(bufs[i].data)
        PROVE  bufs'[i].offR <= Len(bufs'[i].data)
    <3>1. PICK a, b, c : a = Len(bufs'[i].data) /\ b = Len(bufs[i].data) /\ c = bufs[i].offR
      BY Zenon
    <3>2. a >= b /\ c <= b /\ b \in Nat /\ c \in Nat /\ bufs'[i].offR = c
      BY <1>4, <2>1, <3>1, Zenon
    <3> QED  BY <3>1, <3>2
  <2> QED  BY <1>1, <1>3, <2>1, Zenon
<1>6. rpc = "finish" => bufs'[cur].offR >= bufs'[cur].size
  BY <1>3, Zenon DEF DInv, Reading
<1>7. \A k \in Lo..(next - 1) : k # rPos => bufs'[getBuf(k)].offR = 0
  <2>1. \A k \in Lo..(next - 1) : k \in Nat
    BY <1>2, RingFacts
  <2> QED  BY <1>2, <2>1, Zenon DEF DInv, Reading
<1>8. InOrder'
  BY Zenon DEF DInv, Reading, InOrder
<1> QED  BY <1>1, <1>2, <1>5, <1>6, <1>7, <1>8, Zenon DEF DInv, Reading

(* A worker runs only after download.                                      *)
LEMMA Started ==
    ASSUME DInv, NEW w \in Workers, wpc[w] # "new"
    PROVE  rpc # "start"
  BY Zenon DEF DInv, Flow, Ring

(* A worker goes on with its chunk, or drops it.                           *)
LEMMA WorkerMoves ==
    ASSUME DInv, NEW w \in Workers, wpc[w] # "new", NEW pc, wpc' = [wpc EXCEPT ![w] = pc],
           UNCHANGED <<next, pos, queue, bufs, rpc, rPos, cur, out>>,
           conc' = conc \/ (conc' \in Int /\ conc' <= 0),
           job' \in [Workers -> Job], \A x \in Workers : x # w => job'[x] = job[x],
           pc \in {"try", "body", "copy", "judge", "over"} =>
              Active(w) /\ Progress(pc, job'[w]) /\ Alike(job'[w], job[w])
    PROVE  DInv'
<1>1. rpc # "start"
  BY Started, Zenon
<1>2. /\ DOMAIN wpc = Workers /\ conc \in Int /\ conc <= Conns /\ Conns \in Nat
      /\ \A x \in Workers : wpc'[x] = IF x = w THEN pc ELSE wpc[x]
  <2>1. Conns \in Nat
    BY Sizes, DownloaderAssumption, Zenon DEF Conns
  <2> QED  BY <2>1, Zenon DEF DInv, Types
<1>3. Types'
  <2>1. conc' \in Int /\ conc' <= Conns
    BY <1>2
  <2> QED  BY <1>2, <2>1, Zenon DEF DInv, Types
<1>4. conc' > 0 => conc > 0
  BY <1>2
<1>5. \A x \in Workers : Active(x)' => /\ Active(x) /\ Progress(wpc'[x], job'[x])
                                       /\ Alike(job'[x], job[x])
  <2> SUFFICES ASSUME NEW x \in Workers, Active(x)'
               PROVE  /\ Active(x) /\ Progress(wpc'[x], job'[x]) /\ Alike(job'[x], job[x])
    BY Zenon
  <2>1. CASE x = w
    BY <1>2, <2>1, Zenon DEF Active
  <2>2. CASE x # w
    BY <1>2, <2>2, Zenon DEF Active, DInv, Flow, JobsFit, Alike
  <2> QED  BY <2>1, <2>2, Zenon
<1>6. Flow'
  <2>1. Lo' = Lo
    BY Zenon DEF Lo
  <2> QED  BY <1>1, <1>4, <1>5, <2>1, FlowFrame, Zenon
<1>7. Reading'
  <2>1. \A i \in 1..Len(bufs) : Len(bufs[i].data) >= Len(bufs[i].data)
    BY Elements DEF DInv
  <2> QED  BY <1>1, <2>1, ReadingFrame, Zenon
<1> QED  BY <1>3, <1>6, <1>7, Zenon DEF DInv

(* Exit, Quit, BreakOff and Downloaded.                                    *)
LEMMA EndSteps ==
    ASSUME DInv, NEW w \in Workers, Exit(w) \/ Quit(w) \/ BreakOff(w) \/ Downloaded(w)
    PROVE  DInv'
<1>0. job \in [Workers -> Job]
  BY Zenon DEF DInv, Types
<1>1. CASE Exit(w) \/ Quit(w) \/ Downloaded(w)
  <2>1. PICK pc \in {"gone", "recv", "exit"} : wpc' = [wpc EXCEPT ![w] = pc]
    BY <1>1, Zenon DEF Exit, Quit, Downloaded
  <2> QED
    BY <1>0, <1>1, <2>1, WorkerMoves, Zenon DEF Exit, Quit, Downloaded, counters, reader
<1>2. CASE BreakOff(w)
  <2>1. /\ job' \in [Workers -> Job] /\ \A x \in Workers : x # w => job'[x] = job[x]
        /\ job'[w].ch = job[w].ch /\ job'[w].n = job[w].n
    BY <1>0, <1>2, Zenon DEF BreakOff, Job, Whys
  <2>2. Active(w) /\ Progress("judge", job'[w]) /\ Alike(job'[w], job[w])
    <3>1. job'[w].why = "retry"
      BY <1>0, <1>2, Zenon DEF BreakOff, Job
    <3> QED  BY <1>2, <2>1, <3>1 DEF BreakOff, Active, Progress, Alike, DInv, Flow, JobsFit
  <2> QED
    BY <1>2, <2>1, <2>2, WorkerMoves, Zenon DEF BreakOff, counters, reader
<1> QED  BY <1>1, <1>2, Zenon

(* The answer to a request, and what it makes of the chunk.                *)
LEMMA RequestStep ==
    ASSUME DInv, NEW w \in Workers, NEW answer \in Answers, Request(w, answer)
    PROVE  DInv'
<1>0. /\ job \in [Workers -> Job] /\ wpc[w] = "try" /\ Active(w)
      /\ UNCHANGED <<next, pos, conc, queue, bufs, rpc, rPos, cur, out>>
  BY Zenon DEF DInv, Types, Request, Active, counters, reader
<1>1. job[w].n = 0 /\ job[w].n < job[w].ch.size /\ job[w].n <= job[w].ch.size
  BY <1>0, Zenon DEF DInv, Flow, JobsFit, Progress
<1>2. PICK pc \in {"exit", "recv", "judge", "over", "body"} : wpc' = [wpc EXCEPT ![w] = pc]
  BY Zenon DEF Request, Refused, checkTotalBytes
<1>3. PICK why \in Whys \union {job[w].why} :
        job' = job \/ job' = [job EXCEPT ![w].why = why]
                   \/ job' = [job EXCEPT ![w].why = why, ![w].n = 0]
  <2>1. {"retry", "error", answer} \subseteq Whys
    BY Zenon DEF Whys
  <2> QED  BY <2>1, Zenon DEF Request, Refused, checkTotalBytes
<1>4. /\ job' \in [Workers -> Job] /\ \A x \in Workers : x # w => job'[x] = job[x]
      /\ job'[w].ch = job[w].ch /\ job'[w].n = job[w].n
  <2>1. why \in Whys
    BY <1>0, <1>3 DEF Job
  <2> QED  BY <1>0, <1>1, <1>3, <2>1 DEF Job
<1>5. Progress(pc, job'[w]) /\ Alike(job'[w], job[w])
  BY <1>1, <1>4, Zenon DEF Progress, Alike
<1> QED
  BY <1>0, <1>2, <1>4, <1>5, WorkerMoves, Zenon

(* What is left of a chunk is a chunk ...                                  *)
LEMMA RestIsChunk ==
    ASSUME NEW ch \in Chunk, NEW n \in Nat, n < ch.size
    PROVE  /\ Rest(ch, n) \in Chunk /\ Rest(ch, n).id = ch.id /\ Rest(ch, n).buf = ch.buf
           /\ Rest(ch, n).start = ch.start + n /\ Rest(ch, n).size = ch.size - n
<1>1. ch.start + n \in Nat /\ ch.size - n \in Nat
  BY DEF Chunk
<1>2. \A a, b \in Nat : [ch EXCEPT !.start = a, !.size = b] \in Chunk
  BY Zenon DEF Chunk
<1>3. Rest(ch, n) \in Chunk
  BY <1>1, <1>2, Zenon DEF Rest
<1>4. Rest(ch, n).id = ch.id /\ Rest(ch, n).buf = ch.buf
  BY Zenon DEF Rest, Chunk
<1>5. Rest(ch, n).start = ch.start + n
  BY Zenon DEF Rest, Chunk
<1>6. Rest(ch, n).size = ch.size - n
  BY DEF Rest, Chunk
<1> QED  BY <1>3, <1>4, <1>5, <1>6

(* ... and makes the job of the next try.                                  *)
LEMMA NextJob ==
    ASSUME NEW j \in Job, NEW ch \in Chunk, NEW again,
           again = [j EXCEPT !.ch = ch, !.n = 0, !.retry = @ + 1]
    PROVE  again \in Job /\ again.n = 0 /\ again.ch = ch
<1>1. j.retry + 1 \in Nat
  BY DEF Job
<1>2. \A m \in Nat : [j EXCEPT !.ch = ch, !.n = 0, !.retry = m] \in Job
  BY Zenon DEF Job
<1>3. \A m \in Nat : [j EXCEPT !.ch = ch, !.n = 0, !.retry = m].n = 0
  BY Zenon DEF Job
<1>4. \A m \in Nat : [j EXCEPT !.ch = ch, !.n = 0, !.retry = m].ch = ch
  BY Zenon DEF Job
<1> QED  BY <1>1, <1>2, <1>3, <1>4

(* The end of a failed iteration: given up, or continued where it stopped. *)
LEMMA JudgeStep ==
    ASSUME DInv, NEW w \in Workers, Judge(w)
    PROVE  DInv'
<1>0. /\ job \in [Workers -> Job] /\ wpc[w] = "judge" /\ Active(w)
      /\ UNCHANGED <<next, pos, conc, queue, bufs, rpc, rPos, cur, out>>
  BY Zenon DEF DInv, Types, Judge, Active, counters, reader
<1>1. CASE job' = job /\ \E pc \in {"recv", "exit"} : wpc' = [wpc EXCEPT ![w] = pc]
  BY <1>0, <1>1, WorkerMoves, Zenon
<1>j. /\ job[w].n \in Nat /\ job[w].retry \in Nat /\ job[w].ch \in Chunk
      /\ job[w].n < job[w].ch.size /\ Progress("judge", job[w])
  BY <1>0, Elements, Zenon DEF DInv, Flow, JobsFit, Progress, Job
<1>2. CASE job' = job /\ wpc' = [wpc EXCEPT ![w] = "try"] /\ job[w].why = "overload"
  <2>1. Progress("try", job[w]) /\ Alike(job[w], job[w])
    BY <1>j, <1>2, Zenon DEF Progress, Alike
  <2> QED  BY <1>0, <1>2, <2>1, WorkerMoves
<1> DEFINE again == [job[w] EXCEPT !.ch = Rest(@, job[w].n), !.n = 0, !.retry = @ + 1]
<1>3. CASE job' = [job EXCEPT ![w] = again] /\ wpc' = [wpc EXCEPT ![w] = "try"]
  <2>1. /\ again \in Job /\ again.n = 0 /\ again.ch.id = job[w].ch.id
        /\ again.ch.buf = job[w].ch.buf
        /\ again.ch.start = job[w].ch.start + job[w].n
        /\ again.ch.size = job[w].ch.size - job[w].n
    <3>1. PICK ch, n : ch = job[w].ch /\ n = job[w].n
      BY Zenon
    <3>2. /\ Rest(ch, n) \in Chunk /\ Rest(ch, n).id = ch.id /\ Rest(ch, n).buf = ch.buf
          /\ Rest(ch, n).start = ch.start + n /\ Rest(ch, n).size = ch.size - n
      BY <1>j, <3>1, RestIsChunk, Zenon
    <3>3. again \in Job /\ again.n = 0 /\ again.ch = Rest(ch, n)
      <4>1. job[w] \in Job /\ again = [job[w] EXCEPT !.ch = Rest(ch, n), !.n = 0, !.retry = @ + 1]
        BY <1>0, <3>1, Zenon
      <4> QED  BY <3>2, <4>1, NextJob, Zenon
    <3> HIDE DEF again
    <3> QED  BY <3>1, <3>2, <3>3, Zenon
  <2>2. Progress("try", again) /\ Alike(again, job[w])
    BY <1>j, <2>1 DEF Progress, Alike, Chunk
  <2> HIDE DEF again
  <2> QED  BY <1>0, <1>3, <2>1, <2>2, WorkerMoves
<1> QED  BY <1>1, <1>2, <1>3 DEF Judge

(* A chunk changes hands: the buffers stay.                                *)
LEMMA HandoverFrame ==
    ASSUME DInv, rpc # "start", UNCHANGED <<next, pos, bufs, rpc, rPos, cur, out>>,
           conc' > 0 => conc' = conc
    PROVE  /\ Plan' /\ Ring' /\ BufsHold' /\ Reading' /\ Lo' = Lo
           /\ \A ch, n : Continues(ch, n) => Continues(ch, n)'
<1>1. Lo' = Lo /\ \A k : getBuf(k)' = getBuf(k)
  BY Zenon DEF Lo, getBuf
<1>2. Plan' /\ Ring'
  BY <1>1, Zenon DEF DInv, Flow, Plan, Ring
<1>3. BufsHold' /\ \A ch, n : Continues(ch, n) => Continues(ch, n)'
  BY <1>1, Zenon DEF DInv, Flow, BufsHold, Holds, Continues
<1>4. Reading'
  <2>1. \A i \in 1..Len(bufs) : Len(bufs[i].data) >= Len(bufs[i].data)
    BY Elements DEF DInv
  <2> QED  BY <2>1, ReadingFrame, Zenon
<1> QED  BY <1>1, <1>2, <1>3, <1>4, Zenon

(* A worker takes the first chunk of the queue, or ends.                   *)
LEMMA ReceiveStep ==
    ASSUME DInv, NEW w \in Workers, downloadPart(w)
    PROVE  DInv'
<1>0. /\ job \in [Workers -> Job] /\ queue \in Seq(Chunk) /\ DOMAIN wpc = Workers
      /\ wpc[w] = "recv" /\ UNCHANGED <<next, pos, conc, bufs, rpc, rPos, cur, out>>
  BY Zenon DEF DInv, Types, downloadPart, counters, reader
<1>s. rpc # "start"
  BY <1>0, Started, Zenon
<1>1. CASE wpc' = [wpc EXCEPT ![w] = "exit"] /\ UNCHANGED <<queue, job>>
  BY <1>0, <1>1, WorkerMoves, Zenon
<1>2. CASE /\ queue # << >> /\ queue' = Tail(queue) /\ wpc' = [wpc EXCEPT ![w] = "try"]
           /\ job' = [job EXCEPT ![w] = [NoJob EXCEPT !.ch = Head(queue)]]
  <2>1. PICK ch : ch = Head(queue)
    BY Zenon
  <2>2. /\ Len(queue) >= 1 /\ Len(queue) \in Nat /\ ch = queue[1] /\ ch \in Chunk
        /\ Len(queue') = Len(queue) - 1 /\ queue' \in Seq(Chunk)
        /\ \A i \in 1..Len(queue') : queue'[i] = queue[i + 1] /\ i + 1 \in 1..Len(queue) /\ i + 1 # 1
    BY <1>0, <1>2, <2>1
  <2>3. /\ [NoJob EXCEPT !.ch = ch] \in Job /\ [NoJob EXCEPT !.ch = ch].n = 0
        /\ [NoJob EXCEPT !.ch = ch].ch = ch
    BY <2>2, Zenon DEF NoJob, NoChunk, Job, Whys
  <2>4. /\ job' \in [Workers -> Job] /\ DOMAIN wpc' = Workers
        /\ job'[w].ch = ch /\ job'[w].n = 0 /\ wpc'[w] = "try"
        /\ \A x \in Workers : x # w => job'[x] = job[x] /\ wpc'[x] = wpc[x]
    BY <1>0, <1>2, <2>1, <2>3, Zenon
  <2>5. Types'
    BY <1>0, <2>2, <2>4, Zenon DEF DInv, Types
  <2>6. /\ Plan' /\ Ring' /\ BufsHold' /\ Reading' /\ Lo' = Lo
        /\ \A c, n : Continues(c, n) => Continues(c, n)'
    BY <1>0, <1>s, HandoverFrame, Zenon
  <2>7. 1 \in 1..Len(queue) /\ ch.id \in Lo..(next - 1) /\ ch.size > 0 /\ Continues(ch, 0)
    BY <2>2 DEF DInv, Flow, QueueFits
  <2>8. QueueFits'
    BY <1>0, <2>2, <2>6, Zenon DEF DInv, Flow, QueueFits
  <2>9. JobsFit'
    <3> SUFFICES ASSUME NEW x \in Workers, Active(x)'
                 PROVE  /\ Progress(wpc'[x], job'[x]) /\ job'[x].ch.id < next
                        /\ IF job'[x].ch.id < Lo THEN job'[x].n = job'[x].ch.size
                           ELSE Continues(job[x].ch, job[x].n)'
      BY <1>0, <2>6, Zenon DEF JobsFit, Progress
    <3>1. CASE x = w
      <4>1. ch.size \in Nat /\ ch.id \in Nat /\ next \in Nat /\ Lo \in Nat
        <5>1. ch.size \in Nat /\ ch.id \in Nat
          BY <2>2, Zenon DEF Chunk
        <5>2. next \in 0..maxPart /\ Lo \in Nat
          BY <1>s, RingFacts, Zenon
        <5> QED  BY <5>1, <5>2
      <4>2. ~(ch.id < Lo) /\ ch.id < next /\ Progress("try", job'[w])
        BY <2>4, <2>7, <4>1 DEF Progress
      <4> QED  BY <2>4, <2>6, <2>7, <3>1, <4>2, Zenon
    <3>2. CASE x # w
      BY <2>4, <2>6, <3>2, Zenon DEF DInv, Flow, JobsFit, Active
    <3> QED  BY <3>1, <3>2, Zenon
  <2>10. OnePlace'
    <3>1. \A i, j \in 1..Len(queue') : i # j => queue'[i].id # queue'[j].id
      BY <2>2 DEF DInv, Flow, OnePlace
    <3>2. \A x \in Workers : Active(x)' => x = w \/ (x # w /\ Active(x))
      BY <2>4, Zenon DEF Active
    <3>3. \A i \in 1..Len(queue') : queue'[i].id # ch.id
      BY <2>2, <2>7 DEF DInv, Flow, OnePlace
    <3>4. \A x \in Workers : x # w /\ Active(x) => job'[x].ch.id # ch.id
      BY <2>2, <2>4, <2>7 DEF DInv, Flow, OnePlace
    <3>5. ASSUME NEW x \in Workers, NEW i \in 1..Len(queue'), Active(x)'
          PROVE  job'[x].ch.id # queue'[i].id
      <4>1. CASE x = w
        BY <2>4, <3>3, <4>1, Zenon
      <4>2. CASE x # w
        BY <2>2, <2>4, <3>2, <3>5, <4>2 DEF DInv, Flow, OnePlace
      <4> QED  BY <4>1, <4>2
    <3>6. ASSUME NEW v \in Workers, NEW x \in Workers, v # x, Active(v)', Active(x)'
          PROVE  job'[v].ch.id # job'[x].ch.id
      <4>1. CASE x = w
        BY <2>4, <3>2, <3>4, <3>6, <4>1, Zenon
      <4>2. CASE v = w
        BY <2>4, <3>2, <3>4, <3>6, <4>2, Zenon
      <4>3. CASE v # w /\ x # w
        BY <2>4, <3>2, <3>6, <4>3 DEF DInv, Flow, OnePlace
      <4> QED  BY <4>1, <4>2, <4>3
    <3> QED  BY <3>1, <3>5, <3>6, Zenon DEF OnePlace
  <2> QED  BY <2>5, <2>6, <2>8, <2>9, <2>10, Zenon DEF DInv, Flow
<1> QED  BY <1>1, <1>2, Zenon DEF downloadPart

(* Neither chunks nor bytes move.                                          *)
LEMMA StillStep ==
    ASSUME DInv, UNCHANGED <<next, pos, queue, bufs, wpc, job, rPos, cur, out>>,
           UNCHANGED rpc, conc' = conc \/ (rpc # "start" /\ conc' \in Int /\ conc' <= 0)
    PROVE  DInv'
<1>1. CASE conc' = conc
  <2>1. Lo' = Lo /\ (\A k : getBuf(k)' = getBuf(k)) /\ \A w : Active(w)' = Active(w)
    BY Zenon DEF Lo, getBuf, Active
  <2>2. Types' /\ Plan' /\ Ring' /\ OnePlace'
    <3>1. Types' /\ Plan' /\ Ring'
      BY <1>1, <2>1, Zenon DEF DInv, Types, Flow, Plan, Ring
    <3>2. OnePlace'
      BY <2>1, Zenon DEF DInv, Flow, OnePlace
    <3> QED  BY <3>1, <3>2, Zenon
  <2>3. BufsHold' /\ QueueFits' /\ JobsFit'
    BY <1>1, <2>1, Zenon DEF DInv, Flow, BufsHold, Holds, QueueFits, JobsFit, Continues
  <2>4. Reading'
    BY <1>1, <2>1, Zenon DEF DInv, Reading, InOrder
  <2> QED  BY <2>2, <2>3, <2>4, Zenon DEF DInv, Flow
<1>2. CASE rpc # "start" /\ conc' \in Int /\ conc' <= 0
  <2>1. conc' <= Conns /\ (conc' > 0 => conc' = conc)
    BY <1>2, Sizes, DownloaderAssumption DEF Conns
  <2>2. Types'
    BY <1>2, <2>1, Zenon DEF DInv, Types
  <2>3. /\ Plan' /\ Ring' /\ BufsHold' /\ Reading' /\ Lo' = Lo
        /\ \A c, n : Continues(c, n) => Continues(c, n)'
    BY <1>2, <2>1, HandoverFrame, Zenon
  <2>4. QueueFits' /\ JobsFit' /\ OnePlace'
    BY <2>3, Zenon DEF DInv, Flow, QueueFits, JobsFit, OnePlace, Active
  <2> QED  BY <2>2, <2>3, <2>4, Zenon DEF DInv, Flow
<1> QED  BY <1>1, <1>2, Zenon

(* A worker hands its chunk back, or keeps it for another try.             *)
LEMMA OverloadStep ==
    ASSUME DInv, NEW w \in Workers, Overload(w)
    PROVE  DInv'
<1>0. /\ job \in [Workers -> Job] /\ queue \in Seq(Chunk) /\ DOMAIN wpc = Workers /\ conc \in Int
      /\ wpc[w] = "over" /\ Active(w) /\ UNCHANGED <<next, pos, bufs, rpc, rPos, cur, out>>
  BY Zenon DEF DInv, Types, Overload, reader, Active
<1>s. rpc # "start"
  BY <1>0, Started, Zenon
<1>j. /\ job[w].n = 0 /\ job[w].n < job[w].ch.size /\ job[w].n <= job[w].ch.size
      /\ job[w].ch.id < next /\ ~(job[w].ch.id < Lo) /\ Continues(job[w].ch, job[w].n)
      /\ job[w].ch \in Chunk
  <2>1. /\ job[w].n = 0 /\ job[w].n < job[w].ch.size /\ job[w].n <= job[w].ch.size
        /\ job[w].ch.id < next
    BY <1>0, Zenon DEF DInv, Flow, JobsFit, Progress
  <2>2. job[w].n # job[w].ch.size
    BY <2>1, <1>0 DEF Job, Chunk
  <2> QED  BY <1>0, <2>1, <2>2, Elements, Zenon DEF DInv, Flow, JobsFit
<1>1. CASE /\ job' = [job EXCEPT ![w].why = "overload"] /\ wpc' = [wpc EXCEPT ![w] = "judge"]
           /\ UNCHANGED <<conc, queue>>
  <2>1. /\ job' \in [Workers -> Job] /\ \A x \in Workers : x # w => job'[x] = job[x]
        /\ job'[w].ch = job[w].ch /\ job'[w].n = job[w].n
    BY <1>0, <1>1, Zenon DEF Job, Whys
  <2>2. Progress("judge", job'[w]) /\ Alike(job'[w], job[w])
    BY <1>j, <2>1, Zenon DEF Progress, Alike
  <2> QED  BY <1>0, <1>1, <2>1, <2>2, WorkerMoves
<1>c. ~(UNCHANGED conc) => conc' \in Int /\ conc' <= 0
  BY <1>0 DEF Overload
<1>2. CASE UNCHANGED <<job, queue, wpc>>
  BY <1>0, <1>s, <1>c, <1>2, StillStep, Zenon
<1>3. CASE /\ UNCHANGED job /\ wpc' = [wpc EXCEPT ![w] = "quit"]
           /\ queue' = Append(queue, job[w].ch)
  <2>1. PICK ch : ch = job[w].ch
    BY Zenon
  <2>2. /\ Len(queue) \in Nat /\ Len(queue') = Len(queue) + 1 /\ queue' \in Seq(Chunk)
        /\ queue'[Len(queue')] = ch
        /\ \A i \in 1..Len(queue') : i = Len(queue') \/ (i \in 1..Len(queue) /\ queue'[i] = queue[i])
    BY <1>0, <1>j, <1>3, <2>1
  <2>3. /\ DOMAIN wpc' = Workers /\ conc' \in Int /\ conc' <= Conns /\ (conc' > 0 => conc' = conc)
        /\ \A x \in Workers : Active(x)' => x # w /\ Active(x)
    <3>1. Conns \in Nat /\ conc <= Conns
      BY Sizes, DownloaderAssumption, Zenon DEF Conns, DInv, Types
    <3>2. conc' \in Int /\ conc' <= Conns /\ (conc' > 0 => conc' = conc)
      BY <1>0, <1>c, <3>1
    <3> QED  BY <1>0, <1>3, <3>2, Zenon DEF Active
  <2>4. Types'
    BY <1>0, <1>3, <2>2, <2>3, Zenon DEF DInv, Types
  <2>5. /\ Plan' /\ Ring' /\ BufsHold' /\ Reading' /\ Lo' = Lo
        /\ \A c, n : Continues(c, n) => Continues(c, n)'
    BY <1>0, <1>s, <2>3, HandoverFrame, Zenon
  <2>6. ch.id \in Lo..(next - 1) /\ ch.size > 0 /\ Continues(ch, 0)
    <3>1. ch.size \in Nat /\ ch.id \in Nat /\ Continues(ch, 0)
      BY <1>j, <2>1, Zenon DEF Chunk
    <3>2. next \in 0..maxPart /\ Lo \in Nat
      BY <1>s, RingFacts, Zenon
    <3> QED  BY <1>j, <2>1, <3>1, <3>2
  <2>7. QueueFits'
    BY <1>0, <2>2, <2>5, <2>6, Zenon DEF DInv, Flow, QueueFits
  <2>8. JobsFit'
    BY <1>0, <1>3, <2>3, <2>5, Zenon DEF DInv, Flow, JobsFit, Active
  <2>9. OnePlace'
    <3>1. \A i \in 1..Len(queue) : queue[i].id # ch.id
      BY <1>0, <2>1, Zenon DEF DInv, Flow, OnePlace
    <3>2. ASSUME NEW i \in 1..Len(queue'), NEW j \in 1..Len(queue'), i # j
          PROVE  queue'[i].id # queue'[j].id
      <4>1. CASE i = Len(queue')
        BY <2>2, <3>1, <3>2, <4>1, Zenon
      <4>2. CASE j = Len(queue')
        BY <2>2, <3>1, <3>2, <4>2, Zenon
      <4>3. CASE i # Len(queue') /\ j # Len(queue')
        BY <2>2, <3>2, <4>3 DEF DInv, Flow, OnePlace
      <4> QED  BY <4>1, <4>2, <4>3
    <3>3. ASSUME NEW x \in Workers, NEW i \in 1..Len(queue'), Active(x)'
          PROVE  job'[x].ch.id # queue'[i].id
      <4>1. CASE i = Len(queue')
        BY <1>0, <1>3, <2>1, <2>2, <2>3, <3>3, <4>1 DEF DInv, Flow, OnePlace
      <4>2. CASE i # Len(queue')
        BY <1>3, <2>2, <2>3, <3>3, <4>2 DEF DInv, Flow, OnePlace
      <4> QED  BY <4>1, <4>2
    <3>4. \A v, x \in Workers : v # x /\ Active(v)' /\ Active(x)' => job'[v].ch.id # job'[x].ch.id
      BY <1>3, <2>3 DEF DInv, Flow, OnePlace
    <3> QED  BY <3>2, <3>3, <3>4 DEF OnePlace
  <2> QED  BY <2>4, <2>5, <2>7, <2>8, <2>9, Zenon DEF DInv, Flow
<1> QED  BY <1>1, <1>2, <1>3, Zenon DEF Overload

(* Buf.Write appends a byte.                                               *)
LEMMA Appended ==
    ASSUME NEW u \in Buf, NEW x \in Nat
    PROVE  \E v : /\ v = Signal([u EXCEPT !.data = Append(u.data, x)])
                  /\ v \in Buf /\ v.size = u.size /\ v.offR = u.offR
                  /\ v.data \in Seq(Nat) /\ Len(v.data) = Len(u.data) + 1
                  /\ v.data[Len(v.data)] = x
                  /\ \A i \in 1..Len(u.data) : v.data[i] = u.data[i]
<1>0. PICK v : v = Signal([u EXCEPT !.data = Append(u.data, x)])
  BY Zenon
<1>1. PICK d : d = Append(u.data, x)
  BY Zenon
<1>2. u.data \in Seq(Nat)
  BY Zenon DEF Buf
<1>3. /\ d \in Seq(Nat) /\ Len(d) = Len(u.data) + 1 /\ d[Len(d)] = x
      /\ \A i \in 1..Len(u.data) : d[i] = u.data[i]
  BY <1>1, <1>2
<1>4. PICK t : t = [u EXCEPT !.data = d]
  BY Zenon
<1>5. t \in Buf /\ t.data = d /\ t.size = u.size /\ t.offR = u.offR
  BY <1>3, <1>4, Zenon DEF Buf
<1>6. v = [t EXCEPT !.signal = t.signal \/ t.pending, !.pending = FALSE]
  BY <1>0, <1>1, <1>4, Zenon DEF Signal
<1>7. PICK s : s = (t.signal \/ t.pending) /\ s \in BOOLEAN
  BY Zenon
<1>8. v = [t EXCEPT !.signal = s, !.pending = FALSE]
  BY <1>6, <1>7, Zenon
<1>9. v \in Buf /\ v.data = t.data /\ v.size = t.size /\ v.offR = t.offR
  BY <1>5, <1>7, <1>8, Zenon DEF Buf
<1> QED  BY <1>0, <1>3, <1>5, <1>9, ZenonT(60)

(* A byte of a body goes to the end of what its chunk's buffer holds.      *)
LEMMA WriteStep ==
    ASSUME DInv, NEW w \in Workers, Write(w)
    PROVE  DInv'
<1>0. /\ job \in [Workers -> Job] /\ bufs \in Seq(Buf) /\ DOMAIN wpc = Workers
      /\ wpc[w] = "copy" /\ Active(w) /\ job[w].n < job[w].ch.size
      /\ UNCHANGED <<next, pos, conc, queue, rpc, rPos, cur, out>>
  BY Zenon DEF DInv, Types, Write, counters, reader, Active
<1>s. rpc # "start"
  BY <1>0, Started, Zenon
<1>b. /\ next \in Nat /\ Lo \in Nat /\ Lo < next /\ next <= maxPart /\ maxPart \in Nat
      /\ \A k \in Lo..(next - 1) : k \in Nat /\ k \in 0..maxPart /\ k < maxPart /\ k < next
                                   /\ ~(k < Lo)
      /\ \A k \in Nat : ~(k < Lo) /\ k < next => k \in Lo..(next - 1)
  BY <1>s, Bounds, Zenon
<1>n. job[w].n \in Nat /\ job[w].ch \in Chunk /\ job[w].ch.size \in Nat /\ job[w].ch.start \in Nat
  BY <1>0, Zenon DEF Job, Chunk
<1>1. CASE /\ wpc' = [wpc EXCEPT ![w] = "judge"] /\ UNCHANGED bufs
           /\ job' = [job EXCEPT ![w].why = "retry"]
  <2>1. /\ job' \in [Workers -> Job] /\ \A x \in Workers : x # w => job'[x] = job[x]
        /\ job'[w].ch = job[w].ch /\ job'[w].n = job[w].n /\ job'[w].why = "retry"
    BY <1>0, <1>1, Zenon DEF Job, Whys
  <2>2. Progress("judge", job'[w]) /\ Alike(job'[w], job[w])
    BY <1>0, <1>n, <2>1 DEF Progress, Alike
  <2> QED  BY <1>0, <1>1, <2>1, <2>2, WorkerMoves
<1>2. CASE /\ UNCHANGED wpc /\ job' = [job EXCEPT ![w].n = @ + 1]
           /\ bufs' = [bufs EXCEPT ![job[w].ch.buf] =
                Signal([bufs[job[w].ch.buf] EXCEPT
                  !.data = Append(bufs[job[w].ch.buf].data, job[w].ch.start + job[w].n)])]
  <2>1. PICK ch, n, k, b, old : /\ ch = job[w].ch /\ n = job[w].n /\ k = ch.id /\ b = ch.buf
                                /\ old = bufs[b]
    BY Zenon
  <2>n. ch \in Chunk /\ n \in Nat /\ ch.size \in Nat /\ ch.start \in Nat /\ job[w] \in Job
    BY <1>0, <1>n, <2>1, Zenon
  <2>2. k \in Lo..(next - 1) /\ Continues(ch, n) /\ n < ch.size
    <3>1. job[w].n # job[w].ch.size
      BY <1>0, <1>n
    <3>2. k < next /\ ~(k < Lo) /\ Continues(ch, n)
      BY <1>0, <2>1, <3>1, Zenon DEF DInv, Flow, JobsFit
    <3>3. k \in Nat
      BY <1>n, <2>1, Zenon DEF Chunk
    <3> QED  BY <1>0, <1>b, <2>1, <3>2, <3>3, Zenon
  <2>3. /\ b = getBuf(k) /\ b \in 1..Len(bufs) /\ old \in Buf /\ Holds(old, k) /\ k \in Nat
        /\ ch.start + n = Offset(k) + Len(old.data) /\ Offset(k) \in Nat
        /\ ch.start + ch.size = Offset(k) + ChunkSize(k) /\ ChunkSize(k) \in Nat
        /\ Len(old.data) \in Nat /\ Len(bufs) \in Nat
    <3>1. k \in Nat /\ k \in 0..maxPart
      BY <1>b, <2>2, Zenon
    <3>2. b = getBuf(k) /\ b \in 1..Len(bufs) /\ old \in Buf /\ Len(old.data) \in Nat
      BY <1>s, <2>1, <2>2, <3>1, RingFacts, Elements, Zenon DEF Continues, DInv
    <3>3. Holds(old, k)
      BY <2>1, <2>2, <3>2, Zenon DEF DInv, Flow, BufsHold
    <3>4. Offset(k) \in Nat /\ ChunkSize(k) \in Nat /\ Len(bufs) \in Nat
      BY <3>1, Sizes, Elements, Zenon DEF DInv
    <3> QED  BY <2>1, <2>2, <3>1, <3>2, <3>3, <3>4, Zenon DEF Continues
  <2>4. PICK new : new = Signal([old EXCEPT !.data = Append(old.data, ch.start + n)])
    BY Zenon
  <2>5. /\ new \in Buf /\ new.size = old.size /\ new.offR = old.offR
        /\ new.data \in Seq(Nat) /\ Len(new.data) = Len(old.data) + 1
        /\ new.data[Len(new.data)] = ch.start + n
        /\ \A i \in 1..Len(old.data) : new.data[i] = old.data[i]
    <3>1. ch.start + n \in Nat
      BY <2>n
    <3>2. old \in Buf
      BY <2>3, Zenon
    <3>3. PICK x \in Nat : x = ch.start + n
      BY <3>1, Zenon
    <3>4. PICK v : /\ v = Signal([old EXCEPT !.data = Append(old.data, x)])
                   /\ v \in Buf /\ v.size = old.size /\ v.offR = old.offR
                   /\ v.data \in Seq(Nat) /\ Len(v.data) = Len(old.data) + 1
                   /\ v.data[Len(v.data)] = x
                   /\ \A i \in 1..Len(old.data) : v.data[i] = old.data[i]
      BY <3>2, Appended, Zenon
    <3>5. v = new
      BY <2>4, <3>3, <3>4, Zenon
    <3> QED  BY <3>3, <3>4, <3>5, Zenon
  <2>6. /\ bufs' \in Seq(Buf) /\ Len(bufs') = Len(bufs)
        /\ \A i \in 1..Len(bufs) : bufs'[i] = IF i = b THEN new ELSE bufs[i]
    <3>1. bufs' = [bufs EXCEPT ![b] = new]
      BY <1>2, <2>1, <2>4, Zenon
    <3> QED  BY <1>0, <2>3, <2>5, <3>1
  <2>7. /\ job' \in [Workers -> Job] /\ \A x \in Workers : x # w => job'[x] = job[x]
        /\ job'[w].ch = ch /\ job'[w].n = n + 1
    <3>1. PICK j : j = [job[w] EXCEPT !.n = n + 1]
      BY Zenon
    <3>2. j \in Job /\ j.ch = ch /\ j.n = n + 1
      <4>1. \A m \in Nat : [job[w] EXCEPT !.n = m] \in Job
        BY <2>n, Zenon DEF Job
      <4>2. \A m \in Nat : [job[w] EXCEPT !.n = m].ch = job[w].ch
        BY <2>n, Zenon DEF Job
      <4>3. \A m \in Nat : [job[w] EXCEPT !.n = m].n = m
        BY <2>n, Zenon DEF Job
      <4>4. n + 1 \in Nat
        BY <2>n
      <4> QED  BY <2>1, <3>1, <4>1, <4>2, <4>3, <4>4, Zenon
    <3>3. job' = [job EXCEPT ![w] = j]
      BY <1>2, <2>1, <3>1, Zenon
    <3> QED  BY <1>0, <3>2, <3>3, Zenon
  <2>8. Types'
    BY <1>0, <1>2, <2>6, <2>7, Zenon DEF DInv, Types
  <2>9. Lo' = Lo /\ (\A i : getBuf(i)' = getBuf(i)) /\ \A x : Active(x)' = Active(x)
    BY <1>0, <1>2, <2>6, Zenon DEF Lo, getBuf, Active
  <2>10. Plan' /\ Ring'
    BY <1>0, <1>s, <2>6, <2>9, Zenon DEF DInv, Flow, Plan, Ring
  <2>11. \A j \in Lo..(next - 1) : j # k => getBuf(j) # b /\ getBuf(j) \in 1..Len(bufs)
    BY <1>s, <2>2, <2>3, RingFacts
  <2>12. BufsHold'
    <3> SUFFICES ASSUME NEW j \in Lo..(next - 1) PROVE Holds(bufs'[getBuf(j)], j)
      BY <1>0, <2>9, Zenon DEF BufsHold, Holds
    <3>1. CASE j = k
      <4>1. Len(new.data) <= ChunkSize(k) /\ new.size = ChunkSize(k)
        <5>1. Len(old.data) < ChunkSize(k)
          BY <2>n, <2>2, <2>3, SMTT(60)
        <5> QED  BY <2>3, <2>5, <5>1 DEF Holds
      <4>2. ASSUME NEW i \in 1..Len(new.data) PROVE new.data[i] = Offset(k) + i - 1
        <5>1. CASE i = Len(new.data)
          <6>1. /\ new.data[i] = ch.start + n /\ i = Len(old.data) + 1 /\ Len(old.data) \in Nat
                /\ ch.start + n = Offset(k) + Len(old.data) /\ Offset(k) \in Nat
            BY <2>3, <2>5, <5>1, Zenon
          <6>2. PICK a, o, l \in Nat : a = ch.start /\ o = Offset(k) /\ l = Len(old.data)
            BY <2>n, <6>1, Zenon
          <6> QED  BY <2>n, <6>1, <6>2
        <5>2. CASE i # Len(new.data)
          <6>1. i \in 1..Len(old.data)
            BY <2>3, <2>5, <4>2, <5>2, SMTT(60)
          <6> QED  BY <2>3, <2>5, <6>1, Zenon DEF Holds
        <5> QED  BY <5>1, <5>2
      <4> QED  BY <2>3, <2>6, <3>1, <4>1, <4>2 DEF Holds
    <3>2. CASE j # k
      BY <2>6, <2>11, <3>2, Zenon DEF DInv, Flow, BufsHold
    <3> QED  BY <3>1, <3>2
  <2>13. ASSUME NEW c, NEW m, c.id \in Lo..(next - 1), c.id # k, Continues(c, m)
         PROVE  Continues(c, m)'
    BY <2>6, <2>9, <2>11, <2>13, Zenon DEF Continues
  <2>14. QueueFits'
    <3>1. \A i \in 1..Len(queue) : queue[i].id # k
      BY <1>0, <2>1, Zenon DEF DInv, Flow, OnePlace
    <3> QED  BY <1>0, <2>9, <2>13, <3>1, Zenon DEF DInv, Flow, QueueFits
  <2>15. JobsFit'
    <3> SUFFICES ASSUME NEW x \in Workers, Active(x)
                 PROVE  /\ Progress(wpc[x], job'[x]) /\ job'[x].ch.id < next
                        /\ IF job'[x].ch.id < Lo THEN job'[x].n = job'[x].ch.size
                           ELSE Continues(job[x].ch, job[x].n)'
      BY <1>0, <1>2, <2>9, Zenon DEF JobsFit, Progress
    <3>1. CASE x = w
      <4>1. Progress("copy", job'[w])
        BY <1>n, <2>1, <2>2, <2>7 DEF Progress
      <4>2. Continues(job[w].ch, job[w].n)'
        <5>1. bufs'[b] = new /\ getBuf(k)' = b
          BY <2>3, <2>6, <2>9, Zenon
        <5>2. ch.start + (n + 1) = Offset(k) + Len(new.data)
          <6>1. PICK a, o, l \in Nat : a = ch.start /\ o = Offset(k) /\ l = Len(old.data)
            BY <2>n, <2>3, Zenon
          <6>2. a + n = o + l /\ Len(new.data) = l + 1
            BY <2>3, <2>5, <6>1, Zenon
          <6>3. a + (n + 1) = o + (l + 1)
            BY <2>n, <6>2
          <6> QED  BY <6>1, <6>2, <6>3, Zenon
        <5> QED  BY <2>1, <2>3, <2>7, <5>1, <5>2 DEF Continues
      <4>3. k < next /\ ~(k < Lo)
        BY <1>b, <2>2, Zenon
      <4> QED  BY <1>0, <2>1, <2>7, <3>1, <4>1, <4>2, <4>3, Zenon
    <3>2. CASE x # w
      <4>1. /\ job'[x] = job[x] /\ job[x].ch.id # k /\ Progress(wpc[x], job[x]) /\ job[x].ch.id < next
            /\ IF job[x].ch.id < Lo THEN job[x].n = job[x].ch.size ELSE Continues(job[x].ch, job[x].n)
        <5>1. job'[x] = job[x] /\ job[x].ch.id # k
          BY <1>0, <2>1, <2>7, <3>2, ZenonT(60) DEF DInv, Flow, OnePlace
        <5> QED  BY <5>1, Zenon DEF DInv, Flow, JobsFit
      <4>2. job[x].ch.id \in Nat
        BY Elements, Zenon DEF DInv
      <4>3. ~(job[x].ch.id < Lo) => job[x].ch.id \in Lo..(next - 1)
        BY <1>b, <4>1, <4>2, Zenon
      <4> QED  BY <2>13, <4>1, <4>3, Zenon
    <3> QED  BY <3>1, <3>2, Zenon
  <2>16. OnePlace'
    <3>1. \A x \in Workers : job'[x].ch = job[x].ch
      BY <2>1, <2>7, Zenon
    <3>2. \A x : Active(x)' <=> Active(x)
      BY <2>9, Zenon
    <3>3. queue' = queue
      BY <1>0, Zenon
    <3> QED  BY <3>1, <3>2, <3>3 DEF DInv, Flow, OnePlace
  <2>17. Reading'
    <3>1. \A i \in 1..Len(bufs) : /\ bufs'[i].size = bufs[i].size /\ bufs'[i].offR = bufs[i].offR
                                  /\ Len(bufs'[i].data) >= Len(bufs[i].data)
      <4> SUFFICES ASSUME NEW i \in 1..Len(bufs)
                   PROVE  /\ bufs'[i].size = bufs[i].size /\ bufs'[i].offR = bufs[i].offR
                          /\ Len(bufs'[i].data) >= Len(bufs[i].data)
        BY Zenon
      <4>1. Len(bufs[i].data) \in Nat
        BY Elements, Zenon DEF DInv
      <4>2. CASE i = b
        <5>1. bufs'[i] = new /\ bufs[i] = old
          BY <2>1, <2>6, <4>2, Zenon
        <5>2. Len(new.data) >= Len(old.data)
          BY <2>3, <2>5
        <5> QED  BY <2>5, <5>1, <5>2, Zenon
      <4>3. CASE i # b
        BY <2>6, <4>1, <4>3
      <4> QED  BY <4>2, <4>3
    <3> QED  BY <1>0, <1>s, <2>6, <3>1, ReadingFrame, Zenon
  <2> QED  BY <2>8, <2>10, <2>12, <2>14, <2>15, <2>16, <2>17, Zenon DEF DInv, Flow
<1> QED  BY <1>1, <1>2, Zenon DEF Write
-----------------------------------------------------------------------------
(* Every chunk planned so far starts where Offset says, in every state of  *)
(* a download (d.pos and d.nextChunk move together).                       *)
THEOREM PlanInvariant == Spec => []Plan
<1>1. maxPart \in Nat /\ maxPart >= 2
  BY Division, DownloaderAssumption
<1>2. Init => Plan
  BY <1>1 DEF Init, Plan, Offset
<1>3. Plan /\ [Next]_vars => Plan'
  <2> SUFFICES ASSUME Plan, [Next]_vars PROVE Plan'
    BY Zenon
  <2>1. CASE UNCHANGED <<next, pos>>
    BY <2>1, Zenon DEF Plan, Offset, TooSmall, maxPart
  <2>2. CASE Download
    <3>1. Offset(1) = Offset(0) + ChunkSize(0)
      BY <1>1, Tiling
    <3>2. next' = 1 /\ pos' = ChunkSize(0)
      BY <2>2, Zenon DEF Download
    <3>3. ChunkSize(0) \in Int
      BY SizeFits
    <3> QED  BY <1>1, <3>1, <3>2, <3>3 DEF Plan, Offset, TooSmall, maxPart
  <2>3. CASE finishBuf
    BY <2>1, <2>3, SendPlan, Zenon DEF finishBuf, counters
  <2>4. ASSUME NEW w \in Workers, Expand(w) PROVE Plan'
    BY <2>4, SendPlan, Zenon DEF Expand
  <2>5. CASE ReadLoop \/ ReadWake \/ NextBuf \/ Close \/ Cancel
    BY <2>1, <2>5, Zenon DEF ReadLoop, ReadWake, NextBuf, Close, Cancel, counters
  <2>6. ASSUME NEW w \in Workers,
               \/ downloadPart(w) \/ Exit(w) \/ Write(w) \/ BreakOff(w)
               \/ Downloaded(w) \/ Judge(w) \/ Overload(w) \/ Quit(w)
               \/ \E answer \in Answers : Request(w, answer)
        PROVE  Plan'
    BY <2>1, <2>6, Zenon DEF downloadPart, Exit, Write, BreakOff, Downloaded, Judge,
                      Overload, Quit, Request, counters
  <2>7. CASE UNCHANGED vars
    BY <2>1, <2>7, Zenon DEF vars, counters
  <2> QED  BY <2>2, <2>3, <2>4, <2>5, <2>6, <2>7 DEF Next, Consumer, Worker
<1> QED  BY <1>2, <1>3, PTL DEF Spec

(* The number of chunks download computes and the sizes sendChunkTask      *)
(* hands out agree: the range is used up with the last chunk, not before.  *)
THEOREM ChunksAlwaysTile == Spec => []ChunksTile
<1>1. Plan => ChunksTile
  BY Tiling, Zenon DEF Plan, ChunksTile
<1> QED  BY <1>1, PlanInvariant, PTL
-----------------------------------------------------------------------------
(* The reader moves within a chunk: neither chunks nor bytes move.         *)
LEMMA ReaderFlow ==
    ASSUME DInv, rpc # "start", rpc' # "start", Lo' = Lo, conc' > 0 => conc > 0,
           UNCHANGED <<next, pos, queue, wpc, job>>, Len(bufs') = Len(bufs),
           \A i \in 1..Len(bufs) : bufs'[i].size = bufs[i].size /\ bufs'[i].data = bufs[i].data
    PROVE  Flow'
<1>1. \A w \in Workers : Active(w)' => /\ Active(w) /\ Progress(wpc'[w], job'[w])
                                       /\ Alike(job'[w], job[w])
  BY Zenon DEF Active, Alike, DInv, Flow, JobsFit
<1> QED  BY <1>1, FlowFrame, Zenon

(* The buffer the reader is at.                                            *)
LEMMA AtReader ==
    ASSUME DInv, rpc \notin {"start", "switch"}
    PROVE  /\ Lo = rPos /\ rPos \in Nat /\ rPos \in Lo..(next - 1) /\ rPos < maxPart
           /\ cur = getBuf(rPos) /\ cur \in 1..Len(bufs)
           /\ bufs[cur] \in Buf /\ bufs[cur].offR \in Nat /\ bufs[cur].data \in Seq(Nat)
           /\ bufs[cur].offR <= Len(bufs[cur].data) /\ Len(bufs[cur].data) <= ChunkSize(rPos)
           /\ bufs[cur].size = ChunkSize(rPos) /\ ChunkSize(rPos) \in Nat
           /\ Offset(rPos) \in Nat /\ Len(out) = Offset(rPos) + bufs[cur].offR
           /\ Offset(rPos + 1) = Offset(rPos) + ChunkSize(rPos)
           /\ Holds(bufs[cur], rPos)
<1>1. /\ Lo = rPos /\ rPos \in Nat /\ cur = getBuf(rPos)
      /\ bufs[cur].offR <= Len(bufs[cur].data) /\ Len(out) = Offset(rPos) + bufs[cur].offR
  BY Zenon DEF DInv, Types, Reading, Lo
<1>2. rPos \in Lo..(next - 1) /\ rPos < maxPart /\ rPos \in 0..maxPart
  BY <1>1, Bounds
<1>3. cur \in 1..Len(bufs)
  BY <1>1, RingFacts, Zenon
<1>4. bufs[cur] \in Buf /\ bufs[cur].offR \in Nat /\ bufs[cur].data \in Seq(Nat)
  BY <1>3, Elements, Zenon DEF DInv
<1>5. Holds(bufs[cur], rPos)
  BY <1>1, <1>2, Zenon DEF DInv, Flow, BufsHold
<1>6. ChunkSize(rPos) \in Nat /\ Offset(rPos) \in Nat
      /\ Offset(rPos + 1) = Offset(rPos) + ChunkSize(rPos)
  BY <1>1, <1>2, Sizes, Zenon
<1> QED  BY <1>1, <1>2, <1>3, <1>4, <1>5, <1>6, Zenon DEF Holds

(* The reader stops, waits or finds the end of its chunk.                  *)
LEMMA ReaderStays ==
    ASSUME DInv, rpc \notin {"start", "switch"}, rpc' \notin {"start", "switch"},
           rpc' = "eof" => Len(out) = Length,
           conc' = conc \/ (conc' \in Int /\ conc' <= 0),
           UNCHANGED <<next, pos, queue, wpc, job, rPos, cur, out>>,
           bufs' \in Seq(Buf), Len(bufs') = Len(bufs),
           \A i \in 1..Len(bufs) : /\ bufs'[i].size = bufs[i].size /\ bufs'[i].data = bufs[i].data
                                   /\ bufs'[i].offR = bufs[i].offR,
           rpc' = "finish" => bufs[cur].offR >= bufs[cur].size
    PROVE  DInv'
<1>1. Lo' = Lo /\ Lo = rPos /\ \A k : getBuf(k)' = getBuf(k)
  BY Zenon DEF Lo, getBuf
<1>2. conc' \in Int /\ conc' <= Conns /\ (conc' > 0 => conc > 0)
  <2>1. Conns \in Nat /\ conc \in Int /\ conc <= Conns
    BY Sizes, DownloaderAssumption, Zenon DEF Conns, DInv, Types
  <2> QED  BY <2>1
<1>3. Types'
  BY <1>2, Zenon DEF DInv, Types
<1>4. Flow'
  BY <1>1, <1>2, ReaderFlow, Zenon
<1>5. Reading'
  <2>1. /\ cur = getBuf(rPos) /\ cur \in 1..Len(bufs) /\ bufs[cur].offR <= Len(bufs[cur].data)
        /\ Len(out) = Offset(rPos) + bufs[cur].offR
    BY AtReader, Zenon
  <2>2. \A k \in Lo..(next - 1) : k # rPos => bufs'[getBuf(k)].offR = 0
    <3>1. \A k \in Lo..(next - 1) : getBuf(k) \in 1..Len(bufs)
      BY Bounds, RingFacts, Zenon
    <3> QED  BY <3>1, Zenon DEF DInv, Reading
  <2>3. InOrder'
    BY Zenon DEF DInv, Reading, InOrder
  <2> QED  BY <1>1, <2>1, <2>2, <2>3, Zenon DEF Reading
<1> QED  BY <1>3, <1>4, <1>5, Zenon DEF DInv

(* Buf.Read: a byte, the end of the chunk, or a wait.                      *)
LEMMA ReadLoopStep ==
    ASSUME DInv, ReadLoop
    PROVE  DInv'
<1>0. /\ rpc \notin {"start", "switch"} /\ bufs \in Seq(Buf)
      /\ UNCHANGED <<next, pos, conc, queue, wpc, job, rPos, cur>>
  BY Zenon DEF ReadLoop, counters, DInv, Types
<1>r. /\ Lo = rPos /\ rPos \in Nat /\ rPos \in Lo..(next - 1) /\ rPos < maxPart
      /\ cur = getBuf(rPos) /\ cur \in 1..Len(bufs)
      /\ bufs[cur] \in Buf /\ bufs[cur].offR \in Nat /\ bufs[cur].data \in Seq(Nat)
      /\ bufs[cur].offR <= Len(bufs[cur].data) /\ Len(bufs[cur].data) <= ChunkSize(rPos)
      /\ bufs[cur].size = ChunkSize(rPos) /\ ChunkSize(rPos) \in Nat
      /\ Offset(rPos) \in Nat /\ Len(out) = Offset(rPos) + bufs[cur].offR
      /\ Holds(bufs[cur], rPos)
  BY <1>0, AtReader, Zenon
<1>1. CASE /\ UNCHANGED <<bufs, out>> /\ rpc' \in {"failed", "finish"}
           /\ rpc' = "finish" => bufs[cur].offR >= bufs[cur].size
  BY <1>0, <1>1, ReaderStays, Zenon
<1>2. CASE rpc' = "wait" /\ UNCHANGED out /\ bufs' = [bufs EXCEPT ![cur].pending = TRUE]
  <2>1. PICK u, v : u = bufs[cur] /\ v = [bufs[cur] EXCEPT !.pending = TRUE]
    BY Zenon
  <2>2. v \in Buf /\ v.size = u.size /\ v.data = u.data /\ v.offR = u.offR
    BY <1>r, <2>1, Zenon DEF Buf
  <2>3. bufs' = [bufs EXCEPT ![cur] = v]
    BY <1>2, <2>1, Zenon
  <2>4. /\ bufs' \in Seq(Buf) /\ Len(bufs') = Len(bufs)
        /\ \A i \in 1..Len(bufs) : bufs'[i] = IF i = cur THEN v ELSE bufs[i]
    BY <1>0, <1>r, <2>2, <2>3
  <2>5. \A i \in 1..Len(bufs) : /\ bufs'[i].size = bufs[i].size /\ bufs'[i].data = bufs[i].data
                                /\ bufs'[i].offR = bufs[i].offR
    BY <2>1, <2>2, <2>4, Zenon
  <2> QED  BY <1>0, <1>2, <2>4, <2>5, ReaderStays, Zenon
<1>3. CASE /\ Len(bufs[cur].data) > bufs[cur].offR
           /\ out' = Append(out, bufs[cur].data[bufs[cur].offR + 1])
           /\ bufs' = [bufs EXCEPT ![cur].offR = @ + 1]
           /\ \/ rpc' = "read"
              \/ bufs[cur].offR + 1 >= bufs[cur].size /\ rpc' = "finish"
  <2>1. PICK u, v, n : u = bufs[cur] /\ n = u.offR /\ v = [u EXCEPT !.offR = n + 1]
    BY Zenon
  <2>2. /\ u \in Buf /\ n \in Nat /\ u.data \in Seq(Nat) /\ Len(u.data) \in Nat
        /\ n < Len(u.data) /\ n + 1 \in 1..Len(u.data) /\ n + 1 \in Nat
    <3>1. u \in Buf /\ n \in Nat /\ u.data \in Seq(Nat) /\ Len(u.data) > n
      BY <1>r, <1>3, <2>1, Zenon
    <3> QED  BY <3>1
  <2>3. v \in Buf /\ v.size = u.size /\ v.data = u.data /\ v.offR = n + 1
    BY <2>1, <2>2, Zenon DEF Buf
  <2>4. bufs' = [bufs EXCEPT ![cur] = v]
    BY <1>3, <2>1, Zenon
  <2>5. /\ bufs' \in Seq(Buf) /\ Len(bufs') = Len(bufs)
        /\ \A i \in 1..Len(bufs) : bufs'[i] = IF i = cur THEN v ELSE bufs[i]
    BY <1>0, <1>r, <2>3, <2>4
  <2>6. u.data[n + 1] = Offset(rPos) + n /\ u.data[n + 1] \in Nat
    <3>1. u.data[n + 1] = Offset(rPos) + (n + 1) - 1
      BY <1>r, <2>1, <2>2, Zenon DEF Holds
    <3> QED  BY <1>r, <2>2, <3>1, SMTT(60)
  <2>7. /\ out' \in Seq(Nat) /\ out \in Seq(Nat) /\ Len(out) \in Nat /\ Len(out') = Len(out) + 1
        /\ out'[Len(out')] = Offset(rPos) + n
        /\ \A i \in 1..Len(out) : out'[i] = out[i]
    <3>1. out \in Seq(Nat) /\ out' = Append(out, u.data[n + 1])
      BY <1>3, <2>1, Zenon DEF DInv, Types
    <3> QED  BY <2>6, <3>1
  <2>8. Types'
    BY <1>0, <2>5, <2>7, Zenon DEF DInv, Types
  <2>9. Lo' = Lo /\ (\A k : getBuf(k)' = getBuf(k)) /\ rpc' \notin {"start", "switch", "eof"}
    BY <1>0, <1>3, <2>5, Zenon DEF Lo, getBuf
  <2>10. Flow'
    <3>1. \A i \in 1..Len(bufs) : bufs'[i].size = bufs[i].size /\ bufs'[i].data = bufs[i].data
      BY <2>1, <2>3, <2>5, Zenon
    <3> QED  BY <1>0, <2>5, <2>9, <3>1, ReaderFlow, Zenon
  <2>11. bufs'[cur] = v /\ v.offR <= Len(v.data) /\ Len(out') = Offset(rPos) + v.offR
    <3>1. Len(out) = Offset(rPos) + n
      BY <1>r, <2>1, Zenon
    <3>2. Len(out') = Offset(rPos) + (n + 1)
      <4>1. PICK o, l \in Nat : o = Offset(rPos) /\ l = Len(out)
        BY <1>r, <2>7, Zenon
      <4>2. l = o + n /\ Len(out') = l + 1
        BY <2>7, <3>1, <4>1, Zenon
      <4>3. l + 1 = o + (n + 1)
        BY <2>2, <4>1, <4>2
      <4> QED  BY <4>1, <4>2, <4>3, Zenon
    <3> QED  BY <1>r, <2>2, <2>3, <2>5, <3>2
  <2>12. InOrder'
    <3>1. \A i \in 1..Len(out') : out'[i] = i - 1
      <4> SUFFICES ASSUME NEW i \in 1..Len(out') PROVE out'[i] = i - 1
        BY Zenon
      <4>1. \A j \in 1..Len(out) : out[j] = j - 1
        BY <2>7, SMTT(60) DEF DInv, Reading, InOrder
      <4>2. CASE i = Len(out')
        <5>1. PICK o \in Nat : o = Offset(rPos)
          BY <1>r, Zenon
        <5>2. out'[i] = o + n /\ i = o + (n + 1)
          BY <2>3, <2>7, <2>11, <4>2, <5>1, Zenon
        <5> QED  BY <2>2, <5>1, <5>2
      <4>3. CASE i # Len(out')
        <5>1. i \in 1..Len(out)
          BY <2>7, <4>3
        <5> QED  BY <2>7, <4>1, <5>1, Zenon
      <4> QED  BY <4>2, <4>3
    <3> QED  BY <2>7, <2>9, <3>1 DEF InOrder
  <2>13. \A k \in Lo..(next - 1) : k # rPos => bufs'[getBuf(k)].offR = 0
    <3>1. \A k \in Lo..(next - 1) : k # rPos => getBuf(k) # cur /\ getBuf(k) \in 1..Len(bufs)
      BY <1>0, <1>r, RingFacts, Bounds, Zenon
    <3> QED  BY <2>5, <3>1, Zenon DEF DInv, Reading
  <2>14. rpc' = "finish" => v.offR >= v.size
    BY <1>3, <2>1, <2>3, Zenon
  <2>15. Reading'
    BY <1>0, <1>r, <2>9, <2>11, <2>12, <2>13, <2>14, Zenon DEF Reading
  <2> QED  BY <2>8, <2>10, <2>15, Zenon DEF DInv
<1> QED  BY <1>1, <1>2, <1>3, Zenon DEF ReadLoop

(* The wait of a Read ends.                                                *)
LEMMA ReadWakeStep ==
    ASSUME DInv, ReadWake
    PROVE  DInv'
<1>0. /\ rpc \notin {"start", "switch"} /\ bufs \in Seq(Buf)
      /\ UNCHANGED <<next, pos, conc, queue, wpc, job, rPos, cur, out>>
  BY Zenon DEF ReadWake, counters, DInv, Types
<1>1. CASE UNCHANGED bufs /\ rpc' = "failed"
  BY <1>0, <1>1, ReaderStays, Zenon
<1>2. CASE rpc' = "loop" /\ bufs' = [bufs EXCEPT ![cur].signal = FALSE]
  <2>0. cur \in 1..Len(bufs) /\ bufs[cur] \in Buf
    BY <1>0, AtReader, Zenon
  <2>1. PICK u, v : u = bufs[cur] /\ v = [bufs[cur] EXCEPT !.signal = FALSE]
    BY Zenon
  <2>2. v \in Buf /\ v.size = u.size /\ v.data = u.data /\ v.offR = u.offR
    BY <2>0, <2>1, Zenon DEF Buf
  <2>3. bufs' = [bufs EXCEPT ![cur] = v]
    BY <1>2, <2>1, Zenon
  <2>4. /\ bufs' \in Seq(Buf) /\ Len(bufs') = Len(bufs)
        /\ \A i \in 1..Len(bufs) : bufs'[i] = IF i = cur THEN v ELSE bufs[i]
    BY <1>0, <2>0, <2>2, <2>3
  <2>5. \A i \in 1..Len(bufs) : /\ bufs'[i].size = bufs[i].size /\ bufs'[i].data = bufs[i].data
                                /\ bufs'[i].offR = bufs[i].offR
    BY <2>1, <2>2, <2>4, Zenon
  <2> QED  BY <1>0, <1>2, <2>4, <2>5, ReaderStays, Zenon
<1> QED  BY <1>1, <1>2, Zenon DEF ReadWake

(* Close, and the end of the context.                                      *)
LEMMA CloseStep ==
    ASSUME DInv, Close \/ Cancel
    PROVE  DInv'
<1>1. CASE Close
  <2>1. /\ rpc \notin {"start", "switch"} /\ rpc' = "closed" /\ bufs' \in Seq(Buf)
        /\ UNCHANGED <<next, pos, queue, wpc, job, rPos, cur, out, bufs>>
    BY <1>1, Zenon DEF Close, interrupt, DInv, Types
  <2>2. conc' = conc \/ (conc' \in Int /\ conc' <= 0)
    BY <1>1 DEF Close, interrupt, DInv, Types
  <2> QED  BY <2>1, <2>2, ReaderStays, Zenon
<1>2. CASE Cancel
  BY <1>2, StillStep, Zenon DEF Cancel, counters, reader
<1> QED  BY <1>1, <1>2, Zenon

(* The reader goes on to the next chunk, of which nothing has been read.   *)
LEMMA NextBufStep ==
    ASSUME DInv, NextBuf
    PROVE  DInv'
<1>0. /\ rpc = "switch" /\ rpc' = "read" /\ rPos' = rPos + 1 /\ cur' = getBuf(rPos + 1)
      /\ UNCHANGED <<next, pos, conc, queue, wpc, job, out, bufs>>
  BY Zenon DEF NextBuf, counters
<1>1. /\ Lo' = Lo /\ Lo = rPos + 1 /\ rPos \in Nat /\ (\A k : getBuf(k)' = getBuf(k))
      /\ Len(out) = Offset(Lo)
  BY <1>0, Zenon DEF Lo, getBuf, DInv, Types, Reading
<1>2. /\ next \in Nat /\ Lo \in Nat /\ Lo \in Lo..(next - 1)
      /\ \A k \in Lo..(next - 1) : k \in Nat /\ k # rPos
  BY <1>0, <1>1, Bounds
<1>3. cur' \in 1..Len(bufs) /\ bufs[cur'].offR = 0 /\ Len(bufs[cur'].data) \in Nat
  <2>1. cur' \in 1..Len(bufs)
    BY <1>0, <1>1, <1>2, RingFacts, Zenon
  <2>2. bufs[cur'].offR = 0
    BY <1>0, <1>1, <1>2, Zenon DEF DInv, Reading
  <2> QED  BY <2>1, <2>2, Elements, Zenon DEF DInv
<1>4. Types'
  <2>1. cur' \in Nat /\ rPos' \in Nat /\ conc \in Int
    <3>1. Len(bufs) \in Nat
      BY Elements, Zenon DEF DInv
    <3> QED  BY <1>0, <1>1, <1>3, <3>1 DEF DInv, Types
  <2> QED  BY <1>0, <2>1, Zenon DEF DInv, Types
<1>5. Flow'
  BY <1>0, <1>1, ReaderFlow, Zenon
<1>6. Reading'
  <2>1. Len(out) = Offset(Lo) + bufs[cur'].offR /\ bufs[cur'].offR <= Len(bufs[cur'].data)
    <3>1. Offset(Lo) \in Nat
      BY <1>0, <1>2, Bounds, Sizes, Zenon
    <3> QED  BY <1>1, <1>3, <3>1
  <2>2. \A k \in Lo..(next - 1) : bufs[getBuf(k)].offR = 0
    BY <1>2, Zenon DEF DInv, Reading
  <2>3. InOrder'
    BY <1>0, Zenon DEF DInv, Reading, InOrder
  <2> QED  BY <1>0, <1>1, <2>1, <2>2, <2>3, Zenon DEF Reading
<1> QED  BY <1>4, <1>5, <1>6, Zenon DEF DInv

(* A buffer made ready for a chunk.                                        *)
LEMMA ResetBuf ==
    ASSUME NEW u \in Buf, NEW size \in Nat
    PROVE  \E v : /\ v = Reset(u, size) /\ v \in Buf /\ v.size = size
                  /\ v.data = << >> /\ v.offR = 0
<1>1. PICK v : v = [u EXCEPT !.size = size, !.data = << >>, !.offR = 0]
  BY Zenon
<1>2. << >> \in Seq(Nat)
  OBVIOUS
<1>3. \A d \in Seq(Nat) : [u EXCEPT !.size = size, !.data = d, !.offR = 0] \in Buf
  BY Zenon DEF Buf
<1>4. v.size = size /\ v.data = << >> /\ v.offR = 0
  BY <1>1, Zenon DEF Buf
<1> QED  BY <1>1, <1>2, <1>3, <1>4, Zenon DEF Reset

(* A buffer that is added when connections are opened is free.             *)
LEMMA FreshBuf == NewBuf(PartSize) \in Buf
  BY DownloaderAssumption DEF NewBuf, Buf

(* sendChunkTask and the ring.  The chunks from L on are in use; when the  *)
(* ring is full its reader has moved past Lo.  They keep their buffers and *)
(* the new chunk gets one of its own.                                      *)
LEMMA SendRing ==
    ASSUME DInv, rpc # "start", NEW new \in BOOLEAN, NEW pcs, sendChunkTask(new, pcs),
           NEW L \in Nat, L >= Lo, ~new => L > Lo, NEW m, m = next
    PROVE  /\ bufs' \in Seq(Buf) /\ Len(bufs') \in Nat \ {0}
           /\ \A k \in L..(next - 1) :
                 getBuf(k)' = getBuf(k) /\ bufs'[getBuf(k)] = bufs[getBuf(k)]
           /\ \/ next' = next /\ (~new => next = maxPart)
              \/ /\ next' = next + 1 /\ next < maxPart /\ getBuf(m)' \in 1..Len(bufs')
                 /\ bufs'[getBuf(m)'].size = ChunkSize(next)
                 /\ bufs'[getBuf(m)'].data = << >> /\ bufs'[getBuf(m)'].offR = 0
                 /\ getBuf(m)' = IF conc > 0 THEN Len(bufs) + 1 ELSE getBuf(next)
           /\ conc > 0 => next' <= Len(bufs') /\ (next' < maxPart => Len(bufs') = next')
           /\ next' <= L + Len(bufs')
<1>1. /\ conc \in Int /\ bufs \in Seq(Buf) /\ next \in Nat /\ next <= maxPart /\ maxPart \in Nat
      /\ Len(bufs) \in Nat \ {0} /\ Lo \in Nat /\ next <= Lo + Len(bufs)
      /\ conc > 0 => next <= Len(bufs) /\ (next < maxPart => Len(bufs) = next)
      /\ pos < Length <=> next < maxPart
  <2>1. next \in 0..maxPart /\ Lo \in Nat /\ Len(bufs) \in Nat \ {0} /\ maxPart \in Nat
    BY RingFacts, Sizes, Zenon
  <2>2. pos < Length <=> next < maxPart
    <3>1. pos = Offset(next) /\ Offset(next) \in 0..Length /\ (Offset(next) = Length <=> next = maxPart)
      BY <2>1, Tiling, Zenon DEF DInv, Flow, Plan
    <3> QED  BY <2>1, <3>1, DownloaderAssumption
  <2> QED  BY <2>1, <2>2 DEF DInv, Types, Flow, Ring
<1>2. \A k \in L..(next - 1) : k \in Nat /\ getBuf(k) \in 1..Len(bufs)
  <2>1. \A k \in L..(next - 1) : k \in Nat
    BY <1>1
  <2> QED  BY <2>1, RingFacts, Zenon
<1>g. \A k : getBuf(k)' = (k % Len(bufs')) + 1
  BY Zenon DEF getBuf
<1>3. CASE conc > 0
  <2> DEFINE ring == Append(bufs, NewBuf(PartSize))
  <2>1. /\ ring \in Seq(Buf) /\ Len(ring) = Len(bufs) + 1
        /\ \A i \in 1..Len(bufs) : ring[i] = bufs[i]
        /\ ring[Len(ring)] = NewBuf(PartSize)
    BY <1>1, FreshBuf
  <2> HIDE DEF ring
  <2>2. \A k \in L..(next - 1) : (k % (Len(bufs) + 1)) + 1 = getBuf(k)
    <3> SUFFICES ASSUME NEW k \in L..(next - 1) PROVE (k % (Len(bufs) + 1)) + 1 = getBuf(k)
      BY Zenon
    <3>1. k \in Nat /\ k < Len(bufs) /\ k < Len(bufs) + 1 /\ Len(bufs) + 1 \in Nat \ {0}
      BY <1>1, <1>3
    <3>2. k % Len(bufs) = k /\ k % (Len(bufs) + 1) = k
      BY <1>1, <3>1, Remainders, Zenon
    <3> QED  BY <3>2, Zenon DEF getBuf
  <2>3. CASE next' = next /\ bufs' = ring /\ ~(pos < Length)
    <3>1. next = maxPart /\ Len(bufs') = Len(bufs) + 1 /\ bufs' \in Seq(Buf)
      BY <1>1, <2>1, <2>3
    <3>2. /\ Len(bufs') \in Nat \ {0} /\ next <= Len(bufs') /\ ~(next < maxPart)
          /\ next <= L + Len(bufs')
      BY <1>1, <1>3, <3>1
    <3>3. \A k \in L..(next - 1) : getBuf(k)' = getBuf(k) /\ bufs'[getBuf(k)] = bufs[getBuf(k)]
      BY <1>2, <1>g, <2>1, <2>2, <2>3, <3>1, Zenon
    <3> QED  BY <2>3, <3>1, <3>2, <3>3, Zenon
  <2>4. CASE /\ pos < Length /\ next' = next + 1
             /\ bufs' = [ring EXCEPT ![Len(ring)] = Reset(ring[Len(ring)], ChunkSize(next))]
    <3>1. ChunkSize(next) \in Nat
      BY <1>1, Sizes, Zenon
    <3>u. PICK u \in Buf, size \in Nat : u = NewBuf(PartSize) /\ size = ChunkSize(next)
      BY <3>1, FreshBuf, Zenon
    <3>2. PICK v : /\ v = Reset(u, size) /\ v \in Buf /\ v.size = size
                   /\ v.data = << >> /\ v.offR = 0
      BY ResetBuf, Zenon
    <3>3. bufs' = [ring EXCEPT ![Len(ring)] = v]
      BY <2>1, <2>4, <3>u, <3>2, Zenon
    <3>4. /\ bufs' \in Seq(Buf) /\ Len(bufs') = Len(bufs) + 1 /\ bufs'[Len(bufs) + 1] = v
          /\ \A i \in 1..Len(bufs) : bufs'[i] = bufs[i]
      BY <1>1, <2>1, <3>2, <3>3
    <3>5. Len(bufs) = next
      BY <1>1, <1>3, <2>4, Zenon
    <3>6. getBuf(m)' = Len(bufs) + 1 /\ getBuf(m)' \in 1..Len(bufs')
      <4>1. next % (Len(bufs) + 1) = next
        <5>1. next < Len(bufs) + 1 /\ Len(bufs) + 1 \in Nat \ {0}
          BY <1>1, <3>5
        <5> QED  BY <1>1, <5>1, Remainders, Zenon
      <4>2. getBuf(m)' = next + 1
        BY <1>g, <3>4, <4>1, Zenon
      <4> QED  BY <1>1, <3>4, <3>5, <4>2
    <3>7. bufs'[getBuf(m)'] = v
      BY <3>4, <3>6, Zenon
    <3>8. \A k \in L..(next - 1) : getBuf(k)' = getBuf(k) /\ bufs'[getBuf(k)] = bufs[getBuf(k)]
      BY <1>2, <1>g, <2>2, <3>4, Zenon
    <3>9. /\ next' <= Len(bufs') /\ Len(bufs') = next' /\ next' <= L + Len(bufs') /\ next < maxPart
          /\ Len(bufs') \in Nat \ {0}
      BY <1>1, <2>4, <3>4, <3>5
    <3> QED  BY <1>3, <2>4, <3>u, <3>2, <3>4, <3>6, <3>7, <3>8, <3>9, Zenon
  <2>5. CASE UNCHANGED <<next, bufs>> /\ new
    <3>1. next <= L + Len(bufs)
      BY <1>1
    <3>2. \A k : getBuf(k)' = getBuf(k)
      BY <2>5, Zenon DEF getBuf
    <3> QED  BY <1>1, <2>5, <3>1, <3>2, Zenon
  <2> QED  BY <1>3, <2>3, <2>4, <2>5 DEF sendChunkTask, counters, ring
<1>4. CASE ~(conc > 0)
  <2>1. CASE UNCHANGED <<next, bufs>> /\ (new \/ ~(pos < Length))
    <3>1. next <= L + Len(bufs) /\ (~new => next = maxPart)
      BY <1>1, <2>1
    <3>2. \A k : getBuf(k)' = getBuf(k)
      BY <2>1, Zenon DEF getBuf
    <3> QED  BY <1>1, <1>4, <2>1, <3>1, <3>2, Zenon
  <2>2. CASE /\ pos < Length /\ next' = next + 1 /\ ~new
             /\ bufs' = [bufs EXCEPT ![getBuf(next)] = Reset(bufs[getBuf(next)], ChunkSize(next))]
    <3>1. ChunkSize(next) \in Nat /\ getBuf(next) \in 1..Len(bufs) /\ bufs[getBuf(next)] \in Buf
      <4>1. getBuf(next) \in 1..Len(bufs)
        BY <1>1, RingFacts, Zenon
      <4> QED  BY <1>1, <4>1, Sizes, Elements DEF DInv
    <3>u. PICK u \in Buf, size \in Nat : u = bufs[getBuf(next)] /\ size = ChunkSize(next)
      BY <3>1, Zenon
    <3>2. PICK v : /\ v = Reset(u, size) /\ v \in Buf /\ v.size = size
                   /\ v.data = << >> /\ v.offR = 0
      BY ResetBuf, Zenon
    <3>3. PICK b : b = getBuf(next) /\ b \in 1..Len(bufs) /\ bufs' = [bufs EXCEPT ![b] = v]
      BY <2>2, <3>1, <3>u, <3>2, Zenon
    <3>4. /\ bufs' \in Seq(Buf) /\ Len(bufs') = Len(bufs)
          /\ \A i \in 1..Len(bufs) : bufs'[i] = IF i = b THEN v ELSE bufs[i]
      BY <1>1, <3>2, <3>3
    <3>5. \A k : getBuf(k)' = getBuf(k)
      BY <3>4, Zenon DEF getBuf
    <3>6. ASSUME NEW k \in L..(next - 1) PROVE getBuf(k) # b
      <4>1. k \in Nat /\ k < next /\ next < k + Len(bufs)
        BY <1>1, <2>2
      <4>2. k % Len(bufs) # next % Len(bufs)
        BY <1>1, <4>1, Remainders, Zenon
      <4>3. k % Len(bufs) \in 0..(Len(bufs) - 1) /\ next % Len(bufs) \in 0..(Len(bufs) - 1)
        BY <1>1, <4>1, Remainders, Zenon
      <4> QED  BY <3>3, <4>2, <4>3 DEF getBuf
    <3>7. /\ next' <= L + Len(bufs') /\ next < maxPart /\ Len(bufs') \in Nat \ {0}
      <4>1. L > Lo /\ next < maxPart /\ Len(bufs') = Len(bufs) /\ next' = next + 1
        BY <1>1, <2>2, <3>4, Zenon
      <4> QED  BY <1>1, <4>1
    <3>8. getBuf(m)' = b /\ b \in 1..Len(bufs') /\ bufs'[b] = v
      BY <3>3, <3>4, <3>5, Zenon
    <3>9. \A k \in L..(next - 1) : getBuf(k)' = getBuf(k) /\ bufs'[getBuf(k)] = bufs[getBuf(k)]
      BY <1>2, <3>4, <3>5, <3>6, Zenon
    <3>10. /\ next' = next + 1 /\ next < maxPart /\ getBuf(m)' \in 1..Len(bufs')
           /\ bufs'[getBuf(m)'].size = ChunkSize(next)
           /\ bufs'[getBuf(m)'].data = << >> /\ bufs'[getBuf(m)'].offR = 0
           /\ getBuf(m)' = getBuf(next)
      BY <2>2, <3>u, <3>2, <3>3, <3>7, <3>8, Zenon
    <3> QED  BY <1>4, <3>4, <3>7, <3>9, <3>10, Zenon
  <2> QED  BY <1>1, <1>4, <2>1, <2>2, SMTT(60) DEF sendChunkTask, counters, NeedsSlot
<1> QED  BY <1>3, <1>4, Zenon

(* sendChunkTask, the queue and the workers.                               *)
LEMMA SendQueue ==
    ASSUME DInv, NEW new \in BOOLEAN, NEW pcs, DOMAIN pcs = Workers, sendChunkTask(new, pcs)
    PROVE  /\ conc' \in Int /\ conc' <= Conns /\ (conc' > 0 => conc > 0)
           /\ DOMAIN wpc' = Workers /\ \A x \in Workers : wpc'[x] \in {pcs[x], "recv"}
           /\ \/ queue' = queue
              \/ /\ next' = next + 1
                 /\ queue' = Append(queue, [id |-> next, start |-> pos, size |-> ChunkSize(next),
                                            buf |-> IF conc > 0 THEN Len(bufs) + 1 ELSE getBuf(next),
                                            new |-> new])
<1>1. conc \in Int /\ conc <= Conns /\ bufs \in Seq(Buf) /\ Conns \in Nat
  BY Sizes, DownloaderAssumption, Zenon DEF DInv, Types, Conns
<1>2. Len(Append(bufs, NewBuf(PartSize))) = Len(bufs) + 1
  BY <1>1
<1>3. CASE wpc' = pcs /\ UNCHANGED <<conc, queue>>
  BY <1>1, <1>3, Zenon
<1>4. ASSUME NEW ch, Queued(ch, pcs)
      PROVE  /\ conc' \in Int /\ conc' <= Conns /\ (conc' > 0 => conc > 0)
             /\ DOMAIN wpc' = Workers /\ \A x \in Workers : wpc'[x] \in {pcs[x], "recv"}
             /\ queue' = Append(queue, ch)
  <2>1. conc' = conc \/ conc' = conc - 1
    BY <1>4, Zenon DEF Queued
  <2>2. DOMAIN wpc' = Workers /\ \A x \in Workers : wpc'[x] \in {pcs[x], "recv"}
    BY <1>4, Zenon DEF Queued
  <2>3. conc' \in Int /\ conc' <= Conns /\ (conc' > 0 => conc > 0)
    BY <1>1, <2>1
  <2> QED  BY <1>4, <2>2, <2>3, Zenon DEF Queued
<1>5. CASE /\ next' = next + 1
           /\ Queued([id |-> next, start |-> pos, size |-> ChunkSize(next),
                      buf |-> IF conc > 0 THEN Len(bufs) + 1 ELSE getBuf(next), new |-> new], pcs)
  <2>1. PICK ch : ch = [id |-> next, start |-> pos, size |-> ChunkSize(next),
                        buf |-> IF conc > 0 THEN Len(bufs) + 1 ELSE getBuf(next), new |-> new]
    BY Zenon
  <2>2. Queued(ch, pcs)
    BY <1>5, <2>1, Zenon
  <2>3. /\ conc' \in Int /\ conc' <= Conns /\ (conc' > 0 => conc > 0)
        /\ DOMAIN wpc' = Workers /\ \A x \in Workers : wpc'[x] \in {pcs[x], "recv"}
        /\ queue' = Append(queue, ch)
    BY <1>4, <2>2, Zenon
  <2> QED  BY <1>5, <2>1, <2>3, Zenon
<1>6. \/ wpc' = pcs /\ UNCHANGED <<conc, queue>>
      \/ /\ next' = next + 1
         /\ Queued([id |-> next, start |-> pos, size |-> ChunkSize(next),
                    buf |-> IF conc > 0 THEN Len(bufs) + 1 ELSE getBuf(next), new |-> new], pcs)
  <2>1. CASE conc > 0
    BY <1>2, <2>1, Zenon DEF sendChunkTask, Offer, counters
  <2>2. CASE ~(conc > 0)
    BY <2>2, Zenon DEF sendChunkTask, Offer, counters
  <2> QED  BY <2>1, <2>2, Zenon
<1> QED  BY <1>3, <1>5, <1>6, Zenon

(* sendChunkTask keeps chunks, buffers and workers in step.  It opens a    *)
(* connection while the reader stays, or replaces the chunk the reader has *)
(* finished, whose bytes have then all been copied.                        *)
LEMMA SendFlow ==
    ASSUME DInv, rpc # "start", rpc' # "start", NEW new \in BOOLEAN, NEW pcs,
           DOMAIN pcs = Workers, sendChunkTask(new, pcs), UNCHANGED <<job, out, rPos, cur>>,
           NEW L, L = Lo', new => L = Lo,
           ~new => /\ L = Lo + 1 /\ L < maxPart
                   /\ Len(bufs[getBuf(Lo)].data) = ChunkSize(Lo),
           \A x \in Workers : pcs[x] \in {"try", "body", "copy", "judge", "over"} =>
                                 Active(x) /\ Progress(pcs[x], job[x])
    PROVE  /\ Types' /\ Flow'
           /\ \A k \in L..(next - 1) :
                 getBuf(k)' = getBuf(k) /\ bufs'[getBuf(k)] = bufs[getBuf(k)]
           /\ \A k \in L..(next' - 1) : ~(k \in L..(next - 1)) => bufs'[getBuf(k)'].offR = 0
<1>0. PICK m : m = next
  BY Zenon
<1>1. /\ m \in Nat /\ Lo \in Nat /\ L \in Nat /\ Lo < m /\ m <= maxPart /\ maxPart \in Nat
      /\ L >= Lo /\ (~new => L > Lo) /\ (L = Lo \/ L = Lo + 1)
      /\ \A k \in L..(m - 1) : k \in Lo..(m - 1)
      /\ \A k \in Lo..(m - 1) : k \in L..(m - 1) \/ (k = Lo /\ L = Lo + 1)
  <2>1. m \in Nat /\ Lo \in Nat /\ Lo < m /\ m <= maxPart /\ maxPart \in Nat
    BY <1>0, Bounds, Zenon
  <2> QED  BY <1>0, <2>1
<1>2. /\ bufs' \in Seq(Buf) /\ Len(bufs') \in Nat \ {0}
      /\ \A k \in L..(m - 1) : getBuf(k)' = getBuf(k) /\ bufs'[getBuf(k)] = bufs[getBuf(k)]
      /\ \/ next' = m /\ (~new => m = maxPart)
         \/ /\ next' = m + 1 /\ m < maxPart /\ getBuf(m)' \in 1..Len(bufs')
            /\ bufs'[getBuf(m)'].size = ChunkSize(m)
            /\ bufs'[getBuf(m)'].data = << >> /\ bufs'[getBuf(m)'].offR = 0
            /\ getBuf(m)' = IF conc > 0 THEN Len(bufs) + 1 ELSE getBuf(next)
      /\ conc > 0 => next' <= Len(bufs') /\ (next' < maxPart => Len(bufs') = next')
      /\ next' <= L + Len(bufs')
  BY <1>0, <1>1, SendRing, Zenon
<1>3. PICK b, ch : /\ b = getBuf(m)'
                   /\ ch = [id |-> m, start |-> Offset(m), size |-> ChunkSize(m), buf |-> b,
                            new |-> new]
  BY Zenon
<1>4. /\ conc' \in Int /\ conc' <= Conns /\ (conc' > 0 => conc > 0)
      /\ DOMAIN wpc' = Workers /\ \A x \in Workers : wpc'[x] \in {pcs[x], "recv"}
      /\ queue' = queue \/ (next' = m + 1 /\ queue' = Append(queue, ch))
  <2>1. pos = Offset(m)
    BY <1>0, Zenon DEF DInv, Flow, Plan
  <2>2. /\ conc' \in Int /\ conc' <= Conns /\ (conc' > 0 => conc > 0)
        /\ DOMAIN wpc' = Workers /\ \A x \in Workers : wpc'[x] \in {pcs[x], "recv"}
        /\ \/ queue' = queue
           \/ /\ next' = m + 1
              /\ queue' = Append(queue, [id |-> m, start |-> pos, size |-> ChunkSize(m),
                                         buf |-> IF conc > 0 THEN Len(bufs) + 1 ELSE getBuf(next),
                                         new |-> new])
    BY <1>0, SendQueue, Zenon
  <2>3. next' = m + 1 => b = IF conc > 0 THEN Len(bufs) + 1 ELSE getBuf(next)
    <3>1. m + 1 # m
      BY <1>1
    <3> QED  BY <1>2, <1>3, <3>1, Zenon
  <2> QED  BY <1>3, <2>1, <2>2, <2>3, Zenon
<1>5. Offset(m) \in Nat /\ ChunkSize(m) \in Nat /\ ChunkSize(m) > 0
  <2>1. m \in 0..maxPart
    BY <1>1
  <2>2. Offset(m) \in Nat /\ ChunkSize(m) \in Nat \ {0}
    BY <1>1, <2>1, Sizes, Zenon
  <2> QED  BY <2>2
<1>6. next' = m + 1 => /\ ch \in Chunk /\ ch.id = m /\ ch.start = Offset(m) /\ ch.buf = b
                       /\ ch.size = ChunkSize(m) /\ b \in 1..Len(bufs')
                       /\ bufs'[b].size = ChunkSize(m) /\ bufs'[b].data = << >>
                       /\ bufs'[b].offR = 0
  <2>1. ASSUME next' = m + 1
        PROVE  /\ b \in 1..Len(bufs') /\ b \in Nat
               /\ bufs'[b].size = ChunkSize(m) /\ bufs'[b].data = << >> /\ bufs'[b].offR = 0
    <3>1. m + 1 # m
      BY <1>1
    <3>2. /\ b \in 1..Len(bufs') /\ bufs'[b].size = ChunkSize(m)
          /\ bufs'[b].data = << >> /\ bufs'[b].offR = 0
      BY <1>2, <1>3, <2>1, <3>1, Zenon
    <3> QED  BY <1>2, <3>2
  <2>2. b \in Nat => ch \in Chunk
    BY <1>1, <1>3, <1>5, Zenon DEF Chunk
  <2>3. ch.id = m /\ ch.start = Offset(m) /\ ch.size = ChunkSize(m) /\ ch.buf = b
    BY <1>3, Zenon
  <2> QED  BY <2>1, <2>2, <2>3, Zenon
<1>7. \A k \in L..(next' - 1) : k \in L..(m - 1) \/ (k = m /\ next' = m + 1)
  BY <1>1, <1>2, SMTT(60)
<1>8. \A k \in L..(m - 1) : k \in L..(next' - 1) /\ k \in Nat /\ k # m /\ k < m /\ ~(k < L)
  BY <1>1, <1>2
<1>9. next' = m + 1 => m \in L..(next' - 1)
  BY <1>1
<1>10. Types'
  <2>1. queue \in Seq(Chunk)
    BY Zenon DEF DInv, Types
  <2>2. queue' \in Seq(Chunk)
    BY <1>4, <1>6, <2>1
  <2> QED  BY <1>2, <1>4, <2>2, Zenon DEF DInv, Types
<1>11. Plan'
  BY SendPlan, Zenon DEF DInv, Flow
<1>12. Ring'
  <2>1. L < next' /\ Len(bufs') >= 1
    BY <1>1, <1>2
  <2> QED  BY <1>2, <1>4, <2>1, Zenon DEF Ring
<1>13. BufsHold'
  <2> SUFFICES ASSUME NEW k \in L..(next' - 1) PROVE Holds(bufs'[getBuf(k)'], k)
    BY Zenon DEF BufsHold, Holds
  <2>1. CASE k \in L..(m - 1)
    BY <1>0, <1>1, <1>2, <2>1, Zenon DEF DInv, Flow, BufsHold
  <2>2. CASE k = m /\ next' = m + 1
    <3>1. bufs'[getBuf(k)'] = bufs'[b]
      BY <1>3, <2>2, Zenon
    <3>2. Len(<< >>) = 0 /\ 1..0 = {}
      OBVIOUS
    <3> QED  BY <1>5, <1>6, <2>2, <3>1, <3>2 DEF Holds
  <2> QED  BY <1>7, <2>1, <2>2, Zenon
<1>14. ASSUME NEW c, NEW n, c.id \in L..(m - 1), Continues(c, n) PROVE Continues(c, n)'
  BY <1>2, <1>14, Zenon DEF Continues
<1>15. ASSUME NEW c \in Chunk, NEW n \in Nat, Continues(c, n), c.id = Lo, L = Lo + 1
       PROVE  n = c.size
  <2>1. c.start \in Nat /\ c.size \in Nat
    BY Zenon DEF Chunk
  <2>2. ~new
    BY <1>1, <1>15
  <2>3. c.start + n = c.start + c.size
    BY <1>15, <2>2, Zenon DEF Continues
  <2>4. PICK a, s \in Nat : a = c.start /\ s = c.size
    BY <2>1, Zenon
  <2>5. a + n = a + s
    BY <2>3, <2>4, Zenon
  <2>6. n = s
    BY <2>5
  <2> QED  BY <2>4, <2>6, Zenon
<1>16. ASSUME NEW i \in 1..Len(queue), NEW c, c = queue[i]
       PROVE  c \in Chunk /\ c.id \in L..(m - 1) /\ c.size > 0 /\ Continues(c, 0)'
  <2>1. c \in Chunk /\ c.id \in Lo..(m - 1) /\ c.size > 0 /\ Continues(c, 0)
    BY <1>0, <1>16, Elements, Zenon DEF DInv, Flow, QueueFits
  <2>2. c.size # 0
    BY <2>1
  <2>3. c.id \in L..(m - 1)
    BY <1>1, <1>15, <2>1, <2>2, Zenon
  <2> QED  BY <1>14, <2>1, <2>3, Zenon
<1>17. /\ Len(queue) \in Nat
       /\ \A i \in 1..Len(queue') :
             \/ i \in 1..Len(queue) /\ queue'[i] = queue[i]
             \/ i = Len(queue) + 1 /\ queue'[i] = ch /\ next' = m + 1
  <2>1. queue \in Seq(Chunk)
    BY Zenon DEF DInv, Types
  <2> QED  BY <1>4, <1>6, <2>1, SMTT(60)
<1>18. QueueFits'
  <2> SUFFICES ASSUME NEW i \in 1..Len(queue'), NEW c, c = queue'[i]
               PROVE  c.id \in L..(next' - 1) /\ c.size > 0 /\ Continues(c, 0)'
    BY Zenon DEF QueueFits, Continues
  <2>1. CASE i \in 1..Len(queue) /\ queue'[i] = queue[i]
    BY <1>8, <1>16, <2>1, Zenon
  <2>2. CASE c = ch /\ next' = m + 1
    <3>1. ch.start + 0 = Offset(m) + Len(bufs'[b].data)
      <4>1. ch.start = Offset(m) /\ bufs'[b].data = << >> /\ Len(<< >>) = 0
        BY <1>6, <2>2, Zenon
      <4> QED  BY <1>5, <4>1
    <3>2. ch.start + ch.size = Offset(m) + ChunkSize(m)
      BY <1>6, <2>2, Zenon
    <3> QED  BY <1>3, <1>5, <1>6, <1>9, <2>2, <3>1, <3>2, Zenon DEF Continues
  <2> QED  BY <1>17, <2>1, <2>2, Zenon
<1>19. \A x \in Workers : Active(x)' => Active(x) /\ Progress(wpc'[x], job[x])
  BY <1>4, Zenon DEF Active
<1>20. JobsFit'
  <2> SUFFICES ASSUME NEW x \in Workers, Active(x)', NEW j, j = job[x]
               PROVE  /\ Progress(wpc'[x], j) /\ j.ch.id < next'
                      /\ IF j.ch.id < L THEN j.n = j.ch.size ELSE Continues(j.ch, j.n)'
    BY Zenon DEF JobsFit, Progress, Continues
  <2>1. /\ Progress(wpc'[x], j) /\ j.ch.id < m
        /\ IF j.ch.id < Lo THEN j.n = j.ch.size ELSE Continues(j.ch, j.n)
    BY <1>0, <1>19, Zenon DEF DInv, Flow, JobsFit
  <2>2. j \in Job /\ j.ch \in Chunk /\ j.ch.id \in Nat /\ j.n \in Nat
    BY Elements, Zenon DEF DInv, Job
  <2>3. j.ch.id < next'
    <3>1. PICK k \in Nat : k = j.ch.id
      BY <2>2, Zenon
    <3>2. k < m /\ m \in Nat /\ (next' = m \/ next' = m + 1)
      BY <1>1, <1>2, <2>1, <3>1, Zenon
    <3>3. k < m + 1
      BY <3>2, SMTT(60)
    <3> QED  BY <3>1, <3>2, <3>3, Zenon
  <2>4. CASE j.ch.id < Lo
    <3>1. j.ch.id < L
      BY <1>1, <2>2, <2>4
    <3> QED  BY <2>1, <2>3, <2>4, <3>1, Zenon
  <2>5. CASE ~(j.ch.id < Lo)
    <3>1. j.ch.id \in Lo..(m - 1) /\ Continues(j.ch, j.n)
      BY <1>1, <2>1, <2>2, <2>5, SMTT(60)
    <3>2. CASE j.ch.id \in L..(m - 1)
      BY <1>8, <1>14, <2>1, <2>3, <3>1, <3>2, Zenon
    <3>3. CASE j.ch.id = Lo /\ L = Lo + 1
      <4>1. j.n = j.ch.size /\ j.ch.id < L
        BY <1>1, <1>15, <2>2, <3>1, <3>3, SMTT(60)
      <4> QED  BY <2>1, <2>3, <4>1, Zenon
    <3> QED  BY <1>1, <3>1, <3>2, <3>3, Zenon
  <2> QED  BY <2>4, <2>5, Zenon
<1>21. OnePlace'
  <2>1. \A i \in 1..Len(queue) : queue[i].id # m
    BY <1>8, <1>16, Zenon
  <2>2. \A x \in Workers : Active(x) => job[x].ch.id # m
    <3>1. \A x \in Workers : job[x].ch.id \in Nat /\ (Active(x) => job[x].ch.id < m)
      BY <1>0, Elements, Zenon DEF DInv, Flow, JobsFit
    <3> QED  BY <1>1, <3>1
  <2>3. ASSUME NEW i \in 1..Len(queue'), NEW j \in 1..Len(queue'), i # j
        PROVE  queue'[i].id # queue'[j].id
    <3>1. CASE i \in 1..Len(queue) /\ queue'[i] = queue[i]
      BY <1>6, <1>17, <2>1, <2>3, <3>1 DEF DInv, Flow, OnePlace
    <3>2. CASE i = Len(queue) + 1 /\ queue'[i] = ch /\ next' = m + 1
      <4>1. j \in 1..Len(queue) /\ queue'[j] = queue[j]
        BY <1>17, <2>3, <3>2, Zenon
      <4> QED  BY <1>6, <2>1, <3>2, <4>1
    <3> QED  BY <1>17, <3>1, <3>2, Zenon
  <2>4. ASSUME NEW x \in Workers, NEW i \in 1..Len(queue'), Active(x)'
        PROVE  job'[x].ch.id # queue'[i].id
    BY <1>6, <1>17, <1>19, <2>2, <2>4 DEF DInv, Flow, OnePlace
  <2>5. \A v, x \in Workers : v # x /\ Active(v)' /\ Active(x)' => job'[v].ch.id # job'[x].ch.id
    BY <1>19, Zenon DEF DInv, Flow, OnePlace
  <2> QED  BY <2>3, <2>4, <2>5, Zenon DEF OnePlace
<1>22. \A k \in L..(next' - 1) : ~(k \in L..(m - 1)) => bufs'[getBuf(k)'].offR = 0
  BY <1>3, <1>6, <1>7, Zenon
<1> QED  BY <1>0, <1>2, <1>10, <1>11, <1>12, <1>13, <1>18, <1>20, <1>21, <1>22, Zenon DEF Flow

(* finishBuf: the end of the range, or a chunk for the buffer that is      *)
(* free now.                                                               *)
LEMMA FinishStep ==
    ASSUME DInv, finishBuf
    PROVE  DInv'
<1>0. /\ rpc = "finish" /\ rpc \notin {"start", "switch"} /\ bufs \in Seq(Buf)
      /\ UNCHANGED <<rPos, cur, out, job>>
  BY Zenon DEF finishBuf, DInv, Types
<1>1. /\ Lo = rPos /\ rPos \in Nat /\ rPos < maxPart /\ cur = getBuf(rPos)
      /\ Len(bufs[cur].data) = ChunkSize(rPos) /\ Len(out) = Offset(rPos + 1)
  <2>1. /\ Lo = rPos /\ rPos \in Nat /\ rPos < maxPart /\ cur = getBuf(rPos)
        /\ bufs[cur].offR \in Nat /\ bufs[cur].data \in Seq(Nat)
        /\ bufs[cur].offR <= Len(bufs[cur].data) /\ Len(bufs[cur].data) <= ChunkSize(rPos)
        /\ bufs[cur].size = ChunkSize(rPos) /\ ChunkSize(rPos) \in Nat
        /\ Offset(rPos) \in Nat /\ Len(out) = Offset(rPos) + bufs[cur].offR
        /\ Offset(rPos + 1) = Offset(rPos) + ChunkSize(rPos)
    BY <1>0, AtReader, Zenon
  <2>2. bufs[cur].offR >= bufs[cur].size
    BY <1>0, Zenon DEF DInv, Reading
  <2>3. Len(bufs[cur].data) \in Nat
    BY <2>1
  <2>4. PICK o, l, s \in Nat : o = bufs[cur].offR /\ l = Len(bufs[cur].data) /\ s = ChunkSize(rPos)
    BY <2>1, <2>3, Zenon
  <2>5. o >= s /\ o <= l /\ l <= s
    BY <2>1, <2>2, <2>4, Zenon
  <2>6. o = s /\ l = s
    BY <2>5
  <2> QED  BY <2>1, <2>4, <2>6, Zenon
<1>2. CASE rPos + 1 >= maxPart
  <2>1. rpc' = "eof" /\ UNCHANGED <<next, pos, conc, queue, bufs, wpc>>
    BY <1>2, Zenon DEF finishBuf, counters
  <2>2. rPos + 1 = maxPart
    BY <1>1, <1>2, Sizes
  <2>3. Len(out) = Length
    BY <1>1, <2>2, Sizes, Zenon
  <2> QED  BY <1>0, <2>1, <2>3, ReaderStays, Zenon
<1>3. CASE ~(rPos + 1 >= maxPart)
  <2>1. rpc' = "switch" /\ sendChunkTask(FALSE, wpc)
    BY <1>3, Zenon DEF finishBuf
  <2>2. PICK L : L = rPos + 1
    BY Zenon
  <2>3. L = Lo' /\ L = Lo + 1 /\ L < maxPart /\ Len(bufs[getBuf(Lo)].data) = ChunkSize(Lo)
    <3>1. L < maxPart
      BY <1>1, <1>3, <2>2, Sizes
    <3> QED  BY <1>0, <1>1, <2>1, <2>2, <3>1, Zenon DEF Lo
  <2>4. \A x \in Workers : wpc[x] \in {"try", "body", "copy", "judge", "over"} =>
                              Active(x) /\ Progress(wpc[x], job[x])
    BY Zenon DEF DInv, Flow, JobsFit, Active
  <2>5. /\ Types' /\ Flow'
        /\ \A k \in L..(next - 1) :
              getBuf(k)' = getBuf(k) /\ bufs'[getBuf(k)] = bufs[getBuf(k)]
        /\ \A k \in L..(next' - 1) : ~(k \in L..(next - 1)) => bufs'[getBuf(k)'].offR = 0
    <3>1. DOMAIN wpc = Workers /\ FALSE \in BOOLEAN /\ rpc' # "start"
      BY <2>1, Zenon DEF DInv, Types
    <3> QED  BY <1>0, <2>1, <2>3, <2>4, <3>1, SendFlow, Zenon
  <2>6. Reading'
    <3>1. \A k \in L..(next - 1) : k \in Lo..(next - 1) /\ k # rPos
      BY <1>0, <1>1, <2>3, Bounds
    <3>2. \A k \in L..(next' - 1) : bufs'[getBuf(k)'].offR = 0
      BY <2>5, <3>1, Zenon DEF DInv, Reading
    <3>3. InOrder'
      BY <1>0, <2>1, Zenon DEF DInv, Reading, InOrder
    <3> QED  BY <1>0, <1>1, <2>1, <2>3, <3>2, <3>3, Zenon DEF Reading
  <2> QED  BY <2>5, <2>6, Zenon DEF DInv
<1> QED  BY <1>2, <1>3, Zenon

(* An answered worker opens a further connection, if there is one left.    *)
LEMMA ExpandStep ==
    ASSUME DInv, NEW w \in Workers, Expand(w)
    PROVE  DInv'
<1>0. /\ wpc[w] = "body" /\ Active(w) /\ DOMAIN wpc = Workers
      /\ UNCHANGED <<rpc, rPos, cur, out, job>>
  BY Zenon DEF Expand, Active, DInv, Types, reader
<1>s. rpc # "start"
  BY <1>0, Started, Zenon
<1>1. PICK pcs, L : pcs = [wpc EXCEPT ![w] = "copy"] /\ L = Lo'
  BY Zenon
<1>2. sendChunkTask(TRUE, pcs) /\ DOMAIN pcs = Workers /\ L = Lo
  BY <1>0, <1>1, Zenon DEF Expand, Lo
<1>3. \A x \in Workers : pcs[x] \in {"try", "body", "copy", "judge", "over"} =>
                            Active(x) /\ Progress(pcs[x], job[x])
  <2>1. \A x \in Workers : Active(x) => Progress(wpc[x], job[x])
    BY Zenon DEF DInv, Flow, JobsFit
  <2>2. Progress("copy", job[w])
    BY <1>0, <2>1, Zenon DEF Progress
  <2> QED  BY <1>0, <1>1, <2>1, <2>2, Zenon DEF Active
<1>4. /\ Types' /\ Flow'
      /\ \A k \in L..(next - 1) :
            getBuf(k)' = getBuf(k) /\ bufs'[getBuf(k)] = bufs[getBuf(k)]
      /\ \A k \in L..(next' - 1) : ~(k \in L..(next - 1)) => bufs'[getBuf(k)'].offR = 0
  BY <1>0, <1>s, <1>1, <1>2, <1>3, SendFlow, Zenon
<1>5. Reading'
  <2>1. \A k \in L..(next' - 1) : k # rPos => bufs'[getBuf(k)'].offR = 0
    BY <1>2, <1>4, Zenon DEF DInv, Reading
  <2>2. InOrder'
    BY <1>0, Zenon DEF DInv, Reading, InOrder
  <2>3. ASSUME rpc # "switch", NEW p, p = rPos
        PROVE  /\ cur = getBuf(p)' /\ bufs'[cur].offR <= Len(bufs'[cur].data)
               /\ Len(out) = Offset(p) + bufs'[cur].offR
               /\ rpc = "finish" => bufs'[cur].offR >= bufs'[cur].size
    <3>1. /\ p \in L..(next - 1) /\ cur = getBuf(p) /\ bufs[cur].offR <= Len(bufs[cur].data)
          /\ Len(out) = Offset(p) + bufs[cur].offR
          /\ rpc = "finish" => bufs[cur].offR >= bufs[cur].size
      BY <1>s, <1>2, <2>3, AtReader, Zenon DEF DInv, Reading
    <3> QED  BY <1>4, <3>1, Zenon
  <2>4. rpc = "switch" => Len(out) = Offset(rPos + 1)
    BY Zenon DEF DInv, Reading
  <2>5. PICK p : p = rPos
    BY Zenon
  <2>6. getBuf(p)' = getBuf(rPos)'
    BY <1>0, <2>5, Zenon DEF getBuf
  <2> QED  BY <1>0, <1>s, <1>1, <2>1, <2>2, <2>3, <2>4, <2>5, <2>6, Zenon DEF Reading
<1> QED  BY <1>4, <1>5, Zenon DEF DInv

(* download: the first chunk, its buffer and its worker.                   *)
LEMMA DownloadStep ==
    ASSUME DInv, Download
    PROVE  DInv'
<1>0. /\ next = 0 /\ queue = << >> /\ rPos = 0 /\ cur = 1 /\ out = << >>
      /\ \A w \in Workers : wpc[w] = "new"
      /\ job \in [Workers -> Job] /\ DOMAIN wpc = Workers /\ conc \in Int /\ conc <= Conns
      /\ UNCHANGED <<rPos, cur, out, job>> /\ next' = 1 /\ pos' = ChunkSize(0)
  BY Zenon DEF Download, DInv, Types, Flow, Ring
<1>1. /\ Offset(1) = ChunkSize(0) /\ ChunkSize(0) \in Nat /\ ChunkSize(0) > 0 /\ maxPart \in Nat
      /\ maxPart >= 2 /\ Conns \in Nat
  <2>1. 0 \in Nat /\ 0 < maxPart /\ 0 + 1 = 1
    BY Sizes
  <2>2. Offset(1) = Offset(0) + ChunkSize(0) /\ Offset(0) = 0 /\ ChunkSize(0) \in Nat \ {0}
    BY <2>1, Sizes, Zenon
  <2> QED  BY <2>2, Sizes, DownloaderAssumption DEF Conns
<1>2. PICK v : /\ bufs' = <<v>> /\ v \in Buf /\ v.size = ChunkSize(0)
               /\ v.data = << >> /\ v.offR = 0
  <2>1. PICK u \in Buf, size \in Nat : u = NewBuf(PartSize) /\ size = ChunkSize(0)
    BY <1>1, FreshBuf, Zenon
  <2>2. PICK v : /\ v = Reset(u, size) /\ v \in Buf /\ v.size = size
                 /\ v.data = << >> /\ v.offR = 0
    BY ResetBuf, Zenon
  <2>3. bufs' = <<v>>
    BY <2>1, <2>2, Zenon DEF Download
  <2> QED  BY <2>1, <2>2, <2>3, Zenon
<1>3. /\ bufs' \in Seq(Buf) /\ Len(bufs') = 1 /\ bufs'[1] = v /\ 0 % 1 = 0
      /\ Len(v.data) = 0 /\ Len(out) = 0 /\ 1..0 = {} /\ 0..(1 - 1) = {0}
      /\ DOMAIN out = {}
  BY <1>0, <1>2
<1>4. getBuf(0)' = 1
  <2>1. getBuf(0)' = (0 % 1) + 1
    BY <1>3, Zenon DEF getBuf
  <2> QED  BY <1>3, <2>1
<1>5. PICK ch : ch = [id |-> 0, start |-> 0, size |-> ChunkSize(0), buf |-> 1, new |-> TRUE]
  BY Zenon
<1>6. ch \in Chunk /\ ch.id = 0 /\ ch.start = 0 /\ ch.size = ChunkSize(0) /\ ch.buf = 1
  BY <1>1, <1>5, Zenon DEF Chunk
<1>7. /\ queue' \in Seq(Chunk) /\ Len(queue') \in 0..1
      /\ \A i \in 1..Len(queue') : queue'[i] = ch /\ i = 1
  <2>1. queue' = queue \/ queue' = Append(queue, ch)
    BY <1>5, Zenon DEF Download, Queued
  <2>2. queue' = << >> \/ queue' = <<ch>>
    BY <1>0, <2>1
  <2>3. CASE queue' = << >>
    BY <2>3
  <2>4. CASE queue' = <<ch>>
    <3>1. <<ch>> \in Seq(Chunk) /\ Len(<<ch>>) = 1 /\ <<ch>>[1] = ch
      BY <1>6
    <3>2. \A i \in 1..1 : i = 1
      OBVIOUS
    <3>3. 1 \in 0..1
      OBVIOUS
    <3> QED  BY <2>4, <3>1, <3>2, <3>3, Zenon
  <2> QED  BY <2>2, <2>3, <2>4, Zenon
<1>8. /\ rpc' \in {"read", "closed"} /\ conc' \in Int /\ conc' <= Conns
      /\ DOMAIN wpc' = Workers /\ \A w \in Workers : wpc'[w] \in {"new", "recv"}
  <2>1. CASE Queued(ch, wpc) /\ rpc' = "read"
    <3>1. conc' = conc - 1 /\ wpc' = [wpc EXCEPT ![Conns - conc + 1] = "recv"]
      BY <1>5, <2>1, Zenon DEF Queued
    <3>2. conc' \in Int /\ conc' <= Conns
      BY <1>0, <1>1, <3>1
    <3> QED  BY <1>0, <2>1, <3>1, <3>2, Zenon
  <2>2. CASE interrupt /\ UNCHANGED wpc
    <3>1. rpc' = "closed" /\ conc' = IF conc > 0 THEN -conc ELSE conc
      BY <2>2, Zenon DEF interrupt
    <3>2. conc' \in Int /\ conc' <= Conns
      BY <1>0, <1>1, <3>1
    <3> QED  BY <1>0, <2>2, <3>1, <3>2, Zenon
  <2> QED  BY <1>5, <2>1, <2>2, Zenon DEF Download
<1>9. Lo' = 0 /\ \A w \in Workers : ~Active(w)'
  BY <1>0, <1>8, Zenon DEF Lo, Active
<1>10. Types'
  BY <1>0, <1>3, <1>7, <1>8, Zenon DEF DInv, Types
<1>11. Plan' /\ Ring'
  <2>1. Plan'
    BY <1>0, <1>1 DEF Plan, Offset, TooSmall, maxPart
  <2>2. Ring'
    BY <1>0, <1>1, <1>3, <1>8, <1>9 DEF Ring
  <2> QED  BY <2>1, <2>2
<1>12. BufsHold'
  <2>1. Holds(v, 0)
    BY <1>1, <1>2, <1>3 DEF Holds
  <2>2. \A k \in 0..(1 - 1) : Holds(bufs'[getBuf(k)'], k)
    BY <1>3, <1>4, <2>1, Zenon
  <2> QED  BY <1>0, <1>9, <2>2, Zenon DEF BufsHold, Holds
<1>13. QueueFits'
  <2>1. Continues(ch, 0)'
    <3>1. Offset(0) = 0 /\ 0 + ChunkSize(0) = Offset(0) + ChunkSize(0)
      BY <1>1, Sizes, Zenon
    <3>2. 0 + 0 = Offset(0) + 0
      BY <3>1, Zenon
    <3> QED  BY <1>2, <1>3, <1>4, <1>6, <3>1, <3>2, Zenon DEF Continues
  <2>2. ch.id \in 0..(1 - 1) /\ ch.size > 0
    BY <1>1, <1>6
  <2> QED  BY <1>0, <1>7, <1>9, <2>1, <2>2, Zenon DEF QueueFits, Continues
<1>14. JobsFit' /\ OnePlace'
  BY <1>7, <1>9, Zenon DEF JobsFit, OnePlace
<1>15. Reading'
  <2>1. InOrder'
    BY <1>0, <1>3, <1>8, Zenon DEF InOrder
  <2>2. cur' = getBuf(rPos)' /\ bufs'[cur'] = v /\ v.offR <= Len(v.data)
    <3>1. getBuf(rPos)' = getBuf(0)'
      BY <1>0, Zenon DEF getBuf
    <3>2. 0 <= 0
      OBVIOUS
    <3> QED  BY <1>0, <1>2, <1>3, <1>4, <3>1, <3>2, Zenon
  <2>3. Len(out') = Offset(rPos') + v.offR
    <3>1. Offset(0) = 0
      BY Sizes, Zenon
    <3> QED  BY <1>0, <1>2, <1>3, <3>1
  <2>4. \A k \in 0..(1 - 1) : k = rPos'
    BY <1>0
  <2> QED  BY <1>0, <1>8, <1>9, <2>1, <2>2, <2>3, <2>4, Zenon DEF Reading
<1> QED  BY <1>10, <1>11, <1>12, <1>13, <1>14, <1>15, Zenon DEF DInv, Flow

(* The invariant is inductive.                                             *)
LEMMA NextDInv == DInv /\ [Next]_vars => DInv'
<1> SUFFICES ASSUME DInv, [Next]_vars PROVE DInv'
  BY Zenon
<1>1. CASE Consumer
  BY <1>1, DownloadStep, ReadLoopStep, ReadWakeStep, FinishStep, NextBufStep, CloseStep, Zenon
     DEF Consumer
<1>2. CASE Cancel
  BY <1>2, CloseStep, Zenon
<1>3. ASSUME NEW w \in Workers, Worker(w) PROVE DInv'
  BY <1>3, ReceiveStep, EndSteps, ExpandStep, WriteStep, JudgeStep, OverloadStep, RequestStep, Zenon
     DEF Worker
<1>4. CASE UNCHANGED vars
  BY <1>4, StillStep, Zenon DEF vars, counters, reader
<1> QED  BY <1>1, <1>2, <1>3, <1>4, Zenon DEF Next

(* The invariant of the download.                                          *)
THEOREM DownloadInvariant == Spec => []DInv
  BY DInit, NextDInv, PTL DEF Spec

(* The consumer gets the bytes of the range in order, none twice and none  *)
(* left out, and io.EOF only after the last one: for every range, part     *)
(* size, concurrency and number of retries, and whatever the remote does   *)
(* with the requests.                                                      *)
THEOREM BytesInOrder == Spec => []InOrder
<1>1. DInv => InOrder
  BY Zenon DEF DInv, Reading
<1> QED  BY <1>1, DownloadInvariant, PTL

=============================================================================
