---------------------------- MODULE WindowProofs ----------------------------
(***************************************************************************)
(* Proofs about Window, for every number of requests, chunk size, file     *)
(* size and number of slots.  In this order: the arithmetic of the ring    *)
(* and the geometry of the file; the inductive invariant and the initial   *)
(* states; one lemma per step of a writer, its deadline, its timer, the    *)
(* reader and the closer; the theorems; and that the window implements the *)
(* abstract ChunkStream.                                                   *)
(***************************************************************************)
EXTENDS Window, TLAPS

-----------------------------------------------------------------------------
(* Arithmetic of the ring. *)

(* A larger chunk number starts at least a whole chunk later. *)
LEMMA MulStep ==
  ASSUME NEW n \in Nat, NEW a \in Int, NEW b \in Int, a < b
  PROVE  a * n + n <= b * n
<1>1. PICK d \in Nat : b = a + 1 + d
  <2>1. b - a - 1 \in Nat
    OBVIOUS
  <2> QED
    BY <2>1
<1>2. b * n = a * n + n + d * n
  BY <1>1
<1>3. d * n >= 0
  OBVIOUS
<1> QED
  BY <1>2, <1>3

(* Division as the code uses it. *)
LEMMA DivFacts ==
  ASSUME NEW a \in Nat, NEW n \in Nat \ {0}
  PROVE  /\ a \div n \in Nat
         /\ (a \div n) * n <= a
         /\ a < (a \div n) * n + n
  OBVIOUS

(* a % n is the remainder of that division. *)
LEMMA ModFacts ==
  ASSUME NEW a \in Nat, NEW n \in Nat \ {0}
  PROVE  /\ a % n \in 0 .. n - 1
         /\ a = (a \div n) * n + (a % n)
  OBVIOUS

(* Two chunks less than a window apart never share a slot. *)
LEMMA SlotInjective ==
  ASSUME NEW n \in Nat \ {0}, NEW a \in Nat, NEW b \in Nat,
         a % n = b % n, a < b + n, b < a + n
  PROVE  a = b
<1> DEFINE qa == a \div n
           qb == b \div n
<1>1. /\ qa \in Nat /\ qb \in Nat
      /\ a = qa * n + (a % n)
      /\ b = qb * n + (b % n)
      /\ a % n \in Int /\ b % n \in Int
  <2>1. /\ a \div n \in Nat /\ a % n \in Int
        /\ a = (a \div n) * n + (a % n)
    OBVIOUS
  <2>2. /\ b \div n \in Nat /\ b % n \in Int
        /\ b = (b \div n) * n + (b % n)
    OBVIOUS
  <2> QED
    BY <2>1, <2>2, Zenon
<1> HIDE DEF qa, qb
<1>2. ~(qa < qb)
  <2> SUFFICES ASSUME qa < qb PROVE FALSE
    BY Zenon
  <2>1. qa * n + n <= qb * n
    BY <1>1, MulStep
  <2> QED
    BY <1>1, <2>1
<1>3. ~(qb < qa)
  <2> SUFFICES ASSUME qb < qa PROVE FALSE
    BY Zenon
  <2>1. qb * n + n <= qa * n
    BY <1>1, MulStep
  <2> QED
    BY <1>1, <2>1
<1>4. qa = qb
  BY <1>1, <1>2, <1>3
<1> QED
  BY <1>1, <1>4, Zenon

(* The quotient is the only number of whole chunks that fits. *)
LEMMA DivUnique ==
  ASSUME NEW n \in Nat \ {0}, NEW a \in Nat, NEW q \in Int,
         q * n <= a, a < q * n + n
  PROVE  a \div n = q
<1> DEFINE d == a \div n
<1>1. d \in Nat /\ d * n <= a /\ a < d * n + n
  BY DivFacts, Zenon
<1> HIDE DEF d
<1>2. ~(d < q)
  <2> SUFFICES ASSUME d < q PROVE FALSE
    BY Zenon
  <2>1. d * n + n <= q * n
    BY <1>1, MulStep
  <2> QED
    BY <1>1, <2>1
<1>3. ~(q < d)
  <2> SUFFICES ASSUME q < d PROVE FALSE
    BY Zenon
  <2>1. q * n + n <= d * n
    BY <1>1, MulStep
  <2> QED
    BY <1>1, <2>1
<1>4. d = q
  BY <1>1, <1>2, <1>3
<1> QED
  BY <1>4, Zenon DEF d

-----------------------------------------------------------------------------
(* Geometry of the file. *)

(* total chunks cover the file and the last one is not empty. *)
LEMMA TotalFacts ==
  /\ total \in Nat \ {0}
  /\ (total - 1) * ChunkSize < TotalSize
  /\ TotalSize <= total * ChunkSize
<1> DEFINE a == TotalSize + ChunkSize - 1
<1>1. a \in Nat /\ ChunkSize \in Nat \ {0} /\ TotalSize \in Nat \ {0}
  BY WindowAssumption
<1>2. total = a \div ChunkSize
  BY Zenon DEF total
<1>3. total \in Nat /\ total * ChunkSize <= a /\ a < total * ChunkSize + ChunkSize
  BY <1>1, <1>2, DivFacts, Zenon
<1>4. total # 0
  <2> SUFFICES ASSUME total = 0 PROVE FALSE
    BY Zenon
  <2> QED
    BY <1>1, <1>3
<1>5. (total - 1) * ChunkSize = total * ChunkSize - ChunkSize
  BY <1>1, <1>3
<1> QED
  BY <1>1, <1>3, <1>4, <1>5

(* Every chunk has between 1 and ChunkSize bytes and ends inside the file; *)
(* only the last one may end before the next multiple of ChunkSize.        *)
LEMMA ChunkFacts ==
  ASSUME NEW i \in Chunks
  PROVE  /\ i \in Nat /\ i * ChunkSize \in Nat
         /\ ChunkLen(i) \in 1 .. ChunkSize
         /\ i * ChunkSize + ChunkLen(i) <= TotalSize
         /\ i # total - 1 => ChunkLen(i) = ChunkSize
         /\ i = total - 1 => i * ChunkSize + ChunkLen(i) = TotalSize
<1>1. i \in Nat /\ total \in Nat \ {0} /\ i <= total - 1
  BY TotalFacts DEF Chunks
<1>2. ChunkSize \in Nat \ {0} /\ TotalSize \in Nat \ {0}
  BY WindowAssumption, Zenon
<1>3. i * ChunkSize \in Nat
  BY <1>1, <1>2
<1>4. CASE i = total - 1
  <2>1. total * ChunkSize = i * ChunkSize + ChunkSize
    BY <1>1, <1>2, <1>4
  <2>2. i * ChunkSize < TotalSize /\ TotalSize <= i * ChunkSize + ChunkSize
    BY <1>4, <2>1, TotalFacts, Zenon
  <2> QED
    BY <1>1, <1>2, <1>3, <1>4, <2>2 DEF ChunkLen
<1>5. CASE i < total - 1
  <2>1. i * ChunkSize + ChunkSize <= (total - 1) * ChunkSize
    BY <1>1, <1>2, <1>5, MulStep
  <2>2. (total - 1) * ChunkSize < TotalSize
    BY TotalFacts, Zenon
  <2>3. (total - 1) * ChunkSize \in Int
    BY <1>1, <1>2
  <2> QED
    BY <1>1, <1>2, <1>3, <1>5, <2>1, <2>2, <2>3 DEF ChunkLen
<1> QED
  BY <1>1, <1>4, <1>5

(* A position of the file lies inside the chunk its quotient names. *)
LEMMA PosFacts ==
  ASSUME NEW p \in 0 .. TotalSize - 1
  PROVE  LET c == p \div ChunkSize IN
         /\ c \in Chunks
         /\ c * ChunkSize <= p
         /\ p < c * ChunkSize + ChunkLen(c)
<1> DEFINE c == p \div ChunkSize
<1>1. p \in Nat /\ p < TotalSize /\ ChunkSize \in Nat \ {0} /\ TotalSize \in Nat
  BY WindowAssumption
<1>2. c \in Nat /\ c * ChunkSize <= p /\ p < c * ChunkSize + ChunkSize
  BY <1>1, DivFacts, Zenon
<1> HIDE DEF c
<1>3. total \in Nat \ {0} /\ TotalSize <= total * ChunkSize
  BY TotalFacts, Zenon
<1>4. c < total
  <2> SUFFICES ASSUME total <= c PROVE FALSE
    BY <1>2, <1>3
  <2>1. total * ChunkSize <= c * ChunkSize
    <3>1. CASE total = c
      BY <1>1, <1>2, <3>1
    <3>2. CASE total < c
      <4>1. total * ChunkSize + ChunkSize <= c * ChunkSize
        BY <1>1, <1>2, <1>3, <3>2, MulStep
      <4>2. total * ChunkSize \in Int /\ c * ChunkSize \in Int
        BY <1>1, <1>2, <1>3
      <4> QED
        BY <1>1, <4>1, <4>2
    <3> QED
      BY <1>2, <1>3, <3>1, <3>2
  <2>2. total * ChunkSize \in Int /\ c * ChunkSize \in Int
    BY <1>1, <1>2, <1>3
  <2> QED
    BY <1>1, <1>2, <1>3, <2>1, <2>2
<1>5. c \in Chunks
  BY <1>2, <1>3, <1>4 DEF Chunks
<1>6. p < c * ChunkSize + ChunkLen(c)
  <2>1. c # total - 1 => ChunkLen(c) = ChunkSize
    BY <1>5, ChunkFacts, Zenon
  <2>2. c = total - 1 => c * ChunkSize + ChunkLen(c) = TotalSize
    BY <1>5, ChunkFacts, Zenon
  <2> QED
    BY <1>1, <1>2, <2>1, <2>2, Zenon
<1> QED
  BY <1>2, <1>5, <1>6, Zenon DEF c

(* The j-th byte of chunk i is a position of chunk i and of no other. *)
LEMMA ByteOfChunk ==
  ASSUME NEW i \in Chunks, NEW j \in 0 .. ChunkLen(i) - 1
  PROVE  /\ i * ChunkSize + j \in 0 .. TotalSize - 1
         /\ (i * ChunkSize + j) \div ChunkSize = i
<1>1. /\ i \in Nat /\ i * ChunkSize \in Nat
      /\ ChunkLen(i) \in 1 .. ChunkSize
      /\ i * ChunkSize + ChunkLen(i) <= TotalSize
  BY ChunkFacts, Zenon
<1>2. ChunkSize \in Nat \ {0} /\ TotalSize \in Nat
  BY WindowAssumption, Zenon
<1> DEFINE p == i * ChunkSize + j
<1>3. /\ p \in Nat /\ p <= TotalSize - 1 /\ i \in Int
      /\ i * ChunkSize <= p /\ p < i * ChunkSize + ChunkSize
  BY <1>1, <1>2
<1> HIDE DEF p
<1>4. p \div ChunkSize = i
  BY <1>2, <1>3, DivUnique, Zenon
<1> QED
  BY <1>2, <1>3, <1>4 DEF p

(* The frontier as a function of the read position. *)
FrontierOf(r) == IF r >= TotalSize THEN total ELSE r \div ChunkSize

(* The frontier chunk is the one the next byte belongs to. *)
LEMMA FrontierFacts ==
  ASSUME NEW r \in 0 .. TotalSize
  PROVE  /\ FrontierOf(r) \in 0 .. total
         /\ r < TotalSize =>
              LET c == r \div ChunkSize IN
              /\ FrontierOf(r) = c
              /\ c \in Chunks
              /\ c * ChunkSize <= r
              /\ r < c * ChunkSize + ChunkLen(c)
<1>1. CASE r = TotalSize
  BY <1>1, TotalFacts, WindowAssumption DEF FrontierOf
<1>2. CASE r < TotalSize
  <2> DEFINE c == r \div ChunkSize
  <2>1. r \in 0 .. TotalSize - 1
    BY <1>2, WindowAssumption
  <2>2. c \in Chunks /\ c * ChunkSize <= r /\ r < c * ChunkSize + ChunkLen(c)
    BY <2>1, PosFacts, Zenon
  <2>3. FrontierOf(r) = c
    BY <1>2, WindowAssumption DEF FrontierOf
  <2>4. c \in 0 .. total
    BY <2>2, TotalFacts DEF Chunks
  <2> QED
    BY <2>2, <2>3, <2>4, Zenon
<1> QED
  BY <1>1, <1>2, WindowAssumption

(* A chunk is read to its end exactly when it lies below the frontier. *)
LEMMA ConsumedBelow ==
  ASSUME NEW r \in 0 .. TotalSize, NEW i \in Chunks
  PROVE  i * ChunkSize + ChunkLen(i) <= r <=> i < FrontierOf(r)
<1>1. /\ i \in Nat /\ i * ChunkSize \in Nat
      /\ ChunkLen(i) \in 1 .. ChunkSize
      /\ i * ChunkSize + ChunkLen(i) <= TotalSize
  BY ChunkFacts, Zenon
<1>2. ChunkSize \in Nat \ {0} /\ TotalSize \in Nat /\ r \in Nat
  BY WindowAssumption
<1>3. CASE r = TotalSize
  <2>1. FrontierOf(r) = total /\ i < total
    BY <1>2, <1>3, TotalFacts DEF FrontierOf, Chunks
  <2> QED
    BY <1>1, <1>2, <1>3, <2>1, Zenon
<1>4. CASE r < TotalSize
  <2> DEFINE c == FrontierOf(r)
  <2>1. /\ c \in Chunks /\ c * ChunkSize <= r /\ r < c * ChunkSize + ChunkLen(c)
    BY <1>4, FrontierFacts, Zenon
  <2>2. /\ c \in Nat /\ c * ChunkSize \in Nat /\ ChunkLen(c) \in 1 .. ChunkSize
    BY <2>1, ChunkFacts, Zenon
  <2> HIDE DEF c
  <2>3. CASE i < c
    <3>1. i * ChunkSize + ChunkSize <= c * ChunkSize
      BY <1>1, <1>2, <2>2, <2>3, MulStep
    <3> QED
      BY <1>1, <1>2, <2>1, <2>2, <2>3, <3>1 DEF c
  <2>4. CASE i = c
    BY <1>1, <1>2, <2>1, <2>2, <2>4 DEF c
  <2>5. CASE c < i
    <3>1. c * ChunkSize + ChunkSize <= i * ChunkSize
      BY <1>1, <1>2, <2>2, <2>5, MulStep
    <3> QED
      BY <1>1, <1>2, <2>1, <2>2, <2>5, <3>1 DEF c
  <2> QED
    BY <1>1, <2>2, <2>3, <2>4, <2>5
<1> QED
  BY <1>2, <1>3, <1>4, WindowAssumption

(* A read inside the frontier chunk leaves the frontier where it is until  *)
(* it reaches the chunk's end, and then moves it by one.                   *)
LEMMA FrontierStep ==
  ASSUME NEW r \in 0 .. TotalSize - 1, NEW k \in Nat,
         r + k <= FrontierOf(r) * ChunkSize + ChunkLen(FrontierOf(r))
  PROVE  /\ r + k \in 0 .. TotalSize
         /\ r + k < FrontierOf(r) * ChunkSize + ChunkLen(FrontierOf(r)) =>
              FrontierOf(r + k) = FrontierOf(r)
         /\ r + k >= FrontierOf(r) * ChunkSize + ChunkLen(FrontierOf(r)) =>
              FrontierOf(r + k) = FrontierOf(r) + 1
<1> DEFINE c == FrontierOf(r)
<1>1. ChunkSize \in Nat \ {0} /\ TotalSize \in Nat /\ r \in Nat /\ r < TotalSize
  BY WindowAssumption
<1>2. c \in Chunks /\ c * ChunkSize <= r /\ r < c * ChunkSize + ChunkLen(c)
  <2>1. r \in 0 .. TotalSize
    BY <1>1
  <2> QED
    BY <1>1, <2>1, FrontierFacts, Zenon
<1>3. /\ c \in Nat /\ c * ChunkSize \in Nat
      /\ ChunkLen(c) \in 1 .. ChunkSize
      /\ c * ChunkSize + ChunkLen(c) <= TotalSize
      /\ c # total - 1 => ChunkLen(c) = ChunkSize
      /\ c = total - 1 => c * ChunkSize + ChunkLen(c) = TotalSize
  BY <1>2, ChunkFacts, Zenon
<1>4. r + k <= c * ChunkSize + ChunkLen(c)
  BY Zenon
<1> HIDE DEF c
<1> DEFINE q == r + k
<1>5. q \in 0 .. TotalSize
  BY <1>1, <1>3, <1>4
<1>6. ASSUME q < c * ChunkSize + ChunkLen(c)
      PROVE  FrontierOf(q) = c
  <2>1. /\ q \in Nat /\ q < TotalSize /\ c \in Int
        /\ c * ChunkSize <= q /\ q < c * ChunkSize + ChunkSize
    BY <1>1, <1>2, <1>3, <1>6
  <2> HIDE DEF q
  <2>2. q \div ChunkSize = c
    BY <1>1, <2>1, DivUnique, Zenon
  <2> QED
    BY <1>1, <2>1, <2>2 DEF FrontierOf
<1>7. ASSUME q >= c * ChunkSize + ChunkLen(c)
      PROVE  FrontierOf(q) = c + 1
  <2>1. q = c * ChunkSize + ChunkLen(c)
    BY <1>1, <1>3, <1>4, <1>7
  <2>2. CASE c = total - 1
    BY <1>1, <1>3, <2>1, <2>2, TotalFacts DEF FrontierOf
  <2>3. CASE c # total - 1
    <3>1. c + 1 \in Chunks
      BY <1>2, <2>3, TotalFacts DEF Chunks
    <3>2. (c + 1) * ChunkSize = q
      BY <1>1, <1>3, <2>1, <2>3
    <3>3. (c + 1) * ChunkSize + ChunkLen(c + 1) <= TotalSize /\ ChunkLen(c + 1) \in 1 .. ChunkSize
      BY <3>1, ChunkFacts, Zenon
    <3>4. /\ q < TotalSize /\ q \in Nat /\ c + 1 \in Int
          /\ (c + 1) * ChunkSize <= q /\ q < (c + 1) * ChunkSize + ChunkSize
      BY <1>1, <1>3, <1>5, <3>2, <3>3
    <3> HIDE DEF q
    <3>5. q \div ChunkSize = c + 1
      BY <1>1, <3>4, DivUnique, Zenon
    <3> QED
      BY <1>1, <3>4, <3>5 DEF FrontierOf
  <2> QED
    BY <2>2, <2>3, Zenon
<1> QED
  BY <1>5, <1>6, <1>7, Zenon DEF c

-----------------------------------------------------------------------------
(* The inductive invariant. *)

(* The first n bytes of slot s are those of body v of chunk i. *)
BytesAt(s, i, n, v) ==
  \A j \in 0 .. n - 1 : ring[s][j] = [pos |-> i * ChunkSize + j, of |-> v]

(* A waiting call carries its arguments and has copied nothing. *)
WaitInv ==
  \A w \in Writers :
    pc[w] \in {"parked", "woken"} => call[w].body \in Bodies /\ call[w].n = 0

(* A copying writer owns its slot, alone, and has written a prefix of it.  *)
(* After a close it writes on, into a slot nobody else uses.               *)
CopyInv ==
  \A w \in Writers :
    pc[w] = "copy" =>
      /\ call[w].body \in Bodies
      /\ call[w].n <= ChunkLen(call[w].idx)
      /\ BytesAt(call[w].idx % Slots, call[w].idx, call[w].n, call[w].body)
      /\ err = None => Holds(call[w].idx % Slots, call[w].idx, "filling")
      /\ \A x \in Writers : pc[x] = "copy" /\ x # w =>
           call[x].idx % Slots # call[w].idx % Slots

(* A ready slot holds its whole chunk, from the body its CRC names. *)
ReadyInv ==
  \A s \in SlotIds :
    slotState[s] = "ready" =>
      /\ crcs[slotChunk[s]] \in Bodies
      /\ BytesAt(s, slotChunk[s], ChunkLen(slotChunk[s]), crcs[slotChunk[s]])

(* A closed window has no occupied slot, and only a closed one has given   *)
(* its file away.                                                          *)
CloseInv ==
  /\ err # None => \A s \in SlotIds : slotState[s] = "free"
  /\ err = None <=> file = "open"

(* A chunk that has been read in part is still in its slot. *)
PartialInv ==
  err = None /\ readPos < TotalSize /\ cur * ChunkSize < readPos =>
    Holds(cur % Slots, cur, "ready")

(* A read under way reads the frontier chunk, whose slot no copy shares. *)
ReadInv ==
  rpc \in {"readat", "commit"} =>
    /\ readPos < TotalSize
    /\ crcs[cur] \in Bodies
    /\ readPos + want <= cur * ChunkSize + ChunkLen(cur)
    /\ err = None => Holds(cur % Slots, cur, "ready")
    /\ rpc = "readat" =>
         /\ BytesAt(cur % Slots, cur, ChunkLen(cur), crcs[cur])
         /\ \A w \in Writers : pc[w] = "copy" => call[w].idx % Slots # cur % Slots
    /\ rpc = "commit" =>
         \A j \in 0 .. want - 1 : rbuf[j] = [pos |-> readPos + j, of |-> crcs[cur]]

(* Every chunk a byte was delivered from has its CRC. *)
FilledInv == \A p \in 0 .. readPos - 1 : crcs[p \div ChunkSize] \in Bodies

IInv ==
  /\ TypeOK
  /\ SlotsInWindow
  /\ WaitInv
  /\ CopyInv
  /\ ReadyInv
  /\ CloseInv
  /\ PartialInv
  /\ ReadInv
  /\ FilledInv
  /\ StreamIntact
  /\ AckedStored
  /\ NoLostWakeup

-----------------------------------------------------------------------------
(* What the types give about the frontier and the slots. *)
LEMMA StateFacts ==
  ASSUME TypeOK
  PROVE  /\ frontier \in 0 .. total
         /\ readPos < TotalSize =>
              /\ frontier = cur
              /\ cur \in Chunks
              /\ cur * ChunkSize <= readPos
              /\ readPos < cur * ChunkSize + ChunkLen(cur)
         /\ \A i \in Chunks : Consumed(i) <=> i < frontier
         /\ \A i \in Chunks : i % Slots \in SlotIds
<1>1. readPos \in 0 .. TotalSize
  BY Zenon DEF TypeOK
<1>2. frontier = FrontierOf(readPos)
  BY Zenon DEF frontier, FrontierOf
<1>3. \A i \in Chunks : Consumed(i) <=> i < frontier
  BY <1>1, <1>2, ConsumedBelow, Zenon DEF Consumed
<1>4. \A i \in Chunks : i % Slots \in SlotIds
  BY TotalFacts, WindowAssumption DEF Chunks, SlotIds
<1>5. readPos < TotalSize =>
        /\ frontier = cur
        /\ cur \in Chunks
        /\ cur * ChunkSize <= readPos
        /\ readPos < cur * ChunkSize + ChunkLen(cur)
  BY <1>1, <1>2, FrontierFacts, Zenon DEF cur
<1> QED
  BY <1>1, <1>2, <1>3, <1>4, <1>5, FrontierFacts, Zenon

(* The invariant holds in a new window. *)
LEMMA InitInv == Init => IInv
<1> SUFFICES ASSUME Init PROVE IInv
  BY Zenon
<1> USE DEF Init, NewWindow
<1>1. TypeOK
  <2>1. 0 \in Chunks /\ NoCall \in Call
    BY TotalFacts, WindowAssumption DEF Chunks, Call, NoCall
  <2> QED
    BY <2>1, WindowAssumption DEF TypeOK, SlotIds
<1>2. SlotsInWindow
  BY Zenon DEF SlotsInWindow
<1>3. WaitInv /\ CopyInv
  BY Zenon DEF WaitInv, CopyInv
<1>4. ReadyInv /\ CloseInv
  BY Zenon DEF ReadyInv, CloseInv
<1>5. PartialInv
  <2>1. readPos = 0 /\ 0 \in 0 .. TotalSize - 1
    BY WindowAssumption
  <2>2. cur \in Chunks
    BY <2>1, PosFacts, Zenon DEF cur
  <2>3. cur * ChunkSize \in Nat
    BY <2>2, ChunkFacts, Zenon
  <2> QED
    BY <2>1, <2>3 DEF PartialInv
<1>6. ReadInv /\ FilledInv /\ StreamIntact /\ AckedStored /\ NoLostWakeup
  BY DEF ReadInv, FilledInv, StreamIntact, AckedStored, NoLostWakeup
<1> QED
  BY <1>1, <1>2, <1>3, <1>4, <1>5, <1>6, Zenon DEF IInv

(* The conjuncts about the slots, the ring and the stream. *)
CoreInv ==
  /\ SlotsInWindow /\ CopyInv /\ ReadyInv /\ PartialInv
  /\ ReadInv /\ FilledInv /\ StreamIntact

(* A step that changes no slot, no byte and no CRC, starts no copy and no  *)
(* read, keeps them.                                                       *)
LEMMA Frame ==
  ASSUME IInv,
         UNCHANGED <<slotVars, readPos, crcs, err, ring, sink>>,
         \A x \in Writers : pc'[x] = "copy" => pc[x] = "copy" /\ call'[x] = call[x],
         rpc' \in {"readat", "commit"} => rpc' = rpc /\ want' = want /\ rbuf' = rbuf
  PROVE  CoreInv'
<1> USE DEF slotVars
<1>1. frontier' = frontier /\ cur' = cur
  BY Zenon DEF frontier, cur
<1>2. SlotsInWindow'
  BY <1>1, Zenon DEF IInv, SlotsInWindow
<1>3. CopyInv'
  BY DEF IInv, CopyInv, Holds, BytesAt
<1>4. ReadyInv'
  BY Zenon DEF IInv, ReadyInv, BytesAt
<1>5. PartialInv'
  BY <1>1, Zenon DEF IInv, PartialInv, Holds
<1>6. ReadInv'
  BY <1>1, Zenon DEF IInv, ReadInv, Holds, BytesAt
<1>7. FilledInv' /\ StreamIntact'
  BY Zenon DEF IInv, FilledInv, StreamIntact
<1> QED
  BY <1>2, <1>3, <1>4, <1>5, <1>6, <1>7, Zenon DEF CoreInv

-----------------------------------------------------------------------------
(* The steps of a writer up to the end of its copy. *)

(* A call that returns without touching a slot. *)
LEMMA FailStep ==
  ASSUME IInv, NEW w \in Writers, Fail(w),
         UNCHANGED <<readPos, crcs, err, file, ring, readerVars, sink>>
  PROVE  IInv'
<1> USE DEF Fail, Leave, readerVars, slotVars
<1>1. TypeOK'
  <2>1. NoCall \in Call
    BY TotalFacts, WindowAssumption DEF Chunks, Call, NoCall
  <2> QED
    BY <2>1, Zenon DEF IInv, TypeOK
<1>2. CoreInv'
  BY Frame, Zenon DEF IInv, TypeOK
<1>3. frontier' = frontier /\ cur' = cur
  BY Zenon DEF frontier, cur
<1>4. WaitInv' /\ CloseInv' /\ AckedStored'
  BY Zenon DEF IInv, TypeOK, WaitInv, CloseInv, AckedStored, Holds, Consumed
<1>5. NoLostWakeup'
  BY <1>3, Zenon DEF IInv, TypeOK, NoLostWakeup, Holds
<1> QED
  BY <1>1, <1>2, <1>4, <1>5, Zenon DEF IInv, CoreInv

(* A call that reports success for a chunk the window has. *)
LEMMA AcknowledgeStep ==
  ASSUME IInv, NEW w \in Writers, NEW i \in Chunks, Acknowledge(w, i),
         err = None, Consumed(i) \/ Holds(i % Slots, i, "ready"),
         UNCHANGED <<readPos, crcs, err, file, ring, readerVars, sink>>
  PROVE  IInv'
<1> USE DEF Acknowledge, Leave, readerVars, slotVars
<1>0. crcs[i] \in Bodies
  <2>1. CASE Consumed(i)
    <3> DEFINE p == i * ChunkSize
    <3>1. /\ p \in Nat /\ ChunkLen(i) \in 1 .. ChunkSize /\ p + ChunkLen(i) <= readPos
      BY <2>1, ChunkFacts, Zenon DEF Consumed
    <3>2. 0 \in 0 .. ChunkLen(i) - 1 /\ readPos \in Int
      BY <3>1, WindowAssumption DEF IInv, TypeOK
    <3>3. (p + 0) \div ChunkSize = i
      BY <3>2, ByteOfChunk, Zenon
    <3> HIDE DEF p
    <3>4. p \in 0 .. readPos - 1 /\ p \div ChunkSize = i
      BY <3>1, <3>2, <3>3, WindowAssumption
    <3> QED
      BY <3>4, Zenon DEF IInv, FilledInv
  <2>2. CASE Holds(i % Slots, i, "ready")
    BY <2>2, StateFacts, Zenon DEF IInv, ReadyInv, Holds
  <2> QED
    BY <2>1, <2>2, Zenon
<1>1. TypeOK'
  <2>1. NoCall \in Call
    BY TotalFacts, WindowAssumption DEF Chunks, Call, NoCall
  <2> QED
    BY <1>0, <2>1 DEF IInv, TypeOK
<1>2. CoreInv'
  BY Frame, Zenon DEF IInv, TypeOK
<1>3. frontier' = frontier /\ cur' = cur
  BY Zenon DEF frontier, cur
<1>4. WaitInv' /\ CloseInv'
  BY Zenon DEF IInv, TypeOK, WaitInv, CloseInv
<1>5. AckedStored'
  BY DEF IInv, AckedStored, Holds, Consumed
<1>6. NoLostWakeup'
  BY <1>3, Zenon DEF IInv, TypeOK, NoLostWakeup, Holds
<1> QED
  BY <1>1, <1>2, <1>4, <1>5, <1>6, Zenon DEF IInv, CoreInv

(* A call that waits: its chunk is a whole window ahead. *)
LEMMA ParkStep ==
  ASSUME IInv, NEW w \in Writers, NEW c \in Call, Park(w, c),
         c.body \in Bodies, c.n = 0, err = None, c.idx >= frontier + Slots,
         UNCHANGED <<readPos, crcs, err, file, ring, readerVars, sink>>
  PROVE  IInv'
<1> USE DEF Park, readerVars, slotVars
<1>1. TypeOK'
  BY Zenon DEF IInv, TypeOK
<1>2. CoreInv'
  BY Frame, Zenon DEF IInv, TypeOK
<1>3. frontier' = frontier /\ cur' = cur
  BY Zenon DEF frontier, cur
<1>4. WaitInv' /\ CloseInv' /\ AckedStored'
  BY DEF IInv, TypeOK, WaitInv, CloseInv, AckedStored, Holds, Consumed
<1>5. NoLostWakeup'
  BY <1>3, Zenon DEF IInv, TypeOK, NoLostWakeup, Holds
<1> QED
  BY <1>1, <1>2, <1>4, <1>5, Zenon DEF IInv, CoreInv

(* A call that claims the free slot of its chunk. *)
LEMMA BeginCopyStep ==
  ASSUME IInv, NEW w \in Writers, NEW c \in Call, BeginCopy(w, c),
         c.body \in Bodies, c.n = 0, err = None,
         pc[w] # "copy", ~Consumed(c.idx), Admissible(c.idx),
         UNCHANGED <<readPos, crcs, err, file, ring, readerVars, sink>>
  PROVE  IInv'
<1> USE DEF readerVars
<1> DEFINE i == c.idx
           s == i % Slots
<1>1. /\ i \in Chunks /\ i \in Nat /\ s \in SlotIds /\ c.n <= ChunkLen(i)
      /\ slotState[s] = "free" /\ i < frontier + Slots /\ ~(i < frontier)
  <2>1. i \in Chunks
    BY Zenon DEF Call
  <2> QED
    BY <2>1, StateFacts, ChunkFacts, WindowAssumption DEF IInv, Admissible
<1>2. /\ slotState' = [slotState EXCEPT ![s] = "filling"]
      /\ slotChunk' = [slotChunk EXCEPT ![s] = i]
      /\ pc' = [pc EXCEPT ![w] = "copy"]
      /\ call' = [call EXCEPT ![w] = c]
      /\ acked' = acked
  BY Zenon DEF BeginCopy, SetSlot
<1>3. frontier' = frontier /\ cur' = cur /\ frontier \in Nat
  BY StateFacts, TotalFacts DEF frontier, cur, IInv
<1>4. s = c.idx % Slots /\ i = c.idx
  BY Zenon
<1> HIDE DEF i, s
<1>5. TypeOK'
  BY <1>1, <1>2 DEF IInv, TypeOK, BeginCopy
<1>6. SlotsInWindow'
  BY <1>1, <1>2, <1>3, <1>4, WindowAssumption DEF IInv, TypeOK, SlotsInWindow
<1>7. WaitInv' /\ CloseInv'
  BY <1>2, Zenon DEF IInv, TypeOK, WaitInv, CloseInv
<1>8. CopyInv'
  <2> SUFFICES ASSUME NEW x \in Writers, pc'[x] = "copy"
               PROVE  /\ call'[x].body \in Bodies
                      /\ call'[x].n <= ChunkLen(call'[x].idx)
                      /\ BytesAt(call[x].idx % Slots, call[x].idx, call[x].n, call[x].body)'
                      /\ Holds(call[x].idx % Slots, call[x].idx, "filling")'
                      /\ \A y \in Writers : pc'[y] = "copy" /\ y # x =>
                            call'[y].idx % Slots # call'[x].idx % Slots
    BY Zenon DEF CopyInv
  <2>1. \A y \in Writers : pc[y] = "copy" =>
          call[y].idx % Slots # s /\ call[y].idx % Slots \in SlotIds
    BY Zenon, <1>1, StateFacts DEF IInv, TypeOK, CopyInv, Holds, Call
  <2>2. CASE x = w
    BY <1>1, <1>2, <1>4, <2>1, <2>2 DEF IInv, TypeOK, BytesAt, Holds
  <2>3. CASE x # w
    <3>1. pc[x] = "copy" /\ call'[x] = call[x]
      BY <1>2, <2>3, Zenon DEF IInv, TypeOK
    <3>2. BytesAt(call[x].idx % Slots, call[x].idx, call[x].n, call[x].body)'
      BY <3>1 DEF IInv, CopyInv, BytesAt
    <3> QED
      BY <1>2, <1>4, <2>1, <3>1, <3>2, Zenon DEF IInv, TypeOK, CopyInv, Holds
  <2> QED
    BY <2>2, <2>3, Zenon
<1>9. ReadyInv'
  BY <1>1, <1>2 DEF IInv, TypeOK, ReadyInv, BytesAt
<1>10. PartialInv'
  BY <1>1, <1>2, <1>3, StateFacts, Zenon DEF IInv, TypeOK, PartialInv, Holds
<1>11. ReadInv'
  BY <1>1, <1>2, <1>3, <1>4, StateFacts, Zenon DEF IInv, TypeOK, ReadInv, Holds, BytesAt
<1>12. FilledInv' /\ StreamIntact'
  BY Zenon DEF IInv, FilledInv, StreamIntact
<1>13. AckedStored'
  BY <1>1, <1>2, StateFacts DEF IInv, TypeOK, AckedStored, Holds, Consumed
<1>14. NoLostWakeup'
  BY <1>1, <1>2, <1>3, StateFacts, Zenon DEF IInv, TypeOK, NoLostWakeup, Holds
<1> QED
  BY <1>5, <1>6, <1>7, <1>8, <1>9, <1>10, <1>11, <1>12, <1>13, <1>14, Zenon DEF IInv

(* An occupied slot is never the only reason to wait: inside the window it *)
(* could only hold the chunk itself.                                       *)
LEMMA WaitsAhead ==
  ASSUME IInv, NEW i \in Chunks, err = None, ~Consumed(i),
         slotChunk[i % Slots] # i, ~Admissible(i)
  PROVE  i >= frontier + Slots
<1> DEFINE s == i % Slots
<1>1. i \in Nat /\ s \in SlotIds /\ i >= frontier /\ frontier \in Nat
  BY StateFacts, TotalFacts, ChunkFacts DEF IInv
<1> SUFFICES ASSUME i < frontier + Slots PROVE FALSE
  BY <1>1, WindowAssumption
<1>2. slotState[s] # "free"
  BY Zenon DEF Admissible
<1> DEFINE k == slotChunk[s]
<1>3. /\ k \in Nat /\ k >= frontier /\ k < frontier + Slots /\ k % Slots = i % Slots
  BY <1>1, <1>2, WindowAssumption DEF IInv, SlotsInWindow
<1>4. k # i
  BY Zenon
<1> HIDE DEF k
<1>5. /\ Slots \in Nat \ {0} /\ k < i + Slots /\ i < k + Slots
  BY <1>1, <1>3, WindowAssumption
<1>6. k = i
  BY <1>1, <1>3, <1>5, SlotInjective, Zenon
<1> QED
  BY <1>4, <1>6, Zenon

(* The loop body of WriteChunk, for any call that may run it. *)
LEMMA LoopBodyStep ==
  ASSUME IInv, NEW w \in Writers, NEW c \in Call, LoopBody(w, c),
         c.body \in Bodies, c.n = 0, pc[w] # "copy"
  PROVE  IInv'
<1>1. c.idx \in Chunks
  BY Zenon DEF Call
<1>2. UNCHANGED <<readPos, crcs, err, file, ring, readerVars, sink>>
  BY Zenon DEF LoopBody
<1>3. CASE Fail(w)
  BY <1>2, <1>3, FailStep, Zenon
<1>4. CASE /\ Acknowledge(w, c.idx) /\ err = None
           /\ Consumed(c.idx) \/ Holds(c.idx % Slots, c.idx, "ready")
  BY <1>1, <1>2, <1>4, AcknowledgeStep, Zenon
<1>5. CASE BeginCopy(w, c) /\ err = None /\ ~Consumed(c.idx) /\ Admissible(c.idx)
  BY <1>2, <1>5, BeginCopyStep, Zenon
<1>6. CASE /\ Park(w, c) /\ err = None /\ ~Consumed(c.idx) /\ ~Admissible(c.idx)
           /\ ~Holds(c.idx % Slots, c.idx, "ready")
           /\ ~Holds(c.idx % Slots, c.idx, "filling")
  <2>1. slotState[c.idx % Slots] \in {"free", "filling", "ready"} /\ c.idx % Slots \in SlotIds
    BY <1>1, StateFacts, Zenon DEF IInv, TypeOK
  <2>2. slotChunk[c.idx % Slots] # c.idx
    <3>1. slotState[c.idx % Slots] = "free" => slotChunk[c.idx % Slots] = -1
      BY <2>1, Zenon DEF IInv, SlotsInWindow
    <3>2. c.idx # -1
      BY <1>1, ChunkFacts
    <3> QED
      BY <1>6, <2>1, <3>1, <3>2, Zenon DEF Holds
  <2>3. c.idx >= frontier + Slots
    BY <1>1, <1>6, <2>2, WaitsAhead, Zenon
  <2> QED
    BY <1>2, <1>6, <2>3, ParkStep, Zenon
<1> QED
  BY <1>3, <1>4, <1>5, <1>6, Zenon DEF LoopBody

(* The loop body on the entry of WriteChunk. *)
LEMMA WriteChunkStep ==
  ASSUME IInv, NEW w \in Writers, NEW i \in Chunks, NEW b \in Bodies, WriteChunk(w, i, b)
  PROVE  IInv'
<1> DEFINE c == [idx |-> i, body |-> b, n |-> 0]
<1>1. c \in Call /\ c.body \in Bodies /\ c.n = 0
  BY WindowAssumption DEF Call
<1>2. pc[w] # "copy" /\ LoopBody(w, c)
  BY Zenon DEF WriteChunk
<1> HIDE DEF c
<1> QED
  BY <1>1, <1>2, LoopBodyStep, Zenon

(* The loop body after a wake-up. *)
LEMMA ResumeStep ==
  ASSUME IInv, NEW w \in Writers, Resume(w)
  PROVE  IInv'
<1>1. call[w] \in Call
  BY Zenon DEF IInv, TypeOK
<1>2. pc[w] = "woken" /\ LoopBody(w, call[w])
  BY Zenon DEF Resume
<1>3. call[w].body \in Bodies /\ call[w].n = 0
  BY <1>2, Zenon DEF IInv, WaitInv
<1> QED
  BY <1>1, <1>2, <1>3, LoopBodyStep, Zenon

(* A copied byte lands in the copier's own slot. *)
LEMMA CopyByteStep ==
  ASSUME IInv, NEW w \in Writers, CopyByte(w)
  PROVE  IInv'
<1> DEFINE i == call[w].idx
           n == call[w].n
           b == call[w].body
           s == i % Slots
           v == [pos |-> i * ChunkSize + n, of |-> b]
<1>1. /\ i \in Chunks /\ s \in SlotIds /\ b \in Bodies
      /\ n \in Nat /\ n < ChunkLen(i) /\ pc[w] = "copy"
  BY StateFacts DEF IInv, TypeOK, CopyInv, CopyByte, Call
<1>2. /\ ring' = [ring EXCEPT ![s] = [ring[s] EXCEPT ![n] = v]]
      /\ call' = [call EXCEPT ![w] = [idx |-> i, body |-> b, n |-> n + 1]]
      /\ UNCHANGED <<slotVars, readPos, crcs, err, file, pc, late, timer, readerVars, sink, acked>>
  BY Zenon DEF CopyByte
<1>3. n \in 0 .. ChunkSize - 1 /\ n + 1 \in 0 .. ChunkSize /\ n + 1 <= ChunkLen(i)
  BY <1>1, ChunkFacts, WindowAssumption
<1>4. v \in Byte
  <2>1. n \in 0 .. ChunkLen(i) - 1
    BY <1>1, ChunkFacts, WindowAssumption
  <2>2. i * ChunkSize + n \in 0 .. TotalSize - 1
    BY <1>1, <2>1, ByteOfChunk, Zenon
  <2> QED
    BY <1>1, <2>2, Zenon DEF Byte
<1>5. frontier' = frontier /\ cur' = cur
  BY <1>2, Zenon DEF frontier, cur
<1>6. call[w] \in Call /\ ring[s] \in [0 .. ChunkSize - 1 -> Byte \union {NoByte}]
  BY <1>1, Zenon DEF IInv, TypeOK
<1>7. call'[w] = [idx |-> i, body |-> b, n |-> n + 1]
  BY <1>2, <1>6, Zenon DEF IInv, TypeOK, Call
<1>8. \A x \in Writers \ {w} : call'[x] = call[x]
  BY <1>2, Zenon DEF IInv, TypeOK
<1>9. /\ ring'[s][n] = v
      /\ \A j \in 0 .. ChunkSize - 1 : j # n => ring'[s][j] = ring[s][j]
      /\ \A t \in SlotIds : t # s => ring'[t] = ring[t]
  BY Zenon, <1>1, <1>2, <1>3, <1>6 DEF IInv, TypeOK
<1>10. i = call[w].idx /\ n = call[w].n /\ b = call[w].body /\ s = i % Slots
       /\ v = [pos |-> i * ChunkSize + n, of |-> b]
  BY Zenon
<1> HIDE DEF i, n, b, s, v
<1>11. TypeOK'
  <2>1. ring' \in [SlotIds -> [0 .. ChunkSize - 1 -> Byte \union {NoByte}]]
    BY <1>1, <1>2, <1>3, <1>4, <1>6, Zenon DEF IInv, TypeOK
  <2>2. call' \in [Writers -> Call]
    <3>1. [idx |-> i, body |-> b, n |-> n + 1] \in Call
      BY <1>1, <1>3, Zenon DEF Call
    <3> QED
      BY <1>2, <3>1, Zenon DEF IInv, TypeOK
  <2> QED
    BY <1>2, <2>1, <2>2, Zenon DEF IInv, TypeOK, slotVars, readerVars
<1>12. \A t \in SlotIds : /\ slotState[t] = "ready" => t # s
                          /\ t = s => err # None \/ slotState[t] = "filling"
  BY <1>1, <1>10, Zenon DEF IInv, TypeOK, CopyInv, CloseInv, Holds
<1>13. SlotsInWindow' /\ WaitInv' /\ CloseInv' /\ PartialInv' /\ FilledInv' /\ StreamIntact'
  <2>1. SlotsInWindow' /\ CloseInv' /\ FilledInv' /\ StreamIntact'
    BY <1>2, <1>5, Zenon DEF IInv, SlotsInWindow, CloseInv, FilledInv, StreamIntact, slotVars
  <2>2. WaitInv'
    BY <1>1, <1>2, <1>8, Zenon DEF IInv, WaitInv
  <2>3. PartialInv'
    BY <1>2, <1>5, Zenon DEF IInv, PartialInv, Holds, slotVars
  <2> QED
    BY <2>1, <2>2, <2>3, Zenon
<1>14. CopyInv'
  <2> SUFFICES ASSUME NEW x \in Writers, pc'[x] = "copy"
               PROVE  /\ call'[x].body \in Bodies
                      /\ call'[x].n <= ChunkLen(call'[x].idx)
                      /\ BytesAt(call[x].idx % Slots, call[x].idx, call[x].n, call[x].body)'
                      /\ err' = None => Holds(call[x].idx % Slots, call[x].idx, "filling")'
                      /\ \A y \in Writers : pc'[y] = "copy" /\ y # x =>
                            call'[y].idx % Slots # call'[x].idx % Slots
    BY Zenon DEF CopyInv
  <2>1. \A y \in Writers : call'[y].idx = call[y].idx
    BY SMTT(30), <1>7, <1>8, <1>10
  <2>2. CASE x = w
    <3>1. BytesAt(s, i, n, b)
      BY <1>1, <1>10, Zenon DEF IInv, CopyInv
    <3>2. \A j \in 0 .. n : ring'[s][j] = [pos |-> i * ChunkSize + j, of |-> b]
      <4> SUFFICES ASSUME NEW j \in 0 .. n
                   PROVE  ring'[s][j] = [pos |-> i * ChunkSize + j, of |-> b]
        BY Zenon
      <4>1. CASE j = n
        BY <1>9, <1>10, <4>1, Zenon
      <4>2. CASE j # n
        <5>1. j \in 0 .. n - 1 /\ j \in 0 .. ChunkSize - 1
          BY <1>1, <1>3, <4>2, WindowAssumption
        <5> QED
          BY <1>9, <3>1, <4>2, <5>1, Zenon DEF BytesAt
      <4> QED
        BY <4>1, <4>2, Zenon
    <3>3. BytesAt(call[x].idx % Slots, call[x].idx, call[x].n, call[x].body)'
      BY <1>1, <1>7, <1>10, <2>2, <3>2 DEF BytesAt
    <3> QED
      BY SMTT(30), <1>1, <1>2, <1>3, <1>7, <1>10, <2>1, <2>2, <3>3
         DEF IInv, CopyInv, Holds, slotVars
  <2>3. CASE x # w
    <3>1. /\ pc[x] = "copy" /\ call'[x] = call[x]
          /\ call[x].idx % Slots # s /\ call[x].idx % Slots \in SlotIds
      BY SMTT(30), <1>1, <1>2, <1>8, <1>10, <2>3, StateFacts DEF IInv, TypeOK, CopyInv, Call
    <3>2. BytesAt(call[x].idx % Slots, call[x].idx, call[x].n, call[x].body)'
      <4>1. ring'[call[x].idx % Slots] = ring[call[x].idx % Slots]
        BY <1>9, <3>1, Zenon
      <4>2. BytesAt(call[x].idx % Slots, call[x].idx, call[x].n, call[x].body)
        BY <3>1, Zenon DEF IInv, CopyInv
      <4> QED
        BY <3>1, <4>1, <4>2, Zenon DEF BytesAt
    <3> QED
      BY SMTT(30), <1>2, <2>1, <3>1, <3>2 DEF IInv, CopyInv, Holds, slotVars
  <2> QED
    BY <2>2, <2>3, Zenon
<1>15. ReadyInv'
  <2> SUFFICES ASSUME NEW t \in SlotIds, slotState'[t] = "ready"
               PROVE  /\ crcs'[slotChunk'[t]] \in Bodies
                      /\ BytesAt(t, slotChunk[t], ChunkLen(slotChunk[t]), crcs[slotChunk[t]])'
    BY <1>2, Zenon DEF ReadyInv, slotVars
  <2>1. slotState[t] = "ready" /\ t # s
    BY <1>2, <1>12, Zenon DEF slotVars
  <2>2. /\ crcs[slotChunk[t]] \in Bodies
        /\ BytesAt(t, slotChunk[t], ChunkLen(slotChunk[t]), crcs[slotChunk[t]])
    BY <2>1, Zenon DEF IInv, ReadyInv
  <2>3. ring'[t] = ring[t]
    BY <1>9, <2>1, Zenon
  <2> QED
    BY <1>2, <2>2, <2>3, Zenon DEF BytesAt, slotVars
<1>16. ReadInv'
  <2>1. rpc = "readat" => cur % Slots \in SlotIds /\ cur % Slots # s
    BY <1>1, <1>10, StateFacts, Zenon DEF IInv, TypeOK, ReadInv
  <2>2. \A y \in Writers : call'[y].idx = call[y].idx
    BY <1>7, <1>8, <1>10, SMTT(60)
  <2> QED
    BY <1>2, <1>5, <1>9, <2>1, <2>2 DEF IInv, ReadInv, BytesAt, Holds, slotVars, readerVars
<1>17. AckedStored' /\ NoLostWakeup'
  <2>1. \A y \in Writers : call'[y].idx = call[y].idx
    BY <1>7, <1>8, <1>10
  <2>2. AckedStored'
    BY <1>2, Zenon DEF IInv, AckedStored, Holds, Consumed, slotVars
  <2>3. NoLostWakeup'
    BY <1>2, <1>5, <2>1, Zenon DEF IInv, NoLostWakeup, Holds, slotVars, readerVars
  <2> QED
    BY <2>2, <2>3, Zenon
<1> QED
  BY <1>11, <1>13, <1>14, <1>15, <1>16, <1>17, Zenon DEF IInv

-----------------------------------------------------------------------------
(* The end of a writer's call, its deadline and its timer. *)

(* No byte of a chunk that is being filled has been delivered. *)
LEMMA FillingUnread ==
  ASSUME IInv, NEW s \in SlotIds, slotState[s] = "filling", NEW p \in 0 .. readPos - 1
  PROVE  slotChunk[s] # p \div ChunkSize
<1> DEFINE k == slotChunk[s]
<1>1. err = None
  BY Zenon DEF IInv, CloseInv
<1>2. /\ k \in Chunks /\ k >= frontier /\ k % Slots = s
  <2>1. frontier \in Nat
    BY StateFacts, TotalFacts DEF IInv
  <2>2. k \in Chunks \union {-1} /\ k \in frontier .. frontier + Slots - 1 /\ k % Slots = s
    BY Zenon DEF IInv, TypeOK, SlotsInWindow
  <2> QED
    BY <2>1, <2>2, WindowAssumption
<1> SUFFICES ASSUME k = p \div ChunkSize PROVE FALSE
  BY Zenon
<1>3. p \in 0 .. TotalSize - 1 /\ readPos \in 0 .. TotalSize /\ p < readPos
  BY WindowAssumption DEF IInv, TypeOK
<1>4. k * ChunkSize <= p
  BY <1>3, PosFacts, Zenon
<1>5. k \in Nat /\ k * ChunkSize \in Nat /\ ChunkLen(k) \in 1 .. ChunkSize
      /\ k * ChunkSize + ChunkLen(k) <= TotalSize
  BY <1>2, ChunkFacts, Zenon
<1>6. readPos < k * ChunkSize + ChunkLen(k)
  <2>1. ~Consumed(k)
    <3>1. frontier \in Nat
      BY StateFacts, TotalFacts DEF IInv
    <3>2. ~(k < frontier)
      BY <1>2, <1>5, <3>1
    <3> QED
      BY <1>2, <3>2, StateFacts, Zenon DEF IInv
  <2> QED
    BY <1>3, <1>5, <2>1, WindowAssumption DEF Consumed
<1>7. readPos < TotalSize
  BY <1>3, <1>5, <1>6, WindowAssumption
<1> HIDE DEF k
<1>8. /\ frontier = cur /\ cur \in Chunks
      /\ cur * ChunkSize <= readPos /\ readPos < cur * ChunkSize + ChunkLen(cur)
  BY <1>7, StateFacts, Zenon DEF IInv
<1>9. cur \in Nat /\ cur * ChunkSize \in Nat /\ ChunkLen(cur) \in 1 .. ChunkSize
  BY <1>8, ChunkFacts, Zenon
<1>10. k = cur
  <2> SUFFICES ASSUME cur < k PROVE FALSE
    BY <1>2, <1>5, <1>8, <1>9
  <2>1. cur * ChunkSize + ChunkSize <= k * ChunkSize
    BY <1>5, <1>9, MulStep, WindowAssumption
  <2> QED
    BY <1>3, <1>4, <1>5, <1>8, <1>9, <2>1, WindowAssumption
<1>11. cur * ChunkSize < readPos
  BY <1>3, <1>4, <1>9, <1>10, WindowAssumption
<1>12. Holds(cur % Slots, cur, "ready")
  BY <1>1, <1>7, <1>11, Zenon DEF IInv, PartialInv
<1> QED
  BY <1>2, <1>10, <1>12, Zenon DEF Holds

(* The end of a copy: the slot becomes ready, is given back, or belongs to *)
(* nobody because the window was closed.                                   *)
LEMMA SettleStep ==
  ASSUME IInv, NEW w \in Writers, NEW ok \in BOOLEAN, Settle(w, ok)
  PROVE  IInv'
<1> DEFINE i == call[w].idx
           b == call[w].body
           s == i % Slots
<1>1. /\ i \in Chunks /\ i \in Nat /\ s \in SlotIds /\ b \in Bodies /\ pc[w] = "copy"
  BY SMTT(30), StateFacts, ChunkFacts
     DEF IInv, TypeOK, CopyInv, Settle, WholeBody, Orphaned, GiveBack, Store, Call
<1>2. NoCall \in Call
  BY TotalFacts, WindowAssumption DEF Chunks, Call, NoCall
<1>3. /\ call' = [call EXCEPT ![w] = NoCall]
      /\ UNCHANGED <<readPos, err, file, ring, late, timer, want, rbuf, sink>>
  BY Zenon DEF Settle, WholeBody, Orphaned, GiveBack, Store
<1>4. /\ frontier' = frontier /\ cur' = cur
      /\ readPos < TotalSize => cur % Slots \in SlotIds
  BY <1>3, StateFacts, Zenon DEF frontier, cur, IInv
<1>5. i = call[w].idx /\ b = call[w].body /\ s = i % Slots
  BY Zenon
<1>6. \A y \in Writers \ {w} : pc[y] = "copy" =>
        call[y].idx % Slots # s /\ call[y].idx % Slots \in SlotIds
  BY <1>1, StateFacts, Zenon DEF IInv, TypeOK, CopyInv, Call
<1>7. CASE ~Holds(s, i, "filling") /\ pc' = [pc EXCEPT ![w] = "idle"]
           /\ UNCHANGED <<slotVars, crcs, rpc, acked>>
  <2>1. TypeOK'
    BY <1>2, <1>3, <1>7, Zenon DEF IInv, TypeOK, slotVars
  <2>2. CoreInv'
    BY <1>3, <1>7, Frame, Zenon DEF IInv, TypeOK, slotVars
  <2>3. WaitInv' /\ CloseInv' /\ AckedStored'
    BY <1>3, <1>7, Zenon DEF IInv, TypeOK, WaitInv, CloseInv, AckedStored, Holds, Consumed, slotVars
  <2>4. NoLostWakeup'
    BY <1>3, <1>4, <1>7, Zenon DEF IInv, TypeOK, NoLostWakeup, Holds, slotVars
  <2> QED
    BY <2>1, <2>2, <2>3, <2>4, Zenon DEF IInv, CoreInv
<1>8. CASE Holds(s, i, "filling") /\ SetSlot(s, "free", -1)
           /\ pc' = [pc EXCEPT ![w] = "idle"] /\ UNCHANGED <<crcs, rpc, acked>>
  <2> HIDE DEF i, b, s
  <2>1. /\ slotState' = [slotState EXCEPT ![s] = "free"]
        /\ slotChunk' = [slotChunk EXCEPT ![s] = -1]
        /\ slotState[s] = "filling" /\ slotChunk[s] = i
    BY <1>8, Zenon DEF SetSlot, Holds
  <2>2. TypeOK'
    BY <1>1, <1>2, <1>3, <1>8, <2>1, Zenon DEF IInv, TypeOK
  <2>3. SlotsInWindow'
    BY <1>1, <1>4, <2>1, Zenon DEF IInv, TypeOK, SlotsInWindow
  <2>4. WaitInv' /\ CloseInv'
    BY <1>1, <1>3, <1>8, <2>1, Zenon DEF IInv, TypeOK, WaitInv, CloseInv
  <2>5. CopyInv'
    BY <1>1, <1>3, <1>6, <1>8, <2>1, SMTT(60) DEF IInv, TypeOK, CopyInv, Holds, BytesAt
  <2>6. ReadyInv'
    BY <1>1, <1>3, <1>8, <2>1, Zenon DEF IInv, TypeOK, ReadyInv, BytesAt
  <2>7. PartialInv'
    BY <1>1, <1>3, <1>4, <2>1, Zenon DEF IInv, TypeOK, PartialInv, Holds
  <2>8. ReadInv'
    BY <1>1, <1>3, <1>4, <1>8, <2>1, Zenon DEF IInv, TypeOK, ReadInv, Holds, BytesAt
  <2>9. FilledInv' /\ StreamIntact'
    BY <1>3, <1>8, Zenon DEF IInv, FilledInv, StreamIntact
  <2>10. AckedStored'
    BY <1>1, <1>3, <1>8, <2>1, StateFacts, Zenon DEF IInv, TypeOK, AckedStored, Holds, Consumed
  <2>11. NoLostWakeup'
    BY <1>1, <1>3, <1>4, <1>8, <2>1, Zenon DEF IInv, TypeOK, NoLostWakeup, Holds
  <2> QED
    BY <2>2, <2>3, <2>4, <2>5, <2>6, <2>7, <2>8, <2>9, <2>10, <2>11, Zenon DEF IInv
<1>9. CASE /\ Holds(s, i, "filling") /\ ok /\ err = None
           /\ SetSlot(s, "ready", i)
           /\ crcs' = [crcs EXCEPT ![i] = b]
           /\ acked' = acked \union {<<i, b>>}
           /\ pc' = WakeWriters([pc EXCEPT ![w] = "idle"])
           /\ rpc' = WakeReader
  <2>0. BytesAt(s, i, ChunkLen(i), b)
    BY <1>1, <1>9, Zenon DEF IInv, CopyInv, Settle, WholeBody, Orphaned, GiveBack, Store
  <2> HIDE DEF i, b, s
  <2>1. /\ slotState' = [slotState EXCEPT ![s] = "ready"]
        /\ slotChunk' = [slotChunk EXCEPT ![s] = i]
        /\ slotState[s] = "filling" /\ slotChunk[s] = i /\ err = None
    BY <1>9, Zenon DEF SetSlot, Holds
  <2>2. /\ pc' \in [Writers -> {"idle", "parked", "woken", "copy"}]
        /\ \A y \in Writers : /\ pc'[y] # "parked"
                              /\ pc'[y] = "copy" => pc[y] = "copy" /\ y # w
                              /\ pc'[y] = "woken" => pc[y] \in {"parked", "woken"} /\ y # w
    BY <1>1, <1>9, Zenon DEF IInv, TypeOK, WakeWriters
  <2>3. /\ rpc' \in {"idle", "woken", "readat", "commit"}
        /\ rpc' \in {"readat", "commit"} => rpc' = rpc
        /\ rpc' = "commit" <=> rpc = "commit"
    BY <1>9, Zenon DEF IInv, TypeOK, WakeReader
  <2>4. TypeOK'
    <3>1. crcs' \in [Chunks -> Bodies \union {NoCRC}] /\ acked' \subseteq Chunks \X Bodies
      BY <1>1, <1>9 DEF IInv, TypeOK
    <3> QED
      BY Zenon, <1>1, <1>2, <1>3, <2>1, <2>2, <2>3, <3>1 DEF IInv, TypeOK
  <2>5. SlotsInWindow'
    BY <1>1, <1>4, <2>1, Zenon DEF IInv, TypeOK, SlotsInWindow
  <2>6. WaitInv' /\ CloseInv'
    BY <1>1, <1>3, <2>1, <2>2, Zenon DEF IInv, TypeOK, WaitInv, CloseInv
  <2>7. CopyInv'
    BY <1>1, <1>3, <1>6, <2>1, <2>2, SMTT(60) DEF IInv, TypeOK, CopyInv, Holds, BytesAt
  <2>8. ReadyInv'
    <3> SUFFICES ASSUME NEW t \in SlotIds, slotState'[t] = "ready"
                 PROVE  /\ crcs'[slotChunk'[t]] \in Bodies
                        /\ BytesAt(t, slotChunk[t], ChunkLen(slotChunk[t]), crcs[slotChunk[t]])'
      BY Zenon DEF ReadyInv
    <3>1. CASE t = s
      BY <1>1, <1>3, <1>9, <2>0, <2>1, <3>1, Zenon DEF IInv, TypeOK, BytesAt
    <3>2. CASE t # s
      <4>1. slotState[t] = "ready" /\ slotChunk'[t] = slotChunk[t] /\ slotChunk[t] # i
        BY <1>1, <1>5, <2>1, <3>2, Zenon DEF IInv, TypeOK, SlotsInWindow
      <4>2. crcs'[slotChunk[t]] = crcs[slotChunk[t]]
        <5>1. slotChunk[t] \in Chunks
          BY <4>1, Zenon DEF IInv, TypeOK, SlotsInWindow
        <5> QED
          BY <1>1, <1>9, <4>1, <5>1, Zenon DEF IInv, TypeOK
      <4> QED
        BY <1>3, <4>1, <4>2, Zenon DEF IInv, ReadyInv, BytesAt
    <3> QED
      BY <3>1, <3>2, Zenon
  <2>9. PartialInv'
    BY <1>1, <1>3, <1>4, <2>1, Zenon DEF IInv, TypeOK, PartialInv, Holds
  <2>10. ReadInv'
    <3> SUFFICES ASSUME rpc' \in {"readat", "commit"} PROVE ReadInv'
      BY Zenon DEF ReadInv
    <3>1. /\ rpc' = rpc /\ readPos < TotalSize /\ Holds(cur % Slots, cur, "ready")
          /\ cur \in Chunks
      BY <2>1, <2>3, StateFacts, Zenon DEF IInv, ReadInv
    <3>2. cur # i /\ cur % Slots # s
      BY <1>5, <2>1, <3>1, Zenon DEF Holds
    <3>3. crcs'[cur] = crcs[cur] /\ Holds(cur % Slots, cur, "ready")'
      BY <1>1, <1>3, <1>4, <1>9, <2>1, <3>1, <3>2, Zenon DEF IInv, TypeOK, Holds
    <3> QED
      BY <1>3, <1>4, <2>2, <3>1, <3>3 DEF IInv, TypeOK, ReadInv, BytesAt
  <2>11. FilledInv' /\ StreamIntact'
    <3>1. \A p \in 0 .. readPos - 1 : crcs'[p \div ChunkSize] = crcs[p \div ChunkSize]
      <4> SUFFICES ASSUME NEW p \in 0 .. readPos - 1
                   PROVE  crcs'[p \div ChunkSize] = crcs[p \div ChunkSize]
        BY Zenon
      <4>1. p \div ChunkSize # i
        BY <1>1, <2>1, FillingUnread, Zenon
      <4> QED
        BY <1>9, <4>1 DEF IInv, TypeOK
    <3> QED
      BY <1>3, <3>1, Zenon DEF IInv, FilledInv, StreamIntact
  <2>12. AckedStored'
    <3> SUFFICES ASSUME NEW a \in acked'
                 PROVE  /\ crcs'[a[1]] = a[2]
                        /\ err' = None => Consumed(a[1])' \/ Holds(a[1] % Slots, a[1], "ready")'
      BY Zenon DEF AckedStored
    <3>1. CASE a = <<i, b>>
      BY <1>1, <1>5, <1>9, <2>1, <3>1, Zenon DEF IInv, TypeOK, Holds
    <3>2. CASE a \in acked
      <4>1. /\ crcs[a[1]] = a[2] /\ a[1] \in Chunks
            /\ Consumed(a[1]) \/ Holds(a[1] % Slots, a[1], "ready")
        BY <2>1, <3>2, Zenon DEF IInv, TypeOK, AckedStored
      <4>2. ~Consumed(i)
        <5>1. frontier \in Nat /\ i \in frontier .. frontier + Slots - 1
          BY <1>1, <2>1, StateFacts, TotalFacts DEF IInv, SlotsInWindow
        <5>2. ~(i < frontier)
          BY <1>1, <5>1, WindowAssumption
        <5> QED
          BY <1>1, <5>2, StateFacts, Zenon DEF IInv
      <4>3. a[1] # i
        BY <1>5, <2>1, <4>1, <4>2, Zenon DEF Holds
      <4>4. crcs'[a[1]] = a[2]
        BY <1>9, <4>1, <4>3, Zenon DEF IInv, TypeOK
      <4>5. Consumed(a[1]) => Consumed(a[1])'
        BY <1>3, Zenon DEF Consumed
      <4>6. Holds(a[1] % Slots, a[1], "ready") => Holds(a[1] % Slots, a[1], "ready")'
        BY <1>1, <2>1, <4>1, StateFacts, Zenon DEF IInv, TypeOK, Holds
      <4> QED
        BY <4>1, <4>4, <4>5, <4>6, Zenon
    <3> QED
      BY <1>9, <3>1, <3>2, Zenon
  <2>13. NoLostWakeup'
    BY <2>2, <2>3, Zenon DEF NoLostWakeup
  <2> QED
    BY <2>4, <2>5, <2>6, <2>7, <2>8, <2>9, <2>10, <2>11, <2>12, <2>13, Zenon DEF IInv
<1> QED
  BY <1>7, <1>8, <1>9, Zenon DEF Settle, WholeBody, Orphaned, GiveBack, Store

(* The deadline, the timer and the removal of the file touch no slot. *)
LEMMA DeadlineStep ==
  ASSUME IInv, NEW w \in Writers, Deadline(w) \/ TimerStarts(w)
  PROVE  IInv'
<1>1. UNCHANGED <<slotVars, readPos, crcs, err, file, ring, pc, call, readerVars, sink, acked>>
  BY Zenon DEF Deadline, TimerStarts
<1>2. TypeOK'
  <2>1. late' \in [Writers -> BOOLEAN]
    <3>1. late \in [Writers -> BOOLEAN]
      BY Zenon DEF IInv, TypeOK
    <3> QED
      BY <3>1, Zenon DEF Deadline, TimerStarts
  <2>2. timer' \in [Writers -> SUBSET {"armed", "running"}]
    BY SMTT(30) DEF IInv, TypeOK, Deadline, TimerStarts
  <2> QED
    BY <1>1, <2>1, <2>2, Zenon DEF IInv, TypeOK, slotVars, readerVars
<1>3. CoreInv'
  BY Zenon, <1>1, Frame DEF IInv, slotVars, readerVars
<1>4. WaitInv' /\ CloseInv' /\ AckedStored'
  BY <1>1, Zenon DEF IInv, WaitInv, CloseInv, AckedStored, Holds, Consumed, slotVars
<1>5. NoLostWakeup'
  BY <1>1, Zenon DEF IInv, NoLostWakeup, Holds, frontier, cur, slotVars, readerVars
<1> QED
  BY <1>2, <1>3, <1>4, <1>5, Zenon DEF IInv, CoreInv

(* The function of a timer runs. *)
LEMMA TimerBroadcastStep ==
  ASSUME IInv, NEW w \in Writers, TimerBroadcast(w)
  PROVE  IInv'
<1>1. /\ pc' \in [Writers -> {"idle", "parked", "woken", "copy"}]
      /\ \A y \in Writers : /\ pc'[y] # "parked"
                            /\ pc'[y] = "copy" => pc[y] = "copy"
                            /\ pc'[y] = "woken" => pc[y] \in {"parked", "woken"}
  BY Zenon DEF IInv, TypeOK, WakeWriters, TimerBroadcast
<1>2. /\ rpc' \in {"idle", "woken", "readat", "commit"}
      /\ rpc' \in {"readat", "commit"} => rpc' = rpc
  BY Zenon DEF IInv, TypeOK, WakeReader, TimerBroadcast
<1>3. UNCHANGED <<slotVars, readPos, crcs, err, file, ring, call, late, want, rbuf, sink, acked>>
  BY Zenon DEF TimerBroadcast
<1>4. TypeOK'
  <2>1. timer' \in [Writers -> SUBSET {"armed", "running"}]
    BY SMTT(30) DEF IInv, TypeOK, TimerBroadcast
  <2> QED
    BY <1>1, <1>2, <1>3, <2>1, Zenon DEF IInv, TypeOK, slotVars
<1>5. CoreInv'
  BY <1>1, <1>2, <1>3, Frame, Zenon DEF IInv, slotVars
<1>6. WaitInv' /\ CloseInv' /\ AckedStored'
  BY <1>1, <1>3, Zenon DEF IInv, WaitInv, CloseInv, AckedStored, Holds, Consumed, slotVars
<1>7. NoLostWakeup'
  BY <1>1, <1>2, Zenon DEF NoLostWakeup
<1> QED
  BY <1>4, <1>5, <1>6, <1>7, Zenon DEF IInv, CoreInv
-----------------------------------------------------------------------------
(* The closer removes the ring file. *)
LEMMA RemoveFileStep ==
  ASSUME IInv, RemoveFile
  PROVE  IInv'
<1> USE DEF RemoveFile
<1>1. TypeOK'
  BY Zenon DEF IInv, TypeOK, slotVars, writerVars, readerVars
<1>2. CoreInv'
  BY Frame, Zenon DEF IInv, slotVars, writerVars, readerVars
<1>3. WaitInv' /\ CloseInv' /\ AckedStored'
  BY Zenon DEF IInv, WaitInv, CloseInv, AckedStored, Holds, Consumed, slotVars, writerVars
<1>4. NoLostWakeup'
  BY Zenon DEF IInv, NoLostWakeup, Holds, frontier, cur, slotVars, writerVars, readerVars
<1> QED
  BY <1>1, <1>2, <1>3, <1>4, Zenon DEF IInv, CoreInv

(* A close empties the slots and wakes everybody. *)
LEMMA CloseStep ==
  ASSUME IInv, NEW sticky \in {"ErrClosed", "errAborted"}, CloseWithError(sticky)
  PROVE  IInv'
<1>1. /\ pc' \in [Writers -> {"idle", "parked", "woken", "copy"}]
      /\ \A y \in Writers : /\ pc'[y] # "parked"
                            /\ pc'[y] = "copy" => pc[y] = "copy"
                            /\ pc'[y] = "woken" => pc[y] \in {"parked", "woken"}
  BY Zenon DEF IInv, TypeOK, WakeWriters, CloseWithError
<1>2. /\ rpc' \in {"idle", "woken", "readat", "commit"}
      /\ rpc' \in {"readat", "commit"} => rpc' = rpc
  BY Zenon DEF IInv, TypeOK, WakeReader, CloseWithError
<1>3. /\ slotState' = [s \in SlotIds |-> "free"]
      /\ slotChunk' = [s \in SlotIds |-> -1]
      /\ err' \in {"ErrClosed", "errAborted"} /\ err' # None
      /\ file' \in {"closing", "removed"}
      /\ UNCHANGED <<readPos, crcs, ring, call, late, timer, want, rbuf, sink, acked>>
  BY WindowAssumption, Zenon DEF IInv, TypeOK, CloseWithError
<1>4. frontier' = frontier /\ cur' = cur
  BY <1>3, Zenon DEF frontier, cur
<1>5. TypeOK'
  BY <1>1, <1>2, <1>3, Zenon DEF IInv, TypeOK
<1>6. SlotsInWindow' /\ ReadyInv' /\ PartialInv' /\ CloseInv'
  BY <1>3, Zenon DEF SlotsInWindow, ReadyInv, PartialInv, CloseInv
<1>7. WaitInv' /\ CopyInv'
  BY <1>1, <1>3, Zenon DEF IInv, WaitInv, CopyInv, BytesAt
<1>8. ReadInv'
  BY <1>1, <1>2, <1>3, <1>4, Zenon DEF IInv, ReadInv, BytesAt
<1>9. FilledInv' /\ StreamIntact' /\ AckedStored'
  BY <1>3, Zenon DEF IInv, FilledInv, StreamIntact, AckedStored
<1>10. NoLostWakeup'
  BY <1>1, <1>2, Zenon DEF NoLostWakeup
<1> QED
  BY <1>5, <1>6, <1>7, <1>8, <1>9, <1>10, Zenon DEF IInv

(* The loop body of Read. *)
LEMMA ReadLoopStep ==
  ASSUME IInv, NEW len \in 0 .. ChunkSize + 1, ReadLoop(len)
  PROVE  IInv'
<1>1. UNCHANGED <<slotVars, readPos, crcs, err, file, ring, writerVars, rbuf, sink, acked>>
  BY Zenon DEF ReadLoop
<1>2. frontier' = frontier /\ cur' = cur
  BY <1>1, Zenon DEF frontier, cur
<1>3. WaitInv' /\ CloseInv' /\ AckedStored'
  BY <1>1, Zenon DEF IInv, WaitInv, CloseInv, AckedStored, Holds, Consumed, slotVars, writerVars
<1>4. CASE rpc' = "idle" /\ want' = 0
  <2>1. TypeOK'
    BY <1>1, <1>4, WindowAssumption DEF IInv, TypeOK, slotVars, writerVars
  <2>2. CoreInv'
    BY <1>1, <1>4, Frame, Zenon DEF IInv, slotVars, writerVars
  <2>3. NoLostWakeup'
    BY <1>1, <1>2, <1>4, Zenon DEF IInv, NoLostWakeup, slotVars, writerVars
  <2> QED
    BY <1>3, <2>1, <2>2, <2>3, Zenon DEF IInv, CoreInv
<1>5. CASE /\ err = None /\ readPos < TotalSize
           /\ ~Holds(cur % Slots, cur, "ready")
           /\ rpc' = "parked" /\ want' = len
  <2>1. TypeOK'
    BY <1>1, <1>5, Zenon DEF IInv, TypeOK, slotVars, writerVars
  <2>2. CoreInv'
    BY <1>1, <1>5, Frame, Zenon DEF IInv, slotVars, writerVars
  <2>3. NoLostWakeup'
    BY <1>1, <1>2, <1>5, Zenon DEF IInv, NoLostWakeup, Holds, slotVars, writerVars
  <2> QED
    BY <1>3, <2>1, <2>2, <2>3, Zenon DEF IInv, CoreInv
<1>6. CASE /\ err = None /\ readPos < TotalSize
           /\ Holds(cur % Slots, cur, "ready")
           /\ rpc' = "readat"
           /\ want' = IF len > Available THEN Available ELSE len
  <2>1. /\ cur \in Chunks /\ cur % Slots \in SlotIds
        /\ cur * ChunkSize <= readPos /\ readPos < cur * ChunkSize + ChunkLen(cur)
    BY <1>6, StateFacts, Zenon DEF IInv
  <2>2. cur * ChunkSize \in Nat /\ ChunkLen(cur) \in 1 .. ChunkSize /\ readPos \in Nat
    BY <2>1, ChunkFacts, WindowAssumption DEF IInv, TypeOK
  <2>3. want' \in 0 .. ChunkSize + 1 /\ readPos + want' <= cur * ChunkSize + ChunkLen(cur)
    BY <1>6, <2>1, <2>2, WindowAssumption DEF Available
  <2>4. TypeOK'
    BY <1>1, <1>6, <2>3, Zenon DEF IInv, TypeOK, slotVars, writerVars
  <2>5. ReadInv'
    <3>1. crcs[cur] \in Bodies /\ BytesAt(cur % Slots, cur, ChunkLen(cur), crcs[cur])
      BY <1>6, <2>1, Zenon DEF IInv, ReadyInv, Holds
    <3>2. \A w \in Writers : pc[w] = "copy" => call[w].idx % Slots # cur % Slots
      BY <1>6, Zenon DEF IInv, CopyInv, Holds
    <3> QED
      BY <1>1, <1>2, <1>6, <2>3, <3>1, <3>2, Zenon DEF ReadInv, BytesAt, Holds, slotVars, writerVars
  <2>6. SlotsInWindow' /\ ReadyInv' /\ FilledInv' /\ StreamIntact'
    BY <1>1, <1>2, Zenon DEF IInv, SlotsInWindow, ReadyInv, BytesAt, FilledInv, StreamIntact, slotVars
  <2>7. CopyInv' /\ PartialInv'
    BY <1>1, <1>2, Zenon DEF IInv, CopyInv, PartialInv, BytesAt, Holds, slotVars, writerVars
  <2>8. NoLostWakeup'
    BY <1>1, <1>2, <1>6, Zenon DEF IInv, NoLostWakeup, slotVars, writerVars
  <2> QED
    BY <1>3, <2>4, <2>5, <2>6, <2>7, <2>8, Zenon DEF IInv
<1> QED
  BY <1>4, <1>5, <1>6, Zenon DEF ReadLoop

(* The bytes read are those of the frontier chunk. *)
LEMMA ReadAtStep ==
  ASSUME IInv, NEW k \in 0 .. ChunkSize, ReadAt(k)
  PROVE  IInv'
<1>1. /\ rpc = "readat" /\ rpc' = "commit" /\ want' = k /\ k <= want
      /\ rbuf' = [j \in 0 .. k - 1 |-> ring[cur % Slots][readPos - cur * ChunkSize + j]]
      /\ UNCHANGED <<slotVars, readPos, crcs, err, file, ring, writerVars, sink, acked>>
  BY Zenon DEF ReadAt
<1>2. frontier' = frontier /\ cur' = cur
  BY <1>1, Zenon DEF frontier, cur
<1>3. /\ readPos < TotalSize /\ crcs[cur] \in Bodies
      /\ readPos + want <= cur * ChunkSize + ChunkLen(cur)
      /\ err = None => Holds(cur % Slots, cur, "ready")
      /\ BytesAt(cur % Slots, cur, ChunkLen(cur), crcs[cur])
  BY <1>1, Zenon DEF IInv, ReadInv
<1>4. /\ cur \in Chunks /\ cur % Slots \in SlotIds /\ cur * ChunkSize <= readPos
  BY <1>3, StateFacts, Zenon DEF IInv
<1>5. /\ cur * ChunkSize \in Nat /\ ChunkLen(cur) \in 1 .. ChunkSize
      /\ readPos \in Nat /\ want \in Nat /\ k \in Nat /\ ChunkSize \in Nat
  BY <1>4, ChunkFacts, WindowAssumption DEF IInv, TypeOK
<1>6. readPos + k <= cur * ChunkSize + ChunkLen(cur)
  BY <1>1, <1>3, <1>5
<1>7. ASSUME NEW j \in 0 .. k - 1
      PROVE  rbuf'[j] = [pos |-> readPos + j, of |-> crcs[cur]]
  <2> DEFINE m == readPos - cur * ChunkSize + j
  <2>1. m \in 0 .. ChunkLen(cur) - 1 /\ cur * ChunkSize + m = readPos + j
    BY <1>4, <1>5, <1>6
  <2>2. rbuf'[j] = ring[cur % Slots][m]
    BY <1>1, Zenon
  <2> HIDE DEF m
  <2>3. ring[cur % Slots][m] = [pos |-> cur * ChunkSize + m, of |-> crcs[cur]]
    BY <1>3, <2>1, Zenon DEF BytesAt
  <2> QED
    BY <2>1, <2>2, <2>3, Zenon
<1>8. TypeOK'
  <2>1. rbuf' \in [0 .. k - 1 -> Byte \union {NoByte}]
    <3>1. ASSUME NEW j \in 0 .. k - 1
          PROVE  ring[cur % Slots][readPos - cur * ChunkSize + j] \in Byte \union {NoByte}
      <4> DEFINE m == readPos - cur * ChunkSize + j
      <4>1. m \in 0 .. ChunkSize - 1
        BY <1>4, <1>5, <1>6
      <4>2. ring[cur % Slots] \in [0 .. ChunkSize - 1 -> Byte \union {NoByte}]
        BY <1>4, Zenon DEF IInv, TypeOK
      <4> HIDE DEF m
      <4>3. ring[cur % Slots][m] \in Byte \union {NoByte}
        BY Zenon, <4>1, <4>2
      <4> QED
        BY <4>3, Zenon DEF m
    <3> QED
      BY <1>1, <3>1, Zenon
  <2>2. k \in 0 .. ChunkSize + 1
    BY <1>5
  <2> QED
    BY <1>1, <2>1, <2>2, Zenon DEF IInv, TypeOK, slotVars, writerVars
<1>9. WaitInv' /\ CloseInv' /\ AckedStored'
  BY <1>1, Zenon DEF IInv, WaitInv, CloseInv, AckedStored, Holds, Consumed, slotVars, writerVars
<1>10. SlotsInWindow' /\ ReadyInv' /\ FilledInv' /\ StreamIntact'
  BY <1>1, <1>2, Zenon DEF IInv, SlotsInWindow, ReadyInv, BytesAt, FilledInv, StreamIntact, slotVars
<1>11. CopyInv' /\ PartialInv'
  BY <1>1, <1>2, Zenon DEF IInv, CopyInv, PartialInv, BytesAt, Holds, slotVars, writerVars
<1>12. ReadInv'
  BY Zenon, <1>1, <1>2, <1>3, <1>6, <1>7 DEF ReadInv, Holds, slotVars
<1>13. NoLostWakeup'
  BY <1>1, <1>2, Zenon DEF IInv, NoLostWakeup, slotVars, writerVars
<1> QED
  BY <1>8, <1>9, <1>10, <1>11, <1>12, <1>13, Zenon DEF IInv

(* The commit of a read: the position moves by want, and the slot is       *)
(* released exactly when the position reaches the end of its chunk.        *)
LEMMA ReadCommitStep ==
  ASSUME IInv, ReadCommit
  PROVE  IInv'
<1> DEFINE s == cur % Slots
           end == cur * ChunkSize + ChunkLen(cur)
<1>1. /\ rpc = "commit" /\ rpc' = "idle" /\ want' = 0 /\ readPos' = readPos + want
      /\ sink' = [p \in DOMAIN sink |->
                    IF p \in readPos .. readPos + want - 1 THEN rbuf[p - readPos] ELSE sink[p]]
      /\ UNCHANGED <<crcs, err, file, ring, call, late, timer, acked>>
  BY Zenon DEF ReadCommit, Crosses
<1>2. /\ readPos < TotalSize /\ crcs[cur] \in Bodies /\ readPos + want <= end
      /\ err = None => Holds(s, cur, "ready")
      /\ \A j \in 0 .. want - 1 : rbuf[j] = [pos |-> readPos + j, of |-> crcs[cur]]
  BY Zenon, <1>1 DEF IInv, ReadInv
<1>3. /\ cur \in Chunks /\ s \in SlotIds /\ frontier = cur
      /\ cur * ChunkSize <= readPos /\ readPos < end
  BY <1>2, StateFacts, Zenon DEF IInv
<1>4. /\ cur \in Nat /\ cur * ChunkSize \in Nat /\ ChunkLen(cur) \in 1 .. ChunkSize
      /\ end <= TotalSize /\ readPos \in 0 .. TotalSize - 1 /\ want \in Nat
      /\ cur # total - 1 => ChunkLen(cur) = ChunkSize
      /\ cur = total - 1 => end = TotalSize
  BY <1>2, <1>3, ChunkFacts, WindowAssumption DEF IInv, TypeOK
<1>5. /\ readPos' \in 0 .. TotalSize
      /\ readPos' < end => frontier' = frontier
      /\ readPos' >= end => frontier' = frontier + 1
  <2>1. FrontierOf(readPos) = cur
    BY <1>3, Zenon DEF frontier, FrontierOf
  <2>2. frontier' = FrontierOf(readPos + want)
    BY <1>1, Zenon DEF frontier, FrontierOf
  <2>3. readPos + want <= FrontierOf(readPos) * ChunkSize + ChunkLen(FrontierOf(readPos))
    BY <1>2, <2>1, Zenon
  <2>4. /\ readPos + want \in 0 .. TotalSize
        /\ readPos + want < end => FrontierOf(readPos + want) = FrontierOf(readPos)
        /\ readPos + want >= end => FrontierOf(readPos + want) = FrontierOf(readPos) + 1
    BY <1>4, <2>1, <2>3, FrontierStep, Zenon
  <2> QED
    BY <1>1, <1>3, <2>1, <2>2, <2>4, Zenon
<1>6. readPos' < TotalSize => frontier' = cur'
  BY <1>5, WindowAssumption DEF frontier, cur
<1>7. TypeOK' /\ FilledInv' /\ StreamIntact' /\ WaitInv' /\ ReadInv' /\ CloseInv'
  <2>1. /\ pc' \in [Writers -> {"idle", "parked", "woken", "copy"}]
        /\ \A y \in Writers : pc'[y] \in {"parked", "woken"} => pc[y] \in {"parked", "woken"}
    BY DEF IInv, TypeOK, ReadCommit, Crosses, WakeWriters
  <2>2. /\ slotState' \in [SlotIds -> {"free", "filling", "ready"}]
        /\ slotChunk' \in [SlotIds -> Chunks \union {-1}]
        /\ err # None => \A t \in SlotIds : slotState'[t] = "free"
    BY SMTT(30), <1>3 DEF IInv, TypeOK, CloseInv, ReadCommit, Crosses, SetSlot, slotVars
  <2>3. ASSUME NEW p \in 0 .. (readPos + want) - 1
        PROVE  /\ crcs[p \div ChunkSize] \in Bodies
               /\ sink'[p] = [pos |-> p, of |-> crcs[p \div ChunkSize]]
    <3>1. p \in 0 .. TotalSize - 1 /\ p \in DOMAIN sink
      <4>1. readPos + want \in 0 .. TotalSize
        BY <1>1, <1>5, Zenon
      <4>2. p \in 0 .. TotalSize - 1
        BY <1>4, <2>3, <4>1, WindowAssumption
      <4> QED
        BY <4>2, Zenon DEF IInv, TypeOK
    <3>2. CASE p < readPos
      <4>1. p \in 0 .. readPos - 1 /\ ~(p \in readPos .. readPos + want - 1)
        BY <1>4, <3>1, <3>2, WindowAssumption
      <4>2. sink'[p] = sink[p]
        BY <1>1, <3>1, <4>1, Zenon
      <4> QED
        BY <4>1, <4>2, Zenon DEF IInv, FilledInv, StreamIntact
    <3>3. CASE p >= readPos
      <4>1. /\ p \in readPos .. readPos + want - 1 /\ p - readPos \in 0 .. want - 1
            /\ readPos + (p - readPos) = p
            /\ p - cur * ChunkSize \in 0 .. ChunkLen(cur) - 1
            /\ cur * ChunkSize + (p - cur * ChunkSize) = p
        BY <1>1, <1>2, <1>3, <1>4, <3>1, <3>3, WindowAssumption
      <4>2. sink'[p] = rbuf[p - readPos]
        BY <1>1, <3>1, <4>1, Zenon
      <4>3. p \div ChunkSize = cur
        BY <1>3, <4>1, ByteOfChunk, Zenon
      <4> QED
        BY <1>2, <4>1, <4>2, <4>3, Zenon
    <3> QED
      BY <1>4, <3>1, <3>2, <3>3, WindowAssumption
  <2>4. FilledInv' /\ StreamIntact'
    <3>1. crcs' = crcs /\ 0 .. readPos' - 1 = 0 .. (readPos + want) - 1
      BY <1>1, Zenon
    <3> QED
      BY <2>3, <3>1, Zenon DEF FilledInv, StreamIntact
  <2>5. sink' \in [0 .. TotalSize - 1 -> Byte \union {NoByte}]
    <3> SUFFICES ASSUME NEW p \in 0 .. TotalSize - 1
                 PROVE  (IF p \in readPos .. readPos + want - 1 THEN rbuf[p - readPos]
                         ELSE sink[p]) \in Byte \union {NoByte}
      BY <1>1, Zenon DEF IInv, TypeOK
    <3>1. ASSUME p \in readPos .. readPos + want - 1
          PROVE  p - readPos \in 0 .. want - 1
      BY <1>4, <3>1, WindowAssumption
    <3> QED
      BY <1>1, <3>1, Zenon DEF IInv, TypeOK
  <2>6. TypeOK'
    BY <1>1, <1>5, <2>1, <2>2, <2>5, WindowAssumption DEF IInv, TypeOK
  <2>7. WaitInv' /\ ReadInv' /\ CloseInv'
    BY <1>1, <2>1, <2>2, Zenon DEF IInv, WaitInv, ReadInv, CloseInv
  <2> QED
    BY <2>4, <2>6, <2>7, Zenon
<1>8. CASE readPos' < end
  <2>1. UNCHANGED <<slotVars, pc>>
    BY SMTT(30), <1>1, <1>4, <1>8, WindowAssumption DEF ReadCommit, Crosses
  <2>2. frontier' = frontier
    BY <1>5, <1>8, Zenon
  <2>3. SlotsInWindow' /\ CopyInv' /\ ReadyInv'
    BY <1>1, <2>1, <2>2 DEF IInv, SlotsInWindow, CopyInv, ReadyInv, BytesAt, Holds, slotVars
  <2>4. PartialInv'
    BY <1>1, <1>2, <1>3, <1>6, <2>1, <2>2, Zenon DEF PartialInv, Holds, slotVars
  <2>5. AckedStored'
    <3>1. \A i \in Chunks : Consumed(i) => Consumed(i)'
      BY <1>1, <1>4, ChunkFacts, WindowAssumption DEF Consumed
    <3> QED
      BY <1>1, <2>1, <3>1, Zenon DEF IInv, TypeOK, AckedStored, Holds, slotVars
  <2>6. NoLostWakeup'
    BY <1>1, <2>1, <2>2, Zenon DEF IInv, NoLostWakeup
  <2> QED
    BY SMTT(30), <1>7, <2>3, <2>4, <2>5, <2>6 DEF IInv
<1>9. CASE readPos' >= end
  <2>1. /\ slotState' = [slotState EXCEPT ![s] = "free"]
        /\ slotChunk' = [slotChunk EXCEPT ![s] = -1]
        /\ pc' = WakeWriters(pc)
    <3>1. want > 0
      BY <1>1, <1>3, <1>4, <1>9, WindowAssumption
    <3> QED
      BY <1>1, <1>9, <3>1, Zenon DEF ReadCommit, Crosses, SetSlot
  <2>2. /\ frontier' = frontier + 1 /\ readPos' = end
    BY <1>1, <1>2, <1>4, <1>5, <1>9, WindowAssumption
  <2>3. \A y \in Writers : pc'[y] # "parked" /\ (pc'[y] = "copy" => pc[y] = "copy")
    BY <2>1, Zenon DEF WakeWriters
  <2>4. SlotsInWindow'
    <3> SUFFICES ASSUME NEW t \in SlotIds
                 PROVE  /\ slotState'[t] = "free" <=> slotChunk'[t] = -1
                        /\ slotState'[t] # "free" =>
                             /\ slotChunk'[t] \in frontier' .. frontier' + Slots - 1
                             /\ slotChunk'[t] % Slots = t
      BY Zenon DEF SlotsInWindow
    <3>1. CASE t = s
      BY <1>3, <2>1, <3>1, Zenon DEF IInv, TypeOK
    <3>2. CASE t # s
      <4>1. slotState'[t] = slotState[t] /\ slotChunk'[t] = slotChunk[t]
        BY <2>1, <3>2, Zenon DEF IInv, TypeOK
      <4>2. /\ slotState[t] = "free" <=> slotChunk[t] = -1
            /\ slotState[t] # "free" => /\ slotChunk[t] \in frontier .. frontier + Slots - 1
                                        /\ slotChunk[t] % Slots = t
                                        /\ slotChunk[t] # frontier
        BY SMTT(30), <1>3, <3>2 DEF IInv, SlotsInWindow
      <4> QED
        BY <1>3, <1>4, <2>2, <4>1, <4>2, WindowAssumption
    <3> QED
      BY <3>1, <3>2, Zenon
  <2>5. CopyInv'
    <3>1. err = None => \A y \in Writers : pc[y] = "copy" =>
            call[y].idx % Slots # s /\ call[y].idx % Slots \in SlotIds
      BY <1>2, StateFacts, Zenon DEF IInv, TypeOK, CopyInv, Holds, Call
    <3>2. err = None => \A y \in Writers : pc[y] = "copy" =>
            Holds(call[y].idx % Slots, call[y].idx, "filling")'
      BY <1>1, <2>1, <3>1, Zenon DEF IInv, TypeOK, CopyInv, Holds
    <3> QED
      BY <1>1, <2>3, <3>2, Zenon DEF IInv, CopyInv, BytesAt
  <2>6. ReadyInv'
    BY <1>1, <1>3, <2>1, Zenon DEF IInv, TypeOK, ReadyInv, BytesAt
  <2>7. PartialInv'
    <3> SUFFICES ASSUME readPos' < TotalSize, cur' * ChunkSize < readPos' PROVE FALSE
      BY Zenon DEF PartialInv
    <3>1. cur' = cur + 1 /\ cur # total - 1
      BY <1>3, <1>4, <1>6, <2>2
    <3>2. (cur + 1) * ChunkSize = cur * ChunkSize + ChunkSize
      BY <1>4, WindowAssumption
    <3> QED
      BY <1>4, <2>2, <3>1, <3>2, WindowAssumption
  <2>8. AckedStored'
    <3> SUFFICES ASSUME NEW a \in acked, err = None
                 PROVE  Consumed(a[1])' \/ Holds(a[1] % Slots, a[1], "ready")'
      BY <1>1, Zenon DEF IInv, AckedStored
    <3>1. a[1] \in Chunks /\ (Consumed(a[1]) \/ Holds(a[1] % Slots, a[1], "ready"))
      BY Zenon DEF IInv, TypeOK, AckedStored
    <3>2. Consumed(a[1]) => Consumed(a[1])'
      BY <1>1, <1>4, <3>1, ChunkFacts, WindowAssumption DEF Consumed
    <3>3. CASE Holds(a[1] % Slots, a[1], "ready") /\ a[1] % Slots = s
      <4>1. a[1] = cur
        BY <1>2, <3>3, Zenon DEF Holds
      <4> QED
        BY <1>4, <2>2, <4>1 DEF Consumed
    <3>4. CASE Holds(a[1] % Slots, a[1], "ready") /\ a[1] % Slots # s
      BY SMTT(30), <2>1, <3>1, <3>4, StateFacts DEF IInv, TypeOK, Holds
    <3> QED
      BY <3>1, <3>2, <3>3, <3>4, Zenon
  <2>9. NoLostWakeup'
    BY <1>1, <2>3, Zenon DEF NoLostWakeup
  <2> QED
    BY <1>7, <2>4, <2>5, <2>6, <2>7, <2>8, <2>9, Zenon DEF IInv
<1> QED
  BY <1>4, <1>5, <1>8, <1>9, WindowAssumption

-----------------------------------------------------------------------------
(* Every step keeps the invariant. *)
LEMMA NextInv == IInv /\ [Next]_vars => IInv'
<1> SUFFICES ASSUME IInv, [Next]_vars PROVE IInv'
  BY Zenon
<1>1. CASE \E w \in Writers, idx \in Chunks, body \in Bodies : WriteChunk(w, idx, body)
  BY <1>1, WriteChunkStep, Zenon
<1>2. CASE \E w \in Writers : Resume(w)
  BY <1>2, ResumeStep, Zenon
<1>3. CASE \E w \in Writers : CopyByte(w)
  BY <1>3, CopyByteStep, Zenon
<1>4. CASE \E w \in Writers, ok \in BOOLEAN : Settle(w, ok)
  BY <1>4, SettleStep, Zenon
<1>5. CASE \E w \in Writers : Deadline(w)
  BY <1>5, DeadlineStep, Zenon
<1>6. CASE \E w \in Writers : TimerStarts(w)
  BY <1>6, DeadlineStep, Zenon
<1>7. CASE \E w \in Writers : TimerBroadcast(w)
  BY <1>7, TimerBroadcastStep, Zenon
<1>8. CASE \E len \in Lens : Read(len)
  <2>1. PICK len \in Lens : ReadLoop(len)
    BY <1>8, Zenon DEF Read
  <2>2. len \in 0 .. ChunkSize + 1
    BY WindowAssumption DEF Lens
  <2> QED
    BY <2>1, <2>2, ReadLoopStep, Zenon
<1>9. CASE ReadAgain
  <2>1. ReadLoop(want) /\ want \in 0 .. ChunkSize + 1
    BY <1>9, Zenon DEF ReadAgain, IInv, TypeOK
  <2> QED
    BY <2>1, ReadLoopStep, Zenon
<1>10. CASE \E k \in 0 .. ChunkSize : ReadAt(k)
  BY <1>10, ReadAtStep, Zenon
<1>11. CASE ReadCommit
  BY <1>11, ReadCommitStep, Zenon
<1>12. CASE \E sticky \in {"ErrClosed", "errAborted"} : CloseWithError(sticky)
  BY <1>12, CloseStep, Zenon
<1>13. CASE RemoveFile
  BY <1>13, RemoveFileStep, Zenon
<1>14. CASE UNCHANGED vars
  <2>1. UNCHANGED <<slotVars, readPos, crcs, err, file, ring, writerVars, readerVars, sink, acked>>
    BY <1>14, Zenon DEF vars
  <2>2. TypeOK'
    BY <2>1, Zenon DEF IInv, TypeOK, slotVars, writerVars, readerVars
  <2>3. CoreInv'
    BY <2>1, Frame, Zenon DEF IInv, slotVars, writerVars, readerVars
  <2>4. WaitInv' /\ CloseInv' /\ AckedStored'
    BY <2>1, Zenon DEF IInv, WaitInv, CloseInv, AckedStored, Holds, Consumed, slotVars, writerVars
  <2>5. NoLostWakeup'
    BY <2>1, Zenon DEF IInv, NoLostWakeup, Holds, frontier, cur, slotVars, writerVars, readerVars
  <2> QED
    BY <2>2, <2>3, <2>4, <2>5, Zenon DEF IInv, CoreInv
<1> QED
  BY <1>1, <1>2, <1>3, <1>4, <1>5, <1>6, <1>7, <1>8, <1>9, <1>10, <1>11, <1>12, <1>13, <1>14, Zenon
     DEF Next

(* The invariant holds in every state of the window: what each critical    *)
(* section of WriteChunk, Read and CloseWithError may rely on.             *)
THEOREM Invariance == Spec => []IInv
<1>1. Init => IInv
  BY InitInv, Zenon
<1>2. IInv /\ [Next]_vars => IInv'
  BY NextInv, Zenon
<1> QED
  BY <1>1, <1>2, PTL DEF Spec

(* The fields of the window and the locals of its goroutines keep their    *)
(* types: in particular every ring index, chunk number and read length     *)
(* stays in range for every geometry NewWindow accepts.                    *)
THEOREM TypeCorrect == Spec => []TypeOK
<1>1. IInv => TypeOK
  BY Zenon DEF IInv
<1> QED
  BY <1>1, Invariance, PTL

(* Ring addressing never aliases (slot := idx % slots), whatever the       *)
(* number of requests and slots.                                           *)
THEOREM SlotsSafe == Spec => []SlotsInWindow
<1>1. IInv => SlotsInWindow
  BY Zenon DEF IInv
<1> QED
  BY <1>1, Invariance, PTL

(* The driver receives the uploaded file, byte for byte, for every file    *)
(* and chunk size, also when Close overlaps a Read or a WriteChunk.        *)
THEOREM StreamCorrect == Spec => []StreamIntact
<1>1. IInv => StreamIntact
  BY Zenon DEF IInv
<1> QED
  BY <1>1, Invariance, PTL

(* An acknowledged chunk is never lost before the window closes, and its   *)
(* CRC never changes.                                                      *)
THEOREM AcksDurable == Spec => []AckedStored
<1>1. IInv => AckedStored
  BY Zenon DEF IInv
<1> QED
  BY <1>1, Invariance, PTL

(* A goroutine parked in cond.Wait has nothing to do: no Broadcast is      *)
(* missing, although the failure path of WriteChunk frees a slot without.  *)
THEOREM WakeupsComplete == Spec => []NoLostWakeup
<1>1. IInv => NoLostWakeup
  BY Zenon DEF IInv
<1> QED
  BY <1>1, Invariance, PTL

(* ErrOutOfWindow is only ever given for a chunk that lies a whole window  *)
(* ahead of the frontier.                                                  *)
THEOREM OutOfWindowMeansAhead == Spec => []OutOfWindowIsAhead
<1>1. IInv => OutOfWindowIsAhead
  BY WaitsAhead, Zenon DEF OutOfWindowIsAhead
<1> QED
  BY <1>1, Invariance, PTL

(* Nothing is acknowledged once the window has its sticky error.           *)
THEOREM NoLateAck == Spec => NoAckAfterClose
<1>1. IInv /\ [Next]_vars => [err # None => acked' = acked]_vars
  <2> SUFFICES ASSUME IInv, Next, err # None PROVE acked' = acked
    BY Zenon
  <2>1. ASSUME NEW w \in Writers, NEW c, LoopBody(w, c) PROVE acked' = acked
    BY SMTT(30), <2>1 DEF LoopBody, Fail
  <2>2. ASSUME NEW w \in Writers, NEW ok \in BOOLEAN, Settle(w, ok) PROVE acked' = acked
    BY <2>2, Zenon DEF Settle, WholeBody, Orphaned, GiveBack, Store
  <2>3. ASSUME NEW len, ReadLoop(len) PROVE acked' = acked
    BY <2>3, Zenon DEF ReadLoop
  <2> QED
    BY Zenon, <2>1, <2>2, <2>3 DEF Next, WriteChunk, Resume, CopyByte, Deadline, TimerStarts,
       TimerBroadcast, Read, ReadAgain, ReadAt, ReadCommit, Crosses, CloseWithError, RemoveFile
<1> QED
  BY <1>1, Invariance, PTL DEF Spec, NoAckAfterClose

-----------------------------------------------------------------------------
(* The window implements the abstract ChunkStream. *)

(* While the window is open, a chunk with a CRC is in the window: it is    *)
(* buffered or consumed.  A slot being filled therefore has none yet.      *)
KnownInv ==
  err = None =>
    \A i \in Chunks : crcs[i] # NoCRC => Consumed(i) \/ Holds(i % Slots, i, "ready")

(* The history invariant holds initially ... *)
LEMMA KnownInit == Init => KnownInv
  BY Zenon DEF Init, NewWindow, KnownInv

(* A step that leaves CRCs, position, error and slots alone keeps it. *)
LEMMA KnownFrame ==
  ASSUME KnownInv, UNCHANGED <<slotVars, readPos, crcs, err>>
  PROVE  KnownInv'
  BY Zenon DEF KnownInv, Consumed, Holds, slotVars

(* ... and every step keeps it. *)
LEMMA KnownNext == IInv /\ KnownInv /\ [Next]_vars => KnownInv'
<1> SUFFICES ASSUME IInv, KnownInv, [Next]_vars PROVE KnownInv'
  BY Zenon
<1>1. ASSUME NEW w \in Writers, NEW c \in Call, LoopBody(w, c) PROVE KnownInv'
  <2>1. UNCHANGED <<readPos, crcs, err>>
    BY <1>1, Zenon DEF LoopBody
  <2>2. CASE UNCHANGED slotVars
    BY <2>1, <2>2, KnownFrame, Zenon DEF slotVars
  <2>3. CASE BeginCopy(w, c) /\ Admissible(c.idx)
    <3>1. /\ slotState[c.idx % Slots] = "free"
          /\ slotState' = [slotState EXCEPT ![c.idx % Slots] = "filling"]
          /\ slotChunk' = [slotChunk EXCEPT ![c.idx % Slots] = c.idx]
      BY <2>3, Zenon DEF BeginCopy, SetSlot, Admissible
    <3> QED
      BY <2>1, <3>1, StateFacts, SMTT(60) DEF IInv, TypeOK, KnownInv, Consumed, Holds
  <2> QED
    BY <1>1, <2>2, <2>3, Zenon DEF LoopBody, Fail, Acknowledge, Park
<1>2. CASE \E w \in Writers, idx \in Chunks, body \in Bodies : WriteChunk(w, idx, body)
  <2>1. PICK w \in Writers, i \in Chunks, b \in Bodies :
          LoopBody(w, [idx |-> i, body |-> b, n |-> 0])
    BY <1>2, Zenon DEF WriteChunk
  <2>2. [idx |-> i, body |-> b, n |-> 0] \in Call
    BY WindowAssumption DEF Call
  <2> QED
    BY <1>1, <2>1, <2>2, Zenon
<1>3. CASE \E w \in Writers : Resume(w)
  BY <1>1, <1>3, Zenon DEF Resume, IInv, TypeOK
<1>4. CASE \E w \in Writers, ok \in BOOLEAN : Settle(w, ok)
  <2>1. PICK w \in Writers, ok \in BOOLEAN : Settle(w, ok)
    BY <1>4, Zenon
  <2> DEFINE i == call[w].idx
             s == i % Slots
  <2>2. i \in Chunks /\ s \in SlotIds /\ UNCHANGED <<readPos, err>> /\ s = i % Slots
    BY <2>1, StateFacts, Zenon DEF IInv, TypeOK, Settle, WholeBody, Orphaned, GiveBack, Store, Call
  <2>3. CASE UNCHANGED <<slotVars, crcs>>
    BY <2>2, <2>3, KnownFrame, Zenon DEF slotVars
  <2>4. CASE Holds(s, i, "filling") /\ SetSlot(s, "free", -1) /\ UNCHANGED crcs
    <3> HIDE DEF i, s
    <3> QED
      BY <2>2, <2>4, StateFacts DEF IInv, TypeOK, KnownInv, Consumed, Holds, SetSlot
  <2>5. CASE /\ Holds(s, i, "filling") /\ SetSlot(s, "ready", i)
             /\ crcs' = [crcs EXCEPT ![i] = call[w].body]
    <3> HIDE DEF i, s
    <3> SUFFICES ASSUME err = None, NEW k \in Chunks, crcs'[k] # NoCRC
                 PROVE  Consumed(k)' \/ Holds(k % Slots, k, "ready")'
      BY <2>2, Zenon DEF KnownInv
    <3>1. CASE k = i
      BY <2>2, <2>5, <3>1, Zenon DEF IInv, TypeOK, Holds, SetSlot
    <3>2. CASE k # i
      <4>1. Consumed(k) \/ Holds(k % Slots, k, "ready")
        BY <2>5, <3>2, Zenon DEF IInv, TypeOK, KnownInv
      <4>2. Consumed(k) => Consumed(k)'
        BY <2>2, Zenon DEF Consumed
      <4>3. Holds(k % Slots, k, "ready") => Holds(k % Slots, k, "ready")'
        BY <2>2, <2>5, StateFacts, Zenon DEF IInv, TypeOK, Holds, SetSlot
      <4> QED
        BY <4>1, <4>2, <4>3, Zenon
    <3> QED
      BY <3>1, <3>2, Zenon
  <2> QED
    BY <2>1, <2>3, <2>4, <2>5, Zenon DEF Settle, WholeBody, Orphaned, GiveBack, Store
<1>5. CASE ReadCommit
  <2> DEFINE s == cur % Slots
             end == cur * ChunkSize + ChunkLen(cur)
  <2>1. /\ readPos' = readPos + want /\ UNCHANGED <<crcs, err>>
        /\ IF want > 0 /\ readPos + want >= end THEN SetSlot(s, "free", -1)
           ELSE UNCHANGED slotVars
    BY <1>5, Zenon DEF ReadCommit, Crosses
  <2>2. want \in Nat /\ readPos \in Nat
    BY WindowAssumption DEF IInv, TypeOK
  <2> SUFFICES ASSUME err = None, NEW k \in Chunks, crcs[k] # NoCRC
               PROVE  Consumed(k)' \/ Holds(k % Slots, k, "ready")'
    BY <2>1, Zenon DEF KnownInv
  <2>3. Consumed(k) \/ Holds(k % Slots, k, "ready")
    BY Zenon DEF KnownInv
  <2>4. Consumed(k) => Consumed(k)'
    BY <2>1, <2>2, ChunkFacts, WindowAssumption DEF Consumed
  <2>5. Holds(s, cur, "ready") /\ k \in Chunks /\ k % Slots \in SlotIds
    BY <1>5, StateFacts, Zenon DEF IInv, ReadInv, ReadCommit, Crosses
  <2>6. CASE UNCHANGED slotVars
    BY <2>3, <2>4, <2>6, Zenon DEF Holds, slotVars
  <2>7. CASE SetSlot(s, "free", -1) /\ readPos' >= end
    <3>1. CASE k % Slots # s
      BY <2>3, <2>4, <2>5, <2>7, <3>1, Zenon DEF IInv, TypeOK, Holds, SetSlot
    <3>2. CASE k % Slots = s /\ Holds(k % Slots, k, "ready")
      <4>1. k = cur
        BY <2>5, <3>2, Zenon DEF Holds
      <4>2. k * ChunkSize + ChunkLen(k) <= readPos'
        BY <2>1, <2>2, <2>7, <4>1, ChunkFacts, WindowAssumption, Zenon
      <4> QED
        BY <4>2, Zenon DEF Consumed
    <3> QED
      BY <2>3, <2>4, <3>1, <3>2, Zenon
  <2> QED
    BY <2>1, <2>6, <2>7, Zenon
<1>6. CASE \E sticky \in {"ErrClosed", "errAborted"} : CloseWithError(sticky)
  <2>1. err' # None
    BY <1>6, WindowAssumption, Zenon DEF CloseWithError
  <2> QED
    BY <2>1, Zenon DEF KnownInv
<1>7. CASE \/ \E w \in Writers : CopyByte(w) \/ Deadline(w) \/ TimerStarts(w) \/ TimerBroadcast(w)
           \/ \E len : ReadLoop(len)
           \/ \E k \in 0 .. ChunkSize : ReadAt(k)
           \/ RemoveFile \/ UNCHANGED vars
  <2>1. UNCHANGED <<slotVars, readPos, crcs, err>>
    BY Zenon, <1>7
       DEF CopyByte, Deadline, TimerStarts, TimerBroadcast, ReadLoop, ReadAt, RemoveFile, vars
  <2> QED
    BY SMTT(30), <2>1, KnownFrame
<1> QED
  BY <1>2, <1>3, <1>4, <1>5, <1>6, <1>7, Zenon DEF Next, Read, ReadAgain

-----------------------------------------------------------------------------
(* The two descriptions of the file's geometry agree. *)
LEMMA SameGeometry ==
  /\ Stream!Last = total - 1
  /\ 0 .. Stream!Last = Chunks
  /\ \A c \in Chunks : Stream!End(c) = c * ChunkSize + ChunkLen(c)
  /\ Stream!At = cur
<1>1. ChunkSize \in Nat \ {0} /\ TotalSize \in Nat \ {0} /\ total \in Nat \ {0}
  BY TotalFacts, WindowAssumption, Zenon
<1>2. Stream!Last = total - 1
  <2> DEFINE a == TotalSize - 1
             q == total - 1
  <2>1. a \in Nat /\ q \in Int /\ q * ChunkSize <= a /\ a < q * ChunkSize + ChunkSize
    <3>1. total * ChunkSize = (total - 1) * ChunkSize + ChunkSize
      BY <1>1
    <3>2. (total - 1) * ChunkSize < TotalSize /\ TotalSize <= total * ChunkSize
      BY TotalFacts, Zenon
    <3>3. (total - 1) * ChunkSize \in Int
      BY <1>1
    <3> QED
      BY <1>1, <3>1, <3>2, <3>3
  <2> HIDE DEF a, q
  <2>2. a \div ChunkSize = q
    BY <1>1, <2>1, DivUnique, Zenon
  <2> QED
    BY <2>2, Zenon DEF a, q, Stream!Last
<1>3. ASSUME NEW c \in Chunks PROVE Stream!End(c) = c * ChunkSize + ChunkLen(c)
  <2>1. CASE c = total - 1
    BY <1>2, <2>1, ChunkFacts, Zenon DEF Stream!End
  <2>2. CASE c # total - 1
    <3>1. ChunkLen(c) = ChunkSize /\ c \in Nat
      BY <2>2, ChunkFacts, Zenon
    <3> QED
      BY <1>1, <1>2, <2>2, <3>1 DEF Stream!End
  <2> QED
    BY <2>1, <2>2, Zenon
<1> QED
  BY <1>2, <1>3, Zenon DEF Chunks, cur, Stream!At

(* A new window is an empty stream. *)
LEMMA RefInit == Init => Stream!SInit
  BY SameGeometry, Zenon DEF Init, NewWindow, Stream!SInit

(* A successful end of a copy is an Accept. *)
LEMMA SettleRefines ==
  ASSUME IInv, KnownInv, NEW w \in Writers, NEW ok \in BOOLEAN, Settle(w, ok)
  PROVE  Stream!SNext \/ UNCHANGED <<crcs, readPos, sink, err>>
<1> DEFINE i == call[w].idx
           b == call[w].body
           s == i % Slots
<1>1. i \in Chunks /\ s \in SlotIds /\ b \in Bodies /\ UNCHANGED <<readPos, sink, err>>
  BY StateFacts, Zenon DEF IInv, TypeOK, CopyInv, Settle, WholeBody, Orphaned, GiveBack, Store, Call
<1>2. CASE UNCHANGED crcs
  BY <1>1, <1>2, Zenon
<1>3. CASE /\ Holds(s, i, "filling") /\ err = None /\ crcs' = [crcs EXCEPT ![i] = b]
  <2>1. i \in frontier .. frontier + Slots - 1 /\ frontier \in Nat
    BY <1>1, <1>3, StateFacts, TotalFacts DEF IInv, SlotsInWindow, Holds
  <2>2. readPos < TotalSize
    <3> SUFFICES ASSUME readPos >= TotalSize PROVE FALSE
      BY WindowAssumption DEF IInv, TypeOK
    <3>1. frontier = total
      BY Zenon DEF frontier
    <3> QED
      BY <1>1, <2>1, <3>1, WindowAssumption, TotalFacts DEF Chunks
  <2>3. frontier = cur
    BY <2>2, StateFacts, Zenon DEF IInv
  <2>4. ~Consumed(i)
    <3>1. ~(i < frontier)
      BY <1>1, <2>1, WindowAssumption
    <3> QED
      BY <1>1, <3>1, StateFacts, Zenon DEF IInv
  <2>5. crcs[i] = NoCRC
    BY <1>1, <1>3, <2>4, Zenon DEF KnownInv, Holds
  <2>6. Stream!Accept(i, b)
    BY <1>1, <1>3, <2>1, <2>3, <2>5, SameGeometry, Zenon DEF Stream!Accept
  <2> QED
    BY Zenon, <1>1, <2>6, SameGeometry DEF Stream!SNext
<1> QED
  BY <1>2, <1>3, Zenon DEF Settle, WholeBody, Orphaned, GiveBack, Store

(* The commit of a read is a Deliver, or changes nothing. *)
LEMMA CommitRefines ==
  ASSUME IInv, ReadCommit
  PROVE  Stream!SNext \/ UNCHANGED <<crcs, readPos, sink, err>>
<1>1. /\ rpc = "commit" /\ readPos' = readPos + want
      /\ sink' = [p \in DOMAIN sink |->
                    IF p \in readPos .. readPos + want - 1 THEN rbuf[p - readPos] ELSE sink[p]]
      /\ UNCHANGED <<crcs, err>>
  BY Zenon DEF ReadCommit, Crosses
<1>2. /\ readPos < TotalSize /\ crcs[cur] \in Bodies
      /\ readPos + want <= cur * ChunkSize + ChunkLen(cur)
      /\ \A j \in 0 .. want - 1 : rbuf[j] = [pos |-> readPos + j, of |-> crcs[cur]]
  BY <1>1, Zenon DEF IInv, ReadInv
<1>3. /\ cur \in Chunks /\ cur * ChunkSize <= readPos
  BY <1>2, StateFacts, Zenon DEF IInv
<1>4. /\ cur * ChunkSize \in Nat /\ ChunkLen(cur) \in 1 .. ChunkSize
      /\ readPos \in Nat /\ want \in Nat /\ DOMAIN sink = 0 .. TotalSize - 1
      /\ sink = [p \in 0 .. TotalSize - 1 |-> sink[p]]
  BY <1>3, ChunkFacts, WindowAssumption DEF IInv, TypeOK
<1>5. want \in 0 .. ChunkSize
  BY <1>2, <1>3, <1>4, WindowAssumption
<1>6. sink' = [p \in 0 .. TotalSize - 1 |->
                 IF p \in readPos .. readPos + want - 1 THEN [pos |-> p, of |-> crcs[cur]]
                 ELSE sink[p]]
  <2>1. ASSUME NEW p \in readPos .. readPos + want - 1
        PROVE  rbuf[p - readPos] = [pos |-> p, of |-> crcs[cur]]
    <3>1. p - readPos \in 0 .. want - 1 /\ readPos + (p - readPos) = p
      BY <1>4
    <3> QED
      BY <1>2, <3>1, Zenon
  <2> QED
    BY <1>1, <1>4, <2>1, Zenon
<1>7. CASE want = 0
  <2>1. sink' = sink
    <3>1. ASSUME NEW p \in 0 .. TotalSize - 1 PROVE ~(p \in readPos .. readPos + want - 1)
      BY <1>4, <1>7, WindowAssumption
    <3> QED
      BY <1>4, <1>6, <3>1, Zenon
  <2>2. readPos' = readPos
    BY <1>1, <1>4, <1>7
  <2> QED
    BY <1>1, <2>1, <2>2, Zenon
<1>8. CASE want # 0
  <2>1. want \in 1 .. ChunkSize
    BY <1>5, <1>8, WindowAssumption
  <2>2. crcs[cur] # NoCRC
    BY <1>2, WindowAssumption, Zenon
  <2>3. readPos + want <= Stream!End(cur)
    BY <1>2, <1>3, SameGeometry, Zenon
  <2>4. Stream!Deliver(want)
    BY <1>1, <1>2, <1>6, <2>2, <2>3, SameGeometry, Zenon DEF Stream!Deliver
  <2> QED
    BY <2>1, <2>4, Zenon DEF Stream!SNext
<1> QED
  BY <1>7, <1>8, Zenon

(* Every step of the window is a step of the stream, or leaves it alone. *)
LEMMA RefNext == IInv /\ KnownInv /\ [Next]_vars => [Stream!SNext]_(Stream!svars)
<1> SUFFICES ASSUME IInv, KnownInv, [Next]_vars
             PROVE  Stream!SNext \/ UNCHANGED <<crcs, readPos, sink, err>>
  BY Zenon DEF Stream!svars
<1>1. CASE \E w \in Writers, ok \in BOOLEAN : Settle(w, ok)
  BY <1>1, SettleRefines, Zenon
<1>2. CASE ReadCommit
  BY <1>2, CommitRefines, Zenon
<1>3. CASE \E sticky \in {"ErrClosed", "errAborted"} : CloseWithError(sticky)
  <2>1. err' # None /\ UNCHANGED <<crcs, readPos, sink>>
    BY <1>3, WindowAssumption, Zenon DEF CloseWithError
  <2>2. Stream!Close
    BY <2>1, Zenon DEF Stream!Close
  <2> QED
    BY <2>2, Zenon DEF Stream!SNext
<1>4. CASE \/ \E w \in Writers : \E c : LoopBody(w, c)
           \/ \E w \in Writers : CopyByte(w) \/ Deadline(w) \/ TimerStarts(w) \/ TimerBroadcast(w)
           \/ \E len : ReadLoop(len)
           \/ \E k \in 0 .. ChunkSize : ReadAt(k)
           \/ RemoveFile \/ UNCHANGED vars
  BY Zenon, <1>4 DEF LoopBody, CopyByte, Deadline, TimerStarts, TimerBroadcast, ReadLoop, ReadAt,
     RemoveFile, vars
<1> QED
  BY Zenon, <1>1, <1>2, <1>3, <1>4 DEF Next, WriteChunk, Resume, Read, ReadAgain

(* The window implements the stream it promises: chunks are accepted once, *)
(* inside the window and only while it is open (WriteChunk), and their     *)
(* bytes are delivered in order (Read), whatever the interleaving.         *)
THEOREM Refinement == Spec => ImplementsStream
<1>1. Init => Stream!SInit
  BY RefInit, Zenon
<1>2. IInv /\ KnownInv /\ [Next]_vars => [Stream!SNext]_(Stream!svars)
  BY RefNext, Zenon
<1>3. Init => KnownInv
  BY KnownInit, Zenon
<1>4. IInv /\ KnownInv /\ [Next]_vars => KnownInv'
  BY KnownNext, Zenon
<1> QED
  BY <1>1, <1>2, <1>3, <1>4, Invariance, PTL DEF Spec, ImplementsStream, Stream!SSpec
=============================================================================
