-------------------------- MODULE DownloaderSlots --------------------------
(***************************************************************************)
(* What a download may count on: every worker has a slot of the shared     *)
(* limit, and chunkChannel has room for every chunk sent.  Both are counts *)
(* that change by one with a step, on top of the invariant DInv.           *)
(***************************************************************************)
EXTENDS DownloaderProofs, FiniteSetTheorems

Slots == limit \in Int /\ WorkersHoldSlots

(* The workers that run are finitely many.                                 *)
LEMMA LiveIsFinite ==
    /\ IsFiniteSet(Live) /\ Cardinality(Live) \in Nat
    /\ IsFiniteSet(Live') /\ Cardinality(Live') \in Nat
<1>1. Conns \in Int
  BY Sizes, DownloaderAssumption DEF Conns
<1>2. IsFiniteSet(Workers)
  <2>1. 1 \in Int
    OBVIOUS
  <2> QED  BY <1>1, <2>1, FS_Interval, Zenon DEF Workers
<1>3. Live \in SUBSET Workers /\ Live' \in SUBSET Workers
  BY Zenon DEF Live
<1>4. IsFiniteSet(Live) /\ IsFiniteSet(Live')
  BY <1>2, <1>3, FS_Subset, Zenon
<1> QED  BY <1>4, FS_CardinalityType, Zenon

(* No slot moves and no worker starts, a slot goes to a worker that may    *)
(* start, or a worker that ends gives its slot back.                       *)
LEMMA SlotsMove ==
    ASSUME Slots,
           \/ limit' = limit /\ Live' \subseteq Live
           \/ limit' = limit - 1 /\ \E x : Live' \subseteq Live \union {x}
           \/ limit' = limit + 1 /\ \E x \in Live : Live' \subseteq Live \ {x}
    PROVE  Slots'
<1>0. /\ limit \in Int /\ limit + Cardinality(Live) <= Limit /\ Limit \in Nat
      /\ IsFiniteSet(Live) /\ Cardinality(Live) \in Nat
      /\ IsFiniteSet(Live') /\ Cardinality(Live') \in Nat
  BY LiveIsFinite, DownloaderAssumption, Zenon DEF Slots, WorkersHoldSlots
<1>1. PICK S, T : S = Live /\ T = Live'
  BY Zenon
<1>2. CASE limit' = limit /\ T \subseteq S
  <2>1. Cardinality(T) <= Cardinality(S)
    BY <1>0, <1>1, <1>2, FS_Subset, Zenon
  <2> QED  BY <1>0, <1>1, <1>2, <2>1 DEF Slots, WorkersHoldSlots
<1>3. ASSUME limit' = limit - 1, NEW x, T \subseteq S \union {x} PROVE Slots'
  <2>1. /\ IsFiniteSet(S \union {x})
        /\ Cardinality(S \union {x}) = IF x \in S THEN Cardinality(S) ELSE Cardinality(S) + 1
    BY <1>0, <1>1, FS_AddElement, Zenon
  <2>2. Cardinality(T) <= Cardinality(S \union {x})
    BY <1>3, <2>1, FS_Subset, Zenon
  <2> QED  BY <1>0, <1>1, <1>3, <2>1, <2>2 DEF Slots, WorkersHoldSlots
<1>4. ASSUME limit' = limit + 1, NEW x \in S, T \subseteq S \ {x} PROVE Slots'
  <2>1. IsFiniteSet(S \ {x}) /\ Cardinality(S \ {x}) = Cardinality(S) - 1
    BY <1>0, <1>1, FS_RemoveElement, Zenon
  <2>2. Cardinality(T) <= Cardinality(S \ {x})
    BY <1>4, <2>1, FS_Subset, Zenon
  <2> QED  BY <1>0, <1>1, <1>4, <2>1, <2>2 DEF Slots, WorkersHoldSlots
<1> QED  BY <1>1, <1>2, <1>3, <1>4, Zenon

(* sendChunkTask takes a slot for a connection it opens, and may keep it   *)
(* when no connection comes of it.                                         *)
LEMMA SendSlots ==
    ASSUME NEW new \in BOOLEAN, NEW pcs, sendChunkTask(new, pcs), next > 0
    PROVE  \/ limit' = limit /\ wpc' = pcs
           \/ /\ new /\ limit' = limit - 1
              /\ \E x : wpc' = pcs \/ wpc' = [pcs EXCEPT ![x] = "recv"]
<1>1. CASE limit' = limit /\ wpc' = pcs
  BY <1>1, Zenon
<1>2. CASE /\ limit' = IF NeedsSlot(new) THEN limit - 1 ELSE limit
           /\ wpc' = pcs \/ \E ch : ch.new = new /\ Queued(ch, pcs)
  <2>1. NeedsSlot(new) <=> new
    BY Zenon DEF NeedsSlot
  <2>2. wpc' = pcs \/ (new /\ \E x : wpc' = [pcs EXCEPT ![x] = "recv"])
    BY <1>2, Zenon DEF Queued
  <2> QED  BY <1>2, <2>1, <2>2, Zenon
<1>3. \A i, s, z, b : [id |-> i, start |-> s, size |-> z, buf |-> b, new |-> new].new = new
  BY Zenon
<1> QED  BY <1>1, <1>2, <1>3, Zenon DEF sendChunkTask, Offer, counters

(* Every step keeps the slots.                                             *)
LEMMA NextSlots ==
    ASSUME DInv, Slots, [Next]_vars
    PROVE  Slots'
<1>0. DOMAIN wpc = Workers /\ (rpc # "start" => next > 0)
  <2>1. rpc # "start" => next \in Nat /\ Lo \in Nat /\ Lo < next
    BY Bounds, Zenon
  <2> QED  BY <2>1 DEF DInv, Types
<1>1. ASSUME UNCHANGED <<limit, wpc>> PROVE Slots'
  BY <1>1, SlotsMove, Zenon DEF Live
<1>2. ASSUME NEW w \in Workers, w \in Live, limit' = limit, NEW pc, wpc' = [wpc EXCEPT ![w] = pc]
      PROVE  Slots'
  BY <1>0, <1>2, SlotsMove, Zenon DEF Live
<1>3. CASE Download
  <2>1. CASE limit' = limit - 1 /\ wpc' = [wpc EXCEPT ![Conns - conc + 1] = "recv"]
    <3>1. PICK x : wpc' = [wpc EXCEPT ![x] = "recv"]
      BY <2>1, Zenon
    <3>2. Live' \subseteq Live \union {x}
      BY <1>0, <3>1, Zenon DEF Live
    <3> QED  BY <2>1, <3>2, SlotsMove, Zenon
  <2> QED  BY <1>1, <1>3, <2>1 DEF Download, Queued
<1>4. CASE finishBuf
  <2>1. rpc # "start"
    BY <1>4, Zenon DEF finishBuf
  <2>2. sendChunkTask(FALSE, wpc) => UNCHANGED <<limit, wpc>>
    BY <1>0, <2>1, SendSlots, Zenon
  <2> QED  BY <1>1, <1>4, <2>2, Zenon DEF finishBuf, counters
<1>5. CASE ReadLoop \/ ReadWake \/ NextBuf \/ Close \/ Cancel \/ UNCHANGED vars
  BY <1>1, <1>5, Zenon DEF ReadLoop, ReadWake, NextBuf, Close, Cancel, counters, vars
<1>6. ASSUME NEW w \in Workers, Expand(w) PROVE Slots'
  <2>1. wpc[w] = "body" /\ w \in Live /\ rpc # "start"
    BY <1>6, Started, Zenon DEF Expand, Live
  <2>2. PICK pcs : pcs = [wpc EXCEPT ![w] = "copy"] /\ sendChunkTask(TRUE, pcs)
    BY <1>6, Zenon DEF Expand
  <2>3. DOMAIN pcs = Workers /\ \A x \in Workers : pcs[x] \notin {"new", "gone"} => x \in Live
    BY <1>0, <2>1, <2>2, Zenon DEF Live
  <2>4. \/ limit' = limit /\ wpc' = pcs
        \/ limit' = limit - 1 /\ \E x : wpc' = pcs \/ wpc' = [pcs EXCEPT ![x] = "recv"]
    BY <1>0, <2>1, <2>2, SendSlots, Zenon
  <2>5. wpc' = pcs => Live' \subseteq Live
    BY <2>3, Zenon DEF Live
  <2>6. \A x : wpc' = [pcs EXCEPT ![x] = "recv"] => Live' \subseteq Live \union {x}
    BY <2>3, Zenon DEF Live
  <2>7. wpc' = pcs => Live' \subseteq Live \union {w}
    BY <2>5, Zenon
  <2> QED  BY <2>4, <2>5, <2>6, <2>7, SlotsMove, Zenon
<1>7. ASSUME NEW w \in Workers, Exit(w) PROVE Slots'
  <2>1. /\ w \in Live /\ limit' = limit + 1 /\ wpc' = [wpc EXCEPT ![w] = "gone"]
    BY <1>7, Zenon DEF Exit, Live, concurrencyFinish
  <2>2. Live' \subseteq Live \ {w}
    BY <1>0, <2>1, Zenon DEF Live
  <2> QED  BY <2>1, <2>2, SlotsMove, Zenon
<1>8. ASSUME NEW w \in Workers,
             \/ downloadPart(w) \/ Write(w) \/ BreakOff(w) \/ Downloaded(w) \/ Judge(w)
             \/ Overload(w) \/ Quit(w) \/ \E answer \in Answers : Request(w, answer)
      PROVE  Slots'
  <2>1. w \in Live /\ limit' = limit
    BY <1>8, Zenon DEF Live, downloadPart, Write, BreakOff, Downloaded, Judge, Overload, Quit, Request,
                       counters
  <2>2. wpc' = wpc \/ \E pc : wpc' = [wpc EXCEPT ![w] = pc]
    BY <1>8, Zenon DEF downloadPart, Write, BreakOff, Downloaded, Judge, Overload, Quit, Request,
                       Refused, checkTotalBytes
  <2> QED  BY <1>1, <1>2, <2>1, <2>2, Zenon
<1> QED  BY <1>3, <1>4, <1>5, <1>6, <1>7, <1>8, Zenon DEF Next, Consumer, Worker

(* Every running worker holds a slot of ConcurrencyLimit that no one else  *)
(* holds, and no slot is given back twice, for any number of slots and of  *)
(* connections.                                                            *)
THEOREM WorkersKeepSlots == Spec => []WorkersHoldSlots
<1>1. Init => Slots
  <2>1. ASSUME Init PROVE Slots
    <3>1. Live = {} /\ limit = Limit /\ Limit \in Nat
      BY <2>1, DownloaderAssumption, Zenon DEF Init, Live
    <3> QED  BY <3>1, FS_EmptySet DEF Slots, WorkersHoldSlots
  <2> QED  BY <2>1, Zenon
<1>2. DInv /\ Slots /\ [Next]_vars => Slots'
  BY NextSlots, Zenon
<1>3. Slots => WorkersHoldSlots
  BY Zenon DEF Slots
<1> QED  BY <1>1, <1>2, <1>3, DownloadInvariant, PTL DEF Spec

-----------------------------------------------------------------------------
(* A chunk is in use while it is queued or a worker has it, and until the  *)
(* reader is done with it when it has been fetched.                        *)
InUse(k) ==
    \/ \E i \in 1..Len(queue) : queue[i].id = k
    \/ \E w \in Workers : Active(w) /\ job[w].ch.id = k
    \/ Len(bufs[getBuf(k)].data) = ChunkSize(k)

Busy == {k \in Lo..(next - 1) : InUse(k)}

(* There are no more chunks in use than connections opened.                *)
Room == Cardinality(Busy) <= Conns - (IF conc > 0 THEN conc ELSE 0)

(* The chunk numbers in use are finitely many.                             *)
LEMMA BusyIsFinite ==
    ASSUME DInv
    PROVE  /\ IsFiniteSet(Busy) /\ Cardinality(Busy) \in Nat /\ Lo \in Nat /\ next \in Nat
           /\ \A k \in Lo..(next - 1) : getBuf(k) \in 1..Len(bufs)
<1>1. Lo \in Nat /\ next \in Nat
  BY Sizes DEF DInv, Types, Flow, Plan, Lo
<1>2. IsFiniteSet(Lo..(next - 1))
  <2>1. PICK a, b \in Int : a = Lo /\ b = next - 1
    BY <1>1
  <2>2. IsFiniteSet(a..b)
    BY FS_Interval, Zenon
  <2> QED  BY <2>1, <2>2, Zenon
<1>3. Busy \in SUBSET (Lo..(next - 1))
  BY Zenon DEF Busy
<1>4. IsFiniteSet(Busy)
  BY <1>2, <1>3, FS_Subset, Zenon
<1>5. \A k \in Lo..(next - 1) : getBuf(k) \in 1..Len(bufs)
  <2>1. CASE rpc = "start"
    <3>1. next = 0 /\ Lo..(next - 1) = {}
      BY <1>1, <2>1 DEF DInv, Flow, Ring
    <3> QED  BY <3>1, Zenon
  <2>2. CASE rpc # "start"
    BY <2>2, Bounds, RingFacts, Zenon
  <2> QED  BY <2>1, <2>2, Zenon
<1> QED  BY <1>1, <1>4, <1>5, FS_CardinalityType, Zenon

(* Chunks in use only go, one comes with a connection, or one takes the    *)
(* place of another.                                                       *)
LEMMA RoomMove ==
    ASSUME DInv, DInv', Room,
           \/ (conc' = conc \/ conc' <= 0) /\ Busy' \subseteq Busy
           \/ conc > 0 /\ conc' = conc - 1 /\ \E x : Busy' \subseteq Busy \union {x}
           \/ conc' = conc /\ \E x \in Busy : \E y : Busy' \subseteq (Busy \ {x}) \union {y}
    PROVE  Room'
<1>0. /\ conc \in Int /\ conc <= Conns /\ conc' \in Int /\ Conns \in Nat
      /\ IsFiniteSet(Busy) /\ Cardinality(Busy) \in Nat
  <2>1. Conns \in Nat
    BY Sizes, DownloaderAssumption, Zenon DEF Conns
  <2>2. IsFiniteSet(Busy) /\ Cardinality(Busy) \in Nat
    BY BusyIsFinite, Zenon
  <2> QED  BY <2>1, <2>2, Zenon DEF DInv, Types
<1>1. PICK S, T : S = Busy /\ T = Busy'
  BY Zenon
<1>2. CASE (conc' = conc \/ conc' <= 0) /\ T \subseteq S
  <2>1. Cardinality(T) \in Nat /\ Cardinality(T) <= Cardinality(S)
    BY <1>0, <1>1, <1>2, FS_Subset, FS_CardinalityType, Zenon
  <2> QED  BY <1>0, <1>1, <1>2, <2>1 DEF Room
<1>3. ASSUME conc > 0, conc' = conc - 1, NEW x, T \subseteq S \union {x} PROVE Room'
  <2>1. /\ IsFiniteSet(S \union {x})
        /\ Cardinality(S \union {x}) = IF x \in S THEN Cardinality(S) ELSE Cardinality(S) + 1
    BY <1>0, <1>1, FS_AddElement, Zenon
  <2>2. Cardinality(T) \in Nat /\ Cardinality(T) <= Cardinality(S \union {x})
    BY <1>3, <2>1, FS_Subset, FS_CardinalityType, Zenon
  <2> QED  BY <1>0, <1>1, <1>3, <2>1, <2>2 DEF Room
<1>4. ASSUME conc' = conc, NEW x \in S, NEW y, T \subseteq (S \ {x}) \union {y} PROVE Room'
  <2>1. PICK R : R = S \ {x}
    BY Zenon
  <2>2. IsFiniteSet(R) /\ Cardinality(R) = Cardinality(S) - 1
    BY <1>0, <1>1, <2>1, FS_RemoveElement, Zenon
  <2>3. /\ IsFiniteSet(R \union {y})
        /\ Cardinality(R \union {y}) = IF y \in R THEN Cardinality(R) ELSE Cardinality(R) + 1
    BY <2>2, FS_AddElement, Zenon
  <2>4. Cardinality(T) \in Nat /\ Cardinality(T) <= Cardinality(R \union {y})
    BY <1>4, <2>1, <2>3, FS_Subset, FS_CardinalityType, Zenon
  <2> QED  BY <1>0, <1>1, <1>4, <2>2, <2>3, <2>4 DEF Room
<1> QED  BY <1>1, <1>2, <1>3, <1>4, Zenon

(* Workers keep or drop their chunks.                                      *)
LEMMA RoomStill ==
    ASSUME DInv, DInv', Room, Lo' = Lo, UNCHANGED <<next, queue>>, conc' = conc \/ conc' <= 0,
           Len(bufs') = Len(bufs), \A i \in 1..Len(bufs) : bufs'[i].data = bufs[i].data,
           \A w \in Workers : Active(w)' => Active(w) /\ job'[w].ch.id = job[w].ch.id
    PROVE  Room'
<1>1. \A k \in Lo..(next - 1) : getBuf(k)' = getBuf(k) /\ getBuf(k) \in 1..Len(bufs)
  BY BusyIsFinite, Zenon DEF getBuf
<1>2. \A k \in Lo..(next - 1) : InUse(k)' => InUse(k)
  BY <1>1, Zenon DEF InUse
<1>3. Busy' \subseteq Busy
  BY <1>2, Zenon DEF Busy
<1> QED  BY <1>3, RoomMove, Zenon

(* The steps that move no chunk and complete none.                         *)
LEMMA RoomQuiet ==
    ASSUME DInv, DInv', Room,
           \/ ReadLoop \/ ReadWake \/ NextBuf \/ Close \/ Cancel \/ UNCHANGED vars
           \/ \E w \in Workers : \/ Exit(w) \/ Quit(w) \/ BreakOff(w) \/ Downloaded(w) \/ Judge(w)
                                 \/ \E answer \in Answers : Request(w, answer)
    PROVE  Room'
<1>0. job \in [Workers -> Job] /\ bufs \in Seq(Buf) /\ DOMAIN wpc = Workers /\ conc \in Int
  BY Zenon DEF DInv, Types
<1>1. ASSUME Lo' = Lo, UNCHANGED <<next, queue, wpc, job>>, conc' = conc \/ conc' <= 0,
             Len(bufs') = Len(bufs), \A i \in 1..Len(bufs) : bufs'[i].data = bufs[i].data
      PROVE  Room'
  BY <1>1, RoomStill, Zenon DEF Active
<1>2. CASE ReadLoop \/ ReadWake
  <2>1. Lo' = Lo /\ UNCHANGED <<next, conc, queue, wpc, job>>
    BY <1>2, Zenon DEF ReadLoop, ReadWake, Lo, counters
  <2>2. \A i \in 1..Len(bufs) : bufs[i] \in Buf
    BY Elements, Zenon DEF DInv
  <2>3. \/ bufs' = bufs \/ bufs' = [bufs EXCEPT ![cur].pending = TRUE]
        \/ bufs' = [bufs EXCEPT ![cur].signal = FALSE]
        \/ bufs' = [bufs EXCEPT ![cur].offR = bufs[cur].offR + 1]
    BY <1>2, Zenon DEF ReadLoop, ReadWake
  <2>4. PICK v : (bufs' = bufs \/ bufs' = [bufs EXCEPT ![cur] = v]) /\ v.data = bufs[cur].data
    <3>1. cur \in 1..Len(bufs) /\ bufs[cur] \in Buf
      BY <1>2, AtReader, Zenon DEF ReadLoop, ReadWake
    <3>2. \A x : /\ [bufs[cur] EXCEPT !.pending = x].data = bufs[cur].data
                 /\ [bufs[cur] EXCEPT !.signal = x].data = bufs[cur].data
                 /\ [bufs[cur] EXCEPT !.offR = x].data = bufs[cur].data
      BY <3>1, Zenon DEF Buf
    <3> QED  BY <2>3, <3>2, Zenon
  <2>5. Len(bufs') = Len(bufs) /\ \A i \in 1..Len(bufs) : bufs'[i].data = bufs[i].data
    BY <1>0, <2>4
  <2> QED  BY <1>1, <2>1, <2>5, Zenon
<1>3. CASE NextBuf \/ Close \/ Cancel \/ UNCHANGED vars
  <2>1. Lo' = Lo /\ UNCHANGED <<next, queue, wpc, job, bufs>>
    BY <1>3, Zenon DEF NextBuf, Close, Cancel, vars, counters, reader, Lo, interrupt
  <2>2. conc' = conc \/ conc' <= 0
    BY <1>0, <1>3 DEF NextBuf, Close, Cancel, vars, counters, interrupt
  <2> QED  BY <1>1, <2>1, <2>2, Zenon
<1>4. ASSUME NEW w \in Workers, \/ Exit(w) \/ Quit(w) \/ BreakOff(w) \/ Downloaded(w) \/ Judge(w)
                                \/ \E answer \in Answers : Request(w, answer)
      PROVE  Room'
  <2>1. Lo' = Lo /\ UNCHANGED <<next, conc, queue, bufs>>
    BY <1>4, Zenon DEF Exit, Quit, BreakOff, Downloaded, Judge, Request, counters, reader, Lo
  <2>2. PICK pc : wpc' = [wpc EXCEPT ![w] = pc] /\ (wpc[w] \in {"exit", "quit"} => pc \in {"gone", "recv", "exit"})
                  /\ (wpc[w] \notin {"exit", "quit"} => Active(w))
    BY <1>4, Zenon DEF Exit, Quit, BreakOff, Downloaded, Judge, Request, Refused, checkTotalBytes, Active
  <2>3. /\ \A x \in Workers : x # w => job'[x].ch = job[x].ch
        /\ job'[w].ch.id = job[w].ch.id
    <3>1. CASE job' = job
      BY <3>1, Zenon
    <3>2. CASE \E why : job' = [job EXCEPT ![w].why = why]
      BY <1>0, <3>2 DEF Job
    <3>3. CASE \E why : job' = [job EXCEPT ![w].why = why, ![w].n = 0]
      BY <1>0, <3>3, Zenon DEF Job
    <3> DEFINE again == [job[w] EXCEPT !.ch = Rest(@, job[w].n), !.n = 0, !.retry = @ + 1]
    <3>4. CASE job' = [job EXCEPT ![w] = again]
      <4>1. job[w] \in Job /\ job[w].ch \in Chunk
        BY Elements, Zenon DEF DInv
      <4>2. again.ch = Rest(job[w].ch, job[w].n)
        BY <4>1, Zenon DEF Job
      <4>3. Rest(job[w].ch, job[w].n).id = job[w].ch.id
        BY <4>1, Zenon DEF Rest, Chunk
      <4> HIDE DEF again
      <4> QED  BY <1>0, <3>4, <4>2, <4>3, Zenon
    <3> QED  BY <1>4, <3>1, <3>2, <3>3, <3>4, Zenon
             DEF Exit, Quit, BreakOff, Downloaded, Judge, Request, Refused, checkTotalBytes
  <2>4. \A x \in Workers : Active(x)' => Active(x) /\ job'[x].ch.id = job[x].ch.id
    BY <1>0, <2>2, <2>3, Zenon DEF Active
  <2> QED  BY <2>1, <2>4, RoomStill, Zenon
<1> QED  BY <1>2, <1>3, <1>4, Zenon

(* A chunk that changes hands stays in use.                                *)
LEMMA RoomHandover ==
    ASSUME DInv, DInv', Room, NEW w \in Workers, downloadPart(w) \/ Overload(w)
    PROVE  Room'
<1>0. /\ job \in [Workers -> Job] /\ queue \in Seq(Chunk) /\ DOMAIN wpc = Workers /\ conc \in Int
      /\ Lo' = Lo /\ UNCHANGED <<next, bufs>>
  BY Zenon DEF DInv, Types, downloadPart, Overload, counters, reader, Lo
<1>c. conc' = conc \/ conc' <= 0
  BY <1>0 DEF downloadPart, Overload, counters
<1>1. \A k : getBuf(k)' = getBuf(k)
  BY <1>0, Zenon DEF getBuf
<1>2. CASE /\ queue # << >> /\ queue' = Tail(queue) /\ wpc' = [wpc EXCEPT ![w] = "try"]
           /\ job' = [job EXCEPT ![w] = [NoJob EXCEPT !.ch = Head(queue)]]
  <2>1. /\ 1 \in 1..Len(queue) /\ Head(queue) = queue[1]
        /\ \A i \in 1..Len(queue') : i + 1 \in 1..Len(queue) /\ queue'[i] = queue[i + 1]
    BY <1>0, <1>2
  <2>2. [NoJob EXCEPT !.ch = Head(queue)].ch = Head(queue)
    BY Zenon DEF NoJob
  <2>3. \A x \in Workers : Active(x)' => \/ Active(x) /\ job'[x].ch.id = job[x].ch.id
                                         \/ job'[x].ch.id = queue[1].id
    BY <1>0, <1>2, <2>1, <2>2, Zenon DEF Active
  <2>4. \A k \in Lo..(next - 1) : InUse(k)' => InUse(k)
    BY <1>0, <1>1, <2>1, <2>3, Zenon DEF InUse
  <2> QED  BY <1>0, <1>c, <2>4, RoomMove, Zenon DEF Busy
<1>3. CASE /\ queue' = Append(queue, job[w].ch) /\ job' = job /\ wpc' = [wpc EXCEPT ![w] = "quit"]
           /\ Active(w)
  <2>1. \A i \in 1..Len(queue') : (i \in 1..Len(queue) /\ queue'[i] = queue[i])
                                  \/ queue'[i] = job[w].ch
    BY <1>0, <1>3
  <2>2. \A x \in Workers : Active(x)' => Active(x)
    BY <1>0, <1>3, Zenon DEF Active
  <2>3. \A k \in Lo..(next - 1) : InUse(k)' => InUse(k)
    BY <1>0, <1>1, <1>3, <2>1, <2>2, Zenon DEF InUse
  <2> QED  BY <1>0, <1>c, <2>3, RoomMove, Zenon DEF Busy
<1>4. CASE /\ queue' = queue /\ (job' = job \/ job' = [job EXCEPT ![w].why = "overload"])
           /\ \A x \in Workers : Active(x)' => Active(x)
  <2>1. [job[w] EXCEPT !.why = "overload"].ch = job[w].ch
    BY <1>0, Zenon DEF Job
  <2>2. \A x \in Workers : job'[x].ch = job[x].ch
    BY <1>0, <1>4, <2>1, Zenon
  <2>3. Len(bufs') = Len(bufs) /\ \A i \in 1..Len(bufs) : bufs'[i].data = bufs[i].data
    BY <1>0, Zenon
  <2> QED  BY <1>0, <1>c, <1>4, <2>2, <2>3, RoomStill, Zenon
<1>5. CASE Overload(w)
  BY <1>0, <1>3, <1>4, <1>5, Zenon DEF Overload, Active
<1>6. CASE downloadPart(w)
  BY <1>0, <1>2, <1>4, <1>6, Zenon DEF downloadPart, Active
<1> QED  BY <1>5, <1>6, Zenon

(* A byte that completes a chunk comes from the worker that has it.        *)
LEMMA RoomWrite ==
    ASSUME DInv, DInv', Room, NEW w \in Workers, Write(w)
    PROVE  Room'
<1>0. /\ job \in [Workers -> Job] /\ bufs \in Seq(Buf) /\ DOMAIN wpc = Workers /\ Active(w)
      /\ Lo' = Lo /\ UNCHANGED <<next, conc, queue>> /\ job[w].n < job[w].ch.size
  BY Zenon DEF DInv, Types, Write, counters, reader, Lo, Active
<1>1. CASE /\ wpc' = [wpc EXCEPT ![w] = "judge"] /\ bufs' = bufs
           /\ job' = [job EXCEPT ![w].why = "retry"]
  <2>1. \A x \in Workers : job'[x].ch = job[x].ch
    BY <1>0, <1>1, Zenon DEF Job
  <2>2. \A x \in Workers : Active(x)' => Active(x)
    BY <1>0, <1>1, Zenon DEF Active
  <2> QED  BY <1>0, <1>1, <2>1, <2>2, RoomStill, Zenon
<1>2. CASE /\ wpc' = wpc /\ job' = [job EXCEPT ![w].n = @ + 1]
           /\ \E v : bufs' = [bufs EXCEPT ![job[w].ch.buf] = v]
  <2>1. PICK k, b : k = job[w].ch.id /\ b = job[w].ch.buf
    BY Zenon
  <2>2. k \in Lo..(next - 1) /\ b = getBuf(k)
    <3>1. job[w].n # job[w].ch.size /\ k \in Nat /\ rpc # "start"
      <4>1. job[w].n # job[w].ch.size /\ k \in Nat
        BY <1>0, <2>1 DEF Job, Chunk
      <4>2. wpc[w] # "new"
        BY <1>0, Zenon DEF Active
      <4> QED  BY <4>1, <4>2, Started, Zenon
    <3>2. k < next /\ ~(k < Lo) /\ Continues(job[w].ch, job[w].n)
      BY <1>0, <2>1, <3>1, Zenon DEF DInv, Flow, JobsFit
    <3> QED  BY <2>1, <3>1, <3>2, Bounds, Zenon DEF Continues
  <2>3. /\ Len(bufs') = Len(bufs) /\ \A i \in 1..Len(bufs) : i # b => bufs'[i] = bufs[i]
    BY <1>0, <1>2, <2>1
  <2>4. \A x \in Workers : job'[x].ch = job[x].ch /\ (Active(x)' <=> Active(x))
    BY <1>0, <1>2, Zenon DEF Job, Active
  <2>5. \A j : getBuf(j)' = getBuf(j)
    BY <2>3, Zenon DEF getBuf
  <2>6. \A j \in Lo..(next - 1) : getBuf(j) \in 1..Len(bufs) /\ (j # k => getBuf(j) # b)
    <3>1. rpc # "start"
      <4>1. wpc[w] # "new"
        BY <1>0, Zenon DEF Active
      <4> QED  BY <4>1, Started, Zenon
    <3> QED  BY <2>2, <3>1, RingFacts, BusyIsFinite, Zenon
  <2>7. InUse(k)
    BY <1>0, <2>1, Zenon DEF InUse
  <2>8. \A j \in Lo..(next - 1) : j # k /\ InUse(j)' => InUse(j)
    BY <1>0, <2>3, <2>4, <2>5, <2>6, Zenon DEF InUse
  <2> QED  BY <1>0, <2>7, <2>8, RoomMove, Zenon DEF Busy
<1> QED  BY <1>1, <1>2, Zenon DEF Write

(* A chunk is sent: with a connection, or in place of a finished chunk.    *)
LEMMA RoomSend ==
    ASSUME DInv, DInv', Room, rpc # "start", NEW new \in BOOLEAN, NEW pcs,
           DOMAIN pcs = Workers, sendChunkTask(new, pcs), UNCHANGED job,
           new => Lo' = Lo, ~new => Lo' = Lo + 1 /\ Lo \in Busy,
           \A x \in Workers : pcs[x] \in {"try", "body", "copy", "judge", "over"} => Active(x)
    PROVE  Room'
<1>0. PICK m, L : m = next /\ L = Lo'
  BY Zenon
<1>1. /\ m \in Nat /\ Lo \in Nat /\ L \in Nat /\ Lo < m /\ L >= Lo /\ (~new => L > Lo)
      /\ \A k \in L..(m - 1) : k \in Lo..(m - 1) /\ (~new => k # Lo)
  <2>1. m \in Nat /\ Lo \in Nat /\ Lo < m
    BY <1>0, Bounds, Zenon
  <2> QED  BY <1>0, <2>1
<1>2. /\ \A k \in L..(m - 1) : getBuf(k)' = getBuf(k) /\ bufs'[getBuf(k)] = bufs[getBuf(k)]
      /\ \/ next' = m
         \/ next' = m + 1 /\ bufs'[getBuf(m)'].data = << >>
  BY <1>0, <1>1, SendRing, Zenon
<1>3. PICK ch : /\ DOMAIN wpc' = Workers /\ \A x \in Workers : wpc'[x] \in {pcs[x], "recv"}
                /\ queue' = queue \/ (queue' = Append(queue, ch) /\ ch.id = m)
                /\ \/ conc' = conc /\ queue' = queue
                   \/ new /\ conc > 0 /\ conc' = conc - 1
                   \/ ~new /\ conc' = conc
  <2>1. PICK ch : ch = [id |-> next, start |-> pos, size |-> ChunkSize(next),
                        buf |-> IF conc > 0 THEN Len(bufs) + 1 ELSE getBuf(next), new |-> new]
    BY Zenon
  <2>2. ch.id = m
    BY <1>0, <2>1
  <2>3. /\ DOMAIN wpc' = Workers /\ \A x \in Workers : wpc'[x] \in {pcs[x], "recv"}
        /\ queue' = queue \/ queue' = Append(queue, ch)
    BY <2>1, SendQueue, Zenon
  <2>4. \/ conc' = conc /\ queue' = queue
        \/ new /\ conc > 0 /\ conc' = conc - 1
        \/ ~new /\ conc' = conc
    <3>1. \A i, s, z, b : [id |-> i, start |-> s, size |-> z, buf |-> b, new |-> new].new = new
      BY Zenon
    <3>2. conc \in Int
      BY Zenon DEF DInv, Types
    <3>3. ~(conc <= 0) => conc > 0
      BY <3>2
    <3> QED  BY <3>1, <3>3, Zenon DEF sendChunkTask, Offer, Queued, counters
  <2> QED  BY <2>2, <2>3, <2>4, Zenon
<1>4. \A x \in Workers : Active(x)' => Active(x)
  BY <1>3, Zenon DEF Active
<1>5. \A i \in 1..Len(queue') : \/ i \in 1..Len(queue) /\ queue'[i] = queue[i]
                                \/ queue' # queue /\ queue'[i].id = m
  <2>1. queue \in Seq(Chunk)
    BY Zenon DEF DInv, Types
  <2>2. CASE queue' = queue
    BY <2>2, Zenon
  <2>3. CASE queue' # queue
    <3>1. queue' = Append(queue, ch) /\ ch.id = m
      BY <1>3, <2>3, Zenon
    <3>2. \A i \in 1..Len(Append(queue, ch)) : \/ i \in 1..Len(queue) /\ Append(queue, ch)[i] = queue[i]
                                               \/ Append(queue, ch)[i] = ch
      BY <2>1
    <3> QED  BY <2>3, <3>1, <3>2, Zenon
  <2> QED  BY <2>2, <2>3, Zenon
<1>6. \A k \in L..(m - 1) : InUse(k)' => InUse(k)
  <2>1. \A k \in L..(m - 1) : k # m
    BY <1>1
  <2> QED  BY <1>2, <1>4, <1>5, <2>1, Zenon DEF InUse
<1>7. next' = m + 1 => (InUse(m)' => queue' # queue)
  <2>1. m + 1 # m /\ Len(<< >>) = 0
    BY <1>1
  <2>2. ChunkSize(m) # 0
    BY <1>1, Sizes, Zenon
  <2>3. \A i \in 1..Len(queue) : queue[i].id # m
    <3>1. \A i \in 1..Len(queue) : queue[i].id \in Lo..(m - 1)
      BY <1>0, Zenon DEF DInv, Flow, QueueFits
    <3> QED  BY <1>1, <3>1
  <2>4. \A x \in Workers : Active(x) => job[x].ch.id # m
    <3>1. \A x \in Workers : job[x].ch.id \in Nat /\ (Active(x) => job[x].ch.id < m)
      BY <1>0, Elements, Zenon DEF DInv, Flow, JobsFit
    <3> QED  BY <1>1, <3>1
  <2> QED  BY <1>2, <1>4, <2>1, <2>2, <2>3, <2>4, Zenon DEF InUse
<1>8. \A k \in L..(next' - 1) : k \in L..(m - 1) \/ (k = m /\ next' = m + 1)
  BY <1>1, <1>2
<1>9. Busy' \subseteq {k \in Busy : k \in L..(m - 1)} \union (IF queue' = queue THEN {} ELSE {m})
  <2> SUFFICES ASSUME NEW k \in L..(next' - 1), InUse(k)'
               PROVE  \/ k \in Lo..(m - 1) /\ InUse(k) /\ k \in L..(m - 1)
                      \/ queue' # queue /\ k = m
    BY <1>0, Zenon DEF Busy
  <2> QED  BY <1>1, <1>6, <1>7, <1>8, Zenon
<1>10. ~new => {k \in Busy : k \in L..(m - 1)} \subseteq Busy \ {Lo}
  BY <1>1, Zenon
<1>11. CASE conc' = conc /\ queue' = queue
  BY <1>9, <1>11, RoomMove, Zenon
<1>12. CASE new /\ conc > 0 /\ conc' = conc - 1
  <2>1. Busy' \subseteq Busy \union {m}
    BY <1>9, Zenon
  <2> QED  BY <1>12, <2>1, RoomMove, Zenon
<1>13. CASE ~new /\ conc' = conc
  <2>1. Busy' \subseteq (Busy \ {Lo}) \union {m}
    BY <1>9, <1>10, <1>13, Zenon
  <2> QED  BY <1>13, <2>1, RoomMove, Zenon
<1> QED  BY <1>3, <1>11, <1>12, <1>13, Zenon

(* Every step keeps the room.                                              *)
LEMMA NextRoom ==
    ASSUME DInv, DInv', Room, [Next]_vars
    PROVE  Room'
<1>1. CASE Download
  <2>1. /\ next' = 1 /\ Lo' = 0
    <3>1. rPos = 0 /\ UNCHANGED rPos /\ next' = 1 /\ rpc' # "switch"
      BY <1>1, Zenon DEF Download, interrupt, DInv, Flow, Ring
    <3> QED  BY <3>1, Zenon DEF Lo
  <2>2. Busy' \subseteq {0}
    <3>1. 0..(1 - 1) = {0}
      OBVIOUS
    <3> QED  BY <2>1, <3>1, Zenon DEF Busy
  <2>3. Cardinality(Busy') \in Nat /\ Cardinality(Busy') <= 1
    <3>1. IsFiniteSet({0}) /\ Cardinality({0}) = 1
      BY FS_Singleton, Zenon
    <3>2. PICK T : T = Busy' /\ T \in SUBSET {0}
      BY <2>2, Zenon
    <3>3. IsFiniteSet(T) /\ Cardinality(T) <= Cardinality({0})
      BY <3>1, <3>2, FS_Subset, Zenon
    <3> QED  BY <3>1, <3>2, <3>3, FS_CardinalityType, Zenon
  <2>4. /\ conc \in Int /\ conc <= Conns /\ Conns \in Nat \ {0}
        /\ conc' = conc - 1 \/ conc' = IF conc > 0 THEN -conc ELSE conc
    <3>1. conc' = conc - 1 \/ conc' = IF conc > 0 THEN -conc ELSE conc
      BY <1>1, Zenon DEF Download, Queued, interrupt
    <3>2. Conns \in Nat \ {0}
      BY Sizes, DownloaderAssumption DEF Conns
    <3> QED  BY <3>1, <3>2, Zenon DEF DInv, Types
  <2> QED  BY <2>3, <2>4 DEF Room
<1>2. CASE finishBuf
  <2>0. /\ rpc = "finish" /\ UNCHANGED <<rPos, job>> /\ DOMAIN wpc = Workers
    BY <1>2, Zenon DEF finishBuf, DInv, Types
  <2>1. CASE rpc' = "eof" /\ UNCHANGED <<counters, queue, bufs, wpc>>
    <3>1. Lo' = Lo /\ \A x \in Workers : Active(x)' => Active(x)
      BY <2>0, <2>1, Zenon DEF Lo, Active
    <3> QED  BY <2>0, <2>1, <3>1, RoomStill, Zenon DEF counters
  <2>2. CASE sendChunkTask(FALSE, wpc) /\ rpc' = "switch"
    <3>1. Lo' = Lo + 1 /\ Lo = rPos
      BY <2>0, <2>2, Zenon DEF Lo
    <3>2. Lo \in Busy
      <4>1. /\ rPos \in Lo..(next - 1) /\ cur = getBuf(rPos) /\ ChunkSize(rPos) \in Nat
            /\ bufs[cur].offR \in Nat /\ bufs[cur].data \in Seq(Nat)
            /\ bufs[cur].offR <= Len(bufs[cur].data) /\ Len(bufs[cur].data) <= ChunkSize(rPos)
            /\ bufs[cur].size = ChunkSize(rPos)
        BY <2>0, AtReader, Zenon
      <4>2. bufs[cur].offR >= bufs[cur].size
        BY <2>0, Zenon DEF DInv, Reading
      <4>3. Len(bufs[cur].data) \in Nat
        BY <4>1
      <4>4. Len(bufs[cur].data) = ChunkSize(rPos)
        BY <4>1, <4>2, <4>3
      <4> QED  BY <3>1, <4>1, <4>4, Zenon DEF Busy, InUse
    <3> QED  BY <2>0, <2>2, <3>1, <3>2, RoomSend, Zenon DEF Active
  <2> QED  BY <1>2, <2>1, <2>2, Zenon DEF finishBuf
<1>3. ASSUME NEW w \in Workers, Expand(w) PROVE Room'
  <2>1. /\ wpc[w] = "body" /\ Active(w) /\ rpc # "start" /\ DOMAIN wpc = Workers
        /\ Lo' = Lo /\ UNCHANGED job
    BY <1>3, Started, Zenon DEF Expand, Active, DInv, Types, reader, Lo
  <2>2. PICK pcs : pcs = [wpc EXCEPT ![w] = "copy"] /\ sendChunkTask(TRUE, pcs)
    BY <1>3, Zenon DEF Expand
  <2>3. /\ DOMAIN pcs = Workers
        /\ \A x \in Workers : pcs[x] \in {"try", "body", "copy", "judge", "over"} => Active(x)
    BY <2>1, <2>2, Zenon DEF Active
  <2> QED  BY <2>1, <2>2, <2>3, RoomSend, Zenon
<1> QED  BY <1>1, <1>2, <1>3, RoomQuiet, RoomHandover, RoomWrite, Zenon DEF Next, Consumer, Worker

(* Distinct chunks fill the queue.                                         *)
LEMMA QueueIsBusy ==
    ASSUME DInv
    PROVE  Len(queue) <= Cardinality(Busy)
<1>0. PICK n \in Nat : n = Len(queue)
  BY Elements, Zenon DEF DInv
<1>1. PICK f : n = Len(queue) /\ f = [i \in 1..n |-> queue[i].id]
  BY <1>0, Zenon
<1>2. \A i \in 1..n : f[i] \in Busy
  BY <1>1, Zenon DEF Busy, InUse, DInv, Flow, QueueFits
<1>3. \A i, j \in 1..n : f[i] = f[j] => i = j
  BY <1>1, Zenon DEF DInv, Flow, OnePlace
<1>4. f \in Injection(1..n, Busy)
  BY <1>1, <1>2, <1>3, Zenon DEF Injection, IsInjective
<1>5. Cardinality(1..n) <= Cardinality(Busy)
  BY <1>4, BusyIsFinite, FS_Injection, Zenon
<1>6. Cardinality(1..n) = n
  <2>1. 1 \in Int /\ n \in Int
    OBVIOUS
  <2>2. Cardinality(1..n) = IF 1 > n THEN 0 ELSE n - 1 + 1
    BY <2>1, FS_Interval, Zenon
  <2> QED  BY <2>2
<1> QED  BY <1>1, <1>5, <1>6

(* No send on chunkChannel ever finds it full, for any number of chunks,   *)
(* connections and retries: a chunk in the queue has the place that came   *)
(* with the connection opened for it, or that of a chunk the reader has    *)
(* finished.                                                               *)
THEOREM ChannelHasRoom == Spec => []SendsNeverBlock
<1>1. Init => Room
  <2>1. ASSUME Init PROVE Room
    <3>1. Busy = {} /\ conc = Conns /\ Conns \in Nat
      <4>1. Conns \in Nat
        BY Sizes, DownloaderAssumption, Zenon DEF Conns
      <4>2. Lo = 0 /\ next = 0 /\ conc = Conns
        BY <2>1, Zenon DEF Init, Lo
      <4>3. 0..(0 - 1) = {}
        OBVIOUS
      <4> QED  BY <4>1, <4>2, <4>3, Zenon DEF Busy
    <3> QED  BY <3>1, FS_EmptySet DEF Room
  <2> QED  BY <2>1, Zenon
<1>2. DInv /\ DInv' /\ Room /\ [Next]_vars => Room'
  BY NextRoom, Zenon
<1>3. DInv /\ Room => SendsNeverBlock
  <2>1. ASSUME DInv, Room PROVE SendsNeverBlock
    <3>1. /\ Len(queue) \in Nat /\ Len(queue) <= Cardinality(Busy) /\ Cardinality(Busy) \in Nat
          /\ conc \in Int
      BY <2>1, QueueIsBusy, BusyIsFinite, Elements, Zenon DEF DInv, Types
    <3>2. Conns \in Nat
      BY Sizes, DownloaderAssumption, Zenon DEF Conns
    <3> QED  BY <2>1, <3>1, <3>2 DEF Room, SendsNeverBlock, ChannelCap
  <2> QED  BY <2>1, Zenon
<1> QED  BY <1>1, <1>2, <1>3, DownloadInvariant, PTL DEF Spec
=============================================================================
