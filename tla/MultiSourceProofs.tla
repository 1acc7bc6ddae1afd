------------------------- MODULE MultiSourceProofs --------------------------
(***************************************************************************)
(* Proofs about MultiSource, for every file size, range, part size, window *)
(* and buffer size and any number of sources and workers: Read delivers    *)
(* the bytes of the range in order (Contiguous), an error has a cause      *)
(* (ErrorHasCause), workers stay within the read-ahead window              *)
(* (ReadAheadBounded) and hold a token each (SlotsAccounted).              *)
(***************************************************************************)
EXTENDS MultiSource, FiniteSetTheorems, TLAPS

Ranges == [start : Nat, length : Nat \ {0}, part : Nat \ {0}]
Subchunks == [start : Nat, length : Nat \ {0}]

Types ==
    /\ begin \in Ranges /\ window \in Nat /\ left \in 0 .. begin.length
    /\ chunks \in Seq(Subchunks)
    /\ sched \in [pc : {"gate", "parked", "sem", "done"}, i : Nat \ {0}]
    /\ worker \in [1 .. N -> {None} \cup Workers]
    /\ slot \in [1 .. N -> {None, "ok", "failed", "canceled"}]
    /\ cause \in {None, "failed", "canceled"}
    /\ cur \in 1 .. N + 1 /\ off \in Nat /\ out \in Nat
    /\ reader.pc \in {"idle", "read", "notify", "ended", "closing", "closed"}
    /\ reader.pc = "read" => reader.p \in BufSizes

(* What is cut so far tiles the range up to what is left.                  *)
Cutting == begin.start + begin.length - left

Tiles ==
    /\ N = 0 => left = begin.length
    /\ N > 0 => /\ chunks[1].start = begin.start
                /\ chunks[N].start + chunks[N].length = Cutting
    /\ \A i \in 1 .. N : /\ chunks[i].start + chunks[i].length <= Cutting
                         /\ i < N => chunks[i + 1].start = chunks[i].start + chunks[i].length

(* Nobody is at work before the range is cut.                              *)
Begins ==
    left > 0 => /\ sched = [pc |-> "gate", i |-> 1] /\ reader = [pc |-> "idle"]
                /\ cur = 1 /\ off = 0 /\ out = 0

(* The cursor of Read.                                                     *)
Cursor ==
    /\ consumed = begin.start + out
    /\ cur <= N => /\ begin.start + out = chunks[cur].start + off
                   /\ off <= chunks[cur].length
                   /\ reader.pc # "notify" => off < chunks[cur].length
    /\ left = 0 /\ cur > N => out = begin.length
    /\ reader.pc \in {"read", "notify"} => cur <= N
    /\ reader.pc = "ended" /\ reader.err = "EOF" => out = begin.length

PInv == Types /\ Tiles /\ Begins /\ Cursor

(* The scheduler starts the subchunks in turn, within the window.          *)
InTurn ==
    /\ left = 0 => sched.i <= N
    /\ \A i \in 1 .. N : i > sched.i \/ (i = sched.i /\ sched.pc # "done") => worker[i] = None
    /\ sched.pc = "sem" => InWindow(sched.i)

(* A worker that asks has sources left, and why it has its error.          *)
Failure(w) ==
    /\ w.pc = "request" => w.tried < NSrc
    /\ w.tried > 0 => w.err # None
    /\ w.pc \in {"settle", "cancel"} => /\ w.err # None
                                        /\ w.err = "failed" => w.tried = NSrc \/ cause = "failed"

Causes == \A i \in 1 .. N : worker[i] # None => Failure(worker[i])

MInv == PInv /\ InTurn /\ ReadAheadBounded /\ Causes /\ ErrorHasCause
-----------------------------------------------------------------------------
(* The plan.                                                               *)

(* A remainder and half of a part are natural numbers.                     *)
LEMMA Division ==
  ASSUME NEW a \in Nat, NEW b \in Nat \ {0}
  PROVE  a % b \in Nat /\ b \div 2 \in Nat
OBVIOUS

(* The first subchunk is not empty.                                        *)
LEMMA FirstSizePositive ==
  ASSUME begin \in Ranges
  PROVE  FirstSize \in Nat \ {0}
<1>1. PICK a \in Nat, b \in Nat \ {0} : a = begin.length /\ b = begin.part
  BY Zenon DEF Ranges
<1>2. PICK first \in Nat, half \in Nat : first = a % b /\ half = b \div 2
  BY Division, Zenon
<1>3. FirstSize = IF first = 0 THEN b ELSE IF first < half THEN half ELSE first
  BY <1>1, <1>2, Zenon DEF FirstSize
<1> QED
  BY <1>3

(* A sequence with an element more.                                        *)
LEMMA Appended ==
  ASSUME NEW S, NEW s \in Seq(S), NEW e \in S
  PROVE  /\ Append(s, e) \in Seq(S) /\ Len(Append(s, e)) = Len(s) + 1
         /\ Append(s, e)[Len(s) + 1] = e
         /\ \A i \in 1 .. Len(s) : Append(s, e)[i] = s[i]
OBVIOUS

(* The subchunks are subchunks.                                            *)
LEMMA Elements ==
  ASSUME Types
  PROVE  N \in Nat /\ \A i \in 1 .. N : chunks[i] \in Subchunks
<1>1. chunks \in Seq(Subchunks)
  BY Zenon DEF Types
<1> PICK S : S = Subchunks
  BY Zenon
<1>2. chunks \in Seq(S)
  BY <1>1, Zenon
<1>3. N \in Nat /\ \A i \in 1 .. N : chunks[i] \in S
  BY <1>2 DEF N
<1> QED
  BY <1>3, Zenon

(* A turn of the loop cuts a subchunk off what is left.                    *)
LEMMA CutTurn ==
  ASSUME PInv, ComputeSubchunks
  PROVE  /\ N' = N + 1 /\ left > 0
         /\ \A i \in 1 .. N + 1 : worker'[i] = None
         /\ \A i \in 1 .. N : chunks'[i] = chunks[i]
         /\ left' \in 0 .. left /\ chunks' \in Seq(Subchunks)
         /\ worker' \in [1 .. N + 1 -> {None} \cup Workers]
         /\ slot' \in [1 .. N + 1 -> {None, "ok", "failed", "canceled"}]
         /\ chunks'[N + 1].start = Cutting
         /\ chunks'[N + 1].start + chunks'[N + 1].length = begin.start + begin.length - left'
         /\ chunks'[N + 1].length > 0 /\ chunks'[N + 1].length \in Nat
<1>0. Types
  BY Zenon DEF PInv
<1>1. left \in Nat /\ left > 0 /\ left <= begin.length /\ begin.start \in Nat /\ begin.length \in Nat
  BY <1>0 DEF Types, Ranges, ComputeSubchunks
<1>2. PICK want \in Nat \ {0} : want = IF chunks = << >> THEN FirstSize ELSE begin.part
  BY <1>0, FirstSizePositive, Zenon DEF Types, Ranges
<1>3. PICK sz \in Nat : sz = Cut(want, left) /\ sz > 0 /\ sz <= left
  BY <1>1 DEF Cut
<1>4. PICK pos \in Nat : pos = begin.start + begin.length - left
  BY <1>1
<1> PICK c : c = [start |-> pos, length |-> sz]
  BY Zenon
<1>5. c \in Subchunks /\ c.start = pos /\ c.length = sz
  BY <1>3 DEF Subchunks
<1>6. chunks' = Append(chunks, c) /\ left' = left - sz
  BY <1>2, <1>3, <1>4, Zenon DEF ComputeSubchunks
<1>7. chunks \in Seq(Subchunks) /\ N \in Nat
  BY <1>0 DEF Types, N
<1>8. /\ chunks' \in Seq(Subchunks) /\ N' = N + 1 /\ chunks'[N + 1] = c
      /\ \A i \in 1 .. N : chunks'[i] = chunks[i]
  <2> PICK S : S = Subchunks
    BY Zenon
  <2>1. chunks \in Seq(S) /\ c \in S
    BY <1>5, <1>7, Zenon
  <2> QED
    BY <1>6, <2>1, Appended DEF N
<1>9. /\ worker' \in [1 .. N + 1 -> {None} \cup Workers] /\ \A i \in 1 .. N + 1 : worker'[i] = None
      /\ slot' \in [1 .. N + 1 -> {None, "ok", "failed", "canceled"}]
  BY Zenon DEF ComputeSubchunks
<1>10. /\ left' \in 0 .. left /\ chunks'[N + 1].start = Cutting
       /\ chunks'[N + 1].start + chunks'[N + 1].length = begin.start + begin.length - left'
       /\ chunks'[N + 1].length > 0 /\ chunks'[N + 1].length \in Nat
  <2>0. left' = left - sz
    BY <1>6, Zenon
  <2>1. left' \in 0 .. left /\ pos = Cutting /\ pos + sz = begin.start + begin.length - left'
    BY <1>1, <1>3, <1>4, <2>0 DEF Cutting
  <2> QED
    BY <1>3, <1>5, <1>8, <2>1, Zenon
<1> QED
  BY <1>1, <1>8, <1>9, <1>10, Zenon

(* The subchunks go on tiling the range.                                   *)
LEMMA CutPInv ==
  ASSUME PInv, ComputeSubchunks
  PROVE  PInv'
<1>0. Types /\ Tiles /\ Begins /\ Cursor
  BY Zenon DEF PInv
<1>1. /\ N' = N + 1 /\ left > 0
      /\ \A i \in 1 .. N : chunks'[i] = chunks[i]
      /\ left' \in 0 .. left /\ chunks' \in Seq(Subchunks)
      /\ worker' \in [1 .. N + 1 -> {None} \cup Workers]
      /\ slot' \in [1 .. N + 1 -> {None, "ok", "failed", "canceled"}]
      /\ chunks'[N + 1].start = Cutting
      /\ chunks'[N + 1].start + chunks'[N + 1].length = begin.start + begin.length - left'
      /\ chunks'[N + 1].length > 0 /\ chunks'[N + 1].length \in Nat
  BY CutTurn, Zenon
<1>2. N \in Nat /\ left \in Nat /\ begin.start \in Nat /\ begin.length \in Nat /\ left <= begin.length
  BY <1>0 DEF Types, N, Ranges
<1>3. UNCHANGED <<begin, window, sched, cause, consumed, reader, cur, off, out>>
  BY Zenon DEF ComputeSubchunks
<1>4. /\ sched = [pc |-> "gate", i |-> 1] /\ reader = [pc |-> "idle"]
      /\ cur = 1 /\ off = 0 /\ out = 0 /\ reader.pc = "idle"
  BY <1>0, <1>1 DEF Begins
<1>5. Types'
  BY <1>0, <1>1, <1>2, <1>3, <1>4 DEF Types
<1>6. \A i \in 1 .. N : chunks[i].start \in Nat /\ chunks[i].length \in Nat
  <2>1. \A i \in 1 .. N : chunks[i] \in Subchunks
    BY <1>0, Elements, Zenon
  <2> QED
    BY <2>1, Zenon DEF Subchunks
<1>7. chunks'[1].start = begin.start
  <2>1. CASE N = 0
    BY <1>0, <1>1, <1>2, <2>1 DEF Tiles, Cutting
  <2>2. CASE N > 0
    BY <1>0, <1>1, <1>2, <2>2 DEF Tiles
  <2> QED
    BY <1>2, <2>1, <2>2
<1>8. Tiles'
  <2>0. PICK a \in Int, b \in Int, n \in Nat, m \in Nat :
          a = Cutting /\ b = Cutting' /\ n = N /\ m = n + 1 /\ a <= b /\ m = N'
    BY <1>1, <1>2, <1>3 DEF Cutting
  <2>1. chunks'[m].start + chunks'[m].length = b /\ chunks'[m].start = a
    BY <1>1, <1>3, <2>0, Zenon DEF Cutting
  <2>2. ASSUME NEW i \in 1 .. m
        PROVE  /\ chunks'[i].start + chunks'[i].length <= b
               /\ i < m => chunks'[i + 1].start = chunks'[i].start + chunks'[i].length
    <3>1. CASE i = m
      BY <2>0, <2>1, <3>1
    <3>2. CASE i \in 1 .. n
      <4>1. PICK s \in Nat, l \in Nat : s = chunks[i].start /\ l = chunks[i].length
        BY <1>6, <2>0, <3>2, Zenon
      <4>2. chunks'[i].start = s /\ chunks'[i].length = l
        BY <1>1, <2>0, <3>2, <4>1, Zenon
      <4>3. s + l <= a
        BY <1>0, <2>0, <3>2, <4>1, Zenon DEF Tiles
      <4>4. chunks'[i + 1].start = s + l
        <5>1. CASE i < n
          <6>1. i + 1 \in 1 .. n
            BY <3>2, <5>1
          <6>2. chunks'[i + 1] = chunks[i + 1]
            BY <1>1, <2>0, <6>1, Zenon
          <6>3. chunks[i + 1].start = chunks[i].start + chunks[i].length
            BY <1>0, <2>0, <3>2, <5>1, Zenon DEF Tiles
          <6> QED
            BY <4>1, <6>2, <6>3, Zenon
        <5>2. CASE i = n
          <6>1. n > 0 /\ i + 1 = m
            BY <2>0, <3>2, <5>2
          <6>2. chunks[n].start + chunks[n].length = a
            BY <1>0, <2>0, <6>1, Zenon DEF Tiles
          <6> QED
            BY <2>1, <4>1, <5>2, <6>1, <6>2, Zenon
        <5> QED
          BY <3>2, <5>1, <5>2
      <4> QED
        BY <2>0, <4>2, <4>3, <4>4
    <3> QED
      BY <2>0, <3>1, <3>2
  <2>3. N' # 0
    BY <2>0
  <2> QED
    BY <1>3, <1>7, <2>0, <2>1, <2>2, <2>3, Zenon DEF Tiles
<1>9. Begins'
  BY <1>3, <1>4, Zenon DEF Begins
<1>10. Cursor'
  <2>1. 1 <= N' /\ 1 \in 1 .. N'
    BY <1>1, <1>2
  <2>2. chunks'[1] \in Subchunks
    <3> PICK s, S : s = chunks' /\ S = Subchunks
      BY Zenon
    <3>1. s \in Seq(S) /\ 1 \in 1 .. Len(s)
      BY <1>1, <2>1, Zenon DEF N
    <3>2. s[1] \in S
      BY <3>1
    <3> QED
      BY <3>2, Zenon
  <2>3. chunks'[1].length \in Nat /\ 0 < chunks'[1].length /\ 0 <= chunks'[1].length
    BY <2>2 DEF Subchunks
  <2>4. consumed = begin.start + out /\ begin.start + 0 = begin.start
    BY <1>0, <1>2 DEF Cursor
  <2>5. ~(1 > N')
    BY <1>1, <1>2
  <2> QED
    BY <1>3, <1>4, <1>7, <2>1, <2>3, <2>4, <2>5, Zenon DEF Cursor
<1> QED
  BY <1>5, <1>8, <1>9, <1>10, Zenon DEF PInv
-----------------------------------------------------------------------------
(* Frames.                                                                 *)

(* The steps of the scheduler and the workers leave the reader alone.      *)
LEMMA PlanFrame ==
  ASSUME PInv, UNCHANGED <<plan, cur, off, out, reader, consumed>>,
         sched' \in [pc : {"gate", "parked", "sem", "done"}, i : Nat \ {0}],
         left > 0 => sched' = sched,
         worker' \in [1 .. N -> {None} \cup Workers],
         slot' \in [1 .. N -> {None, "ok", "failed", "canceled"}],
         cause' \in {None, "failed", "canceled"}
  PROVE  PInv'
<1>1. UNCHANGED <<begin, window, left, chunks>> /\ N' = N
  BY Zenon DEF plan, N
<1>2. Types'
  BY <1>1, Zenon DEF PInv, Types
<1>3. Tiles'
  BY <1>1, Zenon DEF PInv, Tiles, Cutting
<1>4. Begins' /\ Cursor'
  BY <1>1, Zenon DEF PInv, Begins, Cursor
<1> QED
  BY <1>2, <1>3, <1>4, Zenon DEF PInv

(* A new state of a worker.                                                *)
LEMMA WorkerMoves ==
  ASSUME Types, NEW i \in 1 .. N, NEW w \in Workers, worker' = [worker EXCEPT ![i] = w]
  PROVE  /\ worker' \in [1 .. N -> {None} \cup Workers]
         /\ worker'[i] = w /\ w # None
         /\ \A j \in 1 .. N : j # i => worker'[j] = worker[j]
BY NoneAssumption, Zenon DEF Types

(* A worker takes a step.                                                  *)
LEMMA WorkerStep ==
  ASSUME MInv, NEW i \in 1 .. N, worker[i] # None, NEW w \in Workers,
         worker' = [worker EXCEPT ![i] = w],
         UNCHANGED <<plan, sched, consumed, reader, cur, off, out>>,
         slot' \in [1 .. N -> {None, "ok", "failed", "canceled"}],
         cause' \in {None, "failed", "canceled"}, cause = "failed" => cause' = "failed",
         cause' = "failed" => cause = "failed" \/ w.tried = NSrc,
         w.tried >= worker[i].tried, Failure(w)'
  PROVE  MInv'
<1>0. /\ PInv /\ InTurn /\ ReadAheadBounded /\ Causes /\ ErrorHasCause
      /\ Types /\ NSrc \in Nat
  BY MultiSourceAssumption, Zenon DEF MInv, PInv
<1>1. /\ worker' \in [1 .. N -> {None} \cup Workers]
      /\ worker'[i] = w /\ w # None
      /\ \A j \in 1 .. N : j # i => worker'[j] = worker[j]
  BY <1>0, WorkerMoves, Zenon
<1>2. UNCHANGED <<begin, window, left, chunks>> /\ N' = N
  BY Zenon DEF plan, N
<1>3. PInv'
  <2>1. sched' \in [pc : {"gate", "parked", "sem", "done"}, i : Nat \ {0}]
    BY <1>0, Zenon DEF Types
  <2> QED
    BY <1>0, <1>1, <2>1, PlanFrame, Zenon
<1>4. \A j \in 1 .. N : worker'[j] # None <=> worker[j] # None
  BY <1>1, Zenon
<1>5. InTurn' /\ ReadAheadBounded'
  BY <1>0, <1>2, <1>4, Zenon DEF InTurn, ReadAheadBounded, InWindow
<1>6. Causes'
  <2> SUFFICES ASSUME NEW j \in 1 .. N, worker'[j] # None PROVE Failure(worker[j])'
    BY <1>2, Zenon DEF Causes
  <2>1. CASE j = i
    BY <1>1, <2>1, Zenon DEF Failure
  <2>2. CASE j # i
    <3>1. Failure(worker[j]) /\ worker'[j] = worker[j]
      BY <1>0, <1>1, <1>4, <2>2, Zenon DEF Causes
    <3> QED
      BY <3>1, Zenon DEF Failure
  <2> QED
    BY <2>1, <2>2, Zenon
<1>7. ErrorHasCause'
  <2> SUFFICES ASSUME cause' = "failed"
               PROVE  \E j \in 1 .. N : worker'[j] # None /\ worker'[j].tried = NSrc
    BY <1>2, Zenon DEF ErrorHasCause
  <2>1. CASE w.tried = NSrc
    BY <1>1, <2>1, Zenon
  <2>2. CASE cause = "failed"
    <3>1. PICK j \in 1 .. N : worker[j] # None /\ worker[j].tried = NSrc
      BY <1>0, <2>2, Zenon DEF ErrorHasCause
    <3>2. CASE j = i
      <4>1. w.tried \in 0 .. NSrc /\ w.tried >= NSrc
        BY <3>1, <3>2, Zenon DEF Workers
      <4>2. w.tried = NSrc
        BY <1>0, <4>1
      <4> QED
        BY <1>1, <4>2, Zenon
    <3>3. CASE j # i
      BY <1>1, <3>1, <3>3, Zenon
    <3> QED
      BY <3>2, <3>3, Zenon
  <2> QED
    BY <2>1, <2>2, Zenon
<1> QED
  BY <1>3, <1>5, <1>6, <1>7, Zenon DEF MInv

(* The client takes a step.                                                *)
LEMMA ClientStep ==
  ASSUME MInv, PInv', UNCHANGED <<plan, sched, worker>>,
         consumed \in Nat, consumed' \in Nat, consumed' >= consumed,
         cause' = cause \/ (cause = None /\ cause' = "canceled")
  PROVE  MInv'
<1>0. InTurn /\ ReadAheadBounded /\ Causes /\ ErrorHasCause /\ Types
  BY Zenon DEF MInv, PInv
<1>1. UNCHANGED <<begin, window, left, chunks>> /\ N' = N
  BY Zenon DEF plan, N
<1>2. window \in Nat /\ \A i \in 1 .. N : chunks[i].start \in Nat
  <2>1. \A i \in 1 .. N : chunks[i] \in Subchunks
    BY <1>0, Elements, Zenon
  <2> QED
    BY <1>0, <2>1, Zenon DEF Types, Subchunks
<1>3. ASSUME NEW i \in 1 .. N, chunks[i].start < consumed + window
      PROVE  chunks[i].start < consumed' + window
  BY <1>2, <1>3
<1>4. ReadAheadBounded'
  BY <1>0, <1>1, <1>3, Zenon DEF ReadAheadBounded
<1>5. InTurn'
  <2>1. ASSUME sched.pc = "sem" PROVE InWindow(sched.i)'
    <3>1. left = 0 /\ sched.i \in 1 .. N
      <4>1. left = 0
        BY <1>0, <2>1 DEF MInv, PInv, Begins, Types
      <4>2. sched.i \in Nat \ {0} /\ sched.i <= N /\ N \in Nat
        BY <1>0, <4>1, Elements, Zenon DEF Types, InTurn
      <4> QED
        BY <4>1, <4>2
    <3> QED
      BY <1>0, <1>1, <1>3, <2>1, <3>1, Zenon DEF InTurn, InWindow
  <2> QED
    BY <1>0, <1>1, <2>1, Zenon DEF InTurn
<1>6. Causes' /\ ErrorHasCause'
  BY <1>0, <1>1, NoneAssumption, Zenon DEF Causes, Failure, ErrorHasCause
<1> QED
  BY <1>4, <1>5, <1>6, Zenon DEF MInv
-----------------------------------------------------------------------------
(* The workers.                                                            *)

(* The head of the loop over the sources.                                  *)
LEMMA CheckStep ==
  ASSUME MInv, NEW i \in 1 .. N, Check(i)
  PROVE  MInv'
<1>0. Types /\ Causes /\ NSrc \in Nat /\ NSrc > 0
  BY MultiSourceAssumption DEF MInv, PInv
<1>1. /\ worker[i] # None /\ worker[i].pc = "check" /\ slot' = slot /\ cause' = cause
      /\ UNCHANGED <<plan, sched, consumed, reader, cur, off, out>>
  BY Zenon DEF Check, At
<1>2. worker[i] \in Workers /\ Failure(worker[i])
  BY <1>0, <1>1, Zenon DEF Types, Causes
<1>3. PICK n \in 0 .. NSrc : n = worker[i].tried
  BY <1>2, Zenon DEF Workers
<1>4. PICK e \in {None, "failed", "canceled"} : e = worker[i].err
  BY <1>2, Zenon DEF Workers
<1>5. PICK w \in Workers :
        /\ worker' = [worker EXCEPT ![i] = w] /\ w.tried = n
        /\ \/ w.pc = "settle" /\ w.err = e /\ n = NSrc
           \/ w.pc = "settle" /\ w.err = cause /\ cause # None
           \/ w.pc = "request" /\ w.err = e /\ n # NSrc
  <2>1. cause \in {None, "failed", "canceled"}
    BY <1>0, Zenon DEF Types
  <2>2. CASE n = NSrc
    <3>1. PICK w : w = [pc |-> "settle", tried |-> n, err |-> e]
      BY Zenon
    <3>2. w \in Workers /\ w.tried = n /\ w.pc = "settle" /\ w.err = e
      BY <3>1, Zenon DEF Workers
    <3>3. worker' = [worker EXCEPT ![i] = w]
      BY <1>3, <1>4, <2>2, <3>1, Zenon DEF Check, Exhausted
    <3> QED
      BY <2>2, <3>2, <3>3, Zenon
  <2>3. CASE n # NSrc /\ cause # None
    <3>1. PICK w : w = [pc |-> "settle", tried |-> n, err |-> cause]
      BY Zenon
    <3>2. w \in Workers /\ w.tried = n /\ w.pc = "settle" /\ w.err = cause
      BY <2>1, <3>1, Zenon DEF Workers
    <3>3. worker' = [worker EXCEPT ![i] = w]
      BY <1>3, <2>3, <3>1, Zenon DEF Check, Exhausted
    <3> QED
      BY <2>3, <3>2, <3>3, Zenon
  <2>4. CASE n # NSrc /\ cause = None
    <3>1. PICK w : w = [pc |-> "request", tried |-> n, err |-> e]
      BY Zenon
    <3>2. w \in Workers /\ w.tried = n /\ w.pc = "request" /\ w.err = e
      BY <3>1, Zenon DEF Workers
    <3>3. worker' = [worker EXCEPT ![i] = w]
      BY <1>3, <1>4, <2>4, <3>1, Zenon DEF Check, Exhausted
    <3> QED
      BY <2>4, <3>2, <3>3, Zenon
  <2> QED
    BY <2>2, <2>3, <2>4, Zenon
<1>6. n > 0 => e # None
  BY <1>2, <1>3, <1>4, Zenon DEF Failure
<1>7. Failure(w)'
  <2>1. w.tried > 0 => w.err # None
    BY <1>5, <1>6, Zenon
  <2>2. w.pc = "request" => w.tried < NSrc
    BY <1>0, <1>5
  <2>3. w.pc \in {"settle", "cancel"} =>
          /\ w.err # None /\ (w.err = "failed" => w.tried = NSrc \/ cause = "failed")
    BY <1>0, <1>5, <1>6, Zenon
  <2> QED
    BY <1>1, <2>1, <2>2, <2>3, Zenon DEF Failure
<1>8. w.tried >= worker[i].tried
  BY <1>0, <1>3, <1>5
<1>9. slot \in [1 .. N -> {None, "ok", "failed", "canceled"}] /\ cause \in {None, "failed", "canceled"}
  BY <1>0, Zenon DEF Types
<1> QED
  BY <1>1, <1>5, <1>7, <1>8, <1>9, WorkerStep, Zenon

(* A source answers or fails.                                              *)
LEMMA RequestStep ==
  ASSUME MInv, NEW i \in 1 .. N, Request(i)
  PROVE  MInv'
<1>0. Types /\ Causes /\ NSrc \in Nat
  BY MultiSourceAssumption, Zenon DEF MInv, PInv
<1>1. /\ worker[i] # None /\ worker[i].pc = "request" /\ cause' = cause
      /\ slot' = slot \/ slot' = [slot EXCEPT ![i] = "ok"]
      /\ UNCHANGED <<plan, sched, consumed, reader, cur, off, out>>
  BY Zenon DEF Request, At
<1>2. worker[i] \in Workers /\ Failure(worker[i])
  BY <1>0, <1>1, Zenon DEF Types, Causes
<1>3. PICK n \in 0 .. NSrc : n = worker[i].tried
  BY <1>2, Zenon DEF Workers
<1>4. PICK e \in {None, "failed", "canceled"} : e = worker[i].err
  BY <1>2, Zenon DEF Workers
<1>5. n < NSrc /\ (n > 0 => e # None)
  BY <1>1, <1>2, <1>3, <1>4, Zenon DEF Failure
<1>6. PICK w \in Workers :
        /\ worker' = [worker EXCEPT ![i] = w] /\ w.tried \in {n, n + 1}
        /\ w.pc \in {"exit", "check"} /\ (w.tried > 0 => w.err # None)
  <2>1. CASE worker' = [worker EXCEPT ![i].pc = "exit"]
    <3>1. PICK w : w = [worker[i] EXCEPT !.pc = "exit"]
      BY Zenon
    <3>2. w \in Workers /\ w.tried = n /\ w.pc = "exit" /\ w.err = e
      BY <1>2, <1>3, <1>4, <3>1, Zenon DEF Workers
    <3>3. worker' = [worker EXCEPT ![i] = w]
      BY <2>1, <3>1, Zenon
    <3> QED
      BY <1>5, <3>2, <3>3, Zenon
  <2>2. ASSUME NEW f \in {"failed", "canceled"},
               worker' = [worker EXCEPT ![i] = [pc |-> "check", tried |-> worker[i].tried + 1, err |-> f]]
        PROVE  \E w \in Workers :
                  /\ worker' = [worker EXCEPT ![i] = w] /\ w.tried \in {n, n + 1}
                  /\ w.pc \in {"exit", "check"} /\ (w.tried > 0 => w.err # None)
    <3>0. PICK m \in 0 .. NSrc : m = n + 1
      BY <1>0, <1>5
    <3>1. PICK w : w = [pc |-> "check", tried |-> m, err |-> f]
      BY Zenon
    <3>2. w \in Workers /\ w.tried = n + 1 /\ w.pc = "check" /\ w.err = f /\ f # None
      BY <3>0, <3>1, NoneAssumption, Zenon DEF Workers
    <3>3. worker' = [worker EXCEPT ![i] = w]
      BY <1>3, <2>2, <3>0, <3>1, Zenon
    <3> QED
      BY <3>2, <3>3, Zenon
  <2>3. \/ worker' = [worker EXCEPT ![i].pc = "exit"]
        \/ worker' = [worker EXCEPT ![i] = [pc |-> "check", tried |-> worker[i].tried + 1, err |-> "failed"]]
        \/ worker' = [worker EXCEPT ![i] = [pc |-> "check", tried |-> worker[i].tried + 1, err |-> "canceled"]]
    BY Zenon DEF Request
  <2> QED
    BY <2>1, <2>2, <2>3, Zenon
<1>7. Failure(w)'
  BY <1>6, Zenon DEF Failure
<1>8. w.tried >= worker[i].tried
  BY <1>3, <1>6
<1>9. /\ slot' \in [1 .. N -> {None, "ok", "failed", "canceled"}]
      /\ cause \in {None, "failed", "canceled"}
  BY <1>0, <1>1, Zenon DEF Types
<1> QED
  BY <1>1, <1>6, <1>7, <1>8, <1>9, WorkerStep, Zenon

(* The slot gets the error, a failure ends ctx, the worker exits.          *)
LEMMA EndStep ==
  ASSUME MInv, NEW i \in 1 .. N, Settle(i) \/ Cancel(i) \/ Exit(i)
  PROVE  MInv'
<1>0. Types /\ Causes /\ NSrc \in Nat
  BY MultiSourceAssumption, Zenon DEF MInv, PInv
<1>1. /\ worker[i] # None /\ worker[i].pc \in {"settle", "cancel", "exit"}
      /\ UNCHANGED <<plan, sched, consumed, reader, cur, off, out>>
  BY Zenon DEF Settle, Cancel, Exit, At
<1>2. worker[i] \in Workers /\ Failure(worker[i])
  BY <1>0, <1>1, Zenon DEF Types, Causes
<1>3. PICK n \in 0 .. NSrc : n = worker[i].tried
  BY <1>2, Zenon DEF Workers
<1>4. PICK e \in {None, "failed", "canceled"} : e = worker[i].err
  BY <1>2, Zenon DEF Workers
<1>5. /\ n > 0 => e # None
      /\ worker[i].pc \in {"settle", "cancel"} =>
           e # None /\ (e = "failed" => n = NSrc \/ cause = "failed")
  BY <1>2, <1>3, <1>4, Zenon DEF Failure
<1>6. PICK pc \in {"cancel", "exit", "gone"} :
        /\ worker' = [worker EXCEPT ![i].pc = pc]
        /\ pc = "cancel" => worker[i].pc = "settle"
  BY Zenon DEF Settle, Cancel, Exit, At
<1>7. PICK w : w = [worker[i] EXCEPT !.pc = pc]
  BY Zenon
<1>8. w \in Workers /\ w.pc = pc /\ w.tried = n /\ w.err = e
  BY <1>2, <1>3, <1>4, <1>7, Zenon DEF Workers
<1>9. worker' = [worker EXCEPT ![i] = w]
  BY <1>6, <1>7, Zenon
<1>10. /\ slot' \in [1 .. N -> {None, "ok", "failed", "canceled"}]
       /\ cause' \in {None, "failed", "canceled"} /\ (cause = "failed" => cause' = "failed")
       /\ cause' = "failed" => cause = "failed" \/ n = NSrc
  <2>0. /\ slot \in [1 .. N -> {None, "ok", "failed", "canceled"}]
        /\ cause \in {None, "failed", "canceled"}
    BY <1>0, Zenon DEF Types
  <2>1. CASE Settle(i)
    <3>1. slot' = [slot EXCEPT ![i] = e] /\ cause' = cause
      BY <1>4, <2>1, Zenon DEF Settle
    <3> QED
      BY <2>0, <3>1, Zenon
  <2>2. CASE Cancel(i)
    <3>1. slot' = slot /\ worker[i].pc = "cancel" /\ (cause' = cause \/ (cause = None /\ cause' = e))
      BY <1>4, <2>2, Zenon DEF Cancel, Cancelled, At
    <3> QED
      BY <1>5, <2>0, <3>1, NoneAssumption, Zenon
  <2>3. CASE Exit(i)
    BY <2>0, <2>3, Zenon DEF Exit
  <2> QED
    BY <2>1, <2>2, <2>3, Zenon
<1>11. Failure(w)'
  BY <1>5, <1>6, <1>8, <1>10, Zenon DEF Failure
<1>12. w.tried >= worker[i].tried
  BY <1>3, <1>8
<1> QED
  BY <1>1, <1>8, <1>9, <1>10, <1>11, <1>12, WorkerStep, Zenon
-----------------------------------------------------------------------------
(* The scheduler waits for the window and for a token, and starts workers. *)
LEMMA SchedulerStep ==
  ASSUME MInv, Scheduler
  PROVE  MInv'
<1>0. /\ PInv /\ InTurn /\ ReadAheadBounded /\ Causes /\ ErrorHasCause /\ Types /\ Begins
      /\ N \in Nat
  BY Elements, Zenon DEF MInv, PInv
<1>1. /\ UNCHANGED <<plan, slot, cause, consumed, reader, cur, off, out>>
      /\ sched.pc # "done" /\ (sched.pc = "gate" => left <= 0)
  BY Zenon DEF Scheduler, Gate, Wake, Launch, Planned
<1>2. UNCHANGED <<begin, window, left, chunks>> /\ N' = N
  BY <1>1, Zenon DEF plan, N
<1>3. PICK k \in Nat \ {0} : k = sched.i
  BY <1>0, Zenon DEF Types
<1>4. sched = [pc |-> sched.pc, i |-> k] /\ sched.pc \in {"gate", "parked", "sem", "done"}
  BY <1>0, <1>3, Zenon DEF Types
<1>5. left = 0 /\ k \in 1 .. N /\ worker[k] = None
  <2>1. left = 0
    BY <1>0, <1>1, <1>4 DEF Types, Begins
  <2>2. k <= N
    BY <1>0, <1>3, <2>1, Zenon DEF InTurn
  <2>3. k \in 1 .. N
    BY <1>0, <2>2
  <2> QED
    BY <1>0, <1>1, <1>3, <2>1, <2>3, Zenon DEF InTurn
<1>6. ASSUME NEW pc \in {"gate", "parked", "sem", "done"}, sched' = [sched EXCEPT !.pc = pc],
             worker' = worker, pc = "sem" => InWindow(k)
      PROVE  MInv'
  <2>1. /\ sched' \in [pc : {"gate", "parked", "sem", "done"}, i : Nat \ {0}]
        /\ sched'.pc = pc /\ sched'.i = k
    BY <1>3, <1>4, <1>6, Zenon
  <2>2. worker' \in [1 .. N -> {None} \cup Workers]
    BY <1>0, <1>6, Zenon DEF Types
  <2>3. slot' \in [1 .. N -> {None, "ok", "failed", "canceled"}] /\ cause' \in {None, "failed", "canceled"}
    BY <1>0, <1>1, Zenon DEF Types
  <2>4. PInv'
    BY <1>0, <1>1, <1>5, <2>1, <2>2, <2>3, PlanFrame
  <2>5. InTurn'
    <3>1. InWindow(k) => InWindow(k)'
      BY <1>1, <1>2, Zenon DEF InWindow
    <3>2. \A j \in 1 .. N : j > k => worker[j] = None
      BY <1>0, <1>3, Zenon DEF InTurn
    <3>3. k <= N
      BY <1>0, <1>5
    <3> QED
      BY <1>2, <1>5, <1>6, <2>1, <3>1, <3>2, <3>3, Zenon DEF InTurn
  <2>6. ReadAheadBounded' /\ Causes' /\ ErrorHasCause'
    BY <1>0, <1>1, <1>2, <1>6, Zenon DEF ReadAheadBounded, Causes, Failure, ErrorHasCause
  <2> QED
    BY <2>4, <2>5, <2>6, Zenon DEF MInv
<1>7. CASE Gate
  BY <1>3, <1>6, <1>7, Zenon DEF Gate
<1>8. CASE Wake
  <2>1. \E pc \in {"gate", "done"} : sched' = [sched EXCEPT !.pc = pc]
    BY <1>8, Zenon DEF Wake
  <2>2. worker' = worker
    BY <1>8, Zenon DEF Wake
  <2> QED
    BY <1>6, <2>1, <2>2, Zenon
<1>9. CASE Launch
  <2>1. CASE worker' = worker /\ sched' = [sched EXCEPT !.pc = "done"]
    BY <1>6, <2>1, Zenon
  <2>2. CASE /\ worker' = [worker EXCEPT ![sched.i] = [pc |-> "check", tried |-> 0, err |-> None]]
             /\ sched' = IF sched.i = N THEN [sched EXCEPT !.pc = "done"]
                                        ELSE [pc |-> "gate", i |-> sched.i + 1]
    <3>1. PICK w : w = [pc |-> "check", tried |-> 0, err |-> None]
      BY Zenon
    <3>2. w \in Workers /\ w.pc = "check" /\ w.tried = 0 /\ w # None
      BY <3>1, MultiSourceAssumption, NoneAssumption DEF Workers
    <3>3. worker' = [worker EXCEPT ![k] = w]
      BY <1>3, <2>2, <3>1, Zenon
    <3>4. /\ worker' \in [1 .. N -> {None} \cup Workers] /\ worker'[k] = w
          /\ \A j \in 1 .. N : j # k => worker'[j] = worker[j]
      BY <1>0, <1>5, <3>2, <3>3, WorkerMoves, Zenon
    <3>5. /\ sched' \in [pc : {"gate", "parked", "sem", "done"}, i : Nat \ {0}]
          /\ \/ k = N /\ sched'.pc = "done" /\ sched'.i = k
             \/ k < N /\ sched'.pc = "gate" /\ sched'.i = k + 1
      <4>1. CASE k = N
        <5>1. sched' = [sched EXCEPT !.pc = "done"]
          BY <1>3, <2>2, <4>1, Zenon
        <5> QED
          BY <1>3, <1>4, <4>1, <5>1, Zenon
      <4>2. CASE k # N
        <5>1. sched' = [pc |-> "gate", i |-> k + 1]
          BY <1>3, <2>2, <4>2, Zenon
        <5>2. k < N /\ k + 1 \in Nat \ {0}
          BY <1>0, <1>5, <4>2
        <5> QED
          BY <5>1, <5>2, Zenon
      <4> QED
        BY <4>1, <4>2, Zenon
    <3>6. slot' \in [1 .. N -> {None, "ok", "failed", "canceled"}] /\ cause' \in {None, "failed", "canceled"}
      BY <1>0, <1>1, Zenon DEF Types
    <3>7. PInv'
      BY <1>0, <1>1, <1>5, <3>4, <3>5, <3>6, PlanFrame
    <3>8. InTurn'
      <4>1. ASSUME NEW j \in 1 .. N, j > sched'.i \/ (j = sched'.i /\ sched'.pc # "done")
            PROVE  worker'[j] = None
        <5>1. j > k
          BY <1>5, <3>5, <4>1
        <5>2. j # k /\ worker[j] = None
          BY <1>0, <1>3, <5>1 DEF InTurn
        <5> QED
          BY <3>4, <5>2, Zenon
      <4>2. sched'.i <= N /\ sched'.pc # "sem"
        BY <1>0, <3>5
      <4> QED
        BY <1>2, <4>1, <4>2, Zenon DEF InTurn
    <3>9. ReadAheadBounded'
      <4>1. window > 0 => chunks[k].start < consumed + window
        <5>1. InWindow(k) /\ window \in Nat
          BY <1>0, <1>3, <1>9, Zenon DEF InTurn, Launch, Types
        <5> QED
          BY <5>1 DEF InWindow
      <4>2. \A j \in 1 .. N : worker'[j] # None => j = k \/ worker[j] # None
        BY <3>4, Zenon
      <4> QED
        BY <1>0, <1>1, <1>2, <4>1, <4>2, Zenon DEF ReadAheadBounded
    <3>10. Causes'
      <4>1. Failure(w)'
        BY <3>2, MultiSourceAssumption DEF Failure
      <4> SUFFICES ASSUME NEW j \in 1 .. N, worker'[j] # None PROVE Failure(worker[j])'
        BY <1>2, Zenon DEF Causes
      <4>2. CASE j = k
        BY <3>4, <4>1, <4>2, Zenon DEF Failure
      <4>3. CASE j # k
        <5>1. worker'[j] = worker[j] /\ Failure(worker[j])
          BY <1>0, <3>4, <4>3, Zenon DEF Causes
        <5> QED
          BY <1>1, <5>1, Zenon DEF Failure
      <4> QED
        BY <4>2, <4>3, Zenon
    <3>11. ErrorHasCause'
      BY <1>0, <1>1, <1>2, <1>5, <3>4, Zenon DEF ErrorHasCause
    <3> QED
      BY <3>7, <3>8, <3>9, <3>10, <3>11, Zenon DEF MInv
  <2> QED
    BY <1>9, <2>1, <2>2, Zenon DEF Launch
<1> QED
  BY <1>7, <1>8, <1>9, Zenon DEF Scheduler
-----------------------------------------------------------------------------
(* The loop of computeSubchunks runs before any worker does.               *)
LEMMA ComputeStep ==
  ASSUME MInv, ComputeSubchunks
  PROVE  MInv' /\ \A i \in 1 .. N : worker[i] = None
<1>0. PInv /\ InTurn /\ ErrorHasCause /\ Types /\ Begins
  BY Zenon DEF MInv, PInv
<1>1. N' = N + 1 /\ left > 0 /\ \A i \in 1 .. N + 1 : worker'[i] = None
  BY <1>0, CutTurn, Zenon
<1>2. N \in Nat
  BY <1>0, Elements, Zenon
<1>3. PInv'
  BY <1>0, CutPInv, Zenon
<1>4. sched = [pc |-> "gate", i |-> 1] /\ sched' = sched /\ cause' = cause
  BY <1>0, <1>1, Zenon DEF Begins, ComputeSubchunks
<1>5. \A i \in 1 .. N : worker[i] = None
  <2> SUFFICES ASSUME NEW i \in 1 .. N PROVE worker[i] = None
    BY Zenon
  <2>1. i > sched.i \/ (i = sched.i /\ sched.pc # "done")
    BY <1>2, <1>4
  <2> QED
    BY <1>0, <2>1, Zenon DEF InTurn
<1>6. cause # "failed"
  BY <1>0, <1>5, Zenon DEF ErrorHasCause
<1>7. InTurn'
  <2>1. sched'.i <= N' /\ sched'.pc # "sem"
    BY <1>1, <1>2, <1>4
  <2> QED
    BY <1>1, <2>1, Zenon DEF InTurn
<1>8. ReadAheadBounded' /\ Causes' /\ ErrorHasCause'
  BY <1>1, <1>4, <1>6, Zenon DEF ReadAheadBounded, Causes, ErrorHasCause
<1> QED
  BY <1>3, <1>5, <1>7, <1>8, Zenon DEF MInv
-----------------------------------------------------------------------------
(* The client.                                                             *)

(* What a step of the client that leaves the plan alone must keep.         *)
LEMMA CursorFrame ==
  ASSUME PInv, UNCHANGED <<plan, sched, worker, slot>>, left = 0,
         cause' \in {None, "failed", "canceled"},
         reader'.pc \in {"idle", "read", "notify", "ended", "closing", "closed"},
         reader'.pc = "read" => reader'.p \in BufSizes,
         cur' \in 1 .. N + 1, off' \in Nat, out' \in Nat, Cursor'
  PROVE  PInv'
<1>1. UNCHANGED <<begin, window, left, chunks>> /\ N' = N
  BY Zenon DEF plan, N
<1>2. Types'
  BY <1>1, Zenon DEF PInv, Types
<1>3. Tiles'
  BY <1>1, Zenon DEF PInv, Tiles, Cutting
<1>4. Begins'
  BY <1>1 DEF Begins
<1> QED
  BY <1>2, <1>3, <1>4, Zenon DEF PInv

(* Read, Close and the end of the client's request, but for the copying.   *)
LEMMA CallStep ==
  ASSUME MInv, ReadCall \/ ReadFails \/ Close \/ CloseWait
  PROVE  MInv'
<1>0. PInv /\ Types /\ Begins /\ Cursor /\ N \in Nat
  BY Elements, Zenon DEF MInv, PInv
<1>1. /\ UNCHANGED <<plan, sched, worker, slot, consumed, cur, off, out>>
      /\ cause' = cause \/ (cause = None /\ cause' = "canceled")
  BY Zenon DEF ReadCall, ReadFails, Close, CloseWait, Cancelled
<1>2. UNCHANGED <<begin, window, left, chunks>> /\ N' = N
  BY <1>1, Zenon DEF plan, N
<1>3. left = 0
  <2>1. left <= 0 \/ reader.pc # "idle"
    BY Zenon DEF ReadCall, ReadFails, Close, CloseWait, Planned
  <2> QED
    BY <1>0, <2>1 DEF Types, Begins
<1>4. /\ reader'.pc \in {"read", "ended", "closing", "closed"}
      /\ reader'.pc = "read" => reader'.p \in BufSizes /\ ~(cur > N)
      /\ reader'.pc = "ended" /\ reader'.err = "EOF" => cur > N
      /\ reader.pc # "notify"
  <2>1. CASE ReadCall
    BY <1>0, <2>1 DEF ReadCall, Types
  <2>2. CASE ReadFails
    <3>1. reader.pc = "read" /\ cur \in 1 .. N
      BY <1>0, <2>2 DEF ReadFails, Cursor, Types
    <3>2. PICK e \in {"failed", "canceled"} : reader' = [pc |-> "ended", err |-> e]
      BY <1>0, <2>2, <3>1, Zenon DEF ReadFails, Types
    <3> QED
      BY <3>1, <3>2, Zenon
  <2>3. CASE Close \/ CloseWait
    BY <2>3 DEF Close, CloseWait
  <2> QED
    BY <2>1, <2>2, <2>3, Zenon
<1>5. Cursor'
  <2>1. consumed' = begin'.start + out'
    BY <1>0, <1>1, <1>2, Zenon DEF Cursor
  <2>2. cur' <= N' => /\ begin'.start + out' = chunks'[cur'].start + off'
                      /\ off' <= chunks'[cur'].length /\ off' < chunks'[cur'].length
    BY <1>0, <1>1, <1>2, <1>4, Zenon DEF Cursor
  <2>3. left' = 0 /\ cur' > N' => out' = begin'.length
    BY <1>0, <1>1, <1>2, Zenon DEF Cursor
  <2>4. reader'.pc \in {"read", "notify"} => cur' <= N'
    BY <1>0, <1>1, <1>2, <1>4 DEF Types
  <2>5. reader'.pc = "ended" /\ reader'.err = "EOF" => out' = begin'.length
    BY <1>1, <1>2, <1>3, <1>4, <2>3, Zenon
  <2> QED
    BY <2>1, <2>2, <2>3, <2>4, <2>5, Zenon DEF Cursor
<1>6. cause' \in {None, "failed", "canceled"} /\ cur' \in 1 .. N + 1 /\ off' \in Nat /\ out' \in Nat
  BY <1>0, <1>1, Zenon DEF Types
<1>7. reader'.pc \in {"idle", "read", "notify", "ended", "closing", "closed"}
  BY <1>4, Zenon
<1>8. PInv'
  BY <1>0, <1>1, <1>3, <1>4, <1>5, <1>6, <1>7, CursorFrame, Zenon
<1>9. consumed \in Nat /\ consumed' = consumed
  BY <1>0, <1>1 DEF Types, Cursor, Ranges
<1> QED
  BY <1>1, <1>8, <1>9, ClientStep

(* The client's request ends.                                              *)
LEMMA GoneStep ==
  ASSUME MInv, ClientGone
  PROVE  MInv'
<1>0. PInv /\ Types /\ Cursor
  BY Zenon DEF MInv, PInv
<1>1. /\ UNCHANGED <<plan, sched, worker, slot, consumed, reader, cur, off, out>>
      /\ cause = None /\ cause' = "canceled"
  BY Zenon DEF ClientGone
<1>2. PInv'
  BY <1>0, <1>1, PlanFrame, Zenon DEF Types
<1>3. consumed \in Nat /\ consumed' = consumed
  BY <1>0, <1>1 DEF Types, Cursor, Ranges
<1> QED
  BY <1>1, <1>2, <1>3, ClientStep

(* Read copies from its slot.                                              *)
LEMMA CopyStep ==
  ASSUME MInv, ReadCopy
  PROVE  MInv'
<1>0. PInv /\ Types /\ Begins /\ Cursor /\ N \in Nat
  BY Elements, Zenon DEF MInv, PInv
<1>1. /\ UNCHANGED <<plan, sched, worker, slot, cause, cur>>
      /\ reader.pc = "read" /\ reader'.pc = "notify"
  BY Zenon DEF ReadCopy
<1>2. UNCHANGED <<begin, window, left, chunks>> /\ N' = N
  BY <1>1, Zenon DEF plan, N
<1>3. left = 0
  BY <1>0, <1>1 DEF Types, Begins
<1>4. cur \in 1 .. N /\ chunks[cur] \in Subchunks
  <2>1. cur \in 1 .. N
    BY <1>0, <1>1 DEF Cursor, Types
  <2> QED
    BY <1>0, <2>1, Elements, Zenon
<1>5. PICK s \in Nat, l \in Nat \ {0} : s = chunks[cur].start /\ l = chunks[cur].length
  BY <1>4, Zenon DEF Subchunks
<1>6. off \in Nat /\ out \in Nat /\ begin.start \in Nat /\ consumed = begin.start + out
  BY <1>0, Zenon DEF Types, Ranges, Cursor
<1>7. begin.start + out = s + off /\ off < l
  BY <1>0, <1>1, <1>4, <1>5, Zenon DEF Cursor
<1>8. PICK n \in Nat : n = Copied(reader.p, l - off) /\ off + n <= l
  <2>1. PICK p \in Nat : p = reader.p
    BY <1>0, <1>1, MultiSourceAssumption, Zenon DEF Types
  <2> QED
    BY <1>6, <1>7, <2>1 DEF Copied
<1>9. off' = off + n /\ out' = out + n /\ consumed' = s + off + n
  BY <1>5, <1>8, Zenon DEF ReadCopy
<1>10. Cursor'
  <2>1. consumed' = begin'.start + out' /\ begin'.start + out' = s + off' /\ off' <= l
    BY <1>2, <1>6, <1>7, <1>8, <1>9
  <2>2. cur' <= N' /\ ~(cur' > N') /\ reader'.pc # "ended"
    BY <1>0, <1>1, <1>2, <1>4
  <2> QED
    BY <1>1, <1>2, <1>5, <2>1, <2>2, Zenon DEF Cursor
<1>11. /\ cur' \in 1 .. N + 1 /\ off' \in Nat /\ out' \in Nat
       /\ consumed \in Nat /\ consumed' \in Nat /\ consumed' >= consumed
  BY <1>0, <1>1, <1>4, <1>5, <1>6, <1>7, <1>8, <1>9
<1>12. PInv'
  <2>1. cause' \in {None, "failed", "canceled"}
    BY <1>0, <1>1, Zenon DEF Types
  <2>2. /\ reader'.pc \in {"idle", "read", "notify", "ended", "closing", "closed"}
        /\ reader'.pc # "read"
    BY <1>1, Zenon
  <2> QED
    BY <1>0, <1>1, <1>3, <1>10, <1>11, <2>1, <2>2, CursorFrame, Zenon
<1> QED
  BY <1>1, <1>11, <1>12, ClientStep, Zenon

(* Read leaves a slot that it has read to the end.                         *)
LEMMA NotifyStep ==
  ASSUME MInv, ReadNotify
  PROVE  MInv'
<1>0. PInv /\ Types /\ Tiles /\ Begins /\ Cursor /\ N \in Nat
  BY Elements, Zenon DEF MInv, PInv
<1>1. /\ UNCHANGED <<plan, sched, worker, slot, cause, consumed, out>>
      /\ reader.pc = "notify" /\ reader'.pc = "idle"
  BY Zenon DEF ReadNotify
<1>2. UNCHANGED <<begin, window, left, chunks>> /\ N' = N
  BY <1>1, Zenon DEF plan, N
<1>3. left = 0
  BY <1>0, <1>1 DEF Types, Begins
<1>4. PICK k \in 1 .. N : k = cur
  BY <1>0, <1>1 DEF Cursor, Types
<1>5. chunks[k] \in Subchunks
  BY <1>0, Elements, Zenon
<1>6. PICK s \in Nat, l \in Nat \ {0} : s = chunks[k].start /\ l = chunks[k].length
  BY <1>5, Zenon DEF Subchunks
<1>7. off \in Nat /\ out \in Nat /\ begin.start \in Nat /\ begin.length \in Nat /\ consumed = begin.start + out
  BY <1>0, Zenon DEF Types, Ranges, Cursor
<1>8. begin.start + out = s + off /\ off <= l
  <2>1. k <= N
    OBVIOUS
  <2> QED
    BY <1>0, <1>4, <1>6, <2>1, Zenon DEF Cursor
<1>9. \/ off < l /\ cur' = k /\ off' = off
      \/ off = l /\ cur' = k + 1 /\ off' = 0
  <2>1. IF off >= l THEN cur' = k + 1 /\ off' = 0 ELSE cur' = k /\ off' = off
    BY <1>4, <1>6, Zenon DEF ReadNotify
  <2> QED
    BY <1>7, <1>8, <2>1
<1>10. Cursor' /\ cur' \in 1 .. N + 1 /\ off' \in Nat
  <2>0. consumed' = begin'.start + out'
    BY <1>0, <1>1, <1>2, Zenon DEF Cursor
  <2>1. CASE off < l /\ cur' = k /\ off' = off
    <3>1. cur' <= N' /\ ~(cur' > N')
      BY <1>0, <1>2, <1>4, <2>1
    <3>2. Cursor'
      BY <1>1, <1>2, <1>6, <1>8, <2>0, <2>1, <3>1, Zenon DEF Cursor
    <3> QED
      BY <1>0, <1>7, <2>1, <3>2
  <2>2. CASE off = l /\ cur' = k + 1 /\ off' = 0
    <3>1. CASE k < N
      <4>1. k + 1 \in 1 .. N
        BY <1>0, <3>1
      <4>2. chunks[k + 1] \in Subchunks /\ chunks[k + 1].start = s + l
        BY <1>0, <1>6, <3>1, <4>1, Elements, Zenon DEF Tiles
      <4>3. cur' <= N' /\ ~(cur' > N')
        BY <1>0, <1>2, <2>2, <4>1
      <4>4. begin.start + out = chunks[k + 1].start + 0 /\ 0 <= chunks[k + 1].length /\ 0 < chunks[k + 1].length
        BY <1>6, <1>8, <2>2, <4>2 DEF Subchunks
      <4>5. Cursor'
        BY <1>1, <1>2, <2>0, <2>2, <4>3, <4>4, Zenon DEF Cursor
      <4> QED
        BY <1>0, <2>2, <4>1, <4>5
    <3>2. CASE k = N
      <4>1. N > 0 /\ s + l = begin.start + begin.length
        <5>1. N > 0
          BY <1>0, <1>4
        <5> QED
          BY <1>0, <1>3, <1>6, <1>7, <3>2, <5>1 DEF Tiles, Cutting
      <4>2. out = begin.length
        BY <1>6, <1>7, <1>8, <2>2, <4>1
      <4>3. ~(cur' <= N') /\ cur' > N'
        BY <1>0, <1>2, <2>2, <3>2
      <4>4. Cursor'
        BY <1>1, <1>2, <2>0, <4>2, <4>3, Zenon DEF Cursor
      <4> QED
        BY <1>0, <2>2, <3>2, <4>4
    <3> QED
      BY <1>0, <3>1, <3>2
  <2> QED
    BY <1>9, <2>1, <2>2, Zenon
<1>11. PInv'
  <2>1. cause' \in {None, "failed", "canceled"} /\ out' \in Nat
    BY <1>0, <1>1, Zenon DEF Types
  <2>2. /\ reader'.pc \in {"idle", "read", "notify", "ended", "closing", "closed"}
        /\ reader'.pc # "read"
    BY <1>1, Zenon
  <2> QED
    BY <1>0, <1>1, <1>3, <1>10, <2>1, <2>2, CursorFrame, Zenon
<1>12. consumed \in Nat /\ consumed' \in Nat /\ consumed' >= consumed
  BY <1>1, <1>7
<1> QED
  BY <1>1, <1>11, <1>12, ClientStep, Zenon
-----------------------------------------------------------------------------
(* Nothing is cut, started or read at first.                               *)
LEMMA InitMInv == Init => MInv
<1> SUFFICES ASSUME Init PROVE MInv
  BY Zenon
<1>0. /\ chunks = <<>> /\ sched = [pc |-> "gate", i |-> 1] /\ worker = <<>> /\ slot = <<>>
      /\ cause = None /\ consumed = begin.start /\ reader = [pc |-> "idle"]
      /\ cur = 1 /\ off = 0 /\ out = 0 /\ left = begin.length /\ window \in Windows
  BY Zenon DEF Init
<1>1. begin \in Ranges
  <2>1. PICK s \in Starts, l \in Lengths, p \in PartSizes :
          Clamped(s, l) > 0 /\ begin = [start |-> s, length |-> Clamped(s, l), part |-> p]
    BY Zenon DEF Init
  <2>2. s \in Nat /\ l \in Int /\ p \in Nat \ {0} /\ Size \in Nat
    BY MultiSourceAssumption, Zenon
  <2>3. Clamped(s, l) \in Nat \ {0}
    BY <2>1, <2>2 DEF Clamped
  <2> QED
    BY <2>1, <2>2, <2>3, Zenon DEF Ranges
<1>2. N = 0 /\ (\A i \in 1 .. N : FALSE) /\ begin.length \in Nat \ {0} /\ begin.start \in Nat
  BY <1>0, <1>1 DEF N, Ranges
<1>3. Types
  <2>1. window \in Nat /\ left \in 0 .. begin.length
    BY <1>0, <1>2, MultiSourceAssumption
  <2>2. chunks \in Seq(Subchunks)
    BY <1>0
  <2>3. worker \in [1 .. N -> {None} \cup Workers] /\ slot \in [1 .. N -> {None, "ok", "failed", "canceled"}]
    BY <1>0, <1>2
  <2>4. sched \in [pc : {"gate", "parked", "sem", "done"}, i : Nat \ {0}]
    BY <1>0
  <2>5. cur \in 1 .. N + 1 /\ off \in Nat /\ out \in Nat
    BY <1>0, <1>2
  <2>6. /\ reader.pc \in {"idle", "read", "notify", "ended", "closing", "closed"}
        /\ reader.pc # "read"
    BY <1>0, Zenon
  <2> QED
    BY <1>0, <1>1, <2>1, <2>2, <2>3, <2>4, <2>5, <2>6, Zenon DEF Types
<1>4. Tiles
  BY <1>0, <1>2 DEF Tiles
<1>5. Begins
  BY <1>0, Zenon DEF Begins
<1>6. Cursor
  BY <1>0, <1>2 DEF Cursor
<1>7. InTurn
  BY <1>0, <1>2, Zenon DEF InTurn
<1>8. ReadAheadBounded /\ Causes /\ ErrorHasCause
  BY <1>0, <1>2, NoneAssumption, Zenon DEF ReadAheadBounded, Causes, ErrorHasCause
<1> QED
  BY <1>3, <1>4, <1>5, <1>6, <1>7, <1>8, Zenon DEF MInv, PInv

(* Every step of the reader, of its workers and of its client keeps MInv.  *)
LEMMA NextMInv == MInv /\ [Next]_vars => MInv'
<1> SUFFICES ASSUME MInv, [Next]_vars PROVE MInv'
  BY Zenon
<1>1. CASE ComputeSubchunks
  BY <1>1, ComputeStep, Zenon
<1>2. CASE Scheduler
  BY <1>2, SchedulerStep, Zenon
<1>3. ASSUME NEW i \in 1 .. N, Work(i) PROVE MInv'
  BY <1>3, CheckStep, RequestStep, EndStep, Zenon DEF Work
<1>4. CASE ReadCall \/ ReadFails \/ Close \/ CloseWait
  BY <1>4, CallStep, Zenon
<1>5. CASE ReadCopy
  BY <1>5, CopyStep, Zenon
<1>6. CASE ReadNotify
  BY <1>6, NotifyStep, Zenon
<1>7. CASE ClientGone
  BY <1>7, GoneStep, Zenon
<1>8. CASE UNCHANGED vars
  <2>1. /\ UNCHANGED <<plan, sched, worker, slot, cause, consumed, reader, cur, off, out>>
        /\ PInv /\ Types /\ Cursor
    BY <1>8, Zenon DEF vars, MInv, PInv
  <2>2. PInv'
    BY <2>1, PlanFrame, Zenon DEF Types
  <2>3. consumed \in Nat /\ consumed' = consumed
    BY <2>1 DEF Types, Cursor, Ranges
  <2> QED
    BY <2>1, <2>2, <2>3, ClientStep
<1> QED
  BY <1>1, <1>2, <1>3, <1>4, <1>5, <1>6, <1>7, <1>8, Zenon DEF Next, Reading

(* The invariant of the multi-source reader: the subchunks tile the range, *)
(* the cursor of Read is on them, the scheduler starts them in turn within *)
(* the window, and a worker gives up only with a reason.                   *)
THEOREM ReaderInvariant == Spec => []MInv
<1>1. Init => MInv
  BY InitMInv, Zenon
<1>2. MInv /\ [Next]_vars => MInv'
  BY NextMInv, Zenon
<1> QED
  BY <1>1, <1>2, PTL DEF Spec

(* Read delivers the bytes of the range in order, without a gap or a       *)
(* repetition, and EOF after the last one, whatever the order in which the *)
(* workers finish.                                                         *)
THEOREM BytesInOrder == Spec => []Contiguous
<1>1. MInv => Contiguous
  <2> SUFFICES ASSUME MInv PROVE Contiguous
    BY Zenon
  <2>0. Types /\ Tiles /\ Begins /\ Cursor /\ N \in Nat
    BY Elements, Zenon DEF MInv, PInv
  <2>1. /\ begin.start \in Nat /\ begin.length \in Nat /\ left \in Nat /\ left <= begin.length
        /\ out \in Nat /\ off \in Nat /\ cur \in 1 .. N + 1
    BY <2>0 DEF Types, Ranges
  <2>2. out <= begin.length
    <3>1. CASE cur <= N
      <4>1. cur \in 1 .. N
        BY <2>0, <2>1, <3>1
      <4>2. chunks[cur] \in Subchunks
        BY <2>0, <4>1, Elements, Zenon
      <4>3. PICK s \in Nat, l \in Nat : s = chunks[cur].start /\ l = chunks[cur].length
        BY <4>2, Zenon DEF Subchunks
      <4>4. s + l <= begin.start + begin.length - left
        BY <2>0, <4>1, <4>3, Zenon DEF Tiles, Cutting
      <4>5. begin.start + out = s + off /\ off <= l
        BY <2>0, <3>1, <4>3, Zenon DEF Cursor
      <4> QED
        BY <2>1, <4>3, <4>4, <4>5
    <3>2. CASE cur > N /\ left = 0
      BY <2>0, <2>1, <3>2 DEF Cursor
    <3>3. CASE left > 0
      BY <2>0, <2>1, <3>3 DEF Begins
    <3> QED
      BY <2>0, <2>1, <3>1, <3>2, <3>3
  <2> QED
    BY <2>0, <2>2, Zenon DEF Contiguous, Cursor
<1> QED
  BY <1>1, ReaderInvariant, PTL

(* Read fails only when every source has failed for one subchunk, or the   *)
(* client has gone: one failing source of several is not the end of ctx.   *)
THEOREM FailuresHaveCauses == Spec => []ErrorHasCause
<1>1. MInv => ErrorHasCause
  BY Zenon DEF MInv
<1> QED
  BY <1>1, ReaderInvariant, PTL

(* No worker asks for a subchunk that begins a window or more ahead of     *)
(* what the client has consumed.                                           *)
THEOREM ReadAheadIsBounded == Spec => []ReadAheadBounded
<1>1. MInv => ReadAheadBounded
  BY Zenon DEF MInv
<1> QED
  BY <1>1, ReaderInvariant, PTL
-----------------------------------------------------------------------------
(* The tokens.                                                             *)

(* The workers that run are finitely many.                                 *)
LEMMA RunningFinite ==
  ASSUME MInv
  PROVE  IsFiniteSet(Running) /\ Cardinality(Running) \in Nat
<1>1. N \in Nat
  BY Elements, Zenon DEF MInv, PInv
<1>2. IsFiniteSet(1 .. N)
  BY <1>1, FS_Interval
<1>3. Running \subseteq 1 .. N
  BY Zenon DEF Running
<1>4. IsFiniteSet(Running)
  BY <1>2, <1>3, FS_Subset, Zenon
<1> QED
  BY <1>4, FS_CardinalityType, Zenon

(* A worker that goes on, and stays, is still one that runs.               *)
LEMMA SameRunning ==
  ASSUME NEW i \in 1 .. N, N' = N, MInv, NEW w \in Workers, worker[i] # None,
         worker' = [worker EXCEPT ![i] = w], worker[i].pc # "gone", w.pc # "gone"
  PROVE  Running' = Running
<1>1. worker \in [1 .. N -> {None} \cup Workers] /\ w # None
  BY NoneAssumption, Zenon DEF MInv, PInv, Types
<1>2. worker'[i] = w /\ \A j \in 1 .. N : j # i => worker'[j] = worker[j]
  BY <1>1, Zenon
<1>3. \A j \in 1 .. N : (worker'[j] # None /\ worker'[j].pc # "gone") <=> (worker[j] # None /\ worker[j].pc # "gone")
  BY <1>1, <1>2, Zenon
<1> QED
  BY <1>3, Zenon DEF Running

(* A step of a worker takes it from the set of those that run only when it *)
(* exits.                                                                  *)
LEMMA WorkTokens ==
  ASSUME MInv, SlotsAccounted, NEW i \in 1 .. N, Work(i)
  PROVE  SlotsAccounted'
<1>0. Types /\ worker[i] # None
  BY Zenon DEF MInv, PInv, Work, Check, Request, Settle, Cancel, Exit, At
<1>1. worker \in [1 .. N -> {None} \cup Workers] /\ worker[i] \in Workers
  BY <1>0, Zenon DEF Types
<1>2. N' = N
  BY Zenon DEF Work, Check, Request, Settle, Cancel, Exit, plan, N
<1>3. CASE ~Exit(i)
  <2>1. /\ worker[i].pc \in {"check", "request", "settle", "cancel"} /\ UNCHANGED <<sem, wg>>
        /\ Check(i) \/ Request(i) \/ Settle(i) \/ Cancel(i)
    BY <1>3, Zenon DEF Work, Check, Request, Settle, Cancel, At
  <2>2. MInv'
    BY CheckStep, RequestStep, EndStep, Zenon DEF Work
  <2>3. worker' \in [1 .. N -> {None} \cup Workers]
    BY <1>2, <2>2, Zenon DEF MInv, PInv, Types
  <2>4. /\ worker'[i].pc \in {"request", "check", "settle", "cancel", "exit"} /\ worker'[i] # None
        /\ worker' = [worker EXCEPT ![i] = worker'[i]]
    <3>1. CASE Check(i)
      <4>1. PICK n \in 0 .. NSrc, e \in {None, "failed", "canceled"} : n = worker[i].tried /\ e = worker[i].err
        BY <1>1, Zenon DEF Workers
      <4>2. cause \in {None, "failed", "canceled"}
        BY <1>0, Zenon DEF Types
      <4>3. PICK pc \in {"settle", "request"}, f \in {None, "failed", "canceled"} :
              worker' = [worker EXCEPT ![i] = [pc |-> pc, tried |-> n, err |-> f]]
        <5>1. CASE n = NSrc
          BY <3>1, <4>1, <5>1, Zenon DEF Check, Exhausted
        <5>2. CASE n # NSrc /\ cause # None
          BY <3>1, <4>1, <4>2, <5>2, Zenon DEF Check, Exhausted
        <5>3. CASE n # NSrc /\ cause = None
          BY <3>1, <4>1, <5>3, Zenon DEF Check, Exhausted
        <5> QED
          BY <5>1, <5>2, <5>3, Zenon
      <4>4. PICK w : w = [pc |-> pc, tried |-> n, err |-> f]
        BY Zenon
      <4>5. w \in Workers /\ w.pc = pc
        BY <4>4, Zenon DEF Workers
      <4> QED
        BY <1>1, <4>3, <4>4, <4>5, NoneAssumption, Zenon
    <3>2. CASE Request(i)
      <4>1. Failure(worker[i]) /\ worker[i].pc = "request"
        BY <1>0, <3>2, Zenon DEF MInv, Causes, Request, At
      <4>2. PICK m \in 0 .. NSrc : m = worker[i].tried + 1
        BY <1>1, <4>1, MultiSourceAssumption DEF Failure, Workers
      <4>3. PICK w \in Workers : worker' = [worker EXCEPT ![i] = w] /\ w.pc \in {"check", "exit"}
        <5>1. CASE worker' = [worker EXCEPT ![i].pc = "exit"]
          <6>1. PICK w : w = [worker[i] EXCEPT !.pc = "exit"]
            BY Zenon
          <6>2. w \in Workers /\ w.pc = "exit"
            BY <1>1, <6>1, Zenon DEF Workers
          <6> QED
            BY <5>1, <6>1, <6>2, Zenon
        <5>2. ASSUME NEW f \in {"failed", "canceled"},
                     worker' = [worker EXCEPT ![i] = [pc |-> "check", tried |-> worker[i].tried + 1, err |-> f]]
              PROVE  \E w \in Workers : worker' = [worker EXCEPT ![i] = w] /\ w.pc \in {"check", "exit"}
          <6>1. PICK w : w = [pc |-> "check", tried |-> m, err |-> f]
            BY Zenon
          <6>2. w \in Workers /\ w.pc = "check"
            BY <6>1, Zenon DEF Workers
          <6> QED
            BY <4>2, <5>2, <6>1, <6>2, Zenon
        <5>3. \/ worker' = [worker EXCEPT ![i].pc = "exit"]
              \/ worker' = [worker EXCEPT ![i] = [pc |-> "check", tried |-> worker[i].tried + 1, err |-> "failed"]]
              \/ worker' = [worker EXCEPT ![i] = [pc |-> "check", tried |-> worker[i].tried + 1, err |-> "canceled"]]
          BY <3>2, Zenon DEF Request
        <5> QED
          BY <5>1, <5>2, <5>3, Zenon
      <4> QED
        BY <1>1, <4>3, NoneAssumption, Zenon
    <3>3. CASE Settle(i) \/ Cancel(i)
      <4>1. PICK pc \in {"cancel", "exit"} : worker' = [worker EXCEPT ![i].pc = pc]
        BY <3>3, Zenon DEF Settle, Cancel
      <4>2. PICK w : w = [worker[i] EXCEPT !.pc = pc]
        BY Zenon
      <4>3. worker' = [worker EXCEPT ![i] = w]
        BY <4>1, <4>2, Zenon
      <4>4. w \in Workers /\ w.pc = pc
        BY <1>1, <4>2, Zenon DEF Workers
      <4> QED
        BY <1>1, <4>3, <4>4, NoneAssumption, Zenon
    <3> QED
      BY <2>1, <3>1, <3>2, <3>3, Zenon
  <2>5. Running' = Running
    <3>1. PICK w \in Workers : w = worker'[i]
      BY <2>3, <2>4, Zenon
    <3>2. w.pc # "gone" /\ worker[i].pc # "gone"
      BY <2>1, <2>4, <3>1, Zenon
    <3> QED
      BY <1>0, <1>2, <2>4, <3>1, <3>2, SameRunning, Zenon
  <2> QED
    BY <2>1, <2>5, Zenon DEF SlotsAccounted
<1>4. CASE Exit(i)
  <2>1. sem' = sem - 1 /\ wg' = wg - 1 /\ worker' = [worker EXCEPT ![i].pc = "gone"] /\ worker[i].pc = "exit"
    BY <1>4, Zenon DEF Exit, At
  <2>2. i \in Running
    BY <1>0, <2>1, Zenon DEF Running
  <2>3. worker'[i].pc = "gone" /\ \A j \in 1 .. N : j # i => worker'[j] = worker[j]
    BY <1>1, <2>1, Zenon DEF Workers
  <2>4. Running' = Running \ {i}
    BY <1>2, <2>3, Zenon DEF Running
  <2>5. Cardinality(Running \ {i}) = Cardinality(Running) - 1
    BY <2>2, RunningFinite, FS_RemoveElement, Zenon
  <2> QED
    BY <2>1, <2>4, <2>5, Zenon DEF SlotsAccounted
<1> QED
  BY <1>3, <1>4, Zenon

(* Every worker that was started and has not exited holds a token of the   *)
(* semaphore, nobody else does, and wg counts the same workers.            *)
THEOREM TokensAreWorkers == Spec => []SlotsAccounted
<1>1. Init => SlotsAccounted
  <2> SUFFICES ASSUME Init PROVE SlotsAccounted
    BY Zenon
  <2>1. chunks = <<>> /\ sem = 0 /\ wg = 0
    BY Zenon DEF Init
  <2>2. Running = {}
    BY <2>1 DEF Running, N
  <2> QED
    BY <2>1, <2>2, FS_EmptySet, Zenon DEF SlotsAccounted
<1>2. SlotsAccounted /\ MInv /\ [Next]_vars => SlotsAccounted'
  <2> SUFFICES ASSUME SlotsAccounted, MInv, [Next]_vars PROVE SlotsAccounted'
    BY Zenon
  <2>1. CASE ComputeSubchunks
    <3>1. \A i \in 1 .. N : worker[i] = None
      BY <2>1, ComputeStep, Zenon
    <3>2. \A i \in 1 .. N' : worker'[i] = None
      BY <2>1, CutTurn, Zenon DEF MInv
    <3>3. Running = {} /\ Running' = {}
      BY <3>1, <3>2, Zenon DEF Running
    <3>4. UNCHANGED <<sem, wg>>
      BY <2>1, Zenon DEF ComputeSubchunks
    <3> QED
      BY <3>3, <3>4, Zenon DEF SlotsAccounted
  <2>2. ASSUME NEW i \in 1 .. N, Work(i) PROVE SlotsAccounted'
    BY <2>2, WorkTokens, Zenon
  <2>3. CASE Launch /\ sem' # sem
    <3>1. PICK k : k = sched.i
      BY Zenon
    <3>2. PICK w : w = [pc |-> "check", tried |-> 0, err |-> None]
      BY Zenon
    <3>3. sem' = sem + 1 /\ wg' = wg + 1 /\ worker' = [worker EXCEPT ![k] = w] /\ sched.pc = "sem"
      BY <2>3, <3>1, <3>2, Zenon DEF Launch
    <3>4. k \in 1 .. N /\ worker[k] = None /\ N' = N
      <4>1. left = 0
        BY <3>3 DEF MInv, PInv, Types, Begins
      <4>2. k \in Nat \ {0} /\ N \in Nat /\ k <= N
        BY <3>1, <4>1, Elements, Zenon DEF MInv, PInv, Types, InTurn
      <4>3. k \in 1 .. N
        BY <4>2
      <4>4. worker[k] = None
        BY <3>1, <3>3, <4>3, Zenon DEF MInv, InTurn
      <4> QED
        BY <2>3, <4>3, <4>4, Zenon DEF Launch, plan, N
    <3>5. w \in Workers /\ w.pc # "gone" /\ w # None
      BY <3>2, NoneAssumption, MultiSourceAssumption DEF Workers
    <3>6. worker'[k] = w /\ \A j \in 1 .. N : j # k => worker'[j] = worker[j]
      BY <3>3, <3>4, Zenon DEF MInv, PInv, Types
    <3>7. Running' = Running \cup {k} /\ k \notin Running
      BY <3>4, <3>5, <3>6, Zenon DEF Running
    <3>8. Cardinality(Running \cup {k}) = Cardinality(Running) + 1
      BY <3>7, RunningFinite, FS_AddElement, Zenon
    <3> QED
      BY <3>3, <3>7, <3>8, Zenon DEF SlotsAccounted
  <2>4. CASE UNCHANGED <<plan, worker, sem, wg>>
    BY <2>4, Zenon DEF SlotsAccounted, Running, plan, N
  <2>5. Launch => sem' # sem \/ UNCHANGED <<plan, worker, sem, wg>>
    <3>1. sem \in Nat
      BY RunningFinite, Zenon DEF SlotsAccounted
    <3> QED
      BY <3>1 DEF Launch
  <2>6. Gate \/ Wake \/ ReadCall \/ Reading \/ ClientGone \/ Close \/ CloseWait \/ UNCHANGED vars
        => UNCHANGED <<plan, worker, sem, wg>>
    BY Zenon DEF Gate, Wake, ReadCall, Reading, ReadFails, ReadCopy, ReadNotify, ClientGone, Close, CloseWait, vars
  <2> QED
    BY <2>1, <2>2, <2>3, <2>4, <2>5, <2>6, Zenon DEF Next, Scheduler
<1> QED
  BY <1>1, <1>2, ReaderInvariant, PTL DEF Spec
=============================================================================
