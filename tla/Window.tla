------------------------------- MODULE Window -------------------------------
(***************************************************************************)
(* The receiving window of a multipart upload (internal/multipart/         *)
(* window.go).  Requests upload chunks of one file concurrently and in any *)
(* order; a ring file of Slots chunk slots buffers them, chunk i in slot   *)
(* i % Slots, and one reader (the storage driver) takes the bytes in       *)
(* order.  A slot is released when the reader crosses the end of its chunk.*)
(*                                                                         *)
(* Every critical section of w.mu is one action.  Between two of them the  *)
(* code runs unlocked: a writer copies its body into the ring byte by      *)
(* byte, the reader reads the ring, a closer closes and removes the file.  *)
(* w.cond is the set of goroutines whose pc is "parked"; a Broadcast turns *)
(* them all to "woken", from where they run the loop body again.           *)
(*                                                                         *)
(* Data: a byte is its position in the file and the body it came from; the *)
(* CRC of a body is the body's identity (no collisions); crcs[i] = NoCRC   *)
(* stands for crcSet[i] = false.  ring[s][j] is byte s*ChunkSize + j of    *)
(* the ring file.                                                          *)
(***************************************************************************)
EXTENDS Integers, Sequences

CONSTANTS
  Writers,     \* the concurrent WriteChunk requests
  Bodies,      \* the contents a client may send for a chunk
  ChunkSize,
  TotalSize,
  Slots,
  None,        \* w.err = nil
  NoCRC,       \* crcSet[i] = false
  NoByte       \* a byte of the ring file, or of the stream, not yet written

ASSUME WindowAssumption ==
  /\ ChunkSize \in Nat \ {0}
  /\ TotalSize \in Nat \ {0}
  /\ Slots \in Nat \ {0}
  /\ NoCRC \notin Bodies
  /\ None \notin {"ErrClosed", "errAborted"}

VARIABLES
  slotState,   \* per slot: "free", "filling" or "ready"
  slotChunk,   \* per slot: its chunk, or -1
  readPos,     \* bytes consumed by the reader
  crcs,        \* per chunk: the CRC of the body that filled it
  err,         \* the sticky error
  file,        \* the ring file: "open", "closing" (w.f taken by a closer), "removed"
  ring,        \* the contents of the ring file
  pc,          \* per writer: "idle", "parked", "woken", "copy"
  call,        \* per writer: the arguments of its call and its bytes copied
  late,        \* per writer: its deadline has passed
  timer,       \* per writer: subset of {"armed", "running"}, its timers
  rpc,         \* the reader: "idle", "parked", "woken", "readat", "commit"
  want,        \* the reader: len(p) of its call
  rbuf,        \* the reader: p, between ReadAt and the return
  sink,        \* history: the stream as the driver received it
  acked        \* history: the <<chunk, crc>> pairs answered with success

slotVars   == <<slotState, slotChunk>>
writerVars == <<pc, call, late, timer>>
readerVars == <<rpc, want, rbuf>>
vars == <<slotVars, readPos, crcs, err, file, ring, writerVars, readerVars, sink, acked>>

-----------------------------------------------------------------------------
SlotIds == 0 .. Slots - 1

total == (TotalSize + ChunkSize - 1) \div ChunkSize

Chunks == 0 .. total - 1

(* An operator named Slip... is a slip of the definition that follows it.  *)
(* It is not part of the specification: some property notices the slip.    *)
SlipLenFull(idx) == ChunkSize

ChunkLen(idx) == IF idx = total - 1 THEN TotalSize - idx * ChunkSize ELSE ChunkSize

frontier == IF readPos >= TotalSize THEN total ELSE readPos \div ChunkSize

(* The chunk has been read to its end. *)
Consumed(idx) == idx * ChunkSize + ChunkLen(idx) <= readPos

Holds(slot, idx, st) == slotState[slot] = st /\ slotChunk[slot] = idx

Admissible(idx) == slotState[idx % Slots] = "free" /\ idx < frontier + Slots

SlipWakeNoWriter(p) == p
SlipWakeNoReader == rpc

(* w.cond.Broadcast, as seen by the writers and by the reader. *)
WakeWriters(p) == [w \in Writers |-> IF p[w] = "parked" THEN "woken" ELSE p[w]]
WakeReader == IF rpc = "parked" THEN "woken" ELSE rpc

SetSlot(slot, st, idx) ==
  /\ slotState' = [slotState EXCEPT ![slot] = st]
  /\ slotChunk' = [slotChunk EXCEPT ![slot] = idx]

NoCall == [idx |-> 0, body |-> NoCRC, n |-> 0]

NewWindow ==
  /\ slotState = [s \in SlotIds |-> "free"]
  /\ slotChunk = [s \in SlotIds |-> -1]
  /\ readPos = 0
  /\ crcs = [i \in Chunks |-> NoCRC]
  /\ err = None
  /\ file = "open"
  /\ ring = [s \in SlotIds |-> [j \in 0 .. ChunkSize - 1 |-> NoByte]]

Init ==
  /\ NewWindow
  /\ pc = [w \in Writers |-> "idle"]
  /\ call = [w \in Writers |-> NoCall]
  /\ late = [w \in Writers |-> FALSE]
  /\ timer = [w \in Writers |-> {}]
  /\ rpc = "idle"
  /\ want = 0
  /\ rbuf = << >>
  /\ sink = [p \in 0 .. TotalSize - 1 |-> NoByte]
  /\ acked = {}

-----------------------------------------------------------------------------
(* WriteChunk.  The loop body runs in one critical section, on the call's  *)
(* entry and after each wake-up; c is the call it runs for.  It ends in    *)
(* one of four ways.                                                       *)

(* Leave WriteChunk: the call's timer is stopped unless it already runs. *)
Leave(w) ==
  /\ pc' = [pc EXCEPT ![w] = "idle"]
  /\ call' = [call EXCEPT ![w] = NoCall]
  /\ late' = [late EXCEPT ![w] = FALSE]
  /\ timer' = [timer EXCEPT ![w] = @ \ {"armed"}]

Fail(w) == Leave(w) /\ UNCHANGED <<slotVars, acked>>

Acknowledge(w, idx) ==
  /\ Leave(w)
  /\ acked' = acked \union {<<idx, crcs[idx]>>}
  /\ UNCHANGED slotVars

BeginCopy(w, c) ==
  /\ SetSlot(c.idx % Slots, "filling", c.idx)
  /\ pc' = [pc EXCEPT ![w] = "copy"]
  /\ call' = [call EXCEPT ![w] = c]
  /\ late' = [late EXCEPT ![w] = FALSE]
  /\ timer' = [timer EXCEPT ![w] = @ \ {"armed"}]
  /\ UNCHANGED acked

SlipParkNoTimer(w, c) ==
  /\ pc' = [pc EXCEPT ![w] = "parked"]
  /\ call' = [call EXCEPT ![w] = c]
  /\ UNCHANGED <<slotVars, late, timer, acked>>

(* The timer is armed at the first wait only. *)
Park(w, c) ==
  /\ pc' = [pc EXCEPT ![w] = "parked"]
  /\ call' = [call EXCEPT ![w] = c]
  /\ timer' = [timer EXCEPT ![w] = IF pc[w] = "idle" THEN @ \union {"armed"} ELSE @]
  /\ UNCHANGED <<slotVars, late, acked>>

LoopBody(w, c) ==
  LET slot == c.idx % Slots
      open == err = None
      fresh == open /\ ~Consumed(c.idx)
      other == fresh /\ ~Holds(slot, c.idx, "ready") /\ ~Holds(slot, c.idx, "filling")
  IN
  /\ \/ ~open /\ Fail(w)
     \/ open /\ Consumed(c.idx) /\ Acknowledge(w, c.idx)
     \/ fresh /\ Holds(slot, c.idx, "ready") /\ Acknowledge(w, c.idx)
     \/ fresh /\ Holds(slot, c.idx, "filling") /\ Fail(w)           \* ErrChunkInFlight
     \/ other /\ Admissible(c.idx) /\ BeginCopy(w, c)
     \/ other /\ ~Admissible(c.idx) /\ late[w] /\ Fail(w)           \* ErrOutOfWindow
     \/ other /\ ~Admissible(c.idx) /\ ~late[w] /\ Park(w, c)
  /\ UNCHANGED <<readPos, crcs, err, file, ring, readerVars, sink>>

WriteChunk(w, idx, body) ==
  /\ pc[w] = "idle"
  /\ LoopBody(w, [idx |-> idx, body |-> body, n |-> 0])

Resume(w) ==
  /\ pc[w] = "woken"
  /\ LoopBody(w, call[w])

(* One more byte of the body reaches the ring file, outside the lock. *)
CopyByte(w) ==
  LET c == call[w] IN
  /\ pc[w] = "copy"
  /\ c.n < ChunkLen(c.idx)
  /\ file # "removed"
  /\ ring' = [ring EXCEPT ![c.idx % Slots] =
                [@ EXCEPT ![c.n] = [pos |-> c.idx * ChunkSize + c.n, of |-> c.body]]]
  /\ call' = [call EXCEPT ![w] = [idx |-> c.idx, body |-> c.body, n |-> c.n + 1]]
  /\ UNCHANGED <<slotVars, readPos, crcs, err, file, pc, late, timer, readerVars, sink, acked>>

SlipShortBody(c) == TRUE

(* io.CopyN delivered the chunk to its last byte. *)
WholeBody(c) == c.n = ChunkLen(c.idx)

SlipOrphanRecorded(w) ==
  /\ pc' = [pc EXCEPT ![w] = "idle"]
  /\ crcs' = IF WholeBody(call[w]) THEN [crcs EXCEPT ![call[w].idx] = call[w].body] ELSE crcs
  /\ UNCHANGED <<slotVars, rpc, acked>>

(* The window was closed during the copy: the slot is no longer this call's. *)
Orphaned(w) ==
  /\ pc' = [pc EXCEPT ![w] = "idle"]
  /\ UNCHANGED <<slotVars, crcs, rpc, acked>>

(* The failure path: the slot is free again.  It does not Broadcast. *)
GiveBack(w, slot) ==
  /\ SetSlot(slot, "free", -1)
  /\ pc' = [pc EXCEPT ![w] = "idle"]
  /\ UNCHANGED <<crcs, rpc, acked>>

Store(w, slot, c) ==
  /\ SetSlot(slot, "ready", c.idx)
  /\ crcs' = [crcs EXCEPT ![c.idx] = c.body]
  /\ acked' = acked \union {<<c.idx, c.body>>}
  /\ pc' = WakeWriters([pc EXCEPT ![w] = "idle"])
  /\ rpc' = WakeReader

(* The second critical section.  ok: the body held exactly one chunk; it   *)
(* is FALSE for a short body, for one that is too long, and for a failed   *)
(* write to the ring.                                                      *)
Settle(w, ok) ==
  LET c == call[w]
      slot == c.idx % Slots
      mine == Holds(slot, c.idx, "filling")
  IN
  /\ pc[w] = "copy"
  /\ ok => WholeBody(c)
  /\ call' = [call EXCEPT ![w] = NoCall]
  /\ \/ ~mine /\ Orphaned(w)
     \/ mine /\ (~ok \/ err # None) /\ GiveBack(w, slot)
     \/ mine /\ ok /\ err = None /\ Store(w, slot, c)
  /\ UNCHANGED <<readPos, err, file, ring, late, timer, want, rbuf, sink>>

-----------------------------------------------------------------------------
(* The bounded wait: the deadline passes, the timer armed for it starts    *)
(* running, and its function takes the lock and broadcasts.                *)

Deadline(w) ==
  /\ pc[w] \in {"parked", "woken"}
  /\ ~late[w]
  /\ late' = [late EXCEPT ![w] = TRUE]
  /\ UNCHANGED <<slotVars, readPos, crcs, err, file, ring, pc, call, timer, readerVars, sink, acked>>

TimerStarts(w) ==
  /\ "armed" \in timer[w]
  /\ late[w]
  /\ timer' = [timer EXCEPT ![w] = {"running"}]
  /\ UNCHANGED <<slotVars, readPos, crcs, err, file, ring, pc, call, late, readerVars, sink, acked>>

TimerBroadcast(w) ==
  /\ "running" \in timer[w]
  /\ timer' = [timer EXCEPT ![w] = @ \ {"running"}]
  /\ pc' = WakeWriters(pc)
  /\ rpc' = WakeReader
  /\ UNCHANGED <<slotVars, readPos, crcs, err, file, ring, call, late, want, rbuf, sink, acked>>

-----------------------------------------------------------------------------
(* Read, by the single reader goroutine. *)

cur == readPos \div ChunkSize

Available == cur * ChunkSize + ChunkLen(cur) - readPos

(* The loop body for a buffer of len bytes: return the sticky error or     *)
(* io.EOF, go and read, or wait.                                           *)
ReadLoop(len) ==
  /\ \/ /\ err # None \/ readPos >= TotalSize
        /\ rpc' = "idle" /\ want' = 0
     \/ /\ err = None /\ readPos < TotalSize
        /\ Holds(cur % Slots, cur, "ready")
        /\ rpc' = "readat"
        /\ want' = IF len > Available THEN Available ELSE len
     \/ /\ err = None /\ readPos < TotalSize
        /\ ~Holds(cur % Slots, cur, "ready")
        /\ rpc' = "parked" /\ want' = len
  /\ UNCHANGED <<slotVars, readPos, crcs, err, file, ring, writerVars, rbuf, sink, acked>>

Read(len) ==
  /\ rpc = "idle"
  /\ ReadLoop(len)

ReadAgain ==
  /\ rpc = "woken"
  /\ ReadLoop(want)

(* f.ReadAt outside the lock: k bytes, fewer than asked for on an I/O      *)
(* error, none once the file is closed.                                    *)
ReadAt(k) ==
  /\ rpc = "readat"
  /\ k <= want
  /\ file = "removed" => k = 0
  /\ rbuf' = [j \in 0 .. k - 1 |-> ring[cur % Slots][readPos - cur * ChunkSize + j]]
  /\ want' = k
  /\ rpc' = "commit"
  /\ UNCHANGED <<slotVars, readPos, crcs, err, file, ring, writerVars, sink, acked>>

(* The read reaches the end of its chunk. *)
Crosses == want > 0 /\ readPos + want >= cur * ChunkSize + ChunkLen(cur)

ReadCommit ==
  /\ rpc = "commit"
  /\ readPos' = readPos + want
  /\ sink' = [p \in DOMAIN sink |->
                IF p \in readPos .. readPos + want - 1 THEN rbuf[p - readPos] ELSE sink[p]]
  /\ IF Crosses
       THEN SetSlot(cur % Slots, "free", -1) /\ pc' = WakeWriters(pc)
       ELSE UNCHANGED <<slotVars, pc>>
  /\ rpc' = "idle" /\ want' = 0 /\ rbuf' = << >>
  /\ UNCHANGED <<crcs, err, file, ring, call, late, timer, acked>>

-----------------------------------------------------------------------------
(* CloseWithError: the critical section, then f.Close and os.Remove by the *)
(* one closer that found w.f set.                                          *)

SlipCloseKeepsFile(sticky) ==
  /\ err' = IF err = None THEN sticky ELSE err
  /\ file' = IF file = "open" /\ sticky = "errAborted" THEN "closing" ELSE file
  /\ slotState' = [s \in SlotIds |-> "free"]
  /\ slotChunk' = [s \in SlotIds |-> -1]
  /\ pc' = WakeWriters(pc)
  /\ rpc' = WakeReader
  /\ UNCHANGED <<readPos, crcs, ring, call, late, timer, want, rbuf, sink, acked>>

CloseWithError(sticky) ==
  /\ err' = IF err = None THEN sticky ELSE err
  /\ file' = IF file = "open" THEN "closing" ELSE file
  /\ slotState' = [s \in SlotIds |-> "free"]
  /\ slotChunk' = [s \in SlotIds |-> -1]
  /\ pc' = WakeWriters(pc)
  /\ rpc' = WakeReader
  /\ UNCHANGED <<readPos, crcs, ring, call, late, timer, want, rbuf, sink, acked>>

RemoveFile ==
  /\ file = "closing"
  /\ file' = "removed"
  /\ UNCHANGED <<slotVars, readPos, crcs, err, ring, writerVars, readerVars, sink, acked>>

-----------------------------------------------------------------------------
SlipReadOf(idx) == 0

(* The bytes of chunk idx the reader has taken. *)
ReadOf(idx) == IF readPos > idx * ChunkSize THEN readPos - idx * ChunkSize ELSE 0

(* Snapshot: what a status answer reports.  scan[idx] is the report after  *)
(* the loop has looked at the chunks below idx: the merged ranges of       *)
(* received chunks and the bytes received.                                 *)

Snapshot ==
  LET end == IF frontier + Slots < total THEN frontier + Slots ELSE total
      start == [Received |-> IF frontier > 0 THEN << <<0, frontier - 1>> >> ELSE << >>,
                ReceivedBytes |-> readPos]
      extend(r, idx) ==
        IF r # << >> /\ r[Len(r)][2] = idx - 1
          THEN [r EXCEPT ![Len(r)][2] = idx]
          ELSE Append(r, <<idx, idx>>)
      scan[idx \in frontier .. end] ==
        IF idx = frontier THEN start
        ELSE LET i == idx - 1
                 s == scan[i]
             IN IF ~Holds(i % Slots, i, "ready") THEN s
                ELSE [Received |-> extend(s.Received, i),
                      ReceivedBytes |-> s.ReceivedBytes + ChunkLen(i) - ReadOf(i)]
  IN scan[end]

-----------------------------------------------------------------------------
Lens == 1 .. ChunkSize + 1     \* len(p): below, at and above a chunk

Next ==
  \/ \E w \in Writers, idx \in Chunks, body \in Bodies : WriteChunk(w, idx, body)
  \/ \E w \in Writers : Resume(w)
  \/ \E w \in Writers : CopyByte(w)
  \/ \E w \in Writers, ok \in BOOLEAN : Settle(w, ok)
  \/ \E w \in Writers : Deadline(w)
  \/ \E w \in Writers : TimerStarts(w)
  \/ \E w \in Writers : TimerBroadcast(w)
  \/ \E len \in Lens : Read(len)
  \/ ReadAgain
  \/ \E k \in 0 .. ChunkSize : ReadAt(k)
  \/ ReadCommit
  \/ \E sticky \in {"ErrClosed", "errAborted"} : CloseWithError(sticky)
  \/ RemoveFile

Spec == Init /\ [][Next]_vars

(* The goroutines run: a request that is awake or copying goes on (a body  *)
(* that stops arriving is a failed read), a timer that expired runs, a     *)
(* closer removes the file, a driver that is not inside Read reads on or   *)
(* returns and op.Put closes the stream, and the ring file does not fail   *)
(* every read for ever.  No client is obliged to send anything.            *)
Fairness ==
  /\ \A w \in Writers :
       /\ WF_vars(Resume(w))
       /\ WF_vars(CopyByte(w) \/ Settle(w, TRUE) \/ Settle(w, FALSE))
       /\ WF_vars(Deadline(w))
       /\ WF_vars(TimerStarts(w))
       /\ WF_vars(TimerBroadcast(w))
  /\ WF_vars(rpc = "idle" /\ ((\E len \in Lens : Read(len)) \/ CloseWithError("ErrClosed")))
  /\ WF_vars(ReadAgain)
  /\ WF_vars(\E k \in 0 .. ChunkSize : ReadAt(k))
  /\ SF_vars(\E k \in 1 .. ChunkSize : ReadAt(k))
  /\ WF_vars(ReadCommit)
  /\ WF_vars(RemoveFile)

FairSpec == Spec /\ Fairness

-----------------------------------------------------------------------------
Byte == [pos : 0 .. TotalSize - 1, of : Bodies]

Call == [idx : Chunks, body : Bodies \union {NoCRC}, n : 0 .. ChunkSize]

(* The types of the window's fields and of the goroutines' local state. *)
TypeOK ==
  /\ slotState \in [SlotIds -> {"free", "filling", "ready"}]
  /\ slotChunk \in [SlotIds -> Chunks \union {-1}]
  /\ readPos \in 0 .. TotalSize
  /\ crcs \in [Chunks -> Bodies \union {NoCRC}]
  /\ err \in {None, "ErrClosed", "errAborted"}
  /\ file \in {"open", "closing", "removed"}
  /\ ring \in [SlotIds -> [0 .. ChunkSize - 1 -> Byte \union {NoByte}]]
  /\ pc \in [Writers -> {"idle", "parked", "woken", "copy"}]
  /\ call \in [Writers -> Call]
  /\ late \in [Writers -> BOOLEAN]
  /\ timer \in [Writers -> SUBSET {"armed", "running"}]
  /\ rpc \in {"idle", "parked", "woken", "readat", "commit"}
  /\ want \in 0 .. ChunkSize + 1
  /\ rpc = "commit" => rbuf \in [0 .. want - 1 -> Byte \union {NoByte}]
  /\ sink \in [0 .. TotalSize - 1 -> Byte \union {NoByte}]
  /\ acked \subseteq Chunks \X Bodies

(* Ring addressing never aliases: an occupied slot holds a chunk that maps *)
(* to it and lies less than Slots chunks ahead of the consumption          *)
(* frontier, so no two chunks a writer or the reader may touch share a     *)
(* slot (window.go: slot := idx % slots, the admission test of WriteChunk *)
(* and the release in Read).                                               *)
SlotsInWindow ==
  \A s \in SlotIds :
    /\ slotState[s] = "free" <=> slotChunk[s] = -1
    /\ slotState[s] # "free" =>
         /\ slotChunk[s] \in frontier .. frontier + Slots - 1
         /\ slotChunk[s] % Slots = s

(* The driver receives the file: byte p of the stream is byte p of the     *)
(* body whose CRC the window reports for the chunk, never a byte of a      *)
(* half-written slot, of another lap of the ring or of a second body sent  *)
(* for the same chunk, even when a Close overlaps the Read.                *)
StreamIntact ==
  \A p \in 0 .. readPos - 1 :
    sink[p] = [pos |-> p, of |-> crcs[p \div ChunkSize]]

(* A success answer is final: the chunk stays in the window (buffered or   *)
(* consumed) until the window closes, and the CRC it was answered with is  *)
(* the one a later resend and the CRC harvest of finishAttempt see.        *)
AckedStored ==
  \A a \in acked :
    /\ crcs[a[1]] = a[2]
    /\ err = None => Consumed(a[1]) \/ Holds(a[1] % Slots, a[1], "ready")

(* No lost wake-up: a writer parked in cond.Wait has nothing it could do,  *)
(* and its chunk lies a whole window ahead, so the failure path of         *)
(* WriteChunk, which frees a slot without Broadcast, strands nobody; a     *)
(* parked reader waits for a chunk that has not arrived.                   *)
NoLostWakeup ==
  /\ \A w \in Writers :
       pc[w] = "parked" => err = None /\ call[w].idx >= frontier + Slots
  /\ rpc = "parked" =>
       err = None /\ readPos < TotalSize /\ ~Holds(cur % Slots, cur, "ready")

(* ErrOutOfWindow says what its comment says: WriteChunk only waits, and   *)
(* only gives up at the deadline, for a chunk too far ahead of the         *)
(* frontier; a slot occupied by another chunk is never the only reason.    *)
OutOfWindowIsAhead ==
  \A idx \in Chunks :
    LET slot == idx % Slots IN
    (/\ err = None /\ ~Consumed(idx)
     /\ slotChunk[slot] # idx
     /\ ~Admissible(idx)) => idx >= frontier + Slots

(* A status answer is exact: its ranges cover the consumed and buffered    *)
(* chunks and no other, are in order and cannot be merged further, and the *)
(* byte count reaches the file size only when no chunk is missing, which   *)
(* is what Complete decides by.                                            *)
SnapshotExact ==
  LET r == Snapshot.Received
      got == {i \in Chunks : Consumed(i) \/ Holds(i % Slots, i, "ready")}
  IN
  /\ UNION {r[k][1] .. r[k][2] : k \in DOMAIN r} = got
  /\ \A k \in 1 .. Len(r) - 1 : r[k][2] + 1 < r[k + 1][1]
  /\ Snapshot.ReceivedBytes = TotalSize <=> got = Chunks

(* After the close nothing is acknowledged any more: a writer whose copy   *)
(* ends after CloseWithError must not report success for data that the     *)
(* removed ring file no longer holds.                                      *)
NoAckAfterClose == [][err # None => acked' = acked]_vars

(* The window is a ChunkStream: the CRC table is the set of accepted       *)
(* chunks, readPos and the driver's bytes are the delivery, the sticky     *)
(* error is the close.                                                     *)
Stream == INSTANCE ChunkStream WITH
            have <- crcs, pos <- readPos, sink <- sink, closed <- (err # None)

(* Every behaviour of the window is one of the abstract stream: chunks are *)
(* accepted once and within the window, bytes are delivered in order from  *)
(* the accepted bodies, nothing is accepted after the close.               *)
ImplementsStream == Stream!SSpec

(* WindowWaitTimeout bounds the wait: a parked request is answered or      *)
(* admitted, with or without a reader that makes progress.                 *)
WaitBounded ==
  \A w \in Writers : (pc[w] = "parked") ~> (pc[w] \in {"idle", "copy"})

(* A buffered frontier chunk is consumed, or the window is closed: the     *)
(* Broadcast of WriteChunk reaches a reader that parked before it.         *)
FrontierConsumed ==
  \A idx \in Chunks :
    Holds(idx % Slots, idx, "ready") /\ frontier = idx ~> frontier > idx \/ err # None

(* A closed window leaves no ring file behind, however many closers race.  *)
RingFileRemoved == (err # None) ~> (file = "removed")
=============================================================================
