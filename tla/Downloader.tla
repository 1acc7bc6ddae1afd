----------------------------- MODULE Downloader -----------------------------
(***************************************************************************)
(* The multi-connection downloader of internal/net/request.go.             *)
(*                                                                         *)
(* A range of Length bytes is cut into chunks.  Worker goroutines          *)
(* (downloadPart) take chunks from chunkChannel, fetch them and copy the   *)
(* bodies into ring buffers; one reader (MultiReadCloser) consumes the     *)
(* buffers in order and queues a further chunk each time it finishes one.  *)
(* The first answer of each connection tries to open one more connection.  *)
(* A slot of the shared ConcurrencyLimit is held by every worker.          *)
(*                                                                         *)
(* Bytes are their offsets in the range, so what the reader gets can be    *)
(* compared with what it asked for.  A step of a process is a section      *)
(* under d.m or under a buffer's own lock, or a channel operation.  The    *)
(* sends on chunkChannel happen with d.m held; they are not blocked here,  *)
(* and SendsNeverBlock says the channel always has the room.  The range    *)
(* has more than one part (a single part is one plain request).            *)
(***************************************************************************)
EXTENDS Integers, Sequences, FiniteSets

CONSTANTS Length,             \* params.Range.Length
          PartSize,           \* cfg.PartSize
          Concurrency,        \* cfg.Concurrency
          Limit,              \* free slots of the ConcurrencyLimit
          PartBodyMaxRetries, \* cfg.PartBodyMaxRetries
          Answers             \* what the remote may do with a request

(* "ok": a body; "short": a body that breaks off; "mismatch": another file *)
(* size; "error": a failed connection; "status": an HTTP error status.     *)
ASSUME DownloaderAssumption ==
    /\ Length \in Nat /\ PartSize \in Nat \ {0} /\ Length > PartSize
    /\ Concurrency \in Nat \ {0} /\ Limit \in Nat \ {0}
    /\ PartBodyMaxRetries \in Nat
    /\ Answers \subseteq {"ok", "short", "mismatch", "error", "status"}

VARIABLES
    limit,      \* ConcurrencyLimit.Limit
    conc,       \* d.concurrency
    next,       \* d.nextChunk
    pos,        \* d.pos - params.Range.Start
    bufs,       \* the buffers in order of creation
    queue,      \* chunkChannel
    closed,     \* interrupt has closed chunkChannel and the buffers
    cancelled,  \* d.ctx is done
    err,        \* d.err # nil
    written,    \* d.written
    wpc,        \* where each worker is
    job,        \* the chunk and the retry count of each worker
    rpc,        \* where the reader is
    rPos,       \* cfg.rPos, the chunk being read
    cur,        \* cfg.curBuf
    out,        \* the bytes handed to the consumer
    panic       \* the process died of a send on a closed channel

counters == <<limit, conc, next, pos>>
ending   == <<closed, cancelled, err>>
reader   == <<rpc, rPos, cur, out>>
vars == <<counters, queue, ending, reader, bufs, written, wpc, job, panic>>

-----------------------------------------------------------------------------
maxPart == (Length + PartSize - 1) \div PartSize

Conns == IF maxPart < Concurrency THEN maxPart ELSE Concurrency

Workers == 1..Conns

(* A variant of ChannelCap: room for one chunk, whatever the connections.  *)
ChannelCapSlip == 1

(* The capacity of chunkChannel.                                           *)
ChannelCap == Conns

(* A variant of ChunkSize that does not put the short chunk in front.      *)
ChunkSizeSlip(i) == PartSize

(* The size sendChunkTask gives to chunk i: a range that is no multiple of *)
(* PartSize has its short chunk in front, and when that would be under     *)
(* half a part the first two chunks share the difference.                  *)
ChunkSize(i) ==
    LET firstSize == Length % PartSize
        minSize   == PartSize \div 2
    IN  IF i = 0 /\ firstSize > 0
        THEN IF firstSize < minSize THEN minSize ELSE firstSize
        ELSE IF i = 1 /\ firstSize > 0 /\ firstSize < minSize
        THEN PartSize + firstSize - minSize
        ELSE PartSize

NoChunk == [id |-> 0, start |-> 0, size |-> 0, buf |-> 0, new |-> FALSE]

NoJob == [ch |-> NoChunk, n |-> 0, retry |-> 0, why |-> "none"]

(* The part of a Buf that matters: data is buf[:offW].                     *)
NewBuf(size) ==
    [size |-> size, data |-> << >>, offR |-> 0, pending |-> FALSE,
     signal |-> FALSE]

Reset(b, size) == [b EXCEPT !.size = size, !.data = << >>, !.offR = 0]

(* A variant of Signal that takes the reader's mark without waking it.     *)
SignalSlip(b) == [b EXCEPT !.pending = FALSE]

(* Buf.Write wakes a reader that found the buffer empty.                   *)
Signal(b) == [b EXCEPT !.signal = b.signal \/ b.pending, !.pending = FALSE]

(* A variant of Rest that asks again for bytes it has.                     *)
RestSlip(ch, n) == ch

(* What downloadChunk asks for after n bytes of a chunk came in.           *)
Rest(ch, n) == [ch EXCEPT !.start = @ + n, !.size = @ - n]

Live == {w \in Workers : wpc[w] \notin {"new", "gone"}}

getBuf(id) == (id % Len(bufs)) + 1
-----------------------------------------------------------------------------
Init ==
    /\ limit = Limit /\ conc = Conns /\ next = 0 /\ pos = 0
    /\ bufs = << >> /\ queue = << >> /\ closed = FALSE /\ cancelled = FALSE
    /\ err = FALSE /\ written = 0
    /\ wpc = [w \in Workers |-> "new"] /\ job = [w \in Workers |-> NoJob]
    /\ rpc = "start" /\ rPos = 0 /\ cur = 1 /\ out = << >> /\ panic = FALSE

(* A chunk enters chunkChannel; if it opened a connection, a worker takes  *)
(* over its slot.  pcs is wpc as the caller leaves it.                     *)
Queued(ch, pcs) ==
    /\ queue' = Append(queue, ch)
    /\ IF ch.new
       THEN /\ conc' = conc - 1
            /\ wpc' = [pcs EXCEPT ![Conns - conc + 1] = "recv"]
       ELSE conc' = conc /\ wpc' = pcs

(* The select of sendChunkTask.                                            *)
Offer(ch, pcs) ==
    \/ cancelled /\ wpc' = pcs /\ UNCHANGED <<queue, conc>>
    \/ Queued(ch, pcs)

(* ConcurrencyLimit.sub finds a slot.                                      *)
concurrencyCheck == limit > 0

(* A variant of NeedsSlot: every connection runs on the first one's slot.  *)
NeedsSlotSlip(new) == FALSE

(* The first connection's slot was taken by download.                      *)
NeedsSlot(new) == new /\ next > 0

(* sendChunkTask(new): a further connection wants spare concurrency and,   *)
(* but for the first, a slot; a buffer is added while concurrency is left, *)
(* else the ring is reused.  With no bytes left nothing is queued, and     *)
(* what was taken by then is kept.                                         *)
sendChunkTask(new, pcs) ==
    IF new /\ (conc <= 0 \/ (NeedsSlot(new) /\ ~concurrencyCheck))
    THEN wpc' = pcs /\ UNCHANGED <<counters, queue, bufs>>
    ELSE LET ring == IF conc > 0 THEN Append(bufs, NewBuf(PartSize)) ELSE bufs
             b    == IF conc > 0 THEN Len(ring) ELSE getBuf(next)
             size == ChunkSize(next)
         IN  /\ limit' = IF NeedsSlot(new) THEN limit - 1 ELSE limit
             /\ IF pos < Length
                THEN /\ bufs' = [ring EXCEPT ![b] = Reset(@, size)]
                     /\ pos' = pos + size /\ next' = next + 1
                     /\ Offer([id |-> next, start |-> pos, size |-> size,
                               buf |-> b, new |-> new], pcs)
                ELSE /\ bufs' = ring /\ wpc' = pcs
                     /\ UNCHANGED <<pos, next, conc, queue>>

(* concurrencyFinish, deferred by downloadPart.                            *)
concurrencyFinish == limit' = limit + 1
-----------------------------------------------------------------------------
(* The consumer.                                                           *)

(* A variant of interrupt that leaves the channel and the context alone.   *)
interruptSlip ==
    /\ err' = (err \/ written # Length)
    /\ conc' = IF conc > 0 THEN -conc ELSE conc
    /\ rpc' = "closed" /\ UNCHANGED <<closed, cancelled>>

(* interrupt: what Close does to the state.                                *)
interrupt ==
    /\ err' = (err \/ written # Length)
    /\ closed' = TRUE /\ cancelled' = TRUE
    /\ conc' = IF conc > 0 THEN -conc ELSE conc
    /\ rpc' = "closed"

(* download: a slot, then the first chunk.  With a context that is done    *)
(* already the send may fail, and everything is given back.                *)
Download ==
    /\ ~panic /\ rpc = "start" /\ concurrencyCheck
    /\ LET buf == Reset(NewBuf(PartSize), ChunkSize(0))
           ch  == [id |-> 0, start |-> 0, size |-> ChunkSize(0), buf |-> 1,
                   new |-> TRUE]
       IN  /\ bufs' = <<buf>> /\ next' = 1 /\ pos' = ChunkSize(0)
           /\ \/ /\ Queued(ch, wpc) /\ limit' = limit - 1
                 /\ rpc' = "read" /\ UNCHANGED ending
              \/ /\ cancelled /\ interrupt
                 /\ UNCHANGED <<limit, queue, wpc>>
    /\ UNCHANGED <<rPos, cur, out, written, job, panic>>

(* Buf.Read when the loop finds bytes, the end of the buffer, or nothing;  *)
(* the end may be noticed in the Read that took the last byte.             *)
ReadLoop ==
    LET b == bufs[cur] IN
    /\ ~panic /\ rpc \in {"read", "loop"}
    /\ \/ /\ rpc = "read" /\ cancelled
          /\ rpc' = "failed" /\ UNCHANGED <<bufs, out>>
       \/ /\ rpc = "read" /\ ~cancelled /\ b.offR >= b.size
          /\ rpc' = "finish" /\ UNCHANGED <<bufs, out>>
       \/ /\ rpc = "read" => ~cancelled /\ b.offR < b.size
          /\ Len(b.data) = b.offR
          /\ bufs' = [bufs EXCEPT ![cur].pending = TRUE]
          /\ rpc' = "wait" /\ UNCHANGED out
       \/ /\ rpc = "read" => ~cancelled /\ b.offR < b.size
          /\ Len(b.data) > b.offR
          /\ out' = Append(out, b.data[b.offR + 1])
          /\ bufs' = [bufs EXCEPT ![cur].offR = @ + 1]
          /\ \/ rpc' = "read"
             \/ b.offR + 1 >= b.size /\ rpc' = "finish"
    /\ UNCHANGED <<counters, queue, ending, rPos, cur, written, wpc, job, panic>>

(* The select a Read without bytes waits in.                               *)
ReadWake ==
    /\ ~panic /\ rpc = "wait"
    /\ \/ cancelled /\ rpc' = "failed" /\ UNCHANGED bufs
       \/ /\ bufs[cur].signal
          /\ bufs' = [bufs EXCEPT ![cur].signal = FALSE]
          /\ rpc' = "loop"
    /\ UNCHANGED <<counters, queue, ending, rPos, cur, out, written, wpc,
                   job, panic>>

(* finishBuf: the last chunk ends the stream, any other queues a chunk.    *)
finishBuf ==
    /\ ~panic /\ rpc = "finish"
    /\ IF rPos + 1 >= maxPart
       THEN /\ rpc' = "eof"
            /\ UNCHANGED <<counters, queue, bufs, wpc>>
       ELSE sendChunkTask(FALSE, wpc) /\ rpc' = "switch"
    /\ UNCHANGED <<ending, rPos, cur, out, written, job, panic>>

(* MultiReadCloser.Read moves to the buffer finishBuf returned.            *)
NextBuf ==
    /\ ~panic /\ rpc = "switch"
    /\ rPos' = rPos + 1 /\ cur' = getBuf(rPos + 1) /\ rpc' = "read"
    /\ UNCHANGED <<counters, queue, ending, bufs, out, written, wpc, job, panic>>

(* Close: after the end, after an error, or when the consumer has enough.  *)
Close ==
    /\ ~panic /\ rpc \in {"read", "eof", "failed"} /\ interrupt
    /\ UNCHANGED <<limit, next, pos, queue, rPos, cur, out, bufs, written,
                   wpc, job, panic>>

(* The request that asked for the download goes away.                      *)
Cancel ==
    /\ ~panic /\ ~cancelled /\ cancelled' = TRUE
    /\ UNCHANGED <<counters, queue, reader, closed, err, bufs, written, wpc,
                   job, panic>>
-----------------------------------------------------------------------------
(* A worker.                                                               *)

(* The select of downloadPart.                                             *)
downloadPart(w) ==
    /\ ~panic /\ wpc[w] = "recv"
    /\ \/ /\ queue # << >> /\ queue' = Tail(queue)
          /\ wpc' = [wpc EXCEPT ![w] = "try"]
          /\ job' = [job EXCEPT ![w] = [NoJob EXCEPT !.ch = Head(queue)]]
       \/ /\ cancelled \/ (closed /\ queue = << >>)
          /\ wpc' = [wpc EXCEPT ![w] = "exit"] /\ UNCHANGED <<queue, job>>
    /\ UNCHANGED <<counters, ending, reader, bufs, written, panic>>

(* The deferred concurrencyFinish.                                         *)
Exit(w) ==
    /\ ~panic /\ wpc[w] = "exit"
    /\ concurrencyFinish /\ wpc' = [wpc EXCEPT ![w] = "gone"]
    /\ UNCHANGED <<conc, next, pos, queue, ending, reader, bufs, written, job,
                   panic>>

(* setErr, then the cancel that follows it.                                *)
setErr == err' = TRUE /\ cancelled' = TRUE

(* checkTotalBytes finds another size than the download was asked for; the *)
(* error is recorded, so downloadChunk drops the chunk.                    *)
checkTotalBytes(w) ==
    /\ job[w].ch.id = 0 /\ setErr
    /\ wpc' = [wpc EXCEPT ![w] = "recv"] /\ UNCHANGED job

(* What is left of a chunk whose request was answered with a status.       *)
Refused(w) ==
    IF job[w].ch.id = 0
    THEN \E why \in {"retry", "error"} :
            /\ wpc' = [wpc EXCEPT ![w] = "judge"]
            /\ job' = [job EXCEPT ![w].why = why]
    ELSE /\ wpc' = [wpc EXCEPT ![w] = "over"] /\ UNCHANGED job

(* An iteration of downloadChunk up to the answer of HttpClient: an error  *)
(* recorded by then drops the chunk, and ends the worker if it was there   *)
(* when downloadPart looked; a context that is done fails the request.     *)
Request(w, answer) ==
    /\ ~panic /\ wpc[w] = "try"
    /\ answer \in Answers
    /\ IF err
       THEN /\ \/ wpc' = [wpc EXCEPT ![w] = "recv"]
               \/ job[w].retry = 0 /\ wpc' = [wpc EXCEPT ![w] = "exit"]
            /\ UNCHANGED <<job, err, cancelled>>
       ELSE \/ /\ cancelled \/ answer = "error"
               /\ wpc' = [wpc EXCEPT ![w] = "judge"]
               /\ job' = [job EXCEPT ![w].why = "error"]
               /\ UNCHANGED <<err, cancelled>>
            \/ /\ answer = "status" /\ Refused(w)
               /\ UNCHANGED <<err, cancelled>>
            \/ answer = "mismatch" /\ checkTotalBytes(w)
            \/ /\ answer \in {"ok", "short"}
               /\ wpc' = [wpc EXCEPT ![w] = "body"]
               /\ job' = [job EXCEPT ![w].why = answer, ![w].n = 0]
               /\ UNCHANGED <<err, cancelled>>
    /\ UNCHANGED <<counters, queue, reader, closed, bufs, written, panic>>

(* The answered worker tries to open a further connection, then copies.    *)
Expand(w) ==
    /\ ~panic /\ wpc[w] = "body"
    /\ sendChunkTask(TRUE, [wpc EXCEPT ![w] = "copy"])
    /\ UNCHANGED <<ending, reader, written, job, panic>>

(* Buf.Write of one byte; a done context or a closed buffer fails it.      *)
Write(w) ==
    LET j == job[w]
        b == bufs[j.ch.buf]
    IN  /\ ~panic /\ wpc[w] = "copy" /\ j.n < j.ch.size
        /\ IF cancelled \/ closed \/ Len(b.data) >= b.size
           THEN /\ wpc' = [wpc EXCEPT ![w] = "judge"]
                /\ job' = [job EXCEPT ![w].why = "retry"] /\ UNCHANGED bufs
           ELSE /\ bufs' = [bufs EXCEPT ![j.ch.buf] =
                    Signal([b EXCEPT !.data = Append(@, j.ch.start + j.n)])]
                /\ job' = [job EXCEPT ![w].n = @ + 1] /\ UNCHANGED wpc
        /\ UNCHANGED <<counters, queue, ending, reader, written, panic>>

(* The body breaks off, or the context ends under it.                      *)
BreakOff(w) ==
    /\ ~panic /\ wpc[w] = "copy" /\ job[w].n < job[w].ch.size
    /\ job[w].why = "short" \/ cancelled
    /\ wpc' = [wpc EXCEPT ![w] = "judge"] /\ job' = [job EXCEPT ![w].why = "retry"]
    /\ UNCHANGED <<counters, queue, ending, reader, bufs, written, panic>>

(* The body is complete: incrWritten, and on to the next chunk.            *)
Downloaded(w) ==
    /\ ~panic /\ wpc[w] = "copy" /\ job[w].n = job[w].ch.size
    /\ written' = written + job[w].n
    /\ wpc' = [wpc EXCEPT ![w] = "recv"]
    /\ UNCHANGED <<counters, queue, ending, reader, bufs, job, panic>>

(* The end of an iteration of downloadChunk that failed: a chunk cut short *)
(* goes on where it stopped while retries are left; any other error is     *)
(* recorded and cancels the download.                                      *)
Judge(w) ==
    LET j     == job[w]
        again == [j EXCEPT !.ch = Rest(@, j.n), !.n = 0, !.retry = @ + 1]
    IN  /\ ~panic /\ wpc[w] = "judge"
        /\ \/ /\ err /\ wpc' = [wpc EXCEPT ![w] = "recv"]
              /\ UNCHANGED <<job, written, err, cancelled>>
           \/ /\ ~err /\ ~cancelled /\ j.why = "overload"
              /\ wpc' = [wpc EXCEPT ![w] = "try"]
              /\ UNCHANGED <<job, written, err, cancelled>>
           \/ /\ ~err /\ ~cancelled /\ j.why = "retry"
              /\ written' = written + j.n
              /\ IF j.retry < PartBodyMaxRetries
                 THEN /\ job' = [job EXCEPT ![w] = again]
                      /\ wpc' = [wpc EXCEPT ![w] = "try"]
                      /\ UNCHANGED <<err, cancelled>>
                 ELSE /\ setErr
                      /\ wpc' = [wpc EXCEPT ![w] = "exit"] /\ UNCHANGED job
           \/ /\ ~err /\ (cancelled \/ j.why = "error")
              /\ setErr
              /\ wpc' = [wpc EXCEPT ![w] = "exit"] /\ UNCHANGED <<job, written>>
        /\ UNCHANGED <<counters, queue, reader, closed, bufs, panic>>

(* A status for a chunk after the first is taken for overload: a worker    *)
(* that came with the chunk, or that finds concurrency left, gives the     *)
(* chunk back and quits; any other asks again without limit.  The chunk is *)
(* sent with d.m held and without an eye on the context.                   *)
Overload(w) ==
    LET ch   == job[w].ch
        quit == ch.new \/ conc > 0
    IN  /\ ~panic /\ wpc[w] = "over"
        /\ IF ~quit
           THEN /\ job' = [job EXCEPT ![w].why = "overload"]
                /\ wpc' = [wpc EXCEPT ![w] = "judge"]
                /\ UNCHANGED <<conc, queue, panic>>
           ELSE /\ conc' = (IF conc > 0 THEN -conc ELSE conc) - 1
                /\ UNCHANGED job
                /\ IF closed
                   THEN panic' = TRUE /\ UNCHANGED <<queue, wpc>>
                   ELSE /\ queue' = Append(queue, ch)
                        /\ wpc' = [wpc EXCEPT ![w] = "quit"] /\ UNCHANGED panic
        /\ UNCHANGED <<limit, next, pos, ending, reader, bufs, written>>

(* The worker that gave its chunk back ends, unless an error is recorded   *)
(* by now; downloadChunk looks for one, and at the context, first.         *)
Quit(w) ==
    /\ ~panic /\ wpc[w] = "quit"
    /\ \/ err /\ wpc' = [wpc EXCEPT ![w] = "recv"] /\ UNCHANGED <<err, cancelled>>
       \/ ~err /\ cancelled /\ setErr /\ wpc' = [wpc EXCEPT ![w] = "exit"]
       \/ ~err /\ ~cancelled /\ wpc' = [wpc EXCEPT ![w] = "exit"] /\ UNCHANGED <<err, cancelled>>
    /\ UNCHANGED <<counters, queue, reader, closed, bufs, written, job, panic>>

-----------------------------------------------------------------------------
Consumer == Download \/ ReadLoop \/ ReadWake \/ finishBuf \/ NextBuf \/ Close

Worker(w) == \/ downloadPart(w) \/ Exit(w) \/ Expand(w) \/ Write(w) \/ BreakOff(w)
             \/ Downloaded(w) \/ Judge(w) \/ Overload(w) \/ Quit(w)
             \/ \E answer \in Answers : Request(w, answer)

Next == Consumer \/ Cancel \/ \E w \in Workers : Worker(w)

Spec == Init /\ [][Next]_vars

(* The consumer reads on and closes in the end, every worker runs, and a   *)
(* request that is repeated for ever is answered with a body in the end.   *)
Fairness == /\ WF_vars(Consumer)
            /\ \A w \in Workers : WF_vars(Worker(w))
            /\ \A w \in Workers : SF_vars(Request(w, "ok"))

FairSpec == Spec /\ Fairness
-----------------------------------------------------------------------------
Chunks == [id : 0..maxPart, start : 0..Length, size : 0..PartSize,
           buf : 0..(maxPart + 1), new : BOOLEAN]

(* Every variable keeps its type.                                          *)
TypeOK ==
    /\ limit \in 0..Limit /\ conc \in (-2 * Conns - maxPart)..Conns
    /\ next \in 0..maxPart /\ pos \in 0..Length /\ written \in 0..Length
    /\ queue \in Seq(Chunks)
    /\ \A i \in DOMAIN bufs :
          bufs[i].size \in 1..PartSize /\ bufs[i].offR \in 0..bufs[i].size
    /\ {closed, cancelled, err, panic} \subseteq BOOLEAN
    /\ \A w \in Workers : job[w].ch \in Chunks
    /\ wpc \in [Workers -> {"new", "recv", "try", "body", "copy", "judge",
                            "over", "quit", "exit", "gone"}]
    /\ rpc \in {"start", "read", "loop", "wait", "finish", "switch", "eof",
                "failed", "closed"}

(* The consumer gets the bytes of the range in order, none twice and none  *)
(* left out, whatever workers fetch in parallel, retry or hand back, and   *)
(* io.EOF only after the last one (bufs[id%len(bufs)] is reused safely).   *)
InOrder ==
    /\ \A i \in DOMAIN out : out[i] = i - 1
    /\ rpc = "eof" => Len(out) = Length

(* The chunks tile the range: the planned ones end at pos, and the range   *)
(* is used up with chunk maxPart - 1 and not before (the count download    *)
(* computes and the sizes sendChunkTask hands out agree).                  *)
ChunksTile == (pos = Length) <=> (next = maxPart)

(* No send on chunkChannel ever finds it full: the senders hold d.m, which *)
(* the workers that would empty the channel need (getErr, incrWritten), so *)
(* a blocked send would stop the download, and Close with it.              *)
SendsNeverBlock == Len(queue) <= ChannelCap

(* Every running worker holds a slot of ConcurrencyLimit that no one else  *)
(* holds, and no slot is given back twice.                                 *)
WorkersHoldSlots == limit + Cardinality(Live) <= Limit

(* A Read parked on an empty buffer is never forgotten: if bytes have come *)
(* in since, its signal is up (readPending and readSignal agree).          *)
ReaderSignalled ==
    rpc = "wait" => LET b == bufs[cur] IN
                    b.pending \/ b.signal \/ Len(b.data) = b.offR

(* Every Read returns: what it waits for arrives, or the download fails.   *)
ReadReturns == rpc = "wait" ~> rpc # "wait" \/ panic

(* A closed download leaves no worker behind (downloadPart ends).          *)
ClosedWorkersEnd == rpc = "closed" ~> Live = {} \/ panic

(* When a closed download's last worker has ended, the slots are all back, *)
(* as the test of the downloader expects of the limit it lent.             *)
LimitRestored == rpc = "closed" /\ Live = {} => limit = Limit

(* Closing a download under way is no error: no goroutine sends on the     *)
(* channel interrupt has closed.                                           *)
CloseIsClean == ~panic
=============================================================================
