---------------------------- MODULE MultiSource ----------------------------
(***************************************************************************)
(* The multi-source range reader (newMultiSourceRangeReader and            *)
(* multiSourceReader of internal/stream/util.go): a range is cut into      *)
(* subchunks, a scheduler starts a worker per subchunk within a semaphore  *)
(* and a read-ahead window, a worker tries the sources in turn, and the    *)
(* client reads the slots in order and closes the reader.                  *)
(*                                                                         *)
(* Bytes are their positions: a source that answers with the right number  *)
(* of bytes has sent the right ones.  One call of rangeReader is one       *)
(* behaviour; its arguments and settings are chosen in Init.               *)
(***************************************************************************)
EXTENDS Integers, FiniteSets, Sequences

CONSTANTS Size,        \* of the file
          Starts, Lengths, \* of the ranges asked for; a length may be -1
          PartSizes,   \* link.PartSize
          Windows,     \* conf.ReadAheadLimit; 0 for none
          BufSizes,    \* the lengths of the buffers Read is called with
          NSrc,        \* number of sources
          Concurrency, \* totalConcurrency
          None

ASSUME MultiSourceAssumption ==
    /\ Size \in Nat /\ NSrc \in Nat \ {0} /\ Concurrency \in Nat \ {0}
    /\ Starts \subseteq Nat /\ Lengths \subseteq Int
    /\ PartSizes \subseteq Nat \ {0} /\ Windows \subseteq Nat /\ BufSizes \subseteq Nat \ {0}

(* The local state of a worker; None stands for no worker, no error and no *)
(* result.                                                                 *)
Workers ==
    [pc : {"check", "request", "settle", "cancel", "exit", "gone"}, tried : 0 .. NSrc,
     err : {None, "failed", "canceled"}]

ASSUME NoneAssumption == None \notin Workers \cup {"ok", "failed", "canceled"}

VARIABLES
    begin, window, \* the range and its parts, the window: never changed
    left,     \* of computeSubchunks: what remains to be cut
    chunks,   \* the subchunks
    sched,    \* the scheduler: the next subchunk and where it stands
    worker,   \* per subchunk: its worker
    slot,     \* per subchunk: None until ready, then "ok", "failed" or "canceled"
    sem,      \* tokens in sem
    wg,       \* the counter of wg
    cause,    \* of ctx: None, "canceled" or "failed"
    consumed, advance,     \* the position read, the token in the channel
    reader,   \* where the client stands
    cur, off, \* the cursor of Read
    out       \* bytes delivered

plan == <<begin, window, left, chunks>>
vars == <<plan, sched, worker, slot, sem, wg, cause, consumed, advance, reader, cur, off, out>>
-----------------------------------------------------------------------------
(* A variant of Cut: the last subchunk is a full one.                      *)
CutSlip(want, remaining) == want

(* The last subchunk is not longer than what remains.                      *)
Cut(want, remaining) == IF want > remaining THEN remaining ELSE want

(* The length that is really asked for.                                    *)
Clamped(start, length) ==
    LET l == IF length >= 0 THEN length ELSE IF Size > start THEN Size - start ELSE 0
    IN  IF start + l > Size THEN Size - start ELSE l

(* The first subchunk takes what the parts leave, but half a part at      *)
(* least.                                                                  *)
FirstSize ==
    LET first == begin.length % begin.part
    IN  IF first = 0 THEN begin.part
        ELSE IF first < begin.part \div 2 THEN begin.part \div 2 ELSE first

N == Len(chunks)

(* rangeReader, up to the loop of computeSubchunks.                        *)
Init ==
    /\ \E s \in Starts, l \in Lengths, p \in PartSizes :
       /\ Clamped(s, l) > 0
       /\ begin = [start |-> s, length |-> Clamped(s, l), part |-> p]
    /\ window \in Windows
    /\ left = begin.length /\ chunks = <<>>
    /\ sched = [pc |-> "gate", i |-> 1]
    /\ worker = <<>> /\ slot = <<>>
    /\ sem = 0 /\ wg = 0 /\ cause = None /\ consumed = begin.start /\ advance = FALSE
    /\ reader = [pc |-> "idle"] /\ cur = 1 /\ off = 0 /\ out = 0

(* A turn of that loop, and slots for the subchunks so far.                *)
ComputeSubchunks ==
    LET sz == Cut(IF chunks = <<>> THEN FirstSize ELSE begin.part, left) IN
    /\ left > 0
    /\ chunks' = Append(chunks, [start |-> begin.start + begin.length - left, length |-> sz])
    /\ left' = left - sz
    /\ worker' = [i \in 1 .. N + 1 |-> None] /\ slot' = [i \in 1 .. N + 1 |-> None]
    /\ UNCHANGED <<begin, window, sched, sem, wg, cause, consumed, advance, reader, cur, off, out>>

(* The loop is over: the scheduler is started and the reader returned.     *)
Planned == left <= 0

(* cancel(err): the first cause stays.                                     *)
Cancelled(why) == cause' = IF cause = None THEN why ELSE cause
-----------------------------------------------------------------------------
(* The scheduler.                                                          *)

InWindow(i) == window = 0 \/ chunks[i].start < consumed + window

(* waitForReadAhead: the loop condition.                                   *)
Gate ==
    /\ Planned /\ sched.pc = "gate"
    /\ sched' = [sched EXCEPT !.pc = IF InWindow(sched.i) THEN "sem" ELSE "parked"]
    /\ UNCHANGED <<plan, worker, slot, sem, wg, cause, consumed, advance, reader, cur, off, out>>

(* Its select: a token of advance or the end of ctx.                       *)
Wake ==
    /\ sched.pc = "parked"
    /\ \/ advance /\ advance' = FALSE /\ sched' = [sched EXCEPT !.pc = "gate"]
       \/ cause # None /\ sched' = [sched EXCEPT !.pc = "done"] /\ UNCHANGED advance
    /\ UNCHANGED <<plan, worker, slot, sem, wg, cause, consumed, reader, cur, off, out>>

(* The semaphore and launch, or the end of ctx; when both are possible the *)
(* select takes either.                                                    *)
Launch ==
    /\ sched.pc = "sem"
    /\ \/ /\ sem < Concurrency
          /\ sem' = sem + 1 /\ wg' = wg + 1
          /\ worker' = [worker EXCEPT ![sched.i] = [pc |-> "check", tried |-> 0, err |-> None]]
          /\ sched' = IF sched.i = N THEN [sched EXCEPT !.pc = "done"] ELSE [pc |-> "gate", i |-> sched.i + 1]
       \/ /\ cause # None
          /\ sched' = [sched EXCEPT !.pc = "done"]
          /\ UNCHANGED <<sem, wg, worker>>
    /\ UNCHANGED <<plan, slot, cause, consumed, advance, reader, cur, off, out>>
-----------------------------------------------------------------------------
(* The workers.                                                            *)
At(i, pc) == worker[i] # None /\ worker[i].pc = pc

(* A variant of Exhausted: a worker gives up one source early.             *)
ExhaustedSlip(w) == w.tried + 1 >= NSrc

Exhausted(w) == w.tried = NSrc

(* The head of the loop: the sources are exhausted, ctx has ended, or the  *)
(* next source is asked.                                                   *)
Check(i) ==
    LET w == worker[i] IN
    /\ At(i, "check")
    /\ worker' = [worker EXCEPT ![i] =
         IF Exhausted(w) THEN [pc |-> "settle", tried |-> w.tried, err |-> w.err]
         ELSE IF cause # None THEN [pc |-> "settle", tried |-> w.tried, err |-> cause]
         ELSE [pc |-> "request", tried |-> w.tried, err |-> w.err]]
    /\ UNCHANGED <<plan, sched, slot, sem, wg, cause, consumed, advance, reader, cur, off, out>>

(* downloadMultiSourceSubChunk returns the subchunk, an error of the       *)
(* source (a status, a short body), or the end of ctx.                     *)
Request(i) ==
    /\ At(i, "request")
    /\ \/ /\ slot' = [slot EXCEPT ![i] = "ok"]
          /\ worker' = [worker EXCEPT ![i].pc = "exit"]
       \/ /\ worker' = [worker EXCEPT ![i] = [pc |-> "check", tried |-> @.tried + 1, err |-> "failed"]]
          /\ UNCHANGED slot
       \/ /\ cause # None
          /\ worker' = [worker EXCEPT ![i] = [pc |-> "check", tried |-> @.tried + 1, err |-> "canceled"]]
          /\ UNCHANGED slot
    /\ UNCHANGED <<plan, sched, sem, wg, cause, consumed, advance, reader, cur, off, out>>

(* The slot gets the error.                                                *)
Settle(i) ==
    /\ At(i, "settle")
    /\ slot' = [slot EXCEPT ![i] = worker[i].err]
    /\ worker' = [worker EXCEPT ![i].pc = "cancel"]
    /\ UNCHANGED <<plan, sched, sem, wg, cause, consumed, advance, reader, cur, off, out>>

(* A failure that is not a cancellation ends ctx.                          *)
Cancel(i) ==
    /\ At(i, "cancel")
    /\ IF worker[i].err # "canceled" THEN Cancelled(worker[i].err) ELSE UNCHANGED cause
    /\ worker' = [worker EXCEPT ![i].pc = "exit"]
    /\ UNCHANGED <<plan, sched, slot, sem, wg, consumed, advance, reader, cur, off, out>>

(* The deferred functions.                                                 *)
Exit(i) ==
    /\ At(i, "exit")
    /\ sem' = sem - 1 /\ wg' = wg - 1
    /\ worker' = [worker EXCEPT ![i].pc = "gone"]
    /\ UNCHANGED <<plan, sched, slot, cause, consumed, advance, reader, cur, off, out>>
-----------------------------------------------------------------------------
(* The client.                                                             *)

(* Read looks for the end of the range and of ctx, then waits.             *)
ReadCall ==
    /\ Planned /\ reader.pc = "idle"
    /\ \E p \in BufSizes :
       reader' = IF cur > N THEN [pc |-> "ended", err |-> "EOF"]
                 ELSE IF cause # None THEN [pc |-> "ended", err |-> cause]
                 ELSE [pc |-> "read", p |-> p]
    /\ UNCHANGED <<plan, sched, worker, slot, sem, wg, cause, consumed, advance, cur, off, out>>

(* The wait ends with ctx or with the error of the slot.                   *)
ReadFails ==
    /\ reader.pc = "read"
    /\ \/ cause # None /\ reader' = [pc |-> "ended", err |-> cause]
       \/ /\ slot[cur] \in {"failed", "canceled"}
          /\ reader' = [pc |-> "ended", err |-> slot[cur]]
    /\ UNCHANGED <<plan, sched, worker, slot, sem, wg, cause, consumed, advance, cur, off, out>>

(* copy: no more than the buffer takes or the slot has.                    *)
Copied(p, rest) == IF p < rest THEN p ELSE rest

(* Or the slot is ready: Read copies from it and stores the position.      *)
ReadCopy ==
    LET n == Copied(reader.p, chunks[cur].length - off) IN
    /\ reader.pc = "read" /\ slot[cur] = "ok"
    /\ off' = off + n /\ out' = out + n
    /\ consumed' = chunks[cur].start + off + n
    /\ reader' = [pc |-> "notify"]
    /\ UNCHANGED <<plan, sched, worker, slot, sem, wg, cause, advance, cur>>

(* A variant of ReadNotify: the token is sent at the end of a subchunk     *)
(* that is not the first.                                                  *)
ReadNotifySlip ==
    /\ reader.pc = "notify"
    /\ advance' = (advance \/ cur > 1)
    /\ IF off >= chunks[cur].length THEN cur' = cur + 1 /\ off' = 0 ELSE UNCHANGED <<cur, off>>
    /\ reader' = [pc |-> "idle"]
    /\ UNCHANGED <<plan, sched, worker, slot, sem, wg, cause, consumed, out>>

(* It sends the token, leaves a slot that is read to its end, and returns. *)
ReadNotify ==
    /\ reader.pc = "notify"
    /\ advance' = TRUE
    /\ IF off >= chunks[cur].length THEN cur' = cur + 1 /\ off' = 0 ELSE UNCHANGED <<cur, off>>
    /\ reader' = [pc |-> "idle"]
    /\ UNCHANGED <<plan, sched, worker, slot, sem, wg, cause, consumed, out>>

(* The request of the client ends, and ctx with it.                        *)
ClientGone ==
    /\ cause = None /\ cause' = "canceled"
    /\ UNCHANGED <<plan, sched, worker, slot, sem, wg, consumed, advance, reader, cur, off, out>>

Close ==
    /\ Planned /\ reader.pc \in {"idle", "ended"}
    /\ Cancelled("canceled")
    /\ reader' = [pc |-> "closing"]
    /\ UNCHANGED <<plan, sched, worker, slot, sem, wg, consumed, advance, cur, off, out>>

(* A variant of CloseWait that waits for the slots instead of the workers. *)
CloseWaitSlip ==
    /\ reader.pc = "closing" /\ \A i \in 1 .. N : slot[i] # None
    /\ reader' = [pc |-> "closed"]
    /\ UNCHANGED <<plan, sched, worker, slot, sem, wg, cause, consumed, advance, cur, off, out>>

CloseWait ==
    /\ reader.pc = "closing" /\ wg = 0
    /\ reader' = [pc |-> "closed"]
    /\ UNCHANGED <<plan, sched, worker, slot, sem, wg, cause, consumed, advance, cur, off, out>>
-----------------------------------------------------------------------------
Scheduler == Gate \/ Wake \/ Launch

Work(i) == Check(i) \/ Request(i) \/ Settle(i) \/ Cancel(i) \/ Exit(i)

Reading == ReadFails \/ ReadCopy \/ ReadNotify

Next ==
    \/ ComputeSubchunks \/ Scheduler \/ \E i \in 1 .. N : Work(i)
    \/ ReadCall \/ Reading \/ ClientGone \/ Close \/ CloseWait

Spec == Init /\ [][Next]_vars

(* Goroutines that can run do, requests to sources return, and a client    *)
(* that is done with the reader closes it.                                 *)
FairSpec ==
    /\ Spec
    /\ WF_vars(ComputeSubchunks) /\ WF_vars(Scheduler) /\ WF_vars(Reading) /\ WF_vars(CloseWait)
    /\ \A i \in 1 .. Size : WF_vars(i <= N /\ Work(i))
    /\ WF_vars(reader.pc = "ended" /\ Close)
-----------------------------------------------------------------------------
Running == {i \in 1 .. N : worker[i] # None /\ worker[i].pc # "gone"}

(* The bytes are delivered in order, without a gap or a repetition, and    *)
(* EOF comes after the last one: the subchunks tile the range and the      *)
(* cursor of Read stays on them.                                           *)
Contiguous ==
    /\ out <= begin.length
    /\ cur <= N /\ reader.pc # "notify" => begin.start + out = chunks[cur].start + off
    /\ reader.pc = "ended" /\ reader.err = "EOF" => out = begin.length

(* waitForReadAhead: a subchunk is asked for only when it begins less than *)
(* the window ahead of what the client has consumed.                       *)
ReadAheadBounded ==
    window > 0 => \A i \in 1 .. N : worker[i] # None => chunks[i].start < consumed + window

(* A source is given up only for the next one: Read fails only when all    *)
(* sources have failed for one subchunk or the client has gone.            *)
ErrorHasCause ==
    cause = "failed" => \E i \in 1 .. N : worker[i] # None /\ worker[i].tried = NSrc

(* Every worker holds a token of the semaphore until it exits, and wg      *)
(* counts it.                                                              *)
SlotsAccounted == sem = Cardinality(Running) /\ wg = sem

(* Every Read returns: the window never keeps back the subchunk the client *)
(* waits for, and no token of advance is lost.                             *)
ReadReturns == reader.pc = "read" ~> reader.pc # "read"

(* Close returns, and no worker runs for good.                             *)
CloseReturns == reader.pc = "closing" ~> reader.pc = "closed" /\ Running = {}

(* Close waits for the workers to exit ("Close" in util.go: it cancels all *)
(* remaining workers and waits until they have exited).                    *)
CloseWaited == reader.pc = "closed" => Running = {}

(* Every variable keeps its type.                                          *)
TypeOK ==
    /\ sched.pc \in {"gate", "parked", "sem", "done"} /\ (Planned => sched.i \in 1 .. N)
    /\ \A i \in 1 .. N :
       /\ slot[i] \in {None, "ok", "failed", "canceled"}
       /\ worker[i] # None => worker[i].tried \in 0 .. NSrc
       /\ chunks[i].length > 0
    /\ sem \in 0 .. Concurrency /\ wg \in 0 .. Concurrency
    /\ cause \in {None, "failed", "canceled"}
    /\ cur \in 1 .. N + 1 /\ off \in Nat /\ out \in Nat
=============================================================================
